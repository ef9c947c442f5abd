----------------------------- MODULE Authority -----------------------------
(***************************************************************************)
(* The authority manager of one mesh node (internal/mesh/authority.go) with *)
(* the path directory and the subscription registry it works on.  Every    *)
(* exported method holds am.mu to its end.  One that records an assignment  *)
(* is two actions, since the directory has a mutex of its own, which the    *)
(* method's Get and its Set take one after the other and Merge takes alone. *)
(* `go f()` puts a task into the bag tasks, and the promotion election,     *)
(* which releases the mutex twice, is three actions.  Node identities are   *)
(* numbers, so that the election's tie break can compare them.              *)
(***************************************************************************)
EXTENDS Directory, FiniteSets, FiniteSetsExt, Bags, TLC

CONSTANTS
  Nodes,                \* node identities, a set of numbers
  Self,                 \* the node this manager runs on
  Created,              \* the creation time each identity carries
  Roots,                \* the paths announced, delegated and written
  SelfKnown,            \* whether gossip's allNodes has this node
  MissedThreshold,      \* missedHeartbeatThreshold
  WriteRateThreshold,   \* writeRateThreshold
  MaxTime,              \* bound: times the nodes' wall clocks show
  MaxTasks,             \* bound: goroutines at one time
  MaxElections          \* bound: elections known at one time

ASSUME AuthorityAssumption ==
  /\ Nodes \subseteq Nat /\ IsFiniteSet(Nodes) /\ Self \in Nodes
  /\ Created \in [Nodes -> Nat]
  /\ Roots \subseteq Seq(STRING)
  /\ MissedThreshold \in Nat \ {0} /\ WriteRateThreshold \in Nat
  /\ MaxElections \in Nat /\ MaxTime \in Nat \ {0}

\* considerSplitting names the part it gives away path + ".partition1".
Partition(path) == Append(path, "partition1")

Paths == Roots \cup {Partition(p) : p \in Roots}

VARIABLES
  dir,             \* am.directory
  subscribers,     \* registry: path -> the nodes that subscribe to it
  missed,          \* am.missedHeartbeats
  rates,           \* am.writeRates
  elections,       \* am.activeElections: path -> [id, completed], id 0 for none
  tasks,           \* goroutines started and not yet ended
  update,          \* what the method that holds am.mu is about to Set
  zoneInfo,        \* the path gossip's zone info of this node announces
  cancelled        \* history: the elections that an announcement cancelled and
                   \* whose goroutine has not ended

authVars == <<dir, subscribers, missed, rates, elections, tasks,
              update, zoneInfo, cancelled>>

\* What a clock may show.  Clocks are ahead of each other or behind, and may be
\* set back: an assignment has any of these times.
Times == 1 .. MaxTime

\* Nobody holds am.mu between the directory's Get and its Set.
NoUpdate == [path |-> <<>>, node |-> Self, ts |-> 0, incoming |-> TRUE,
             overtaken |-> FALSE]

\* overtaken is history: the directory has changed since an announcement's Get.
Update(p, n, ts, incoming) ==
  [path |-> p, node |-> n, ts |-> ts, incoming |-> incoming, overtaken |-> FALSE]

NoElection == [id |-> 0, completed |-> FALSE]

\* An election is known by a number no other election or goroutine has.
ElectionTasks ==
  {t.id : t \in {u \in BagToSet(tasks) : u.kind \in {"count", "promote"}}}
ElectionsAlive == {elections[p].id : p \in Paths} \cup ElectionTasks
FreshIds == (1 .. MaxElections) \ ElectionsAlive
FreshId == Min(FreshIds)

ElectTask(p) == [kind |-> "elect", path |-> p]
CountTask(p, i, c) == [kind |-> "count", path |-> p, id |-> i, cands |-> c]
PromoteTask(p, i) == [kind |-> "promote", path |-> p, id |-> i]
SplitTask(p) == [kind |-> "split", path |-> p]
SplitToTask(p, n) == [kind |-> "splitTo", path |-> p, node |-> n]

AuthInit ==
  /\ dir = NewDirectory
  /\ subscribers = [p \in Paths |-> {}]
  /\ missed = [p \in Paths |-> 0]
  /\ rates = [p \in Paths |-> 0]
  /\ elections = [p \in Paths |-> NoElection]
  /\ tasks = EmptyBag
  /\ update = NoUpdate
  /\ zoneInfo = <<>>
  /\ cancelled = {}

Running(t) == BagIn(t, tasks)
Ends(t) == tasks' = tasks (-) SetToBag({t})
Becomes(t, u) == tasks' = (tasks (-) SetToBag({t})) (+) SetToBag({u})
Starts(S) ==
  /\ BagCardinality(tasks) + Cardinality(S) =< MaxTasks
  /\ tasks' = tasks (+) SetToBag(S)

----------------------------------------------------------------------------
(* The registry *)

AddSubscriber(p, n) ==
  /\ subscribers' = [subscribers EXCEPT ![p] = @ \cup {n}]
  /\ UNCHANGED <<dir, missed, rates, elections, tasks, update, zoneInfo,
                 cancelled>>

RemoveSubscriber(p, n) ==
  /\ subscribers' = [subscribers EXCEPT ![p] = @ \ {n}]
  /\ UNCHANGED <<dir, missed, rates, elections, tasks, update, zoneInfo,
                 cancelled>>

----------------------------------------------------------------------------
(* Announcing, delegating, splitting *)

MutexFree == update = NoUpdate

\* UpdateZoneInfo returns without a word when gossip does not know the node;
\* otherwise the last announcement replaces the one before.
PropagateAnnouncement(p) ==
  zoneInfo' = IF SelfKnown THEN p ELSE zoneInfo

\* The time is what this node's clock shows, whatever time the path's entry has.
Decide(p, n) == \E ts \in Times : update' = Update(p, n, ts, FALSE)

\* The Set of the four methods below, and the announcement that follows it.
RecordAssignment ==
  /\ ~ MutexFree /\ ~ update.incoming
  /\ dir' = Set(dir, update.path, update.node, update.ts)
  /\ PropagateAnnouncement(update.path)
  /\ update' = NoUpdate
  /\ UNCHANGED <<subscribers, missed, rates, elections, tasks, cancelled>>

IsAuthorityFor(p) == Known(dir, p) /\ Get(dir, p).auth = Self

AnnounceAuthority(p) ==
  /\ MutexFree
  /\ Decide(p, Self)
  /\ UNCHANGED <<dir, subscribers, missed, rates, elections, tasks,
                 zoneInfo, cancelled>>

DelegateAuthority(p, n) ==
  /\ MutexFree
  /\ IsAuthorityFor(p)
  /\ n \in subscribers[p]
  /\ Decide(p, n)
  /\ UNCHANGED <<dir, subscribers, missed, rates, elections, tasks,
                 zoneInfo, cancelled>>

SplitAuthority(parent, sub, n) ==
  /\ IsAuthorityFor(parent)
  /\ n \in subscribers[parent]
  /\ Decide(sub, n)

\* lastWriteTime is set before it is read, so the write before is always
\* "now": the rate only grows.
RecordWrite(p) ==
  /\ MutexFree
  /\ rates' = [rates EXCEPT ![p] = @ + 1]
  /\ IF rates'[p] > WriteRateThreshold
     THEN Starts({SplitTask(p)})
     ELSE UNCHANGED tasks
  /\ rates[p] =< WriteRateThreshold      \* bound: one write past the threshold
  /\ UNCHANGED <<dir, subscribers, missed, elections, update, zoneInfo,
                 cancelled>>

\* The registry's map yields its subscribers in any order: any may be first.
\* They are read before SplitAuthority takes the mutex.
ConsiderSplitting(p) ==
  /\ Running(SplitTask(p))
  /\ \/ subscribers[p] = {} /\ Ends(SplitTask(p))
     \/ \E n \in subscribers[p] : Becomes(SplitTask(p), SplitToTask(p, n))
  /\ UNCHANGED <<dir, subscribers, missed, rates, elections, update,
                 zoneInfo, cancelled>>

PerformSplit(p, n) ==
  /\ MutexFree
  /\ Running(SplitToTask(p, n))
  /\ Ends(SplitToTask(p, n))
  /\ \/ SplitAuthority(p, Partition(p), n)
     \/ /\ ~ IsAuthorityFor(p) \/ n \notin subscribers[p]
        /\ UNCHANGED update
  /\ UNCHANGED <<dir, subscribers, missed, rates, elections, zoneInfo,
                 cancelled>>

----------------------------------------------------------------------------
(* Failures and elections *)

\* The paths whose own entry (not a prefix's) names node n.
PathsOf(n) == {p \in DOMAIN dir : dir[p].auth = n}

OnHeartbeatMissed(n) ==
  /\ MutexFree
  /\ \A p \in PathsOf(n) : missed[p] < MissedThreshold     \* bound
  /\ missed' = [p \in Paths |-> missed[p] + (IF p \in PathsOf(n) THEN 1 ELSE 0)]
  /\ Starts({ElectTask(p) : p \in {q \in PathsOf(n) :
                                     missed'[q] >= MissedThreshold}})
  /\ UNCHANGED <<dir, subscribers, rates, elections, update, zoneInfo,
                 cancelled>>

OnNodeFailed(n) ==
  /\ MutexFree
  /\ Starts({ElectTask(p) : p \in PathsOf(n)})
  /\ UNCHANGED <<dir, subscribers, missed, rates, elections, update,
                 zoneInfo, cancelled>>

\* The candidates come out of a map: the slice has any order.
StartPromotionElection(p) ==
  /\ MutexFree
  /\ Running(ElectTask(p))
  /\ \/ /\ \/ elections[p].id # 0 /\ ~ elections[p].completed
           \/ subscribers[p] = {}
        /\ Ends(ElectTask(p))
        /\ UNCHANGED <<elections, cancelled>>
     \/ /\ elections[p].id = 0 \/ elections[p].completed
        /\ FreshIds # {}                                        \* bound
        /\ elections' = [elections EXCEPT ![p] = [id |-> FreshId, completed |-> FALSE]]
        /\ UNCHANGED cancelled
        /\ \E c \in SetToSeqs(subscribers[p]) :
             c # <<>> /\ Becomes(ElectTask(p), CountTask(p, FreshId, c))
  /\ UNCHANGED <<dir, subscribers, missed, rates, update, zoneInfo>>

\* Missing tie break: of the candidates created at one time the first stays.
MutantBetter(c, w) == Created[c] < Created[w]

Better(c, w) ==
  \/ Created[c] < Created[w]
  \/ Created[c] = Created[w] /\ c < w

\* winner[i] is the winner after i candidates.
ElectByUptime(cands) ==
  LET winner[i \in 1 .. Len(cands)] ==
        IF i = 1 THEN cands[1]
        ELSE IF Better(cands[i], winner[i - 1]) THEN cands[i] ELSE winner[i - 1]
  IN  winner[Len(cands)]

\* The election is forgotten as it is, not marked completed.
MutantMarkCompleted(p, i) == elections

\* The election value is marked completed, in the map or not: an announcement
\* may have taken it out, and another election may have its place.
MarkCompleted(p, i) ==
  IF elections[p].id = i THEN [elections EXCEPT ![p].completed = TRUE]
  ELSE elections

EndPromotionElection(p, i, c) ==
  /\ MutexFree
  /\ Running(CountTask(p, i, c))
  /\ elections' = MarkCompleted(p, i)
  /\ IF ElectByUptime(c) = Self
     THEN Becomes(CountTask(p, i, c), PromoteTask(p, i)) /\ UNCHANGED cancelled
     ELSE Ends(CountTask(p, i, c)) /\ cancelled' = cancelled \ {i}
  /\ UNCHANGED <<dir, subscribers, missed, rates, update, zoneInfo>>

PromoteSelf(p, i) ==
  /\ MutexFree
  /\ Running(PromoteTask(p, i))
  /\ Ends(PromoteTask(p, i))
  /\ Decide(p, Self)
  /\ cancelled' = cancelled \ {i}
  /\ UNCHANGED <<dir, subscribers, missed, rates, elections, zoneInfo>>

\* Dropped guard: the incoming announcement is taken whatever its time.
MutantIsNewer(p, ts) == TRUE

\* Get also answers with the entry of a prefix of the path.
IsNewer(p, ts) == ~ Known(dir, p) \/ ts > Get(dir, p).ts

ProcessAuthorityAnnouncement(p, n, ts) ==
  /\ MutexFree
  /\ IsNewer(p, ts)
  /\ update' = Update(p, n, ts, TRUE)
  /\ UNCHANGED <<dir, subscribers, missed, rates, elections, tasks,
                 zoneInfo, cancelled>>

\* Its Set, and what follows it.
RecordAnnouncement ==
  /\ ~ MutexFree /\ update.incoming
  /\ dir' = Set(dir, update.path, update.node, update.ts)
  /\ missed' = [missed EXCEPT ![update.path] = 0]
  /\ elections' = [elections EXCEPT ![update.path] = NoElection]
  /\ cancelled' = cancelled \cup ({elections[update.path].id} \cap ElectionTasks)
  /\ update' = NoUpdate
  /\ UNCHANGED <<subscribers, rates, tasks, zoneInfo>>

\* A snapshot of another node's directory comes in.  Merge does not take am.mu.
MergeSnapshot(p, n, ts) ==
  /\ dir' = Merge(dir, Snapshot(Set(NewDirectory, p, n, ts)))
  /\ update' = IF MutexFree \/ ~ update.incoming THEN update
               ELSE [update EXCEPT !.overtaken = @ \/ dir' # dir]
  /\ UNCHANGED <<subscribers, missed, rates, elections, tasks, zoneInfo,
                 cancelled>>

----------------------------------------------------------------------------
AuthNext ==
  \/ \E p \in Roots, n \in Nodes :
       AddSubscriber(p, n) \/ RemoveSubscriber(p, n) \/ DelegateAuthority(p, n)
  \/ \E p \in Roots : AnnounceAuthority(p) \/ RecordWrite(p)
  \/ \E p \in Roots : ConsiderSplitting(p)
  \/ \E n \in Nodes : OnHeartbeatMissed(n) \/ OnNodeFailed(n)
  \/ \E p \in Paths : StartPromotionElection(p)
  \/ \E t \in BagToSet(tasks) :
       \/ t.kind = "count" /\ EndPromotionElection(t.path, t.id, t.cands)
       \/ t.kind = "promote" /\ PromoteSelf(t.path, t.id)
       \/ t.kind = "splitTo" /\ PerformSplit(t.path, t.node)
  \/ \E p \in Paths, n \in Nodes, ts \in Times :
       ProcessAuthorityAnnouncement(p, n, ts) \/ MergeSnapshot(p, n, ts)
  \/ RecordAssignment
  \/ RecordAnnouncement

----------------------------------------------------------------------------
(* Properties *)

\* Types: every entry, counter and election stays in its range, and an
\* election marked as running has a goroutine that will end it.
AuthTypeOK ==
  /\ DOMAIN dir \subseteq Paths
  /\ \A p \in DOMAIN dir : dir[p].auth \in Nodes /\ dir[p].ts \in Times
  /\ MutexFree \/ (update.path \in Paths /\ update.node \in Nodes /\ update.ts \in Times)
  /\ subscribers \in [Paths -> SUBSET Nodes]
  /\ missed \in [Paths -> 0 .. MissedThreshold]
  /\ rates \in [Paths -> 0 .. WriteRateThreshold + 1]
  /\ \A p \in Paths :
       elections[p].id # 0 /\ ~ elections[p].completed
         => \E t \in BagToSet(tasks) : t.kind = "count" /\ t.id = elections[p].id

\* The order in which the map gave the candidates to electByUptime does not
\* matter: nodes that know the same subscribers elect the same one, the first
\* created and, of those, the one with the smallest identity.
ElectionsAgree ==
  \A t \in BagToSet(tasks) : t.kind = "count" =>
    \A c \in Range(t.cands) \ {ElectByUptime(t.cands)} :
      \/ Created[ElectByUptime(t.cands)] < Created[c]
      \/ Created[ElectByUptime(t.cands)] = Created[c] /\ ElectByUptime(t.cands) < c

\* What other nodes say never puts an older assignment in the place of a newer
\* one: only an assignment this node makes itself does, which takes its own
\* clock's time whatever the entry's, or an announcement whose Get a Merge has
\* overtaken (ProcessAuthorityAnnouncement, Merge).  No entry is lost.
EntriesNeverGoBack ==
  [][\A p \in DOMAIN dir :
       /\ p \in DOMAIN dir'
       /\ \/ dir'[p].ts >= dir[p].ts
          \/ p = update.path /\ (~ update.incoming \/ update.overtaken)]_authVars

\* "Update local directory with last-write-wins", for every assignment.  The
\* methods do not do this, see above.
LastAssignmentWins ==
  [][\A p \in DOMAIN dir : p \in DOMAIN dir' /\ dir'[p].ts >= dir[p].ts]_authVars

\* "Cancel any active election for this path": once another node's newer
\* announcement cancelled an election, the goroutine that runs it does not
\* take the authority after all.
CancelledElectionsEnd ==
  [][\A t \in BagToSet(tasks) :
       t.kind = "promote" /\ t.id \in cancelled => ~ PromoteSelf(t.path, t.id)]_authVars

AuthSpec == AuthInit /\ [][AuthNext]_authVars

=============================================================================
