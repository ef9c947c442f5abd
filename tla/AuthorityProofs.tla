-------------------------- MODULE AuthorityProofs --------------------------
(* Theorems about Authority, for any nodes, creation times, paths,        *)
(* thresholds and bounds.                                                 *)
EXTENDS Authority, FiniteSetTheorems, SequenceTheorems, NaturalsInduction, TLAPS

----------------------------------------------------------------------------
(* Facts about numbers, bags and paths *)

\* A set of naturals that is not empty has a smallest element.
LEMMA LeastExists ==
    ASSUME NEW S, S \subseteq Nat, S # {}
    PROVE  \E m \in S : \A j \in S : m <= j
<1> DEFINE Below == {ss \in Nat \X Nat : ss[1] < ss[2]}
<1>1. IsWellFoundedOn(Below, Nat)
  BY NatLessThanWellFounded DEF OpToRel
<1> HIDE DEF Below
<1>2. PICK m \in S : \A y \in S : ~ (<<y, m>> \in Below)
  BY <1>1, WFMin
<1>3. \A y \in S : ~ (y < m)
  BY <1>2 DEF Below
<1>4. QED
  BY <1>3

\* A goroutine that ends leaves the others.
LEMMA BagWithout ==
    ASSUME NEW B, IsABag(B), NEW t
    PROVE  /\ IsABag(B (-) SetToBag({t}))
           /\ BagToSet(B (-) SetToBag({t})) \subseteq BagToSet(B)
           /\ BagToSet(B) \ {t} \subseteq BagToSet(B (-) SetToBag({t}))
BY DEF IsABag, BagToSet, SetToBag, (-)

\* Goroutines that start come to those that run.
LEMMA BagWith ==
    ASSUME NEW B, IsABag(B), NEW S
    PROVE  /\ IsABag(B (+) SetToBag(S))
           /\ BagToSet(B (+) SetToBag(S)) = BagToSet(B) \cup S
BY DEF IsABag, BagToSet, SetToBag, (+)

\* The labels of a path.  The provers do not know that the literal is a string.
Label == STRING \cup {"partition1"}

\* Paths are sequences of labels.
LEMMA PathsAreSequences == Paths \subseteq Seq(Label)
<1>1. \A s \in Seq(Label), e \in Label : Append(s, e) \in Seq(Label)
  BY AppendProperties
<1>2. "partition1" \in Label
  BY DEF Label
<1>3. Roots \subseteq Seq(Label)
  <2>1. Seq(STRING) \subseteq Seq(Label)
    BY DEF Label
  <2>2. QED
    BY <2>1, AuthorityAssumption
<1>4. \A p \in Roots : Partition(p) \in Seq(Label)
  BY <1>1, <1>2, <1>3 DEF Partition
<1>5. QED
  BY <1>3, <1>4 DEF Paths

\* Get answers a path that has an entry of its own with that entry: no other
\* matching path is as long.
LEMMA GetOwnEntry ==
    ASSUME NEW d, DOMAIN d \subseteq Seq(Label), NEW p \in DOMAIN d
    PROVE  Known(d, p) /\ Get(d, p) = d[p]
<1>1. p \in Matches(d, p)
  BY DEF Matches
<1>2. \A q \in Matches(d, p) : q \in Seq(Label) /\ Len(q) <= Len(p)
  BY DEF Matches, IsPrefix
<1>3. ASSUME NEW q \in Matches(d, p), \A r \in Matches(d, p) : Len(r) =< Len(q)
      PROVE  q = p
  <2>1. CASE q = p
    BY <2>1
  <2>2. CASE q # p
    <3>1. q \in Seq(Label) /\ p \in Seq(Label) /\ IsPrefix(q, p)
      BY <2>2 DEF Matches
    <3>2. Len(q) = Len(p)
      BY <1>1, <1>2, <1>3
    <3>3. SubSeq(q, 1, Len(p)) = SubSeq(p, 1, Len(p))
      BY <3>1, <3>2 DEF IsPrefix
    <3>4. \A s \in Seq(Label) : SubSeq(s, 1, Len(s)) = s
      OBVIOUS
    <3>5. QED
      BY <3>1, <3>2, <3>3, <3>4
  <2>3. QED
    BY <2>1, <2>2
<1>4. \E q \in Matches(d, p) : \A r \in Matches(d, p) : Len(r) =< Len(q)
  BY <1>1, <1>2
<1> DEFINE Longest == CHOOSE q \in Matches(d, p) :
                        \A r \in Matches(d, p) : Len(r) =< Len(q)
<1>5. Longest \in Matches(d, p) /\ \A r \in Matches(d, p) : Len(r) =< Len(Longest)
  BY <1>4
<1>6. Longest = p
  BY <1>3, <1>5
<1>7. QED
  BY <1>1, <1>6 DEF Get, Known

----------------------------------------------------------------------------
(* The directory *)

DirOK ==
    /\ DOMAIN dir \subseteq Paths
    /\ \A p \in DOMAIN dir : dir[p].auth \in Nodes /\ dir[p].ts \in Times

\* What RecordAssignment and RecordAnnouncement do to the directory.
Recorded(p, n, ts) == dir' = Set(dir, p, n, ts)

\* Setting an entry keeps DirOK and touches no other entry.
LEMMA RecordedKeeps ==
    ASSUME DirOK, NEW p \in Paths, NEW n \in Nodes, NEW ts \in Times,
           Recorded(p, n, ts)
    PROVE  /\ DirOK'
           /\ DOMAIN dir' = DOMAIN dir \cup {p}
           /\ dir'[p].ts = ts
           /\ \A q \in DOMAIN dir \ {p} : dir'[q] = dir[q]
<1>1. /\ DOMAIN dir' = DOMAIN dir \cup {p}
      /\ dir'[p] = Entry(n, ts)
      /\ \A q \in DOMAIN dir \ {p} : dir'[q] = dir[q]
  BY DEF Recorded, Set
<1>2. Entry(n, ts).auth = n /\ Entry(n, ts).ts = ts
  BY DEF Entry
<1>3. \A q \in DOMAIN dir' : dir'[q].auth \in Nodes /\ dir'[q].ts \in Times
  BY <1>1, <1>2 DEF DirOK
<1>4. QED
  BY <1>1, <1>2, <1>3 DEF DirOK

\* A snapshot entry replaces an older entry, or comes to the others.
LEMMA MergedEntries ==
    ASSUME DirOK, NEW p \in Paths, NEW n \in Nodes, NEW ts \in Times,
           MergeSnapshot(p, n, ts)
    PROVE  /\ DirOK'
           /\ \A q \in DOMAIN dir : q \in DOMAIN dir' /\ dir'[q].ts >= dir[q].ts
<1> DEFINE e == Snapshot(Set(NewDirectory, p, n, ts))
<1>1. DOMAIN e = {p} /\ e[p].auth = n /\ e[p].ts = ts
  BY DEF Snapshot, Set, NewDirectory, Entry
<1>2. dir' = Merge(dir, e)
  BY DEF MergeSnapshot
<1> HIDE DEF e
<1>3. DOMAIN dir' = DOMAIN dir \cup {p}
  BY <1>1, <1>2 DEF Merge
<1>4. ASSUME NEW q \in DOMAIN dir'
      PROVE  /\ dir'[q].auth \in Nodes /\ dir'[q].ts \in Times
             /\ q \in DOMAIN dir => dir'[q].ts >= dir[q].ts
  <2>1. dir'[q] = IF q \in DOMAIN e /\ (q \notin DOMAIN dir \/ e[q].ts > dir[q].ts)
                  THEN e[q] ELSE dir[q]
    BY <1>1, <1>2, <1>3 DEF Merge
  <2>2. CASE q \in DOMAIN e /\ (q \notin DOMAIN dir \/ e[q].ts > dir[q].ts)
    <3>1. dir'[q] = e[q] /\ q = p
      BY <1>1, <2>1, <2>2
    <3>2. dir'[q].auth = n /\ dir'[q].ts = ts
      BY <1>1, <3>1
    <3>3. q \in DOMAIN dir => dir'[q].ts > dir[q].ts
      BY <2>2, <3>1
    <3>4. q \in DOMAIN dir => dir[q].ts \in Nat
      BY AuthorityAssumption DEF DirOK, Times
    <3>5. ts \in Nat
      BY AuthorityAssumption DEF Times
    <3>6. QED
      BY <3>2, <3>3, <3>4, <3>5
  <2>3. CASE ~ (q \in DOMAIN e /\ (q \notin DOMAIN dir \/ e[q].ts > dir[q].ts))
    <3>1. dir'[q] = dir[q]
      BY <2>1, <2>3
    <3>2. q \in DOMAIN dir
      BY <1>1, <1>3, <2>3
    <3>3. dir[q].ts >= dir[q].ts
      BY <3>2, AuthorityAssumption DEF DirOK, Times
    <3>4. QED
      BY <3>1, <3>2, <3>3 DEF DirOK
  <2>4. QED
    BY <2>2, <2>3
<1>5. QED
  BY <1>2, <1>3, <1>4 DEF DirOK

----------------------------------------------------------------------------
(* The goroutines *)

Task ==
    [kind : {"elect"}, path : Paths]
      \cup [kind : {"count"}, path : Paths, id : Nat \ {0}, cands : Seq(Nodes) \ {<<>>}]
      \cup [kind : {"promote"}, path : Paths, id : Nat \ {0}]
      \cup [kind : {"split"}, path : Roots]
      \cup [kind : {"splitTo"}, path : Roots, node : Nodes]

TasksOK == IsABag(tasks) /\ BagToSet(tasks) \subseteq Task

\* The tasks that the methods start are tasks.
LEMMA TasksBuilt ==
    /\ \A p \in Paths : ElectTask(p) \in Task
    /\ \A p \in Paths, i \in Nat \ {0}, c \in Seq(Nodes) \ {<<>>} : CountTask(p, i, c) \in Task
    /\ \A p \in Paths, i \in Nat \ {0} : PromoteTask(p, i) \in Task
    /\ \A p \in Roots : SplitTask(p) \in Task
    /\ \A p \in Roots, n \in Nodes : SplitToTask(p, n) \in Task
BY DEF Task, ElectTask, CountTask, PromoteTask, SplitTask, SplitToTask

\* What a task of a kind holds.
LEMMA TaskFields ==
    ASSUME NEW t \in Task
    PROVE  /\ t.kind = "count" => /\ t.path \in Paths /\ t.id \in Nat \ {0}
                                  /\ t.cands \in Seq(Nodes) /\ t.cands # <<>>
                                  /\ t = CountTask(t.path, t.id, t.cands)
           /\ t.kind = "promote" => /\ t.path \in Paths /\ t.id \in Nat \ {0}
                                    /\ t = PromoteTask(t.path, t.id)
           /\ t.kind = "splitTo" => /\ t.path \in Roots /\ t.node \in Nodes
                                    /\ t = SplitToTask(t.path, t.node)
BY DEF Task, CountTask, PromoteTask, SplitToTask

\* What Ends, Becomes and Starts do to the goroutines.
LEMMA TasksKept ==
    ASSUME TasksOK
    PROVE  /\ \A t : Ends(t) => TasksOK' /\ BagToSet(tasks') \subseteq BagToSet(tasks)
                                /\ BagToSet(tasks) \ {t} \subseteq BagToSet(tasks')
           /\ \A t, u : u \in Task /\ Becomes(t, u) =>
                          TasksOK' /\ BagToSet(tasks') \subseteq BagToSet(tasks) \cup {u}
                          /\ (BagToSet(tasks) \ {t}) \cup {u} \subseteq BagToSet(tasks')
           /\ \A S : S \subseteq Task /\ Starts(S) =>
                          TasksOK' /\ BagToSet(tasks') = BagToSet(tasks) \cup S
<1>1. ASSUME NEW t, Ends(t)
      PROVE  TasksOK' /\ BagToSet(tasks') \subseteq BagToSet(tasks)
             /\ BagToSet(tasks) \ {t} \subseteq BagToSet(tasks')
  <2>1. tasks' = tasks (-) SetToBag({t}) /\ IsABag(tasks)
    BY <1>1 DEF Ends, TasksOK
  <2>2. /\ IsABag(tasks') /\ BagToSet(tasks') \subseteq BagToSet(tasks)
        /\ BagToSet(tasks) \ {t} \subseteq BagToSet(tasks')
    BY <2>1, BagWithout
  <2>3. QED
    BY <2>2 DEF TasksOK
<1>2. ASSUME NEW t, NEW u \in Task, Becomes(t, u)
      PROVE  TasksOK' /\ BagToSet(tasks') \subseteq BagToSet(tasks) \cup {u}
             /\ (BagToSet(tasks) \ {t}) \cup {u} \subseteq BagToSet(tasks')
  <2> DEFINE B == tasks (-) SetToBag({t})
  <2>1. tasks' = B (+) SetToBag({u}) /\ IsABag(tasks)
    BY <1>2 DEF Becomes, TasksOK
  <2>2. /\ IsABag(B) /\ BagToSet(B) \subseteq BagToSet(tasks)
        /\ BagToSet(tasks) \ {t} \subseteq BagToSet(B)
    BY <2>1, BagWithout
  <2> HIDE DEF B
  <2>3. IsABag(tasks') /\ BagToSet(tasks') = BagToSet(B) \cup {u}
    BY <2>1, <2>2, BagWith
  <2>4. QED
    BY <2>2, <2>3 DEF TasksOK
<1>3. ASSUME NEW S, S \subseteq Task, Starts(S)
      PROVE  TasksOK' /\ BagToSet(tasks') = BagToSet(tasks) \cup S
  <2>1. tasks' = tasks (+) SetToBag(S) /\ IsABag(tasks)
    BY <1>3 DEF Starts, TasksOK
  <2>2. IsABag(tasks') /\ BagToSet(tasks') = BagToSet(tasks) \cup S
    BY <2>1, BagWith
  <2>3. QED
    BY <1>3, <2>2 DEF TasksOK
<1>4. QED
  BY <1>1, <1>2, <1>3

----------------------------------------------------------------------------
(* One action at a time *)

\* A step of a goroutine is a step of one of the types its task says.
LEMMA StepCases ==
    ASSUME TasksOK, AuthNext
    PROVE  \/ \E p \in Roots, n \in Nodes :
                AddSubscriber(p, n) \/ RemoveSubscriber(p, n) \/ DelegateAuthority(p, n)
           \/ \E p \in Roots : AnnounceAuthority(p) \/ RecordWrite(p)
           \/ \E p \in Roots : ConsiderSplitting(p)
           \/ \E n \in Nodes : OnHeartbeatMissed(n) \/ OnNodeFailed(n)
           \/ \E p \in Paths : StartPromotionElection(p)
           \/ \E p \in Paths, i \in Nat \ {0}, c \in Seq(Nodes) \ {<<>>} :
                EndPromotionElection(p, i, c)
           \/ \E p \in Paths, i \in Nat \ {0} : PromoteSelf(p, i)
           \/ \E p \in Roots, n \in Nodes : PerformSplit(p, n)
           \/ \E p \in Paths, n \in Nodes, ts \in Times :
                ProcessAuthorityAnnouncement(p, n, ts) \/ MergeSnapshot(p, n, ts)
           \/ RecordAssignment
           \/ RecordAnnouncement
<1>1. ASSUME NEW t \in BagToSet(tasks),
             \/ t.kind = "count" /\ EndPromotionElection(t.path, t.id, t.cands)
             \/ t.kind = "promote" /\ PromoteSelf(t.path, t.id)
             \/ t.kind = "splitTo" /\ PerformSplit(t.path, t.node)
      PROVE  \/ \E p \in Paths, i \in Nat \ {0}, c \in Seq(Nodes) \ {<<>>} :
                  EndPromotionElection(p, i, c)
             \/ \E p \in Paths, i \in Nat \ {0} : PromoteSelf(p, i)
             \/ \E p \in Roots, n \in Nodes : PerformSplit(p, n)
  <2>1. t \in Task
    BY DEF TasksOK
  <2>2. /\ t.kind = "count" => /\ t.path \in Paths /\ t.id \in Nat \ {0}
                               /\ t.cands \in Seq(Nodes) \ {<<>>}
        /\ t.kind = "promote" => t.path \in Paths /\ t.id \in Nat \ {0}
        /\ t.kind = "splitTo" => t.path \in Roots /\ t.node \in Nodes
    BY <2>1, TaskFields
  <2>3. QED
    BY <1>1, <2>2
<1>2. QED
  BY <1>1 DEF AuthNext

RootsArePaths == Roots \subseteq Paths /\ \A p \in Roots : Partition(p) \in Paths

\* The announced paths and the parts that are split off are paths.
LEMMA RootPaths == RootsArePaths
BY DEF RootsArePaths, Paths

----------------------------------------------------------------------------
(* What the holder of the mutex is about to record *)

Updates == [path : Paths \cup {<<>>}, node : Nodes, ts : Nat, incoming : BOOLEAN,
            overtaken : BOOLEAN]

\* An announcement whose Get no Merge has overtaken.
Sound == update.incoming /\ ~ update.overtaken

\* The update is well formed, and a sound one is newer than the path's entry.
UpdateOK ==
    /\ update \in Updates
    /\ ~ MutexFree => /\ update.path \in Paths /\ update.ts \in Times
                      /\ Sound => IsNewer(update.path, update.ts)

\* What a method decided on is well formed.
LEMMA DecidedUpdates ==
    ASSUME NEW p \in Paths, NEW n \in Nodes, NEW ts \in Times, NEW b \in BOOLEAN
    PROVE  /\ Update(p, n, ts, b) \in Updates
           /\ Update(p, n, ts, b).path = p /\ Update(p, n, ts, b).ts = ts
           /\ Update(p, n, ts, b).incoming = b
<1>1. ts \in Nat
  BY AuthorityAssumption DEF Times
<1>2. QED
  BY <1>1 DEF Update, Updates

\* An assignment of this node's own need not be newer than anything.
LEMMA OwnDecision ==
    ASSUME NEW p \in Paths, NEW n \in Nodes, Decide(p, n)
    PROVE  UpdateOK'
<1>1. PICK ts \in Times : update' = Update(p, n, ts, FALSE)
  BY DEF Decide
<1>2. /\ update' \in Updates /\ update'.path = p /\ update'.ts = ts
      /\ update'.incoming = FALSE
  BY <1>1, DecidedUpdates
<1>3. ~ Sound'
  BY <1>2 DEF Sound
<1>4. QED
  BY <1>2, <1>3 DEF UpdateOK

\* An announcement passes its check and waits for its Set.
LEMMA AnnouncementDecided ==
    ASSUME NEW p \in Paths, NEW n \in Nodes, NEW ts \in Times,
           ProcessAuthorityAnnouncement(p, n, ts)
    PROVE  UpdateOK'
<1>1. update' = Update(p, n, ts, TRUE) /\ dir' = dir /\ IsNewer(p, ts)
  BY DEF ProcessAuthorityAnnouncement
<1>2. update' \in Updates /\ update'.path = p /\ update'.ts = ts
  BY <1>1, DecidedUpdates
<1>3. IsNewer(p, ts)'
  BY <1>1 DEF IsNewer
<1>4. QED
  BY <1>2, <1>3 DEF UpdateOK, IsNewer

\* A Merge that changes the directory leaves no sound announcement behind.
LEMMA MergeOvertakes ==
    ASSUME UpdateOK, NEW p \in Paths, NEW n \in Nodes, NEW ts \in Times,
           MergeSnapshot(p, n, ts)
    PROVE  UpdateOK'
<1>1. update' = IF MutexFree \/ ~ update.incoming THEN update
                ELSE [update EXCEPT !.overtaken = @ \/ dir' # dir]
  BY DEF MergeSnapshot
<1>2. CASE MutexFree
  BY <1>1, <1>2 DEF UpdateOK, MutexFree
<1>3. CASE ~ MutexFree /\ ~ update.incoming
  <2>1. update' = update
    BY <1>1, <1>3
  <2>2. ~ Sound'
    BY <1>3, <2>1 DEF Sound
  <2>3. QED
    BY <1>3, <2>1, <2>2 DEF UpdateOK, MutexFree
<1>4. CASE ~ MutexFree /\ update.incoming
  <2>1. update' = [update EXCEPT !.overtaken = @ \/ dir' # dir]
    BY <1>1, <1>4
  <2>2. /\ update' \in Updates /\ update'.path = update.path /\ update'.ts = update.ts
        /\ update'.incoming = update.incoming
        /\ update'.overtaken = (update.overtaken \/ dir' # dir)
    BY <2>1 DEF UpdateOK, Updates
  <2>3. Sound' => Sound /\ dir' = dir
    BY <2>2 DEF Sound
  <2>4. Sound' => IsNewer(update.path, update.ts)'
    BY <1>4, <2>2, <2>3 DEF UpdateOK, IsNewer
  <2>5. QED
    BY <1>4, <2>2, <2>4 DEF UpdateOK, IsNewer
<1>5. QED
  BY <1>2, <1>3, <1>4

\* No entry leaves the directory, and only what this node decides itself and an
\* announcement that was overtaken give one an older time.
Forward ==
    \A p \in DOMAIN dir :
      /\ p \in DOMAIN dir'
      /\ dir'[p].ts >= dir[p].ts \/ (p = update.path /\ (~ update.incoming \/ update.overtaken))

\* The Set of an announcement that was not overtaken takes a newer time.
LEMMA RecordingGoesForward ==
    ASSUME DirOK, UpdateOK, ~ MutexFree,
           Recorded(update.path, update.node, update.ts)
    PROVE  DirOK' /\ Forward
<1>1. update.path \in Paths /\ update.node \in Nodes /\ update.ts \in Times
  BY DEF UpdateOK, Updates
<1>2. /\ DirOK'
      /\ DOMAIN dir' = DOMAIN dir \cup {update.path}
      /\ dir'[update.path].ts = update.ts
      /\ \A q \in DOMAIN dir \ {update.path} : dir'[q] = dir[q]
  BY <1>1, RecordedKeeps
<1>3. \A q \in DOMAIN dir : dir[q].ts \in Nat /\ dir[q].ts >= dir[q].ts
  BY AuthorityAssumption DEF DirOK, Times
<1>4. update.ts \in Nat
  BY <1>1, AuthorityAssumption DEF Times
<1>5. ASSUME update.path \in DOMAIN dir, Sound
      PROVE  update.ts > dir[update.path].ts
  <2>1. DOMAIN dir \subseteq Seq(Label)
    BY PathsAreSequences DEF DirOK
  <2>2. Known(dir, update.path) /\ Get(dir, update.path) = dir[update.path]
    BY <1>5, <2>1, GetOwnEntry
  <2>3. IsNewer(update.path, update.ts)
    BY <1>5 DEF UpdateOK
  <2>4. QED
    BY <2>2, <2>3 DEF IsNewer
<1>6. ASSUME NEW q \in DOMAIN dir
      PROVE  dir'[q].ts >= dir[q].ts \/ (q = update.path /\ ~ Sound)
  <2>1. CASE q # update.path
    BY <1>2, <1>3, <2>1
  <2>2. CASE q = update.path /\ Sound
    BY <1>2, <1>3, <1>4, <1>5, <2>2
  <2>3. QED
    BY <2>1, <2>2
<1>7. Forward
  BY <1>2, <1>6 DEF Forward, Sound
<1>8. QED
  BY <1>2, <1>7

\* Whatever happens, the directory and the update stay sound.
LEMMA DirectoryStep ==
    ASSUME DirOK, UpdateOK, TasksOK, [AuthNext]_authVars
    PROVE  DirOK' /\ UpdateOK' /\ Forward
<1>1. ASSUME dir' = dir
      PROVE  DirOK' /\ Forward
  <2>1. \A q \in DOMAIN dir : dir[q].ts >= dir[q].ts
    BY AuthorityAssumption DEF DirOK, Times
  <2>2. QED
    BY <1>1, <2>1 DEF DirOK, Forward
<1>2. ASSUME UNCHANGED <<dir, update>>
      PROVE  UpdateOK'
  BY <1>2 DEF UpdateOK, MutexFree, Sound, IsNewer
<1>3. ASSUME NEW p \in Roots, NEW n \in Nodes, DelegateAuthority(p, n)
      PROVE  UpdateOK' /\ dir' = dir
  BY <1>3, RootPaths, OwnDecision DEF DelegateAuthority, RootsArePaths
<1>4. ASSUME NEW p \in Roots, AnnounceAuthority(p)
      PROVE  UpdateOK' /\ dir' = dir
  BY <1>4, RootPaths, OwnDecision, AuthorityAssumption
  DEF AnnounceAuthority, RootsArePaths
<1>5. ASSUME NEW p \in Paths, NEW i, PromoteSelf(p, i)
      PROVE  UpdateOK' /\ dir' = dir
  BY <1>5, OwnDecision, AuthorityAssumption DEF PromoteSelf
<1>6. ASSUME NEW p \in Roots, NEW n \in Nodes, PerformSplit(p, n)
      PROVE  UpdateOK' /\ dir' = dir
  <2>1. dir' = dir /\ (Decide(Partition(p), n) \/ update' = update)
    BY <1>6 DEF PerformSplit, SplitAuthority
  <2>2. QED
    BY <1>2, <2>1, RootPaths, OwnDecision DEF RootsArePaths
<1>7. ASSUME NEW p \in Paths, NEW n \in Nodes, NEW ts \in Times,
             ProcessAuthorityAnnouncement(p, n, ts)
      PROVE  UpdateOK' /\ dir' = dir
  BY <1>7, AnnouncementDecided DEF ProcessAuthorityAnnouncement
<1>8. ASSUME NEW p \in Paths, NEW n \in Nodes, NEW ts \in Times,
             MergeSnapshot(p, n, ts)
      PROVE  DirOK' /\ UpdateOK' /\ Forward
  BY <1>8, MergedEntries, MergeOvertakes DEF Forward
<1>9. ASSUME RecordAssignment \/ RecordAnnouncement
      PROVE  DirOK' /\ UpdateOK' /\ Forward
  <2>1. ~ MutexFree /\ Recorded(update.path, update.node, update.ts) /\ update' = NoUpdate
    BY <1>9 DEF RecordAssignment, RecordAnnouncement, Recorded
  <2>2. DirOK' /\ Forward
    BY <2>1, RecordingGoesForward
  <2>3. NoUpdate \in Updates
    BY AuthorityAssumption DEF NoUpdate, Updates
  <2>4. UpdateOK'
    BY <2>1, <2>3 DEF UpdateOK, MutexFree
  <2>5. QED
    BY <2>2, <2>4
<1>10. ASSUME NEW p, NEW n, NEW i, NEW c,
             \/ AddSubscriber(p, n) \/ RemoveSubscriber(p, n) \/ RecordWrite(p)
             \/ ConsiderSplitting(p) \/ OnHeartbeatMissed(n) \/ OnNodeFailed(n)
             \/ StartPromotionElection(p) \/ EndPromotionElection(p, i, c)
      PROVE  UNCHANGED <<dir, update>>
  BY <1>10 DEF AddSubscriber, RemoveSubscriber, RecordWrite, ConsiderSplitting,
              OnHeartbeatMissed, OnNodeFailed, StartPromotionElection,
              EndPromotionElection
<1>11. CASE UNCHANGED authVars
  BY <1>1, <1>2, <1>11 DEF authVars
<1>12. CASE AuthNext
  BY <1>1, <1>2, <1>3, <1>4, <1>5, <1>6, <1>7, <1>8, <1>9, <1>10, <1>12, StepCases
<1>13. QED
  BY <1>11, <1>12

----------------------------------------------------------------------------
(* Subscribers and counters *)

CountsOK ==
    /\ subscribers \in [Paths -> SUBSET Nodes]
    /\ missed \in [Paths -> 0 .. MissedThreshold]
    /\ rates \in [Paths -> 0 .. WriteRateThreshold + 1]

\* Subscribers stay nodes and the counters stay within their thresholds.
LEMMA CountsStep ==
    ASSUME CountsOK, DirOK, UpdateOK, TasksOK, [AuthNext]_authVars
    PROVE  CountsOK'
<1>1. ASSUME UNCHANGED <<subscribers, missed, rates>>
      PROVE  CountsOK'
  BY <1>1 DEF CountsOK
<1>2. ASSUME NEW p \in Roots, NEW n \in Nodes,
             AddSubscriber(p, n) \/ RemoveSubscriber(p, n)
      PROVE  CountsOK'
  BY <1>2, RootPaths DEF CountsOK, AddSubscriber, RemoveSubscriber, RootsArePaths
<1>3. ASSUME NEW p \in Roots, RecordWrite(p)
      PROVE  CountsOK'
  <2>1. p \in Paths /\ WriteRateThreshold \in Nat
    BY RootPaths, AuthorityAssumption DEF RootsArePaths
  <2>2. /\ UNCHANGED <<subscribers, missed>>
        /\ rates' = [rates EXCEPT ![p] = @ + 1]
        /\ rates[p] =< WriteRateThreshold
    BY <1>3 DEF RecordWrite
  <2>3. rates' \in [Paths -> 0 .. WriteRateThreshold + 1]
    BY <2>1, <2>2 DEF CountsOK
  <2>4. QED
    BY <2>2, <2>3 DEF CountsOK
<1>4. ASSUME NEW n \in Nodes, OnHeartbeatMissed(n)
      PROVE  CountsOK'
  <2>1. /\ UNCHANGED <<subscribers, rates>>
        /\ \A p \in PathsOf(n) : missed[p] < MissedThreshold
        /\ missed' = [p \in Paths |-> missed[p] + (IF p \in PathsOf(n) THEN 1 ELSE 0)]
    BY <1>4 DEF OnHeartbeatMissed
  <2>2. MissedThreshold \in Nat /\ missed \in [Paths -> 0 .. MissedThreshold]
    BY AuthorityAssumption DEF CountsOK
  <2>3. missed' \in [Paths -> 0 .. MissedThreshold]
    BY <2>1, <2>2
  <2>4. QED
    BY <2>1, <2>3 DEF CountsOK
<1>5. ASSUME RecordAnnouncement
      PROVE  CountsOK'
  <2>1. /\ UNCHANGED <<subscribers, rates>>
        /\ missed' = [missed EXCEPT ![update.path] = 0]
    BY <1>5 DEF RecordAnnouncement
  <2>2. 0 \in 0 .. MissedThreshold
    BY AuthorityAssumption
  <2>3. QED
    BY <2>1, <2>2 DEF CountsOK
<1>6. ASSUME NEW p, NEW n, NEW i, NEW c,
             \/ DelegateAuthority(p, n) \/ AnnounceAuthority(p) \/ PromoteSelf(p, i)
             \/ ConsiderSplitting(p) \/ PerformSplit(p, n) \/ OnNodeFailed(n)
             \/ StartPromotionElection(p) \/ EndPromotionElection(p, i, c)
             \/ ProcessAuthorityAnnouncement(p, n, i) \/ MergeSnapshot(p, n, i)
             \/ RecordAssignment
      PROVE  UNCHANGED <<subscribers, missed, rates>>
  BY <1>6 DEF DelegateAuthority, AnnounceAuthority, PromoteSelf, ConsiderSplitting,
              PerformSplit, OnNodeFailed, StartPromotionElection,
              EndPromotionElection, ProcessAuthorityAnnouncement, MergeSnapshot,
              RecordAssignment
<1>7. CASE UNCHANGED authVars
  BY <1>1, <1>7 DEF authVars
<1>8. CASE AuthNext
  BY <1>1, <1>2, <1>3, <1>4, <1>5, <1>6, <1>8, StepCases
<1>9. QED
  BY <1>7, <1>8

----------------------------------------------------------------------------
(* Elections and their goroutines *)

\* The goroutines that hold an election's candidates and have yet to count.
Counting == {t \in BagToSet(tasks) : t.kind = "count"}

Open(p) == elections[p].id # 0 /\ ~ elections[p].completed

\* An election that is open has a goroutine, and a goroutine that counts for
\* an election in the map counts for the path it is in the map for.
ElectionsOK ==
    /\ elections \in [Paths -> [id : Nat, completed : BOOLEAN]]
    /\ \A p \in Paths : Open(p) => \E t \in Counting : t.id = elections[p].id
    /\ \A p \in Paths, t \in Counting : t.id = elections[p].id => t.path = p

\* A new election's number is no other's.
LEMMA FreshIdIsFresh ==
    ASSUME FreshIds # {}
    PROVE  /\ FreshId \in Nat \ {0}
           /\ \A p \in Paths : elections[p].id # FreshId
           /\ \A t \in Counting : t.id # FreshId
<1>1. FreshIds \subseteq Nat \ {0}
  BY AuthorityAssumption DEF FreshIds
<1>2. \E m \in FreshIds : \A j \in FreshIds : m <= j
  BY <1>1, LeastExists
<1>3. FreshId \in FreshIds
  BY <1>2 DEF FreshId, Min
<1>4. FreshId \notin ElectionsAlive
  BY <1>3 DEF FreshIds
<1>5. QED
  BY <1>1, <1>3, <1>4 DEF ElectionsAlive, ElectionTasks, Counting

\* The subscribers in any order are candidates.
LEMMA CandidatesInOrder ==
    ASSUME NEW S, S \subseteq Nodes, NEW c \in SetToSeqs(S), c # <<>>
    PROVE  c \in Seq(Nodes) \ {<<>>}
<1>1. Cardinality(S) \in Nat
  BY AuthorityAssumption, FS_Subset, FS_CardinalityType
<1>2. c \in [1 .. Cardinality(S) -> S]
  BY DEF SetToSeqs
<1>3. c \in [1 .. Cardinality(S) -> Nodes]
  BY <1>2
<1>4. QED
  BY <1>1, <1>3

\* Nothing that leaves the elections and the counting goroutines alone
\* disturbs them.
LEMMA ElectionsUntouched ==
    ASSUME ElectionsOK, elections' = elections, Counting' = Counting
    PROVE  ElectionsOK'
BY DEF ElectionsOK, Open

\* Tasks of the other kinds come and go.
LEMMA OtherTasks ==
    ASSUME TasksOK, NEW t, t.kind # "count"
    PROVE  /\ Ends(t) => TasksOK' /\ Counting' = Counting
           /\ \A u \in Task : u.kind # "count" /\ Becomes(t, u)
                                => TasksOK' /\ Counting' = Counting
           /\ \A S \in SUBSET Task : (\A u \in S : u.kind # "count") /\ Starts(S)
                                => TasksOK' /\ Counting' = Counting
<1>1. Ends(t) => TasksOK' /\ Counting' = Counting
  BY TasksKept DEF Counting
<1>2. ASSUME NEW u \in Task, u.kind # "count", Becomes(t, u)
      PROVE  TasksOK' /\ Counting' = Counting
  <2>1. /\ TasksOK' /\ BagToSet(tasks') \subseteq BagToSet(tasks) \cup {u}
        /\ (BagToSet(tasks) \ {t}) \cup {u} \subseteq BagToSet(tasks')
    BY <1>2, TasksKept
  <2>2. QED
    BY <1>2, <2>1 DEF Counting
<1>3. ASSUME NEW S \in SUBSET Task, \A u \in S : u.kind # "count", Starts(S)
      PROVE  TasksOK' /\ Counting' = Counting
  <2>1. TasksOK' /\ BagToSet(tasks') = BagToSet(tasks) \cup S
    BY <1>3, TasksKept
  <2>2. QED
    BY <1>3, <2>1 DEF Counting
<1>4. QED
  BY <1>1, <1>2, <1>3

\* The kinds of the tasks.
LEMMA TaskKinds ==
    /\ \A p : ElectTask(p).kind # "count" /\ SplitTask(p).kind # "count"
    /\ \A p, x : PromoteTask(p, x).kind # "count" /\ SplitToTask(p, x).kind # "count"
    /\ \A p, i, c : /\ CountTask(p, i, c).kind = "count"
                    /\ CountTask(p, i, c).id = i /\ CountTask(p, i, c).path = p
BY DEF ElectTask, SplitTask, PromoteTask, SplitToTask, CountTask

\* startPromotionElection opens an election and goes on to count, or returns.
LEMMA ElectionStarts ==
    ASSUME TasksOK, ElectionsOK, CountsOK, NEW p \in Paths, StartPromotionElection(p)
    PROVE  TasksOK' /\ ElectionsOK'
<1>1. CASE Ends(ElectTask(p)) /\ elections' = elections
  <2>1. TasksOK' /\ Counting' = Counting
    BY <1>1, TaskKinds, OtherTasks
  <2>2. QED
    BY <1>1, <2>1, ElectionsUntouched
<1>2. CASE /\ FreshIds # {}
           /\ elections' = [elections EXCEPT ![p] = [id |-> FreshId, completed |-> FALSE]]
           /\ \E c \in SetToSeqs(subscribers[p]) :
                c # <<>> /\ Becomes(ElectTask(p), CountTask(p, FreshId, c))
  <2> DEFINE i == FreshId
  <2>1. /\ i \in Nat \ {0}
        /\ \A q \in Paths : elections[q].id # i
        /\ \A t \in Counting : t.id # i
    BY <1>2, FreshIdIsFresh
  <2>2. PICK c \in SetToSeqs(subscribers[p]) :
               c # <<>> /\ Becomes(ElectTask(p), CountTask(p, i, c))
    BY <1>2
  <2> HIDE DEF i
  <2>3. c \in Seq(Nodes) \ {<<>>}
    <3>1. subscribers[p] \subseteq Nodes
      BY DEF CountsOK
    <3>2. QED
      BY <2>2, <3>1, CandidatesInOrder
  <2> DEFINE u == CountTask(p, i, c)
  <2>4. u \in Task /\ u.kind = "count" /\ u.id = i /\ u.path = p
    BY <2>1, <2>3, TasksBuilt, TaskKinds
  <2>5. ElectTask(p).kind # "count"
    BY TaskKinds
  <2>6. Becomes(ElectTask(p), u)
    BY <2>2
  <2> HIDE DEF u
  <2>7. TasksOK' /\ Counting' = Counting \cup {u}
    <3>1. /\ TasksOK' /\ BagToSet(tasks') \subseteq BagToSet(tasks) \cup {u}
          /\ (BagToSet(tasks) \ {ElectTask(p)}) \cup {u} \subseteq BagToSet(tasks')
      BY <2>4, <2>6, TasksKept
    <3>2. QED
      BY <2>4, <2>5, <3>1 DEF Counting
  <2>8. elections' = [elections EXCEPT ![p] = [id |-> i, completed |-> FALSE]]
    BY <1>2 DEF i
  <2>9. elections' \in [Paths -> [id : Nat, completed : BOOLEAN]]
    BY <2>1, <2>8 DEF ElectionsOK
  <2>10. /\ elections'[p].id = i
         /\ \A q \in Paths \ {p} : elections'[q] = elections[q]
    BY <2>8 DEF ElectionsOK
  <2>11. ASSUME NEW q \in Paths, Open(q)'
         PROVE  \E t \in Counting' : t.id = elections'[q].id
    <3>1. CASE q = p
      BY <2>4, <2>7, <2>10, <3>1
    <3>2. CASE q # p
      BY <2>7, <2>10, <2>11, <3>2 DEF ElectionsOK, Open
    <3>3. QED
      BY <3>1, <3>2
  <2>12. ASSUME NEW q \in Paths, NEW t \in Counting', t.id = elections'[q].id
         PROVE  t.path = q
    <3>1. CASE q = p
      BY <2>1, <2>4, <2>7, <2>10, <2>12, <3>1
    <3>2. CASE q # p
      BY <2>1, <2>4, <2>7, <2>10, <2>12, <3>2 DEF ElectionsOK
    <3>3. QED
      BY <3>1, <3>2
  <2>13. QED
    BY <2>7, <2>9, <2>11, <2>12 DEF ElectionsOK
<1>3. QED
  BY <1>1, <1>2 DEF StartPromotionElection

\* The goroutine that counts marks the election it opened, if it is there still.
LEMMA ElectionEnds ==
    ASSUME TasksOK, ElectionsOK, NEW p \in Paths, NEW i \in Nat \ {0},
           NEW c \in Seq(Nodes) \ {<<>>}, EndPromotionElection(p, i, c)
    PROVE  TasksOK' /\ ElectionsOK'
<1> DEFINE u == CountTask(p, i, c)
<1>1. u \in Counting /\ u.id = i /\ u.path = p
  BY TaskKinds DEF EndPromotionElection, Running, BagIn, Counting
<1>2. TasksOK' /\ Counting' \subseteq Counting /\ Counting \ {u} \subseteq Counting'
  <2>1. CASE Ends(u)
    BY <2>1, TasksKept DEF Counting
  <2>2. CASE Becomes(u, PromoteTask(p, i))
    <3>1. PromoteTask(p, i) \in Task /\ PromoteTask(p, i).kind # "count"
      BY TasksBuilt, TaskKinds
    <3>2. /\ TasksOK'
          /\ BagToSet(tasks') \subseteq BagToSet(tasks) \cup {PromoteTask(p, i)}
          /\ (BagToSet(tasks) \ {u}) \cup {PromoteTask(p, i)} \subseteq BagToSet(tasks')
      BY <2>2, <3>1, TasksKept
    <3>3. QED
      BY <3>1, <3>2 DEF Counting
  <2>3. QED
    BY <2>1, <2>2 DEF EndPromotionElection
<1> HIDE DEF u
<1>3. elections' = MarkCompleted(p, i)
  BY DEF EndPromotionElection
<1>4. /\ elections' \in [Paths -> [id : Nat, completed : BOOLEAN]]
      /\ \A q \in Paths : elections'[q].id = elections[q].id
      /\ \A q \in Paths \ {p} : elections'[q].completed = elections[q].completed
      /\ elections[p].id = i => elections'[p].completed = TRUE
      /\ elections[p].id # i => elections'[p].completed = elections[p].completed
  BY <1>3 DEF MarkCompleted, ElectionsOK
<1>5. ASSUME NEW q \in Paths, Open(q)'
      PROVE  \E t \in Counting' : t.id = elections'[q].id
  <2>1. Open(q)
    BY <1>4, <1>5 DEF Open
  <2>2. PICK t \in Counting : t.id = elections[q].id
    BY <2>1 DEF ElectionsOK
  <2>3. t # u
    <3>1. SUFFICES ASSUME t = u PROVE FALSE
      OBVIOUS
    <3>2. q = p /\ elections[p].id = i
      BY <1>1, <2>2, <3>1 DEF ElectionsOK
    <3>3. QED
      BY <1>4, <1>5, <3>2 DEF Open
  <2>4. QED
    BY <1>2, <1>4, <2>2, <2>3
<1>6. ASSUME NEW q \in Paths, NEW t \in Counting', t.id = elections'[q].id
      PROVE  t.path = q
  BY <1>2, <1>4, <1>6 DEF ElectionsOK
<1>7. QED
  BY <1>2, <1>4, <1>5, <1>6 DEF ElectionsOK

\* An announcement takes the path's election out of the map.
LEMMA AnnouncementCancels ==
    ASSUME ElectionsOK, NEW p \in Paths, TasksOK, Counting' = Counting,
           elections' = [elections EXCEPT ![p] = NoElection]
    PROVE  ElectionsOK'
<1>1. /\ elections' \in [Paths -> [id : Nat, completed : BOOLEAN]]
      /\ elections'[p].id = 0
      /\ \A q \in Paths \ {p} : elections'[q] = elections[q]
  BY DEF ElectionsOK, NoElection
<1>2. \A t \in Counting : t.id # 0
  BY TaskFields DEF Counting, TasksOK
<1>3. \A q \in Paths : Open(q)' => q # p /\ Open(q)
  BY <1>1 DEF Open
<1>4. QED
  BY <1>1, <1>2, <1>3 DEF ElectionsOK

\* Every step keeps the goroutines and the elections in order.
LEMMA ElectionsStep ==
    ASSUME TasksOK, ElectionsOK, CountsOK, DirOK, UpdateOK, [AuthNext]_authVars
    PROVE  TasksOK' /\ ElectionsOK'
<1>1. ASSUME UNCHANGED <<tasks, elections>>
      PROVE  TasksOK' /\ ElectionsOK'
  BY <1>1, ElectionsUntouched DEF TasksOK, Counting
<1>2. ASSUME NEW p \in Roots, RecordWrite(p)
      PROVE  TasksOK' /\ ElectionsOK'
  <2>1. elections' = elections /\ (Starts({SplitTask(p)}) \/ tasks' = tasks)
    BY <1>2 DEF RecordWrite
  <2>2. ASSUME Starts({SplitTask(p)})
        PROVE  TasksOK' /\ Counting' = Counting
    BY <2>2, TasksBuilt, TaskKinds, OtherTasks
  <2>3. QED
    BY <1>1, <2>1, <2>2, ElectionsUntouched
<1>3. ASSUME NEW p \in Roots, ConsiderSplitting(p)
      PROVE  TasksOK' /\ ElectionsOK'
  <2>1. elections' = elections
    BY <1>3 DEF ConsiderSplitting
  <2>2. CASE Ends(SplitTask(p))
    BY <2>1, <2>2, TaskKinds, OtherTasks, ElectionsUntouched
  <2>3. ASSUME NEW n \in subscribers[p], Becomes(SplitTask(p), SplitToTask(p, n))
        PROVE  TasksOK' /\ ElectionsOK'
    <3>1. n \in Nodes
      BY RootPaths DEF CountsOK, RootsArePaths
    <3>2. SplitToTask(p, n) \in Task /\ SplitToTask(p, n).kind # "count"
      BY <3>1, TasksBuilt, TaskKinds
    <3>3. TasksOK' /\ Counting' = Counting
      BY <2>3, <3>2, TaskKinds, OtherTasks
    <3>4. QED
      BY <2>1, <3>3, ElectionsUntouched
  <2>4. QED
    BY <1>3, <2>2, <2>3 DEF ConsiderSplitting
<1>4. ASSUME NEW p \in Roots, NEW n \in Nodes, PerformSplit(p, n)
      PROVE  TasksOK' /\ ElectionsOK'
  <2>1. elections' = elections /\ Ends(SplitToTask(p, n))
    BY <1>4 DEF PerformSplit
  <2>2. QED
    BY <2>1, TaskKinds, OtherTasks, ElectionsUntouched
<1>5. ASSUME NEW n \in Nodes, OnHeartbeatMissed(n) \/ OnNodeFailed(n)
      PROVE  TasksOK' /\ ElectionsOK'
  <2>1. PICK Q \in SUBSET PathsOf(n) : Starts({ElectTask(p) : p \in Q})
    BY <1>5 DEF OnHeartbeatMissed, OnNodeFailed
  <2>2. elections' = elections
    BY <1>5 DEF OnHeartbeatMissed, OnNodeFailed
  <2> DEFINE S == {ElectTask(p) : p \in Q}
  <2>3. \A p \in Q : p \in Paths
    BY DEF PathsOf, DirOK
  <2>4. S \in SUBSET Task /\ \A u \in S : u.kind # "count"
    BY <2>3, TasksBuilt, TaskKinds
  <2> HIDE DEF S
  <2>5. TasksOK' /\ BagToSet(tasks') = BagToSet(tasks) \cup S
    BY <2>1, <2>4, TasksKept DEF S
  <2>6. Counting' = Counting
    BY <2>4, <2>5 DEF Counting
  <2>7. QED
    BY <2>2, <2>5, <2>6, ElectionsUntouched
<1>6. ASSUME NEW p \in Paths, NEW i, PromoteSelf(p, i)
      PROVE  TasksOK' /\ ElectionsOK'
  <2>1. elections' = elections /\ Ends(PromoteTask(p, i))
    BY <1>6 DEF PromoteSelf
  <2>2. QED
    BY <2>1, TaskKinds, OtherTasks, ElectionsUntouched
<1>7. ASSUME RecordAnnouncement
      PROVE  TasksOK' /\ ElectionsOK'
  <2>1. /\ tasks' = tasks /\ update.path \in Paths
        /\ elections' = [elections EXCEPT ![update.path] = NoElection]
    BY <1>7 DEF RecordAnnouncement, UpdateOK
  <2>2. TasksOK' /\ Counting' = Counting
    BY <2>1 DEF TasksOK, Counting
  <2>3. QED
    BY <2>1, <2>2, AnnouncementCancels
<1>8. ASSUME NEW p, NEW n, NEW ts,
             \/ AddSubscriber(p, n) \/ RemoveSubscriber(p, n) \/ DelegateAuthority(p, n)
             \/ AnnounceAuthority(p) \/ MergeSnapshot(p, n, ts)
             \/ ProcessAuthorityAnnouncement(p, n, ts) \/ RecordAssignment
      PROVE  UNCHANGED <<tasks, elections>>
  BY <1>8 DEF AddSubscriber, RemoveSubscriber, DelegateAuthority, AnnounceAuthority,
              MergeSnapshot, ProcessAuthorityAnnouncement, RecordAssignment
<1>9. CASE UNCHANGED authVars
  BY <1>1, <1>9 DEF authVars
<1>10. CASE AuthNext
  BY <1>1, <1>2, <1>3, <1>4, <1>5, <1>6, <1>7, <1>8, <1>10, StepCases,
     ElectionStarts, ElectionEnds
<1>11. QED
  BY <1>9, <1>10

----------------------------------------------------------------------------
(* The inductive invariant and what follows from it *)

AuthInv == DirOK /\ UpdateOK /\ CountsOK /\ TasksOK /\ ElectionsOK

\* AuthInv holds at first and every step keeps it.
LEMMA AuthInvInductive ==
    /\ AuthInit => AuthInv
    /\ AuthInv /\ [AuthNext]_authVars => AuthInv'
<1>1. ASSUME AuthInit PROVE AuthInv
  <2>1. DirOK
    BY <1>1 DEF AuthInit, DirOK, NewDirectory
  <2>2. CountsOK
    BY <1>1, AuthorityAssumption DEF AuthInit, CountsOK
  <2>7. UpdateOK
    BY <1>1, AuthorityAssumption DEF AuthInit, UpdateOK, MutexFree, NoUpdate, Updates
  <2>3. IsABag(tasks) /\ BagToSet(tasks) = {}
    BY <1>1 DEF AuthInit, EmptyBag, SetToBag, IsABag, BagToSet
  <2>4. TasksOK /\ Counting = {}
    BY <2>3 DEF TasksOK, Counting
  <2>5. ElectionsOK
    BY <1>1, <2>4 DEF AuthInit, ElectionsOK, Open, NoElection
  <2>6. QED
    BY <2>1, <2>2, <2>4, <2>5, <2>7 DEF AuthInv
<1>2. AuthInv /\ [AuthNext]_authVars => AuthInv'
  BY DirectoryStep, CountsStep, ElectionsStep DEF AuthInv
<1>3. QED
  BY <1>1, <1>2

\* Types, and the promise of startPromotionElection's goroutine: an election
\* that is not completed has a goroutine that will complete it, so the early
\* return for "an election is running" never blocks a path for ever.
THEOREM OpenElectionsHaveGoroutines == AuthSpec => []AuthTypeOK
<1>1. AuthInv => AuthTypeOK
  BY DEF AuthInv, AuthTypeOK, DirOK, UpdateOK, Updates, CountsOK, ElectionsOK, Open,
         Counting
<1>2. QED
  BY <1>1, AuthInvInductive, PTL DEF AuthSpec

\* Whatever the clocks show and in whatever order announcements, snapshots and
\* this node's own decisions come, no entry is lost, and an older assignment
\* takes the place of a newer one only by this node's own decision or by an
\* announcement whose check a Merge has overtaken.
THEOREM AssignmentsOnlyAdvance == AuthSpec => EntriesNeverGoBack
<1>1. AuthInv /\ [AuthNext]_authVars =>
        [\A p \in DOMAIN dir :
           /\ p \in DOMAIN dir'
           /\ \/ dir'[p].ts >= dir[p].ts
              \/ p = update.path /\ (~ update.incoming \/ update.overtaken)]_authVars
  BY DirectoryStep DEF AuthInv, Forward
<1>2. QED
  BY <1>1, AuthInvInductive, PTL DEF AuthSpec, EntriesNeverGoBack

----------------------------------------------------------------------------
(* The election's winner *)

\* The winner after i candidates, given the winners before.
NextWinner(c, w, i) ==
    IF i = 1 THEN c[1]
    ELSE IF Better(c[i], w[i - 1]) THEN c[i] ELSE w[i - 1]

\* The loop of electByUptime computes a winner for every number of candidates:
\* there is no smallest number for which it does not.
LEMMA WinnersExist ==
    ASSUME NEW c \in Seq(Nodes)
    PROVE  \E w \in [1 .. Len(c) -> Nodes] :
             w = [i \in 1 .. Len(c) |-> NextWinner(c, w, i)]
<1> DEFINE P(m) == \E f \in [1 .. m -> Nodes] :
                     \A i \in 1 .. m : f[i] = NextWinner(c, f, i)
           Bad == {m \in 0 .. Len(c) : ~ P(m)}
<1>1. Bad = {}
  <2>1. SUFFICES ASSUME Bad # {} PROVE FALSE
    OBVIOUS
  <2>2. PICK m \in Bad : \A j \in Bad : m <= j
    <3>1. Bad \subseteq Nat
      OBVIOUS
    <3>2. QED
      BY <2>1, <3>1, LeastExists
  <2>3. m \in 0 .. Len(c) /\ ~ P(m)
    BY <2>2
  <2>4. m # 0
    <3>1. [i \in 1 .. 0 |-> 0] \in [1 .. 0 -> Nodes]
      OBVIOUS
    <3>2. \A i \in 1 .. 0 : FALSE
      OBVIOUS
    <3>3. \E f \in [1 .. 0 -> Nodes] : \A i \in 1 .. 0 : f[i] = NextWinner(c, f, i)
      BY <3>1, <3>2
    <3>4. QED
      BY <2>3, <3>3
  <2>5. P(m - 1)
    <3>1. m - 1 \in 0 .. Len(c) /\ m - 1 < m
      BY <2>3, <2>4
    <3>2. m - 1 \notin Bad
      <4> HIDE DEF Bad
      <4>1. m - 1 \in Bad => m <= m - 1
        BY <2>2
      <4>2. QED
        BY <2>3, <4>1
    <3>3. QED
      BY <3>1, <3>2
  <2>6. PICK f \in [1 .. (m - 1) -> Nodes] :
               \A i \in 1 .. (m - 1) : f[i] = NextWinner(c, f, i)
    BY <2>5
  <2> DEFINE g == [i \in 1 .. m |-> IF i = m THEN NextWinner(c, f, m) ELSE f[i]]
  <2>7. m \in 1 .. Len(c) /\ c[m] \in Nodes /\ c[1] \in Nodes
    BY <2>3, <2>4
  <2>8. m # 1 => f[m - 1] \in Nodes
    BY <2>6, <2>7
  <2>9. NextWinner(c, f, m) \in Nodes
    BY <2>7, <2>8 DEF NextWinner
  <2>10. g \in [1 .. m -> Nodes]
    <3>1. \A i \in 1 .. m : i # m => i \in 1 .. (m - 1)
      BY <2>7
    <3>2. \A i \in 1 .. m : (IF i = m THEN NextWinner(c, f, m) ELSE f[i]) \in Nodes
      BY <2>6, <2>9, <3>1
    <3>3. QED
      BY <3>2
  <2>11. ASSUME NEW i \in 1 .. m
         PROVE  g[i] = NextWinner(c, g, i)
    <3>1. i # 1 => g[i - 1] = f[i - 1]
      BY <2>7
    <3>2. NextWinner(c, g, i) = NextWinner(c, f, i)
      BY <3>1 DEF NextWinner
    <3>3. g[i] = NextWinner(c, f, i)
      BY <2>6, <2>7
    <3>4. QED
      BY <3>2, <3>3
  <2> HIDE DEF g
  <2>12. P(m)
    BY <2>10, <2>11
  <2>13. QED
    BY <2>3, <2>12
<1>2. P(Len(c))
  <2>1. Len(c) \in 0 .. Len(c)
    OBVIOUS
  <2>2. QED
    BY <1>1, <2>1
<1>3. PICK w \in [1 .. Len(c) -> Nodes] :
             \A i \in 1 .. Len(c) : w[i] = NextWinner(c, w, i)
  BY <1>2
<1>4. w = [i \in 1 .. Len(c) |-> NextWinner(c, w, i)]
  BY <1>3
<1>5. QED
  BY <1>4

\* Earlier creation, then smaller identity, is an order.
LEMMA BetterIsTransitive ==
    ASSUME NEW a \in Nodes, NEW b \in Nodes, NEW d \in Nodes, Better(a, b), Better(b, d)
    PROVE  Better(a, d)
<1>1. /\ a \in Nat /\ b \in Nat /\ d \in Nat
      /\ Created[a] \in Nat /\ Created[b] \in Nat /\ Created[d] \in Nat
  BY AuthorityAssumption
<1>2. QED
  BY <1>1 DEF Better

\* electByUptime picks a candidate that is better than every other.
LEMMA BestIsElected ==
    ASSUME NEW c \in Seq(Nodes), c # <<>>
    PROVE  \A j \in 1 .. Len(c) :
             ElectByUptime(c) = c[j] \/ Better(ElectByUptime(c), c[j])
<1> DEFINE W == CHOOSE w : w = [i \in 1 .. Len(c) |-> NextWinner(c, w, i)]
<1>1. W = [i \in 1 .. Len(c) |-> NextWinner(c, W, i)]
  <2>1. \E w : w = [i \in 1 .. Len(c) |-> NextWinner(c, w, i)]
    BY WinnersExist
  <2>2. QED
    BY <2>1
<1>2. ElectByUptime(c) = W[Len(c)]
  BY DEF ElectByUptime, NextWinner
<1> HIDE DEF W
<1>3. \A i \in 1 .. Len(c) : W[i] = NextWinner(c, W, i)
  BY <1>1
<1> DEFINE Q(m) == /\ W[m] \in Nodes
                   /\ \A j \in 1 .. m : W[m] = c[j] \/ Better(W[m], c[j])
           Bad == {m \in 1 .. Len(c) : ~ Q(m)}
<1>4. Bad = {}
  <2>1. SUFFICES ASSUME Bad # {} PROVE FALSE
    OBVIOUS
  <2>2. PICK m \in Bad : \A j \in Bad : m <= j
    <3>1. Bad \subseteq Nat
      OBVIOUS
    <3>2. QED
      BY <2>1, <3>1, LeastExists
  <2>3. m \in 1 .. Len(c) /\ ~ Q(m) /\ c[m] \in Nodes
    BY <2>2
  <2>4. W[m] = NextWinner(c, W, m)
    BY <1>3, <2>3
  <2>5. CASE m = 1
    <3>1. W[m] = c[1]
      BY <2>4, <2>5 DEF NextWinner
    <3>2. Q(m)
      BY <2>3, <2>5, <3>1
    <3>3. QED
      BY <2>3, <3>2
  <2>6. CASE m # 1
    <3>1. m - 1 \in 1 .. Len(c) /\ m - 1 < m
      BY <2>3, <2>6
    <3>2. Q(m - 1)
      <4>1. m - 1 \notin Bad
        BY <2>2, <3>1
      <4>2. QED
        BY <3>1, <4>1
    <3>3. \A j \in 1 .. m : j = m \/ j \in 1 .. (m - 1)
      BY <2>3
    <3>4. W[m - 1] \in Nodes
      BY <3>2
    <3>5. \A a \in Nodes : a \in Nat /\ Created[a] \in Nat
      BY AuthorityAssumption
    <3>6. CASE Better(c[m], W[m - 1])
      <4>1. W[m] = c[m]
        BY <2>4, <2>6, <3>6 DEF NextWinner
      <4>2. ASSUME NEW j \in 1 .. (m - 1)
            PROVE  Better(c[m], c[j])
        <5>1. c[j] \in Nodes
          BY <2>3
        <5>2. W[m - 1] = c[j] \/ Better(W[m - 1], c[j])
          BY <3>2
        <5>3. QED
          BY <2>3, <3>4, <3>6, <5>1, <5>2, BetterIsTransitive
      <4>3. Q(m)
        BY <2>3, <3>3, <4>1, <4>2
      <4>4. QED
        BY <2>3, <4>3
    <3>7. CASE ~ Better(c[m], W[m - 1])
      <4>1. W[m] = W[m - 1]
        BY <2>4, <2>6, <3>7 DEF NextWinner
      <4>2. W[m - 1] = c[m] \/ Better(W[m - 1], c[m])
        BY <2>3, <3>4, <3>5, <3>7 DEF Better
      <4>3. \A j \in 1 .. (m - 1) : W[m - 1] = c[j] \/ Better(W[m - 1], c[j])
        BY <3>2
      <4>4. Q(m)
        BY <3>3, <3>4, <4>1, <4>2, <4>3
      <4>5. QED
        BY <2>3, <4>4
    <3>8. QED
      BY <3>6, <3>7
  <2>7. QED
    BY <2>5, <2>6
<1>5. Len(c) \in 1 .. Len(c)
  OBVIOUS
<1>6. Q(Len(c))
  BY <1>4, <1>5
<1>7. QED
  BY <1>2, <1>6

\* Nodes that know the same subscribers elect the same one, whatever the order
\* in which the map gave them to electByUptime.
THEOREM ElectionsDoNotDependOnOrder == AuthSpec => []ElectionsAgree
<1>1. ASSUME AuthInv PROVE ElectionsAgree
  <2>1. SUFFICES ASSUME NEW t \in BagToSet(tasks), t.kind = "count",
                        NEW a \in Range(t.cands) \ {ElectByUptime(t.cands)}
                 PROVE  Better(ElectByUptime(t.cands), a)
    BY DEF ElectionsAgree, Better
  <2>2. t.cands \in Seq(Nodes) /\ t.cands # <<>>
    BY <1>1, <2>1, TaskFields DEF AuthInv, TasksOK
  <2>3. PICK j \in 1 .. Len(t.cands) : a = t.cands[j]
    BY <2>2 DEF Range
  <2>4. QED
    BY <2>2, <2>3, BestIsElected
<1>2. QED
  BY <1>1, AuthInvInductive, PTL DEF AuthSpec

=============================================================================
