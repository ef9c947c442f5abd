---------------------------- MODULE Replication ----------------------------
(***************************************************************************)
(* The replication manager of one node (internal/mesh/replication.go): the *)
(* queues of writes to push to subscribers, the loop that empties them, the *)
(* node's own subscriptions.  A method that holds rm.mu to its end is one   *)
(* action; the loop releases it between copying a queue, sending the copies *)
(* and cutting the queue, and these are three.                              *)
(* The directory and the registry belong to other components, which change  *)
(* them at any time.                                                        *)
(***************************************************************************)
EXTENDS Directory, FiniteSets

CONSTANTS
  Nodes, Self,
  Paths,           \* paths that are written and subscribed to
  Placeholder,     \* the path decodeSubscriptionUpdate gives every update
  MaxWrites,       \* bound: writes recorded or forwarded
  MaxStarts        \* bound: calls of Start that start a loop

VARIABLES
  dir, subscribers,     \* pathDirectory; subscriptionReg.Subscribers
  queue,                \* pendingPathWrites: path -> writes [id, subs]
  subscribed,           \* subscribedPaths: path -> IsCurrent
  asking,               \* RequestSubscription calls past their lookup
  isRunning,            \* rm.isRunning
  closing, closed,      \* Stops before their close; stopChannel closed
  loops,                \* the replicationLoop goroutines
  raced,                \* history: a Start came between a Stop's Unlock and close
  crashed,              \* a panic ended the process
  writes,               \* history: writes recorded so far
  owed                  \* history: <<write, subscriber>> recorded and not sent

envVars == <<dir, subscribers>>
loopVars == <<isRunning, closing, closed, loops, raced>>
ghostVars == <<writes, owed>>
vars == <<dir, subscribers, queue, subscribed, asking, isRunning, closing,
          closed, loops, raced, crashed, writes, owed>>

\* A goroutine waits in its select, fresh or after a round; or works through a
\* round: todo is the copied queues left, at the path whose batch is sent.
NoPath == <<>>
Waiting(fresh) == [st |-> "select", fresh |-> fresh, todo |-> <<>>, at |-> NoPath]
Round(todo, at) == [st |-> "round", fresh |-> FALSE, todo |-> todo, at |-> at]
Ended == [st |-> "ended", fresh |-> FALSE, todo |-> <<>>, at |-> NoPath]
NotStarted == [st |-> "none", fresh |-> FALSE, todo |-> <<>>, at |-> NoPath]

Init ==
  /\ dir = NewDirectory
  /\ subscribers = [p \in Paths |-> {}]
  /\ queue = [p \in Paths |-> <<>>]
  /\ subscribed = <<>>
  /\ asking = {}
  /\ isRunning = FALSE /\ closing = 0 /\ closed = FALSE
  /\ loops = [l \in 1 .. MaxStarts |-> NotStarted]
  /\ raced = FALSE
  /\ crashed = FALSE
  /\ writes = 0 /\ owed = {}

----------------------------------------------------------------------------
(* Other components: the authority manager and the subscribers *)

AssignAuthority(p, n) ==
  /\ dir' = Set(dir, p, n, 0)
  /\ UNCHANGED <<subscribers, queue, subscribed, asking, loopVars,
                 crashed, ghostVars>>

RelinquishAuthority(p) ==
  /\ dir' = Delete(dir, p)
  /\ UNCHANGED <<subscribers, queue, subscribed, asking, loopVars,
                 crashed, ghostVars>>

ChangeSubscribers(p, S) ==
  /\ subscribers' = [subscribers EXCEPT ![p] = S]
  /\ UNCHANGED <<dir, queue, subscribed, asking, loopVars, crashed,
                 ghostVars>>

----------------------------------------------------------------------------
(* Writes *)

IsAuthority(p) == Known(dir, p) /\ Get(dir, p).auth = Self

\* The last write coalesces what waits.
MutantEnqueue(q, w) == <<w>>

Enqueue(q, w) == Append(q, w)

\* A map with one more key; a key it has keeps its value.
AddKey(f, x, v) == [y \in DOMAIN f \cup {x} |-> IF y \in DOMAIN f THEN f[y] ELSE v]

\* The sends a recorded write stands for.
Owes(w) == {w.id} \X w.subs

\* RecordWrite (the coordinator's call) and a local ForwardWriteToAuthority
\* come down to this; a node that is not the authority is refused.
RecordPathWrite(p) ==
  LET w == [id |-> writes + 1, subs |-> subscribers[p]] IN
  /\ writes < MaxWrites
  /\ IsAuthority(p)
  /\ writes' = writes + 1
  /\ owed' = owed \cup Owes(w)
  /\ queue' = IF subscribers[p] = {} THEN queue
              ELSE [queue EXCEPT ![p] = Enqueue(@, w)]
  /\ UNCHANGED <<envVars, subscribed, asking, loopVars, crashed>>

\* To another authority: sendWriteToAuthority answers nil and sends nothing.
ForwardWriteToAuthority(p) ==
  /\ Known(dir, p) /\ ~ IsAuthority(p)
  /\ UNCHANGED vars

----------------------------------------------------------------------------
(* The loop *)

Start(l) ==
  /\ ~ isRunning
  /\ loops[l] = NotStarted /\ \A k \in 1 .. (l - 1) : loops[k] # NotStarted
  /\ isRunning' = TRUE
  /\ loops' = [loops EXCEPT ![l] = Waiting(TRUE)]
  /\ raced' = (raced \/ closing > 0)
  /\ UNCHANGED <<envVars, queue, subscribed, asking, closing, closed,
                 crashed, ghostVars>>

Stop ==
  /\ isRunning
  /\ isRunning' = FALSE
  /\ closing' = closing + 1
  /\ UNCHANGED <<envVars, queue, subscribed, asking, closed, loops,
                 raced, crashed, ghostVars>>

\* The channel is made once: closing it a second time panics.
CloseStopChannel ==
  /\ closing > 0
  /\ closing' = closing - 1
  /\ closed' = TRUE
  /\ crashed' = closed
  /\ UNCHANGED <<envVars, queue, subscribed, asking, isRunning, loops,
                 raced, ghostVars>>

\* Off by one: a single write waits for another.
MutantPending == {p \in Paths : Len(queue[p]) > 1}

Pending == {p \in Paths : queue[p] # <<>>}

\* With the channel closed a fresh loop ends at its first select; a loop back
\* from a round may find a tick waiting as well and take that.
BeginRound(l) ==
  /\ loops[l].st = "select"
  /\ closed => ~ loops[l].fresh
  /\ loops' = [loops EXCEPT ![l] =
                 IF Pending = {} THEN Waiting(FALSE)
                 ELSE Round([p \in Pending |-> queue[p]], NoPath)]
  /\ UNCHANGED <<envVars, queue, subscribed, asking, isRunning,
                 closing, closed, raced, crashed, ghostVars>>

EndLoop(l) ==
  /\ loops[l].st = "select"
  /\ closed
  /\ loops' = [loops EXCEPT ![l] = Ended]
  /\ UNCHANGED <<envVars, queue, subscribed, asking, isRunning,
                 closing, closed, raced, crashed, ghostVars>>

\* Every write of the batch goes to the subscribers it was recorded with;
\* sendSubscriptionUpdate reports success.
SendBatch(l, p) ==
  /\ loops[l].st = "round" /\ loops[l].at = NoPath
  /\ p \in DOMAIN loops[l].todo
  /\ loops' = [loops EXCEPT ![l] = Round(@.todo, p)]
  /\ owed' = owed \ UNION {Owes(w) : w \in Range(loops[l].todo[p])}
  /\ UNCHANGED <<envVars, queue, subscribed, asking, isRunning,
                 closing, closed, raced, crashed, writes>>

\* The whole queue is dropped, not the part that was sent.
MutantCut(q, n) == <<>>

Cut(q, n) == SubSeq(q, n + 1, Len(q))

\* Cutting more than there is panics.
CutQueue(l) ==
  LET p == loops[l].at
      rest == [q \in DOMAIN loops[l].todo \ {p} |-> loops[l].todo[q]]
  IN
  /\ loops[l].st = "round" /\ p # NoPath
  /\ crashed' = (Len(loops[l].todo[p]) > Len(queue[p]))
  /\ queue' = [queue EXCEPT ![p] = Cut(@, Len(loops[l].todo[p]))]
  /\ loops' = [loops EXCEPT ![l] = IF DOMAIN rest = {} THEN Waiting(FALSE)
                                   ELSE Round(rest, NoPath)]
  /\ UNCHANGED <<envVars, subscribed, asking, isRunning, closing,
                 closed, raced, ghostVars>>

----------------------------------------------------------------------------
(* Subscriptions of this node *)

\* The authority is looked up before the mutex is taken; the one found is
\* stored and never read.
LookUpForSubscription(p) ==
  /\ Known(dir, p) /\ ~ IsAuthority(p)
  /\ asking = {}                             \* bound: one request at a time
  /\ asking' = {p}
  /\ UNCHANGED <<envVars, queue, subscribed, loopVars, crashed, ghostVars>>

RequestSubscription(p) ==
  /\ p \in asking
  /\ asking' = asking \ {p}
  /\ subscribed' = AddKey(subscribed, p, FALSE)
  /\ UNCHANGED <<envVars, queue, loopVars, crashed, ghostVars>>

\* Whatever was received, the decoded update is for the placeholder's path.
HandleSubscriptionUpdate ==
  /\ Placeholder \in DOMAIN subscribed
  /\ subscribed' = [subscribed EXCEPT ![Placeholder] = TRUE]
  /\ UNCHANGED <<envVars, queue, asking, loopVars, crashed, ghostVars>>

----------------------------------------------------------------------------
LoopStep(l) == BeginRound(l) \/ EndLoop(l) \/ CutQueue(l)
               \/ \E p \in Paths : SendBatch(l, p)

Next ==
  /\ ~ crashed
  /\ \/ \E p \in Paths, n \in Nodes : AssignAuthority(p, n)
     \/ \E p \in Paths : RelinquishAuthority(p)
     \/ \E p \in Paths, S \in SUBSET (Nodes \ {Self}) : ChangeSubscribers(p, S)
     \/ \E p \in Paths : RecordPathWrite(p) \/ ForwardWriteToAuthority(p)
     \/ \E l \in 1 .. MaxStarts : Start(l) \/ LoopStep(l)
     \/ Stop \/ CloseStopChannel
     \/ \E p \in Paths : LookUpForSubscription(p) \/ RequestSubscription(p)
     \/ HandleSubscriptionUpdate

Spec == Init /\ [][Next]_vars

\* A ticker fires for ever and the loop's own code does not wait for others.
FairSpec == Spec /\ \A l \in 1 .. MaxStarts : WF_vars(~ crashed /\ LoopStep(l))

----------------------------------------------------------------------------
(* Properties *)

SentOrQueued ==
  \A o \in owed : \E p \in Paths : \E k \in 1 .. Len(queue[p]) : o \in Owes(queue[p][k])

CopiesHeadQueues ==
  \A l \in 1 .. MaxStarts : loops[l].st = "round" =>
    \A p \in DOMAIN loops[l].todo : IsPrefix(loops[l].todo[p], queue[p])

\* Every write recorded for replication is still queued or was sent to each of
\* the subscribers it had when it was recorded, whatever was recorded, started
\* or stopped between the copy of a queue and its cut.  One order of steps is
\* left out because the code fails in it: a Start between the Unlock and the
\* close of a Stop (replication.go:160-162) leaves two loops running, which
\* cut one queue twice.  ReplicationOverlap.cfg checks SentOrQueued by itself
\* and shows the write that is dropped.
WritesSentOrQueued == raced \/ SentOrQueued

\* What a round copied is still the head of the queue when the round comes to
\* cut it (replication.go:864), so the cut takes exactly the writes that were
\* sent and never reaches past the queue's end, which would panic: however
\* often the manager is stopped and started, with a loop of an earlier Start
\* still in its round, unless a Start came between a Stop's Unlock and close.
RoundsFit == raced \/ CopiesHeadQueues

\* While the loop is not stopped, every queued write leaves the queue.
QueuedWritesLeave ==
  \A i \in 1 .. MaxWrites :
    (\E p \in Paths : \E k \in 1 .. Len(queue[p]) : queue[p][k].id = i)
      /\ isRunning /\ ~ closed
    ~> \/ \A p \in Paths : \A k \in 1 .. Len(queue[p]) : queue[p][k].id # i
       \/ closing > 0 \/ closed
=============================================================================
