------------------------- MODULE ReplicationProofs -------------------------
(* Theorems about Replication, for any nodes, paths and bounds.            *)
EXTENDS Replication, SequenceTheorems, TLAPS

\* A goroutine that is in a round, or may begin one.
Works(l) == \/ loops[l].st = "round"
            \/ loops[l].st = "select" /\ (closed => ~ loops[l].fresh)

\* Without a Start in the middle of a Stop: at most one goroutine works, and
\* none when nobody has started one since the last Stop.
LoopsInv ==
  /\ isRunning \in BOOLEAN /\ closed \in BOOLEAN /\ closing \in Nat
  /\ loops = [l \in 1 .. MaxStarts |-> loops[l]]
  /\ \A l \in 1 .. MaxStarts :
        \/ loops[l] \in {Waiting(TRUE), Waiting(FALSE), Ended, NotStarted}
        \/ loops[l] = Round(loops[l].todo, loops[l].at)
  /\ \A l, k \in 1 .. MaxStarts : Works(l) /\ Works(k) => l = k
  /\ ~ closed /\ ~ isRunning /\ closing = 0 => \A l \in 1 .. MaxStarts : ~ Works(l)

Write == [id : Nat, subs : SUBSET Nodes]

\* A queued write has one of the numbers given out.
QueueInv ==
  /\ subscribers \in [Paths -> SUBSET Nodes]
  /\ queue \in [Paths -> Seq(Write)]
  /\ writes \in Nat
  /\ \A p \in Paths : \A k \in 1 .. Len(queue[p]) : queue[p][k].id \in 1 .. writes

Heads(s, t) == Len(s) <= Len(t) /\ \A i \in 1 .. Len(s) : s[i] = t[i]

WasSent(w) == \A o \in Owes(w) : o \notin owed

\* What a round copied still heads the queue; the batch at hand was sent.
RoundInv ==
  \A l \in 1 .. MaxStarts : loops[l].st = "round" =>
    /\ DOMAIN loops[l].todo \subseteq Paths
    /\ \A p \in DOMAIN loops[l].todo :
          loops[l].todo[p] \in Seq(Write) /\ Heads(loops[l].todo[p], queue[p])
    /\ loops[l].at # NoPath =>
          /\ loops[l].at \in DOMAIN loops[l].todo
          /\ \A k \in 1 .. Len(loops[l].todo[loops[l].at]) :
                WasSent(loops[l].todo[loops[l].at][k])

\* A prefix, element by element.
LEMMA PrefixPointwise ==
    ASSUME NEW S, NEW s \in Seq(S), NEW t \in Seq(S)
    PROVE  IsPrefix(s, t) <=> Heads(s, t)
BY DEF IsPrefix, Heads

\* The steps of other components and of this node's subscriptions.
Aside ==
  \/ \E p \in Paths, n \in Nodes : AssignAuthority(p, n)
  \/ \E p \in Paths : \/ RelinquishAuthority(p) \/ ForwardWriteToAuthority(p)
                      \/ LookUpForSubscription(p) \/ RequestSubscription(p)
  \/ HandleSubscriptionUpdate

\* They touch neither the loops nor the queues.
LEMMA AsideFrame == Aside => UNCHANGED <<loopVars, subscribers, queue, writes, owed>>
BY DEF Aside, AssignAuthority, RelinquishAuthority, ForwardWriteToAuthority,
       LookUpForSubscription, RequestSubscription, HandleSubscriptionUpdate, ghostVars, envVars,
       vars, loopVars

\* Every step is one of these.
LEMMA NextCases ==
  Next => \/ Aside \/ Stop \/ CloseStopChannel
          \/ \E p \in Paths : RecordPathWrite(p)
          \/ \E p \in Paths, S \in SUBSET (Nodes \ {Self}) : ChangeSubscribers(p, S)
          \/ \E l \in 1 .. MaxStarts : \/ Start(l) \/ BeginRound(l) \/ EndLoop(l) \/ CutQueue(l)
                                       \/ \E p \in Paths : SendBatch(l, p)
BY DEF Next, LoopStep, Aside

\* LoopsInv holds at first, and every step keeps it that is not a Start in the
\* middle of a Stop.
LEMMA LoopsInvInductive ==
  /\ Init => LoopsInv
  /\ LoopsInv /\ ~ raced' /\ [Next]_vars => LoopsInv'
<1>1. Init => LoopsInv
  <2>1. Init => /\ loops = [l \in 1 .. MaxStarts |-> loops[l]]
                /\ \A l \in 1 .. MaxStarts : loops[l] = NotStarted
    BY DEF Init
  <2>2. \A l \in 1 .. MaxStarts : loops[l] = NotStarted => ~ Works(l)
    BY DEF NotStarted, Works
  <2>3. Init => closing \in Nat
    BY DEF Init
  <2>4. Init => isRunning \in BOOLEAN /\ closed \in BOOLEAN
    BY DEF Init
  <2>5. QED
    BY <2>1, <2>2, <2>3, <2>4 DEF LoopsInv
<1>2. ASSUME LoopsInv, UNCHANGED loopVars PROVE LoopsInv'
  BY <1>2 DEF LoopsInv, loopVars, Works
<1>3. ASSUME LoopsInv, Stop PROVE LoopsInv'
  <2>1. /\ isRunning' = FALSE /\ closing' = closing + 1 /\ closed' = closed
        /\ loops' = loops
    BY <1>3 DEF Stop
  <2>2. \A l \in 1 .. MaxStarts : Works(l)' <=> Works(l)
    BY <2>1 DEF Works
  <2>3. closing' \in Nat /\ closing' # 0
    BY <1>3, <2>1 DEF LoopsInv
  <2>4. QED
    BY <1>3, <2>1, <2>2, <2>3 DEF LoopsInv
<1>4. ASSUME LoopsInv, CloseStopChannel PROVE LoopsInv'
  <2>1. /\ isRunning' = isRunning /\ closing' = closing - 1 /\ closing > 0 /\ closed' = TRUE
        /\ loops' = loops
    BY <1>4 DEF CloseStopChannel
  <2>2. \A l \in 1 .. MaxStarts : Works(l)' => Works(l)
    BY <2>1 DEF Works
  <2>3. closing' \in Nat
    BY <1>4, <2>1 DEF LoopsInv
  <2>4. QED
    BY <1>4, <2>1, <2>2, <2>3 DEF LoopsInv
<1>5. ASSUME LoopsInv, ~ raced', NEW l \in 1 .. MaxStarts, Start(l) PROVE LoopsInv'
  <2>1. /\ isRunning' = TRUE /\ ~ isRunning /\ closing' = closing /\ closed' = closed
        /\ loops' = [loops EXCEPT ![l] = Waiting(TRUE)]
        /\ ~ (closing > 0)
    BY <1>5 DEF Start
  <2>2. closing = 0
    BY <1>5, <2>1 DEF LoopsInv
  <2>3. /\ loops' = [k \in 1 .. MaxStarts |-> loops'[k]]
        /\ loops'[l] = Waiting(TRUE)
        /\ \A k \in (1 .. MaxStarts) \ {l} : loops'[k] = loops[k]
    BY <1>5, <2>1 DEF LoopsInv
  <2>4. \A k \in (1 .. MaxStarts) \ {l} : Works(k)' <=> Works(k)
    BY <2>1, <2>3 DEF Works
  <2>5. Works(l)' => ~ closed
    BY <2>1, <2>3 DEF Works, Waiting
  <2>6. ~ closed => \A k \in 1 .. MaxStarts : ~ Works(k)
    BY <1>5, <2>1, <2>2 DEF LoopsInv
  <2>7. \A j, k \in 1 .. MaxStarts : Works(j)' /\ Works(k)' => j = k
    BY <1>5, <2>4, <2>5, <2>6 DEF LoopsInv
  <2>8. QED
    BY <1>5, <2>1, <2>3, <2>7 DEF LoopsInv
<1>6. ASSUME LoopsInv, NEW l \in 1 .. MaxStarts, Works(l), UNCHANGED <<isRunning, closing, closed>>,
             NEW r, r = Waiting(FALSE) \/ r = Ended \/ r = Round(r.todo, r.at),
             loops' = [loops EXCEPT ![l] = r]
      PROVE LoopsInv'
  <2>1. /\ loops' = [k \in 1 .. MaxStarts |-> loops'[k]]
        /\ loops'[l] = r
        /\ \A k \in (1 .. MaxStarts) \ {l} : loops'[k] = loops[k]
    BY <1>6 DEF LoopsInv
  <2>2. \A k \in 1 .. MaxStarts : Works(k)' => Works(k)
    BY <1>6, <2>1 DEF Works
  <2>3. \A k \in 1 .. MaxStarts :
          \/ loops'[k] \in {Waiting(TRUE), Waiting(FALSE), Ended, NotStarted}
          \/ loops'[k] = Round(loops'[k].todo, loops'[k].at)
    BY <1>6, <2>1 DEF LoopsInv
  <2>4. QED
    BY <1>6, <2>1, <2>2, <2>3 DEF LoopsInv
<1>7. ASSUME LoopsInv, NEW l \in 1 .. MaxStarts, EndLoop(l) PROVE LoopsInv'
  <2>1. /\ UNCHANGED <<isRunning, closing, closed>> /\ loops' = [loops EXCEPT ![l] = Ended]
    BY <1>7 DEF EndLoop
  <2>2. /\ loops' = [k \in 1 .. MaxStarts |-> loops'[k]]
        /\ loops'[l] = Ended
        /\ \A k \in (1 .. MaxStarts) \ {l} : loops'[k] = loops[k]
    BY <1>7, <2>1 DEF LoopsInv
  <2>3. \A k \in 1 .. MaxStarts : Works(k)' => Works(k)
    BY <2>1, <2>2 DEF Works, Ended
  <2>4. QED
    BY <1>7, <2>1, <2>2, <2>3 DEF LoopsInv
<1>8. ASSUME LoopsInv, NEW l \in 1 .. MaxStarts, BeginRound(l) PROVE LoopsInv'
  <2> DEFINE r == IF Pending = {} THEN Waiting(FALSE)
                  ELSE Round([p \in Pending |-> queue[p]], NoPath)
  <2>1. /\ UNCHANGED <<isRunning, closing, closed>> /\ loops' = [loops EXCEPT ![l] = r]
        /\ Works(l)
    BY <1>8 DEF BeginRound, Works
  <2>2. r = Waiting(FALSE) \/ r = Ended \/ r = Round(r.todo, r.at)
    <3>1. \A todo, at : Round(todo, at).todo = todo /\ Round(todo, at).at = at
      BY DEF Round
    <3>2. QED
      BY <3>1
  <2> HIDE DEF r
  <2>3. QED
    BY <1>6, <1>8, <2>1, <2>2
<1>9. ASSUME LoopsInv, NEW l \in 1 .. MaxStarts, NEW p \in Paths, SendBatch(l, p) PROVE LoopsInv'
  <2> DEFINE r == Round(loops[l].todo, p)
  <2>1. /\ UNCHANGED <<isRunning, closing, closed>> /\ loops[l].st = "round"
        /\ loops' = [loops EXCEPT ![l] = r]
    BY <1>9 DEF SendBatch
  <2>2. r = Round(r.todo, r.at) /\ Works(l)
    BY <2>1 DEF Round, Works
  <2> HIDE DEF r
  <2>3. QED
    BY <1>6, <1>9, <2>1, <2>2
<1>10. ASSUME LoopsInv, NEW l \in 1 .. MaxStarts, CutQueue(l) PROVE LoopsInv'
  <2> DEFINE rest == [q \in DOMAIN loops[l].todo \ {loops[l].at} |-> loops[l].todo[q]]
             r == IF DOMAIN rest = {} THEN Waiting(FALSE) ELSE Round(rest, NoPath)
  <2>1. /\ UNCHANGED <<isRunning, closing, closed>> /\ loops' = [loops EXCEPT ![l] = r]
        /\ Works(l)
    BY <1>10 DEF CutQueue, Works
  <2>2. r = Waiting(FALSE) \/ r = Ended \/ r = Round(r.todo, r.at)
    <3>1. \A todo, at : Round(todo, at).todo = todo /\ Round(todo, at).at = at
      BY DEF Round
    <3>2. QED
      BY <3>1
  <2> HIDE DEF r
  <2>3. QED
    BY <1>6, <1>10, <2>1, <2>2
<1>11. (\E p \in Paths : RecordPathWrite(p))
       \/ (\E p \in Paths, S \in SUBSET (Nodes \ {Self}) : ChangeSubscribers(p, S))
       => UNCHANGED loopVars
  BY DEF RecordPathWrite, ChangeSubscribers
<1>12. QED
  BY <1>1, <1>2, <1>3, <1>4, <1>5, <1>7, <1>8, <1>9, <1>10, <1>11, NextCases, AsideFrame
     DEF vars, loopVars

\* QueueInv holds at first and every step keeps it, as long as rounds fit.
LEMMA QueueInvInductive ==
  /\ Init => QueueInv
  /\ LoopsInv /\ QueueInv /\ RoundInv /\ [Next]_vars => QueueInv'
<1>1. Init => QueueInv
  <2>1. << >> \in Seq(Write) /\ Len(<< >>) = 0
    OBVIOUS
  <2>3. Init => writes \in Nat
    BY DEF Init
  <2>4. Init => subscribers \in [Paths -> SUBSET Nodes] /\ queue \in [Paths -> Seq(Write)]
                /\ \A p \in Paths : Len(queue[p]) = 0
    BY <2>1 DEF Init
  <2>5. QED
    BY <2>3, <2>4 DEF QueueInv
<1>2. ASSUME QueueInv, UNCHANGED <<subscribers, queue, writes>> PROVE QueueInv'
  BY <1>2 DEF QueueInv
<1>3. ASSUME QueueInv, NEW p \in Paths, NEW S \in SUBSET (Nodes \ {Self}), ChangeSubscribers(p, S)
      PROVE QueueInv'
  <2>1. subscribers' \in [Paths -> SUBSET Nodes]
    BY <1>3 DEF ChangeSubscribers, QueueInv
  <2>2. UNCHANGED <<queue, writes>>
    BY <1>3 DEF ChangeSubscribers, ghostVars
  <2>3. QED
    BY <1>3, <2>1, <2>2 DEF QueueInv
<1>4. ASSUME QueueInv, NEW p \in Paths, RecordPathWrite(p) PROVE QueueInv'
  <2> DEFINE n == writes + 1
             w == [id |-> n, subs |-> subscribers[p]]
  <2>1. /\ writes' = n /\ subscribers' = subscribers
        /\ queue' = queue \/ queue' = [queue EXCEPT ![p] = Append(queue[p], w)]
    BY <1>4 DEF RecordPathWrite, Enqueue, envVars
  <2>2. writes \in Nat /\ n \in Nat /\ n \in 1 .. n /\ 1 .. writes \subseteq 1 .. n
    BY <1>4 DEF QueueInv
  <2>3. w \in Write /\ w.id = n
    BY <1>4, <2>2 DEF QueueInv, Write
  <2> HIDE DEF n, w
  <2>6. \A q \in Paths : /\ queue'[q] \in Seq(Write)
                         /\ \A k \in 1 .. Len(queue'[q]) :
                               queue'[q][k] = w \/ \E j \in 1 .. Len(queue[q]) :
                                                      queue'[q][k] = queue[q][j]
    <3>1. queue \in [Paths -> Seq(Write)]
      BY <1>4 DEF QueueInv
    <3>2. /\ Append(queue[p], w) \in Seq(Write) /\ Len(Append(queue[p], w)) = Len(queue[p]) + 1
          /\ Append(queue[p], w)[Len(queue[p]) + 1] = w
          /\ \A k \in 1 .. Len(queue[p]) : Append(queue[p], w)[k] = queue[p][k]
      BY <2>3, <3>1
    <3>3. CASE queue' = queue
      BY <3>1, <3>3
    <3>4. CASE queue' = [queue EXCEPT ![p] = Append(queue[p], w)]
      <4>1. queue'[p] = Append(queue[p], w) /\ \A q \in Paths \ {p} : queue'[q] = queue[q]
        BY <3>1, <3>4
      <4>2. Len(queue[p]) \in Nat
        BY <3>1
      <4>3. \A k \in 1 .. Len(queue'[p]) : k \in 1 .. Len(queue[p]) \/ k = Len(queue[p]) + 1
        BY <3>2, <4>1, <4>2
      <4>4. \A k \in 1 .. Len(queue'[p]) :
               queue'[p][k] = w \/ \E j \in 1 .. Len(queue[p]) : queue'[p][k] = queue[p][j]
        BY <3>2, <4>1, <4>3
      <4>5. \A q \in Paths \ {p} : \A k \in 1 .. Len(queue'[q]) : queue'[q][k] = queue[q][k]
                                                              /\ k \in 1 .. Len(queue[q])
        BY <4>1
      <4>6. \A q \in Paths : queue'[q] \in Seq(Write)
        BY <3>1, <3>2, <4>1
      <4>7. QED
        BY <4>4, <4>5, <4>6
    <3>5. QED
      BY <2>1, <3>3, <3>4
  <2>7. queue' \in [Paths -> Seq(Write)]
    <3>1. queue \in [Paths -> Seq(Write)]
      BY <1>4 DEF QueueInv
    <3>2. Append(queue[p], w) \in Seq(Write)
      BY <2>3, <3>1
    <3>3. QED
      BY <2>1, <3>1, <3>2
  <2>8. \A q \in Paths : \A k \in 1 .. Len(queue'[q]) : queue'[q][k].id \in 1 .. writes'
    <3>1. TAKE q \in Paths
    <3>2. TAKE k \in 1 .. Len(queue'[q])
    <3>3. CASE queue'[q][k] = w
      BY <2>1, <2>2, <2>3, <3>3
    <3>4. CASE \E j \in 1 .. Len(queue[q]) : queue'[q][k] = queue[q][j]
      BY <1>4, <2>1, <2>2, <3>4 DEF QueueInv
    <3>5. QED
      BY <2>6, <3>3, <3>4
  <2>9. QED
    BY <1>4, <2>1, <2>2, <2>7, <2>8 DEF QueueInv
<1>5. ASSUME QueueInv, NEW l \in 1 .. MaxStarts, NEW p \in Paths, SendBatch(l, p) PROVE QueueInv'
  <2>1. UNCHANGED <<subscribers, queue, writes>>
    BY <1>5 DEF SendBatch, envVars
  <2>2. QED
    BY <1>5, <2>1 DEF QueueInv
<1>6. ASSUME LoopsInv, QueueInv, RoundInv, NEW l \in 1 .. MaxStarts, CutQueue(l) PROVE QueueInv'
  <2> DEFINE p == loops[l].at
             n == Len(loops[l].todo[p])
  <2>1. /\ loops[l].st = "round" /\ p # NoPath
        /\ queue' = [queue EXCEPT ![p] = SubSeq(queue[p], n + 1, Len(queue[p]))]
        /\ UNCHANGED <<subscribers, writes>>
    BY <1>6 DEF CutQueue, Cut, envVars, ghostVars
  <2>2. /\ p \in Paths /\ loops[l].todo[p] \in Seq(Write) /\ n <= Len(queue[p])
    BY <1>6, <2>1 DEF RoundInv, Heads
  <2>3. n \in Nat /\ queue[p] \in Seq(Write) /\ queue \in [Paths -> Seq(Write)]
    BY <1>6, <2>2 DEF QueueInv
  <2> HIDE DEF p, n
  <2>4. /\ SubSeq(queue[p], n + 1, Len(queue[p])) \in Seq(Write)
        /\ Len(SubSeq(queue[p], n + 1, Len(queue[p]))) = Len(queue[p]) - n
        /\ \A k \in 1 .. (Len(queue[p]) - n) :
              SubSeq(queue[p], n + 1, Len(queue[p]))[k] = queue[p][k + n]
    BY <2>2, <2>3
  <2>5. queue' \in [Paths -> Seq(Write)]
    BY <2>1, <2>3, <2>4
  <2>6. \A q \in Paths : \A k \in 1 .. Len(queue'[q]) :
          \E j \in 1 .. Len(queue[q]) : queue'[q][k] = queue[q][j]
    <3>1. TAKE q \in Paths
    <3>2. CASE q # p
      BY <2>1, <2>3, <3>2
    <3>3. CASE q = p
      <4>1. queue'[p] = SubSeq(queue[p], n + 1, Len(queue[p]))
        BY <2>1, <2>2, <2>3
      <4>2. \A k \in 1 .. (Len(queue[p]) - n) : k + n \in 1 .. Len(queue[p])
        BY <2>2, <2>3
      <4>3. QED
        BY <2>4, <3>3, <4>1, <4>2
    <3>4. QED
      BY <3>2, <3>3
  <2>7. \A q \in Paths : \A k \in 1 .. Len(queue'[q]) : queue'[q][k].id \in 1 .. writes
    <3>1. TAKE q \in Paths
    <3>2. TAKE k \in 1 .. Len(queue'[q])
    <3>3. PICK j \in 1 .. Len(queue[q]) : queue'[q][k] = queue[q][j]
      BY <2>6
    <3>4. QED
      BY <1>6, <3>3 DEF QueueInv
  <2>8. QED
    BY <1>6, <2>1, <2>5, <2>7 DEF QueueInv
<1>7. ASSUME QueueInv, UNCHANGED vars PROVE QueueInv'
  BY <1>2, <1>7 DEF vars
<1>8. ASSUME QueueInv,
             \/ Stop \/ CloseStopChannel
             \/ \E l \in 1 .. MaxStarts : Start(l) \/ BeginRound(l) \/ EndLoop(l)
      PROVE QueueInv'
  <2>1. UNCHANGED <<subscribers, queue, writes>>
    BY <1>8 DEF Stop, CloseStopChannel, Start, BeginRound, EndLoop, envVars, ghostVars
  <2>2. QED
    BY <1>2, <1>8, <2>1
<1>9. ASSUME QueueInv, Aside PROVE QueueInv'
  BY <1>2, <1>9, AsideFrame
<1>10. QED
  BY <1>1, <1>3, <1>4, <1>5, <1>6, <1>7, <1>8, <1>9, NextCases

\* The part of RoundInv about one goroutine, as a relation on what it reads.
RoundFits(r, q, o) ==
  r.st = "round" =>
    /\ DOMAIN r.todo \subseteq Paths
    /\ \A p \in DOMAIN r.todo : r.todo[p] \in Seq(Write) /\ Heads(r.todo[p], q[p])
    /\ r.at # NoPath =>
          /\ r.at \in DOMAIN r.todo
          /\ \A k \in 1 .. Len(r.todo[r.at]) : \A x \in Owes(r.todo[r.at][k]) : x \notin o

\* RoundInv says of every loop that its round fits.
LEMMA RoundInvIsFits ==
  /\ RoundInv <=> \A l \in 1 .. MaxStarts : RoundFits(loops[l], queue, owed)
  /\ RoundInv' <=> \A l \in 1 .. MaxStarts : RoundFits(loops'[l], queue', owed')
BY DEF RoundInv, RoundFits, WasSent

\* A copied write was recorded: its round heads a queue.
LEMMA CopiedAreRecorded ==
  ASSUME QueueInv, NEW r, RoundFits(r, queue, owed), r.st = "round",
         NEW p \in DOMAIN r.todo, NEW k \in 1 .. Len(r.todo[p])
  PROVE  r.todo[p][k].id \in 1 .. writes
<1>1. /\ p \in Paths /\ r.todo[p] \in Seq(Write) /\ queue[p] \in Seq(Write)
      /\ Len(r.todo[p]) <= Len(queue[p]) /\ r.todo[p][k] = queue[p][k]
  BY DEF RoundFits, Heads, QueueInv
<1>2. k \in 1 .. Len(queue[p])
  BY <1>1
<1>3. QED
  BY <1>1, <1>2 DEF QueueInv

\* Longer queues, more sends and new writes do not disturb a round.
LEMMA RoundFitsMonotone ==
  ASSUME QueueInv, NEW r, RoundFits(r, queue, owed), NEW q2, NEW o2,
         \A p \in Paths : Heads(queue[p], q2[p]) /\ Len(q2[p]) \in Nat,
         \A w \in Write : w.id \in 1 .. writes => \A x \in Owes(w) : x \in o2 => x \in owed
  PROVE  RoundFits(r, q2, o2)
<1>1. SUFFICES ASSUME r.st = "round" PROVE RoundFits(r, q2, o2)
  BY DEF RoundFits
<1>2. DOMAIN r.todo \subseteq Paths
  BY <1>1 DEF RoundFits
<1>3. ASSUME NEW p \in DOMAIN r.todo PROVE r.todo[p] \in Seq(Write) /\ Heads(r.todo[p], q2[p])
  <2>1. r.todo[p] \in Seq(Write) /\ Heads(r.todo[p], queue[p]) /\ queue[p] \in Seq(Write)
        /\ Heads(queue[p], q2[p]) /\ Len(q2[p]) \in Nat
    BY <1>1, <1>2 DEF RoundFits, QueueInv
  <2>2. QED
    BY <2>1 DEF Heads
<1>4. ASSUME r.at # NoPath
      PROVE  /\ r.at \in DOMAIN r.todo
             /\ \A k \in 1 .. Len(r.todo[r.at]) : \A x \in Owes(r.todo[r.at][k]) : x \notin o2
  <2>1. r.at \in DOMAIN r.todo
    BY <1>1, <1>4 DEF RoundFits
  <2>2. ASSUME NEW k \in 1 .. Len(r.todo[r.at]), NEW x \in Owes(r.todo[r.at][k])
        PROVE  x \notin o2
    <3>1. r.todo[r.at][k].id \in 1 .. writes
      BY <1>1, <2>1, CopiedAreRecorded
    <3>2. x \notin owed
      BY <1>1, <1>4 DEF RoundFits
    <3>3. r.todo[r.at][k] \in Write
      BY <1>3, <2>1
    <3>4. QED
      BY <3>1, <3>2, <3>3
  <2>3. QED
    BY <2>1, <2>2
<1>5. QED
  BY <1>1, <1>2, <1>3, <1>4 DEF RoundFits

\* A queue heads itself.
LEMMA HeadsReflexive == ASSUME NEW t \in Seq(Write) PROVE Heads(t, t) /\ Len(t) \in Nat
BY DEF Heads

\* RoundInv holds at first and every step keeps it.
LEMMA RoundInvInductive ==
  /\ Init => RoundInv
  /\ LoopsInv /\ QueueInv /\ RoundInv /\ [Next]_vars => RoundInv'
<1>1. Init => RoundInv
  BY DEF Init, RoundInv, NotStarted
<1>2. ASSUME RoundInv, UNCHANGED <<loops, queue, owed>> PROVE RoundInv'
  BY <1>2 DEF RoundInv, WasSent
<1>3. ASSUME LoopsInv, RoundInv, UNCHANGED <<queue, owed>>, NEW l \in 1 .. MaxStarts, NEW r,
             loops' = [loops EXCEPT ![l] = r], RoundFits(r, queue, owed)
      PROVE RoundInv'
  <2>1. loops'[l] = r /\ \A k \in (1 .. MaxStarts) \ {l} : loops'[k] = loops[k]
    BY <1>3 DEF LoopsInv
  <2>2. QED
    BY <1>3, <2>1, RoundInvIsFits
<1>4. ASSUME LoopsInv, RoundInv, NEW l \in 1 .. MaxStarts, Start(l) \/ EndLoop(l) PROVE RoundInv'
  <2>1. PICK r \in {Waiting(TRUE), Ended} : loops' = [loops EXCEPT ![l] = r]
    BY <1>4 DEF Start, EndLoop
  <2>2. RoundFits(r, queue, owed)
    BY DEF RoundFits, Waiting, Ended
  <2>3. UNCHANGED <<queue, owed>>
    BY <1>4 DEF Start, EndLoop, ghostVars
  <2>4. QED
    BY <1>3, <1>4, <2>1, <2>2, <2>3
<1>5. ASSUME LoopsInv, QueueInv, RoundInv, NEW l \in 1 .. MaxStarts, BeginRound(l) PROVE RoundInv'
  <2> DEFINE todo == [p \in Pending |-> queue[p]]
             r == IF Pending = {} THEN Waiting(FALSE) ELSE Round(todo, NoPath)
  <2>1. loops' = [loops EXCEPT ![l] = r] /\ UNCHANGED <<queue, owed>>
    BY <1>5 DEF BeginRound, ghostVars
  <2>2. /\ DOMAIN todo \subseteq Paths
        /\ \A p \in DOMAIN todo : todo[p] \in Seq(Write) /\ Heads(todo[p], queue[p])
    BY <1>5, HeadsReflexive DEF Pending, QueueInv
  <2> HIDE DEF todo
  <2>3. RoundFits(Round(todo, NoPath), queue, owed)
    BY <2>2 DEF RoundFits, Round
  <2>4. RoundFits(Waiting(FALSE), queue, owed)
    BY DEF RoundFits, Waiting
  <2>5. RoundFits(r, queue, owed)
    BY <2>3, <2>4
  <2> HIDE DEF r
  <2>6. QED
    BY <1>3, <1>5, <2>1, <2>5
<1>6. ASSUME LoopsInv, QueueInv, RoundInv, NEW p \in Paths, RecordPathWrite(p) PROVE RoundInv'
  <2> DEFINE n == writes + 1
             w == [id |-> n, subs |-> subscribers[p]]
  <2>1. /\ owed' = owed \cup Owes(w)
        /\ queue' = queue \/ queue' = [queue EXCEPT ![p] = Append(queue[p], w)]
        /\ loops' = loops
    BY <1>6 DEF RecordPathWrite, Enqueue, loopVars
  <2>2. \A v \in Write : v.id \in 1 .. writes => \A x \in Owes(v) : x \in owed' => x \in owed
    <3>1. n \notin 1 .. writes /\ w.id = n
      BY <1>6 DEF QueueInv
    <3> HIDE DEF n, w
    <3>2. \A v \in Write : v.id \in 1 .. writes => \A x \in Owes(v) : x \notin Owes(w)
      BY <3>1 DEF Owes
    <3>3. QED
      BY <2>1, <3>2
  <2>3. w \in Write
    BY <1>6 DEF QueueInv, Write
  <2> HIDE DEF n, w
  <2>4. queue \in [Paths -> Seq(Write)]
    BY <1>6 DEF QueueInv
  <2>5. Heads(queue[p], Append(queue[p], w)) /\ Len(Append(queue[p], w)) \in Nat
    BY <2>3, <2>4 DEF Heads
  <2>6. \A q \in Paths : Heads(queue[q], queue'[q]) /\ Len(queue'[q]) \in Nat
    BY <2>1, <2>4, <2>5, HeadsReflexive
  <2>7. ASSUME NEW l \in 1 .. MaxStarts PROVE RoundFits(loops'[l], queue', owed')
    <3>1. RoundFits(loops[l], queue, owed)
      BY <1>6, RoundInvIsFits
    <3>2. QED
      BY <1>6, <2>1, <2>2, <2>6, <3>1, RoundFitsMonotone
  <2>8. QED
    BY <2>7, RoundInvIsFits
<1>7. ASSUME LoopsInv, QueueInv, RoundInv, NEW l \in 1 .. MaxStarts, NEW p \in Paths, SendBatch(l, p)
      PROVE RoundInv'
  <2> DEFINE r == Round(loops[l].todo, p)
             b == loops[l].todo[p]
  <2>1. /\ loops[l].st = "round" /\ p \in DOMAIN loops[l].todo
        /\ loops' = [loops EXCEPT ![l] = r]
        /\ owed' = owed \ UNION {Owes(w) : w \in Range(b)}
        /\ UNCHANGED queue
    BY <1>7 DEF SendBatch
  <2>2. \A v \in Write : v.id \in 1 .. writes => \A x \in Owes(v) : x \in owed' => x \in owed
    BY <2>1
  <2>3. \A q \in Paths : Heads(queue[q], queue'[q]) /\ Len(queue'[q]) \in Nat
    BY <1>7, <2>1, HeadsReflexive DEF QueueInv
  <2>4. \A k \in 1 .. MaxStarts : RoundFits(loops[k], queue', owed')
    BY <1>7, <2>2, <2>3, RoundFitsMonotone, RoundInvIsFits
  <2>5. loops'[l] = r /\ \A k \in (1 .. MaxStarts) \ {l} : loops'[k] = loops[k]
    BY <1>7, <2>1 DEF LoopsInv
  <2>6. ASSUME NEW k \in 1 .. Len(b), NEW x \in Owes(b[k]) PROVE x \notin owed'
    <3>1. b \in Seq(Write)
      BY <1>7, <2>1 DEF RoundInv
    <3> HIDE DEF b
    <3>2. b[k] \in Range(b)
      BY <3>1 DEF Range
    <3>3. QED
      BY <2>1, <3>2
  <2>7. /\ r.st = "round" /\ r.todo = loops[l].todo /\ r.at = p
    BY DEF Round
  <2>8. RoundFits(r, queue', owed')
    <3>1. RoundFits(loops[l], queue', owed')
      BY <2>4
    <3> HIDE DEF r
    <3>2. QED
      BY <2>1, <2>6, <2>7, <3>1 DEF RoundFits
  <2> HIDE DEF r
  <2>9. QED
    BY <2>4, <2>5, <2>8, RoundInvIsFits
<1>8. ASSUME LoopsInv, QueueInv, RoundInv, NEW l \in 1 .. MaxStarts, CutQueue(l) PROVE RoundInv'
  <2> DEFINE p == loops[l].at
             rest == [q \in DOMAIN loops[l].todo \ {p} |-> loops[l].todo[q]]
             r == IF DOMAIN rest = {} THEN Waiting(FALSE) ELSE Round(rest, NoPath)
  <2>1. /\ loops[l].st = "round" /\ p # NoPath
        /\ loops' = [loops EXCEPT ![l] = r]
        /\ queue' = [queue EXCEPT ![p] = Cut(@, Len(loops[l].todo[p]))]
        /\ UNCHANGED owed
    BY <1>8 DEF CutQueue, ghostVars
  <2>2. loops'[l] = r /\ \A k \in (1 .. MaxStarts) \ {l} : loops'[k] = loops[k]
    BY <1>8, <2>1 DEF LoopsInv
  <2>3. \A k \in (1 .. MaxStarts) \ {l} : loops[k].st # "round"
    BY <1>8, <2>1 DEF LoopsInv, Works
  <2>4. \A q \in Paths \ {p} : queue'[q] = queue[q]
    BY <1>8, <2>1 DEF QueueInv
  <2>5. /\ DOMAIN rest \subseteq Paths
        /\ \A q \in DOMAIN rest : rest[q] \in Seq(Write) /\ Heads(rest[q], queue'[q])
    BY <1>8, <2>1, <2>4 DEF RoundInv
  <2> HIDE DEF rest
  <2>6. RoundFits(Round(rest, NoPath), queue', owed')
    BY <2>5 DEF RoundFits, Round
  <2>7. RoundFits(Waiting(FALSE), queue', owed')
    BY DEF RoundFits, Waiting
  <2>8. RoundFits(r, queue', owed')
    BY <2>6, <2>7
  <2> HIDE DEF r
  <2>9. \A k \in (1 .. MaxStarts) \ {l} : RoundFits(loops'[k], queue', owed')
    BY <2>2, <2>3 DEF RoundFits
  <2>10. QED
    BY <2>2, <2>8, <2>9, RoundInvIsFits
<1>9. Stop \/ CloseStopChannel
      \/ (\E p \in Paths, S \in SUBSET (Nodes \ {Self}) : ChangeSubscribers(p, S))
      => UNCHANGED <<loops, queue, owed>>
  BY DEF Stop, CloseStopChannel, ChangeSubscribers, loopVars, ghostVars
<1>10. Aside \/ UNCHANGED vars => UNCHANGED <<loops, queue, owed>>
  BY AsideFrame DEF vars, loopVars
<1>11. QED
  BY <1>1, <1>2, <1>4, <1>5, <1>6, <1>7, <1>8, <1>9, <1>10, NextCases

\* SentOrQueued holds at first and every step keeps it.
LEMMA SentOrQueuedInductive ==
  /\ Init => SentOrQueued
  /\ LoopsInv /\ QueueInv /\ RoundInv /\ SentOrQueued /\ [Next]_vars => SentOrQueued'
<1>1. Init => SentOrQueued
  <2>1. Init => owed = {}
    BY DEF Init
  <2>2. QED
    BY <2>1 DEF SentOrQueued
<1>2. ASSUME SentOrQueued, UNCHANGED <<queue, owed>> PROVE SentOrQueued'
  BY <1>2 DEF SentOrQueued
<1>3. ASSUME QueueInv, SentOrQueued, NEW p \in Paths, RecordPathWrite(p)
      PROVE SentOrQueued'
  <2> DEFINE n == writes + 1
             w == [id |-> n, subs |-> subscribers[p]]
  <2>1. /\ owed' = owed \cup Owes(w)
        /\ \/ subscribers[p] = {} /\ queue' = queue
           \/ queue' = [queue EXCEPT ![p] = Append(queue[p], w)]
    BY <1>3 DEF RecordPathWrite, Enqueue
  <2>2. w.id = n /\ w.subs = subscribers[p] /\ w \in Write
    BY <1>3 DEF QueueInv, Write
  <2> HIDE DEF n, w
  <2>4. queue \in [Paths -> Seq(Write)]
    BY <1>3 DEF QueueInv
  <2>5. /\ Append(queue[p], w)[Len(queue[p]) + 1] = w
        /\ Len(queue[p]) + 1 \in 1 .. Len(Append(queue[p], w))
        /\ \A k \in 1 .. Len(queue[p]) : /\ k \in 1 .. Len(Append(queue[p], w))
                                         /\ Append(queue[p], w)[k] = queue[p][k]
    BY <2>2, <2>4
  <2>6. \A q \in Paths : \A k \in 1 .. Len(queue[q]) :
           k \in 1 .. Len(queue'[q]) /\ queue'[q][k] = queue[q][k]
    BY <2>1, <2>4, <2>5
  <2>7. ASSUME NEW o \in owed
        PROVE  \E q \in Paths : \E k \in 1 .. Len(queue'[q]) :
                 o \in Owes(queue'[q][k])
    <3>1. PICK q \in Paths : \E k \in 1 .. Len(queue[q]) :
                 o \in Owes(queue[q][k])
      BY <1>3 DEF SentOrQueued
    <3>2. PICK k \in 1 .. Len(queue[q]) : o \in Owes(queue[q][k])
      BY <3>1
    <3>3. QED
      BY <2>6, <3>2
  <2>8. ASSUME NEW o \in Owes(w)
        PROVE  \E q \in Paths : \E k \in 1 .. Len(queue'[q]) :
                 o \in Owes(queue'[q][k])
    <3>1. subscribers[p] # {}
      BY <2>2 DEF Owes
    <3>2. queue' = [queue EXCEPT ![p] = Append(queue[p], w)]
      BY <2>1, <3>1
    <3>3. queue'[p] = Append(queue[p], w)
      BY <2>4, <3>2
    <3>4. QED
      BY <2>5, <3>3
  <2>9. QED
    BY <2>1, <2>7, <2>8 DEF SentOrQueued
<1>4. ASSUME SentOrQueued, NEW l \in 1 .. MaxStarts, NEW p \in Paths, SendBatch(l, p)
      PROVE SentOrQueued'
  <2>1. UNCHANGED queue /\ owed' \subseteq owed
    BY <1>4 DEF SendBatch
  <2>2. QED
    BY <1>4, <2>1 DEF SentOrQueued
<1>5. ASSUME LoopsInv, QueueInv, RoundInv, SentOrQueued, NEW l \in 1 .. MaxStarts, CutQueue(l)
      PROVE SentOrQueued'
  <2> DEFINE p == loops[l].at
             b == loops[l].todo[p]
             n == Len(b)
  <2>1. /\ loops[l].st = "round" /\ p # NoPath
        /\ queue' = [queue EXCEPT ![p] = SubSeq(queue[p], n + 1, Len(queue[p]))]
        /\ UNCHANGED owed
    BY <1>5 DEF CutQueue, Cut, ghostVars
  <2>2. /\ p \in Paths /\ b \in Seq(Write) /\ n <= Len(queue[p])
        /\ \A k \in 1 .. n : b[k] = queue[p][k] /\ WasSent(b[k])
    BY <1>5, <2>1 DEF RoundInv, Heads
  <2>3. n \in Nat /\ queue[p] \in Seq(Write) /\ queue \in [Paths -> Seq(Write)]
    BY <1>5, <2>2 DEF QueueInv
  <2> HIDE DEF p, n, b
  <2>4. /\ queue'[p] = SubSeq(queue[p], n + 1, Len(queue[p]))
        /\ \A q \in Paths \ {p} : queue'[q] = queue[q]
    BY <2>1, <2>2, <2>3
  <2>5. /\ Len(queue'[p]) = Len(queue[p]) - n
        /\ \A k \in 1 .. (Len(queue[p]) - n) : queue'[p][k] = queue[p][k + n]
    BY <2>2, <2>3, <2>4
  <2>6. ASSUME NEW k \in 1 .. Len(queue[p]), k > n
        PROVE  k - n \in 1 .. Len(queue'[p]) /\ queue'[p][k - n] = queue[p][k]
    <3>1. k - n \in 1 .. (Len(queue[p]) - n) /\ (k - n) + n = k
      BY <2>2, <2>3, <2>6
    <3>2. QED
      BY <2>5, <3>1
  <2>7. ASSUME NEW o \in owed
        PROVE  \E q \in Paths : \E k \in 1 .. Len(queue'[q]) :
                 o \in Owes(queue'[q][k])
    <3>1. PICK q \in Paths : \E k \in 1 .. Len(queue[q]) :
                 o \in Owes(queue[q][k])
      BY <1>5 DEF SentOrQueued
    <3>2. PICK k \in 1 .. Len(queue[q]) : o \in Owes(queue[q][k])
      BY <3>1
    <3>3. CASE q # p
      BY <2>4, <3>2, <3>3
    <3>4. CASE q = p /\ k > n
      BY <2>2, <2>6, <3>2, <3>4
    <3>5. CASE q = p /\ k <= n
      <4>1. k \in 1 .. n
        BY <2>3, <3>5
      <4>2. WasSent(queue[p][k])
        BY <2>2, <4>1
      <4>3. QED
        BY <3>2, <3>5, <4>2 DEF WasSent
    <3>6. k > n \/ k <= n
      BY <2>3
    <3>7. QED
      BY <3>3, <3>4, <3>5, <3>6
  <2>8. QED
    BY <1>5, <2>1, <2>7 DEF SentOrQueued
<1>6. \/ Stop \/ CloseStopChannel
      \/ (\E p \in Paths, S \in SUBSET (Nodes \ {Self}) : ChangeSubscribers(p, S))
      \/ (\E l \in 1 .. MaxStarts : Start(l) \/ BeginRound(l) \/ EndLoop(l))
      => UNCHANGED <<queue, owed>>
  BY DEF Stop, CloseStopChannel, ChangeSubscribers, Start, BeginRound, EndLoop, ghostVars
<1>7. Aside \/ UNCHANGED vars => UNCHANGED <<queue, owed>>
  BY AsideFrame DEF vars
<1>8. QED
  BY <1>1, <1>2, <1>3, <1>4, <1>5, <1>6, <1>7, NextCases

\* The invariants together.
ReplicationInv == LoopsInv /\ QueueInv /\ RoundInv /\ SentOrQueued

\* A Start in the middle of a Stop is remembered.
LEMMA RacedStays == [Next]_vars /\ raced => raced'
<1>1. ASSUME NEW l \in 1 .. MaxStarts, Start(l), raced PROVE raced'
  BY <1>1 DEF Start
<1>2. \/ Aside \/ Stop \/ CloseStopChannel
      \/ (\E p \in Paths : RecordPathWrite(p))
      \/ (\E p \in Paths, S \in SUBSET (Nodes \ {Self}) : ChangeSubscribers(p, S))
      \/ (\E l \in 1 .. MaxStarts : \/ BeginRound(l) \/ EndLoop(l) \/ CutQueue(l)
                                    \/ \E p \in Paths : SendBatch(l, p))
      \/ UNCHANGED vars
      => raced' = raced
  BY AsideFrame DEF Stop, CloseStopChannel, RecordPathWrite, ChangeSubscribers, BeginRound,
     EndLoop, CutQueue, SendBatch, vars, loopVars
<1>3. QED
  BY <1>1, <1>2, NextCases

\* The four parts together hold until a Start comes in the middle of a Stop.
LEMMA ReplicationInvAlways == Spec => [](raced \/ ReplicationInv)
<1>1. Init => ReplicationInv
  BY LoopsInvInductive, QueueInvInductive, RoundInvInductive, SentOrQueuedInductive
     DEF ReplicationInv
<1>2. ReplicationInv /\ ~ raced' /\ [Next]_vars => ReplicationInv'
  BY LoopsInvInductive, QueueInvInductive, RoundInvInductive, SentOrQueuedInductive
     DEF ReplicationInv
<1>3. QED
  BY <1>1, <1>2, RacedStays, PTL DEF Spec

\* The invariant says more than that rounds fit.
LEMMA RoundsFitFromInv == ReplicationInv => CopiesHeadQueues
<1>1. SUFFICES ASSUME ReplicationInv, NEW l \in 1 .. MaxStarts, loops[l].st = "round",
                      NEW p \in DOMAIN loops[l].todo
               PROVE  IsPrefix(loops[l].todo[p], queue[p])
  BY DEF CopiesHeadQueues
<1>2. p \in Paths /\ loops[l].todo[p] \in Seq(Write) /\ Heads(loops[l].todo[p], queue[p])
  BY <1>1 DEF ReplicationInv, RoundInv
<1>3. queue[p] \in Seq(Write)
  BY <1>1, <1>2 DEF ReplicationInv, QueueInv
<1>4. QED
  BY <1>2, <1>3, PrefixPointwise

\* What a round copied still heads its queue when it is cut (replicationLoop,
\* replicatePathWrites), however often the manager is started and stopped: the
\* only order of steps that breaks it is a Start between the Unlock and the
\* close of a Stop.
THEOREM RoundsCutWhatTheySent == Spec => []RoundsFit
<1>1. raced \/ ReplicationInv => RoundsFit
  BY RoundsFitFromInv DEF RoundsFit
<1>2. QED
  BY <1>1, ReplicationInvAlways, PTL

\* No recorded write leaves its queue without having been sent to everyone it
\* was recorded for (RecordPathWrite, replicatePathWrites), with the same one
\* exception.
THEOREM NoWriteIsDropped == Spec => []WritesSentOrQueued
<1>1. raced \/ ReplicationInv => WritesSentOrQueued
  BY DEF ReplicationInv, WritesSentOrQueued
<1>2. QED
  BY <1>1, ReplicationInvAlways, PTL

\* A manager that is started once has no Start in the middle of a Stop.
OneStartInv ==
  /\ ~ raced
  /\ DOMAIN loops = {1}
  /\ closing \in Nat
  /\ isRunning => loops[1] # NotStarted /\ closing = 0
  /\ closing > 0 => loops[1] # NotStarted

\* A manager started once is never marked running while a Stop is under way.
LEMMA OneStartInductive ==
  ASSUME MaxStarts = 1
  PROVE  /\ Init => OneStartInv
         /\ OneStartInv /\ [Next]_vars => OneStartInv'
<1>0. 1 .. MaxStarts = {1}
  OBVIOUS
<1>1. Init => OneStartInv
  <2>1. Init => DOMAIN loops = {1} /\ closing = 0
    BY <1>0 DEF Init
  <2>2. Init => ~ isRunning /\ ~ raced
    BY DEF Init
  <2>3. QED
    BY <2>1, <2>2 DEF OneStartInv
<1>2. ASSUME OneStartInv, UNCHANGED loopVars PROVE OneStartInv'
  BY <1>2 DEF OneStartInv, loopVars
<1>3. ASSUME OneStartInv, Start(1) PROVE OneStartInv'
  <2>1. /\ loops[1] = NotStarted /\ closing' = closing
        /\ DOMAIN loops' = DOMAIN loops /\ loops'[1] = Waiting(TRUE)
    BY <1>3 DEF Start, OneStartInv
  <2>2. closing = 0
    BY <1>3, <2>1 DEF OneStartInv
  <2>5. ~ raced'
    <3>1. ~ (closing > 0)
      BY <2>2
    <3>2. raced' = (raced \/ closing > 0) /\ ~ raced
      BY <1>3 DEF Start, OneStartInv
    <3>3. QED
      BY <3>1, <3>2, Zenon
  <2>3. Waiting(TRUE) # NotStarted
    BY DEF Waiting, NotStarted
  <2>4. QED
    BY <1>3, <2>1, <2>2, <2>3, <2>5 DEF OneStartInv
<1>4. ASSUME OneStartInv, Stop PROVE OneStartInv'
  <2>1. isRunning /\ ~ isRunning' /\ closing' = closing + 1 /\ loops' = loops /\ raced' = raced
    BY <1>4 DEF Stop
  <2>2. closing' \in Nat
    BY <1>4, <2>1 DEF OneStartInv
  <2>3. QED
    BY <1>4, <2>1, <2>2 DEF OneStartInv
<1>5. ASSUME OneStartInv, CloseStopChannel PROVE OneStartInv'
  <2>1. closing > 0 /\ closing' = closing - 1 /\ UNCHANGED <<isRunning, loops, raced>>
    BY <1>5 DEF CloseStopChannel
  <2>2. closing \in Nat /\ closing' \in Nat /\ closing # 0
    BY <1>5, <2>1 DEF OneStartInv
  <2>3. ~ isRunning /\ loops[1] # NotStarted
    BY <1>5, <2>1, <2>2 DEF OneStartInv
  <2>4. QED
    BY <1>5, <2>1, <2>2, <2>3 DEF OneStartInv
<1>6. ASSUME OneStartInv, UNCHANGED <<isRunning, closing, raced>>, DOMAIN loops' = DOMAIN loops,
             loops'[1] # NotStarted
      PROVE OneStartInv'
  BY <1>6 DEF OneStartInv
<1>7. ASSUME OneStartInv, BeginRound(1) \/ EndLoop(1) \/ CutQueue(1)
                          \/ \E p \in Paths : SendBatch(1, p)
      PROVE OneStartInv'
  <2>1. UNCHANGED <<isRunning, closing, raced>> /\ DOMAIN loops' = DOMAIN loops
    BY <1>7 DEF BeginRound, EndLoop, CutQueue, SendBatch
  <2>2. \E r : loops' = [loops EXCEPT ![1] = r] /\ r.st # "none"
    <3>1. Waiting(FALSE).st # "none" /\ Ended.st # "none"
          /\ \A todo, at : Round(todo, at).st # "none"
      BY DEF Waiting, Ended, Round
    <3>2. CASE BeginRound(1)
      BY <3>1, <3>2 DEF BeginRound
    <3>3. CASE EndLoop(1)
      BY <3>1, <3>3 DEF EndLoop
    <3>4. CASE CutQueue(1)
      <4> DEFINE rest == [q \in DOMAIN loops[1].todo \ {loops[1].at} |-> loops[1].todo[q]]
                 r == IF DOMAIN rest = {} THEN Waiting(FALSE) ELSE Round(rest, NoPath)
      <4>1. loops' = [loops EXCEPT ![1] = r]
        BY <3>4 DEF CutQueue
      <4>2. r.st # "none"
        BY <3>1
      <4> HIDE DEF r
      <4>3. QED
        BY <4>1, <4>2
    <3>5. CASE \E p \in Paths : SendBatch(1, p)
      <4>1. PICK p \in Paths : loops' = [loops EXCEPT ![1] = Round(loops[1].todo, p)]
        BY <3>5 DEF SendBatch
      <4>2. QED
        BY <3>1, <4>1
    <3>6. QED
      BY <1>7, <3>2, <3>3, <3>4, <3>5
  <2>3. loops'[1] # NotStarted
    BY <1>7, <2>2 DEF OneStartInv, NotStarted
  <2>4. QED
    BY <1>6, <1>7, <2>1, <2>3
<1>8. Aside \/ (\E p \in Paths : RecordPathWrite(p))
      \/ (\E p \in Paths, S \in SUBSET (Nodes \ {Self}) : ChangeSubscribers(p, S))
      \/ UNCHANGED vars
      => UNCHANGED loopVars
  BY AsideFrame DEF RecordPathWrite, ChangeSubscribers, vars, loopVars
<1>9. QED
  BY <1>0, <1>1, <1>2, <1>3, <1>4, <1>5, <1>7, <1>8, NextCases

\* A manager that is started once drops no write and cuts what it sent,
\* however it is stopped (RecordPathWrite, replicationLoop, Stop).
THEOREM OneStartIsSafe ==
  ASSUME MaxStarts = 1
  PROVE  Spec => []CopiesHeadQueues /\ []SentOrQueued
<1>1. OneStartInv /\ (raced \/ ReplicationInv) => CopiesHeadQueues /\ SentOrQueued
  BY RoundsFitFromInv DEF OneStartInv, ReplicationInv
<1>2. Init => OneStartInv
  BY OneStartInductive
<1>3. OneStartInv /\ [Next]_vars => OneStartInv'
  BY OneStartInductive
<1>4. QED
  BY <1>1, <1>2, <1>3, ReplicationInvAlways, PTL DEF Spec
=============================================================================
