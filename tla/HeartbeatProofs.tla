-------------------------- MODULE HeartbeatProofs --------------------------
(* Theorems about Heartbeat, for any watchers, bodies, paths and bounds.   *)
EXTENDS Heartbeat, TLAPS

\* A loop exists exactly while the engine runs or a Stop waits for it.
LoopInv ==
    /\ running \in BOOLEAN /\ stopping \in BOOLEAN
    /\ ~(running /\ stopping)
    /\ running \/ stopping => loops = 1
    /\ ~running /\ ~stopping => loops = 0

\* Until a coordinated tick flushes, the tree is as the tick found it, the
\* changes of clients apart, which RollBack does not undo either.
TreeInv ==
    /\ coordinated /\ phase = "executing" => stored = before
    /\ coordinated => torn # "unknown"

\* LoopInv holds at first and every step keeps it.
LEMMA LoopInvInductive ==
    /\ Init => LoopInv
    /\ LoopInv /\ [Next]_vars => LoopInv'
<1>1. Init => LoopInv
  BY DEF Init, LoopInv
<1>2. ASSUME LoopInv, Start PROVE LoopInv'
  BY <1>2 DEF LoopInv, Start, MayStart
<1>3. ASSUME LoopInv, Stop PROVE LoopInv'
  BY <1>3 DEF LoopInv, Stop
<1>4. ASSUME LoopInv, ReceiveStop PROVE LoopInv'
  <2>1. running = FALSE /\ loops = 1
    BY <1>4 DEF LoopInv, ReceiveStop
  <2>2. running' = FALSE /\ stopping' = FALSE /\ loops' = loops - 1
    BY <1>4, <2>1 DEF ReceiveStop
  <2>3. loops' = 0
    BY <2>1, <2>2
  <2>4. QED
    BY <2>2, <2>3 DEF LoopInv
<1>5. ASSUME LoopInv, UNCHANGED control PROVE LoopInv'
  BY <1>5 DEF LoopInv, control
<1>6. Client => Start \/ Stop \/ UNCHANGED control
  BY DEF Client, RecordChange, RecordAppend, RegisterWatcher, RemoveWatcher, EnableWatcher, control
<1>7. Loop => UNCHANGED control
  <2>1. Execute => UNCHANGED control
    BY DEF Execute, CommitDirect, CommitDirectFails, CommitStaged, Discard, Run, control
  <2>2. QED
    BY <2>1 DEF Loop, IdleTick, BeginTick, RollBackUnknown, Flush, FlushFails,
                CloseTick, CommitCascadeChanges, control
<1>8. QED
  BY <1>1, <1>2, <1>3, <1>4, <1>5, <1>6, <1>7 DEF Next, vars, control

\* Two loops never run at once (HeartbeatEngine.Start and Stop): for any
\* number of calls in any order.
THEOREM NeverTwoLoops == Spec => []OneLoop
<1>1. LoopInv => OneLoop
  BY DEF LoopInv, OneLoop
<1>2. QED
  BY <1>1, LoopInvInductive, PTL DEF Spec

\* TreeInv holds at first and every step keeps it.
LEMMA TreeInvInductive ==
    /\ Init => TreeInv
    /\ TreeInv /\ [Next]_vars => TreeInv'
<1>1. Init => TreeInv
  BY DEF Init, TreeInv
<1>2. ASSUME TreeInv, Client PROVE TreeInv'
  <2>1. CASE \E p \in Paths, v \in Values : RecordChange(p, v)
    <3>1. PICK p \in Paths, v \in Values : RecordChange(p, v)
      BY <2>1
    <3>2. UNCHANGED <<coordinated, phase, torn>>
      BY <3>1 DEF RecordChange
    <3>3. stored' = [stored EXCEPT ![p] = v]
      BY <3>1 DEF RecordChange
    <3>4. phase = "executing" => before' = [before EXCEPT ![p] = v]
      BY <3>1 DEF RecordChange
    <3>5. QED
      BY <1>2, <3>2, <3>3, <3>4 DEF TreeInv
  <2>2. CASE UNCHANGED <<coordinated, stored, phase, before, torn>>
    BY <1>2, <2>2 DEF TreeInv
  <2>3. QED
    BY <1>2, <2>1, <2>2 DEF Client, RecordAppend, RegisterWatcher, RemoveWatcher,
                            EnableWatcher, Start, Stop, ghosts
<1>3. ASSUME TreeInv, Execute PROVE TreeInv'
  <2>1. Execute => UNCHANGED <<coordinated, phase, before, torn>> /\ phase = "executing"
    BY DEF Execute, CommitDirect, CommitDirectFails, CommitStaged, Discard, Run
  <2>2. Execute => ~coordinated \/ stored' = stored
    BY DEF Execute, CommitDirect, CommitDirectFails, CommitStaged, Discard
  <2>3. QED
    BY <1>3, <2>1, <2>2 DEF TreeInv
<1>4. ASSUME TreeInv, RollBackUnknown PROVE TreeInv'
  BY <1>4 DEF TreeInv, RollBackUnknown, RollBack
<1>5. ASSUME TreeInv, FlushFails PROVE TreeInv'
  BY <1>5 DEF TreeInv, FlushFails, RollBack
<1>6. ASSUME TreeInv, BeginTick PROVE TreeInv'
  BY <1>6 DEF TreeInv, BeginTick
<1>7. ASSUME TreeInv, IdleTick \/ Flush \/ CloseTick \/ CommitCascadeChanges PROVE TreeInv'
  <2>1. UNCHANGED <<coordinated, torn>>
    BY <1>7 DEF IdleTick, Flush, CloseTick, CommitCascadeChanges, ghosts
  <2>2. phase' # "executing"
    BY <1>7 DEF IdleTick, Flush, CloseTick, CommitCascadeChanges
  <2>3. QED
    BY <1>7, <2>1, <2>2 DEF TreeInv
<1>8. ASSUME TreeInv, ReceiveStop PROVE TreeInv'
  BY <1>8 DEF TreeInv, ReceiveStop, ghosts
<1>9. ASSUME TreeInv, UNCHANGED vars PROVE TreeInv'
  BY <1>9 DEF TreeInv, vars, ghosts
<1>10. QED
  BY <1>1, <1>2, <1>3, <1>4, <1>5, <1>6, <1>7, <1>8, <1>9 DEF Next, Loop

\* With a coordinator, a tick that an Unknown rolls back leaves no write of
\* its watchers in the tree (DiscardAll), whatever the watchers write.
THEOREM RollbacksAreComplete == Spec => []RollbackRestores
<1>1. TreeInv => RollbackRestores
  BY DEF TreeInv, RollbackRestores
<1>2. QED
  BY <1>1, TreeInvInductive, PTL DEF Spec

\* The cascade holds a path that concerns w.
Cascading(w) == \E p \in cascade : w \in ChangeConcerns(p)

\* Where the changes that call for a watcher are, at each point of a tick.
LostInv ==
    /\ phase \in {"idle", "executing", "tick", "cascade"}
    /\ appendLog \in [Paths -> AppendEvents]
    /\ \A w \in owed \cup owedNext : Active(w)
    /\ phase = "idle" => cascade = {}
    /\ phase \in {"idle", "executing"} => \A w \in owed : w \in GetTriggeredWatchers /\ w \notin Filtering
    /\ phase = "executing" => owed \subseteq ran \cup triggered
    /\ \A w \in owedNext : Cascading(w) /\ w \notin Filtering
    /\ phase \in {"tick", "cascade"} => \A w \in owed : Cascading(w) /\ w \notin Filtering
    /\ phase # "executing" => ran = {} /\ owedNext = {}

\* GetTriggeredWatchers collects the watchers of the change log and those of
\* the append log.
LEMMA TriggeredMembers ==
    ASSUME NEW w
    PROVE  w \in GetTriggeredWatchers <=>
              \/ \E q \in changeLog : w \in ChangeConcerns(q)
              \/ \E p \in Paths : appendLog[p] # "none" /\ w \in AppendConcerns(p, appendLog[p])
<1> DEFINE Appended == {q \in Paths : appendLog[q] # "none"}
           ByChange == {ChangeConcerns(q) : q \in changeLog}
           ByAppend == {AppendConcerns(p, appendLog[p]) : p \in Appended}
<1>1. w \in GetTriggeredWatchers <=> w \in UNION ByChange \/ w \in UNION ByAppend
  BY DEF GetTriggeredWatchers
<1>2. w \in UNION ByChange <=> \E q \in changeLog : w \in ChangeConcerns(q)
  OBVIOUS
<1>3. w \in UNION ByAppend <=> \E p \in Appended : w \in AppendConcerns(p, appendLog[p])
  <2> HIDE DEF Appended
  <2> QED OBVIOUS
<1>4. QED
  BY <1>1, <1>2, <1>3

\* The same of the state after a step.
LEMMA TriggeredNext ==
    ASSUME NEW w,
           \/ \E q \in changeLog' : w \in ChangeConcerns(q)'
           \/ \E p \in Paths : appendLog'[p] # "none" /\ w \in AppendConcerns(p, appendLog[p])'
    PROVE  w \in GetTriggeredWatchers'
<1> DEFINE Appended == {q \in Paths : appendLog'[q] # "none"}
           ByChange == {ChangeConcerns(q)' : q \in changeLog'}
           ByAppend == {AppendConcerns(p, appendLog[p])' : p \in Appended}
<1>1. GetTriggeredWatchers' = (UNION ByChange) \cup (UNION ByAppend)
  BY DEF GetTriggeredWatchers
<1>2. ASSUME NEW q \in changeLog', w \in ChangeConcerns(q)' PROVE w \in UNION ByChange
  BY <1>2
<1>3. ASSUME NEW p \in Paths, appendLog'[p] # "none", w \in AppendConcerns(p, appendLog[p])'
      PROVE w \in UNION ByAppend
  <2>1. p \in Appended
    BY <1>3
  <2> HIDE DEF Appended
  <2>2. QED
    BY <1>3, <2>1
<1>4. QED
  BY <1>1, <1>2, <1>3

\* A watcher without a filter stays triggered while it is active, the log
\* keeps its changes and an append event is only replaced by another.
LEMMA TriggeredStay ==
    ASSUME NEW w, w \in GetTriggeredWatchers, w \notin Filtering, Active(w)',
           changeLog \subseteq changeLog',
           \A p \in Paths : appendLog[p] # "none" => appendLog'[p] # "none"
    PROVE  w \in GetTriggeredWatchers'
<1>1. CASE \E q \in changeLog : w \in ChangeConcerns(q)
  <2>1. PICK q \in changeLog : w \in ChangeConcerns(q)
    BY <1>1
  <2>2. q \in changeLog' /\ w \in ChangeConcerns(q)'
    BY <2>1 DEF ChangeConcerns
  <2>3. QED
    BY <2>2, TriggeredNext
<1>2. CASE \E p \in Paths : appendLog[p] # "none" /\ w \in AppendConcerns(p, appendLog[p])
  <2>1. PICK p \in Paths : appendLog[p] # "none" /\ w \in AppendConcerns(p, appendLog[p])
    BY <1>2
  <2>2. appendLog'[p] # "none" /\ w \in AppendConcerns(p, appendLog[p])'
    BY <2>1 DEF AppendConcerns
  <2>3. QED
    BY <2>2, TriggeredNext
<1>3. QED
  BY <1>1, <1>2, TriggeredMembers

\* A cascade that only grows goes on to concern a watcher that stays active.
LEMMA CascadingStays ==
    ASSUME NEW w, Cascading(w), Active(w)', cascade \subseteq cascade'
    PROVE  Cascading(w)'
BY DEF Cascading, ChangeConcerns

\* What the change of a path calls for has no filter and is active.
LEMMA ConcernedAreActive ==
    ASSUME NEW q, NEW w \in ChangeConcerns(q)
    PROVE  Active(w) /\ w \notin Filtering
BY HeartbeatAssumption DEF ChangeConcerns

\* LostInv holds at first and every step keeps it.
LEMMA LostInvInductive ==
    /\ Init => LostInv
    /\ LostInv /\ [Next]_vars => LostInv'
<1>1. Init => LostInv
  BY DEF Init, LostInv, NoAppends, AppendEvents
<1>2. ASSUME LostInv, UNCHANGED <<watchers, changeLog, appendLog, cascade, triggered, phase,
                                  owed, ran, owedNext>>
      PROVE LostInv'
  BY <1>2 DEF LostInv, Active, Cascading, GetTriggeredWatchers, ChangeConcerns, AppendConcerns
\* A client's call that adds to the logs and leaves active what is owed.
<1>3. ASSUME LostInv, UNCHANGED <<cascade, triggered, phase, ran>>,
             owedNext' \subseteq owedNext,
             changeLog \subseteq changeLog', appendLog' \in [Paths -> AppendEvents],
             \A p \in Paths : appendLog[p] # "none" => appendLog'[p] # "none",
             \A w \in owed' \cup owedNext' : Active(w)',
             \A w \in owed' : w \in owed \/ (/\ phase = "idle" /\ w \notin Filtering
                                             /\ w \in GetTriggeredWatchers')
      PROVE LostInv'
  <2>1. phase' \in {"idle", "executing"}
        => \A w \in owed' : w \in GetTriggeredWatchers' /\ w \notin Filtering
    BY <1>3, TriggeredStay DEF LostInv
  <2>2. \A w \in owedNext' : Cascading(w)' /\ w \notin Filtering
    BY <1>3, CascadingStays DEF LostInv
  <2>3. phase' \in {"tick", "cascade"} => \A w \in owed' : Cascading(w)' /\ w \notin Filtering
    BY <1>3, CascadingStays DEF LostInv
  <2>4. phase' = "executing" => owed' \subseteq ran' \cup triggered'
    BY <1>3 DEF LostInv
  <2>5. phase' # "executing" => ran' = {} /\ owedNext' = {}
    BY <1>3 DEF LostInv
  <2>6. QED
    BY <1>3, <2>1, <2>2, <2>3, <2>4, <2>5 DEF LostInv
<1>4. ASSUME LostInv, NEW p \in Paths, NEW v \in Values, RecordChange(p, v) PROVE LostInv'
  <2>1. /\ UNCHANGED <<watchers, appendLog, cascade, triggered, phase, ran, owedNext>>
        /\ changeLog' = changeLog \cup {p}
        /\ owed' = IF phase = "idle" THEN owed \cup ChangeConcerns(p) ELSE owed
    BY <1>4 DEF RecordChange, tick
  <2>2. \A w : Active(w)' <=> Active(w)
    BY <2>1 DEF Active
  <2>3. \A w \in ChangeConcerns(p) : Active(w) /\ w \notin Filtering /\ w \in ChangeConcerns(p)'
    BY <2>1, ConcernedAreActive DEF ChangeConcerns, Active
  <2>4. \A w \in ChangeConcerns(p) : w \in GetTriggeredWatchers'
    BY <2>1, <2>3 DEF GetTriggeredWatchers
  <2>5. \A w \in owed' : w \in owed \/ (/\ phase = "idle" /\ w \notin Filtering
                                        /\ w \in GetTriggeredWatchers')
    BY <2>1, <2>3, <2>4
  <2>6. \A w \in owed' \cup owedNext' : Active(w)'
    BY <1>4, <2>1, <2>2, <2>3 DEF LostInv
  <2>7. appendLog' \in [Paths -> AppendEvents]
    BY <1>4, <2>1 DEF LostInv
  <2>8. QED
    BY <1>3, <1>4, <2>1, <2>5, <2>6, <2>7
<1>5. ASSUME LostInv, NEW p \in Lists, NEW e \in AppendEvents \ {"none"}, RecordAppend(p, e)
      PROVE LostInv'
  <2>1. /\ UNCHANGED <<watchers, changeLog, cascade, triggered, phase, ran, owedNext>>
        /\ appendLog' = [appendLog EXCEPT ![p] = e]
        /\ owed' = IF phase = "idle" THEN owed \cup (AppendConcerns(p, e) \ Filtering) ELSE owed
    BY <1>5 DEF RecordAppend, tick
  <2>2. \A w : Active(w)' <=> Active(w)
    BY <2>1 DEF Active
  <2>3. /\ p \in Paths /\ appendLog' \in [Paths -> AppendEvents] /\ appendLog'[p] = e
        /\ \A q \in Paths : appendLog[q] # "none" => appendLog'[q] # "none"
    BY <1>5, <2>1, HeartbeatAssumption DEF LostInv
  <2>4. \A w \in AppendConcerns(p, e) \ Filtering :
           Active(w) /\ w \in AppendConcerns(p, appendLog[p])'
    BY <2>1 DEF AppendConcerns, Active
  <2>5. \A w \in AppendConcerns(p, e) \ Filtering : w \in GetTriggeredWatchers'
    BY <2>3, <2>4, TriggeredNext
  <2>6. \A w \in owed' : w \in owed \/ (/\ phase = "idle" /\ w \notin Filtering
                                        /\ w \in GetTriggeredWatchers')
    BY <2>1, <2>5
  <2>7. \A w \in owed' \cup owedNext' : Active(w)'
    BY <1>5, <2>1, <2>2, <2>4 DEF LostInv
  <2>8. QED
    BY <1>3, <1>5, <2>1, <2>3, <2>6, <2>7
<1>6. ASSUME LostInv, UNCHANGED <<changeLog, appendLog, cascade, triggered, phase, ran>>,
             owedNext' \subseteq owedNext, owed' \subseteq owed,
             \A w \in owed' \cup owedNext' : Active(w) => Active(w)'
      PROVE LostInv'
  <2>1. \A w \in owed' \cup owedNext' : Active(w)'
    BY <1>6 DEF LostInv
  <2>2. appendLog' \in [Paths -> AppendEvents]
    BY <1>6 DEF LostInv
  <2>3. QED
    BY <1>3, <1>6, <2>1, <2>2
<1>7. ASSUME LostInv, NEW w \in Watchers, RegisterWatcher(w) \/ RemoveWatcher(w) PROVE LostInv'
  <2>1. UNCHANGED <<changeLog, appendLog, cascade, triggered, phase, ran>>
    BY <1>7 DEF RegisterWatcher, RemoveWatcher, tick, ghosts
  <2>2. owedNext' \subseteq owedNext /\ owed' \subseteq owed
    BY <1>7 DEF RegisterWatcher, RemoveWatcher, ghosts
  <2>3. \A x \in owed' \cup owedNext' : Active(x) => Active(x)'
    BY <1>7 DEF RegisterWatcher, RemoveWatcher, Active
  <2>4. QED
    BY <1>6, <1>7, <2>1, <2>2, <2>3
<1>8. ASSUME LostInv, NEW w \in Watchers, NEW on \in BOOLEAN, EnableWatcher(w, on) PROVE LostInv'
  <2>1. UNCHANGED <<changeLog, appendLog, cascade, triggered, phase, ran>>
    BY <1>8 DEF EnableWatcher, tick
  <2>2. owedNext' \subseteq owedNext /\ owed' \subseteq owed
        /\ (w \in owed' \cup owedNext' => on)
    BY <1>8 DEF EnableWatcher
  <2>3. DOMAIN watchers' = DOMAIN watchers
        /\ \A x \in DOMAIN watchers : watchers'[x] = IF x = w THEN on ELSE watchers[x]
    BY <1>8 DEF EnableWatcher
  <2>4. \A x \in owed' \cup owedNext' : Active(x) => Active(x)'
    BY <2>2, <2>3 DEF Active
  <2>5. QED
    BY <1>6, <1>8, <2>1, <2>2, <2>4
<1>9. ASSUME LostInv, IdleTick PROVE LostInv'
  <2>1. /\ UNCHANGED <<watchers, cascade, triggered, phase, owed, ran, owedNext>>
        /\ phase = "idle" /\ GetTriggeredWatchers = {} /\ appendLog' = NoAppends
    BY <1>9 DEF IdleTick, tick
  <2>2. owed = {} /\ owedNext = {}
    BY <1>9, <2>1 DEF LostInv
  <2>3. QED
    BY <1>9, <2>1, <2>2 DEF LostInv, NoAppends, AppendEvents
<1>10. ASSUME LostInv, BeginTick PROVE LostInv'
  <2>1. /\ UNCHANGED <<watchers, changeLog, appendLog, cascade, owed, ran, owedNext>>
        /\ phase = "idle" /\ phase' = "executing" /\ triggered' = GetTriggeredWatchers
    BY <1>10 DEF BeginTick, engine
  <2>2. \A w : Active(w)' <=> Active(w)
    BY <2>1 DEF Active
  <2>3. GetTriggeredWatchers' = GetTriggeredWatchers
    BY <2>1 DEF GetTriggeredWatchers, ChangeConcerns, AppendConcerns, Active
  <2>4. owed \subseteq triggered' /\ owedNext = {}
    BY <1>10, <2>1 DEF LostInv
  <2>5. QED
    BY <1>10, <2>1, <2>2, <2>3, <2>4 DEF LostInv
<1>11. ASSUME LostInv, Execute PROVE LostInv'
  <2>0. PICK w \in triggered : Run(w) /\ \E paths : Announce(paths)
    BY <1>11 DEF Execute, CommitDirect, CommitDirectFails, CommitStaged, Discard
  <2>1. PICK paths : Run(w) /\ Announce(paths)
    BY <2>0
  <2>2. /\ UNCHANGED <<watchers, changeLog, appendLog, phase, owed>> /\ phase = "executing"
        /\ triggered' = triggered \ {w} /\ ran' = ran \cup {w}
        /\ cascade' = cascade \cup paths
        /\ owedNext' = owedNext \cup UNION {ChangeConcerns(p) : p \in paths}
    BY <2>1 DEF Run, Announce, engine
  <2>3. \A x : Active(x)' <=> Active(x)
    BY <2>2 DEF Active
  <2>4. GetTriggeredWatchers' = GetTriggeredWatchers
    BY <2>2 DEF GetTriggeredWatchers, ChangeConcerns, AppendConcerns, Active
  <2>5. \A p : \A x \in ChangeConcerns(p) : x \in ChangeConcerns(p)'
    BY <2>2 DEF ChangeConcerns, Active
  <2>6. \A x \in owedNext' : Cascading(x)' /\ x \notin Filtering /\ Active(x)'
    <3>1. TAKE x \in owedNext'
    <3>2. CASE x \in owedNext
      BY <1>11, <2>2, <2>3, <3>2, CascadingStays DEF LostInv
    <3>3. CASE \E p \in paths : x \in ChangeConcerns(p)
      BY <2>2, <2>3, <2>5, <3>3, ConcernedAreActive DEF Cascading
    <3>4. QED
      BY <2>2, <3>2, <3>3
  <2>7. QED
    BY <1>11, <2>2, <2>3, <2>4, <2>6 DEF LostInv
<1>12. ASSUME LostInv, RollBackUnknown \/ FlushFails PROVE LostInv'
  <2>1. /\ UNCHANGED <<watchers, changeLog, appendLog, triggered, owed>> /\ phase = "executing"
        /\ phase' = "idle" /\ cascade' = {} /\ ran' = {} /\ owedNext' = {}
    BY <1>12 DEF RollBackUnknown, FlushFails, RollBack, engine
  <2>2. \A x : Active(x)' <=> Active(x)
    BY <2>1 DEF Active
  <2>3. GetTriggeredWatchers' = GetTriggeredWatchers
    BY <2>1 DEF GetTriggeredWatchers, ChangeConcerns, AppendConcerns, Active
  <2>4. QED
    BY <1>12, <2>1, <2>2, <2>3 DEF LostInv
<1>13. ASSUME LostInv, Flush PROVE LostInv'
  <2>1. /\ UNCHANGED <<watchers, changeLog, appendLog, triggered, cascade>>
        /\ phase = "executing" /\ triggered = {} /\ phase' = "tick"
        /\ owed' = (owed \ ran) \cup owedNext /\ ran' = {} /\ owedNext' = {}
    BY <1>13 DEF Flush, engine
  <2>2. owed' = owedNext
    BY <1>13, <2>1 DEF LostInv
  <2>3. \A x : Active(x)' <=> Active(x)
    BY <2>1 DEF Active
  <2>4. \A x \in owed' : Cascading(x)' /\ x \notin Filtering
    BY <1>13, <2>1, <2>2, <2>3, CascadingStays DEF LostInv
  <2>5. QED
    BY <1>13, <2>1, <2>2, <2>3, <2>4 DEF LostInv
<1>14. ASSUME LostInv, CloseTick PROVE LostInv'
  <2>1. /\ UNCHANGED <<watchers, triggered, cascade, owed, ran, owedNext>>
        /\ phase = "tick" /\ phase' = "cascade" /\ appendLog' = NoAppends
    BY <1>14 DEF CloseTick, tick, ghosts
  <2>2. \A x : Active(x)' <=> Active(x)
    BY <2>1 DEF Active
  <2>3. \A x \in owed' : Cascading(x)' /\ x \notin Filtering
    BY <1>14, <2>1, <2>2, CascadingStays DEF LostInv
  <2>4. QED
    BY <1>14, <2>1, <2>2, <2>3 DEF LostInv, NoAppends, AppendEvents
<1>15. ASSUME LostInv, CommitCascadeChanges PROVE LostInv'
  <2>1. /\ UNCHANGED <<watchers, appendLog, ran, owedNext>>
        /\ phase = "cascade" /\ phase' = "idle" /\ cascade' = {}
        /\ \/ cascade = {} /\ owed' = owed
           \/ owed' = {}
           \/ changeLog' = changeLog \cup cascade /\ owed' = owed
    BY <1>15 DEF CommitCascadeChanges
  <2>2. \A x : Active(x)' <=> Active(x)
    BY <2>1 DEF Active
  <2>3. \A x \in owed : Cascading(x) /\ x \notin Filtering /\ Active(x)
    BY <1>15, <2>1 DEF LostInv
  <2>4. \A x \in owed' : x \in owed /\ x \in GetTriggeredWatchers'
    <3>1. CASE cascade = {} /\ owed' = owed
      BY <2>3, <3>1 DEF Cascading
    <3>2. CASE changeLog' = changeLog \cup cascade /\ owed' = owed
      <4>1. \A p : \A x \in ChangeConcerns(p) : x \in ChangeConcerns(p)'
        BY <2>1 DEF ChangeConcerns, Active
      <4>2. \A x \in owed : \E p \in changeLog' : x \in ChangeConcerns(p)'
        BY <2>3, <3>2, <4>1 DEF Cascading
      <4>3. QED
        BY <3>2, <4>2 DEF GetTriggeredWatchers
    <3>3. QED
      BY <2>1, <3>1, <3>2
  <2>5. QED
    BY <1>15, <2>1, <2>2, <2>3, <2>4 DEF LostInv
<1>16. Start \/ Stop \/ ReceiveStop \/ UNCHANGED vars
       => UNCHANGED <<watchers, changeLog, appendLog, cascade, triggered, phase, owed, ran, owedNext>>
  BY DEF Start, Stop, ReceiveStop, vars, engine, tick, ghosts
<1>17. QED
  BY <1>1, <1>2, <1>4, <1>5, <1>7, <1>8, <1>9, <1>10, <1>11, <1>12, <1>13, <1>14, <1>15, <1>16
     DEF Next, Client, Loop

\* No change that calls for a watcher is lost between ticks (executeTick,
\* DiscardAll, CommitCascadeChanges), whatever fails, whoever calls and
\* whatever the watchers write.
THEOREM ChangesReachWatchers == Spec => []NoChangeLost
<1>1. LostInv => NoChangeLost
  BY DEF LostInv, NoChangeLost, Cascading
<1>2. QED
  BY <1>1, LostInvInductive, PTL DEF Spec
=============================================================================
