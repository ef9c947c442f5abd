----------------------------- MODULE Heartbeat -----------------------------
(***************************************************************************)
(* The reactive engine: HeartbeatEngine (watcher/heartbeat.go) drives      *)
(* WatcherEngine (watcher/engine.go), whose watchers run as MBL programs   *)
(* that commit through the interpreter's buffer (mbl/interpreter/          *)
(* interpreter.go) or, when there is one, the CommitCoordinator            *)
(* (mbl/interpreter/coordinator.go).                                       *)
(*                                                                         *)
(* A watcher's program is any member of Bodies: the writes it stages, with *)
(* its outcome chosen at each run.  A path is the sequence of its parts.   *)
(* changeLog and appendLog hold what was logged after lastTickTime, the    *)
(* only entries the engine looks at.  The engine has no lock: clients      *)
(* record changes and edit the watchers between any two steps of a tick.   *)
(***************************************************************************)
EXTENDS Naturals, Sequences, FiniteSets

CONSTANTS
    Watchers,           \* watcher names
    Paths,              \* paths, as sequences of parts
    Lists,              \* the paths that clients append to
    Values,             \* what a path may hold
    Default,            \* what it holds at first
    Watching,           \* [Watchers -> SUBSET Paths]
    Appending,          \* the watchers whose trigger is append
    Filtering,          \* those of them that have a predicate filter
    Bodies,             \* [Watchers -> sets of sequences of writes]
    RemotePaths,        \* paths of zones another node has authority over
    BufferLimit,        \* DefaultCommitBufferLimit of the coordinator
    MaxCascadeRounds,   \* the cap on consecutive cascading ticks
    MaxCalls            \* bound: calls of clients

Writes == [path : Paths, value : Values, quiet : BOOLEAN]

ASSUME HeartbeatAssumption ==
    /\ Watching \in [Watchers -> SUBSET Paths]
    /\ Filtering \subseteq Appending /\ Appending \subseteq Watchers
    /\ \A w \in Watchers : Bodies[w] \subseteq Seq(Writes)
    /\ RemotePaths \subseteq Paths /\ Lists \subseteq Paths
    /\ Default \in Values
    /\ {BufferLimit, MaxCascadeRounds, MaxCalls} \subseteq Nat

VARIABLES
    coordinated,    \* the engine has a CommitCoordinator
    stored,         \* what the tree holds at each path
    watchers,       \* registered watchers -> Enabled
    changeLog,      \* paths logged since the last tick
    appendLog,      \* [Paths -> the last append event since the last tick]
    pendingWrites,  \* the coordinator's staged writes
    cascade,        \* pendingCascadePaths
    cascadeRounds,
    running,        \* HeartbeatEngine.running
    loops,          \* heartbeatLoop goroutines
    stopping,       \* a Stop that waits, mutex held, for a loop to receive
    phase,          \* where the loop is in executeTick
    triggered,      \* the watchers this tick has still to run
    unknown,        \* hasUnhandledUnknown
    owed,           \* watchers that a committed change calls for
    ran, owedNext,  \* those this tick has run, and those its writes call for
    before,         \* what the tree held when the tick began
    torn,           \* the rollback that left writes of its tick: none, unknown, flush
    streak,         \* ticks in a row that ended with paths to cascade, up to the cap
    calls

engine == <<watchers, changeLog, appendLog>>
tick == <<pendingWrites, cascade, cascadeRounds, triggered, unknown>>
control == <<running, loops, stopping>>
ghosts == <<owed, ran, owedNext, before, torn, streak>>
vars == <<coordinated, stored, engine, tick, control, phase, ghosts, calls>>

\* The last append event of a path: none, one whose items all fail the
\* filters, or one with an item that passes.
AppendEvents == {"none", "unmatched", "matched"}

NoAppends == [p \in Paths |-> "none"]

Fresh == [p \in Paths |-> Default]

Init ==
    /\ coordinated \in BOOLEAN
    /\ stored = Fresh
    /\ watchers = [w \in Watchers |-> TRUE]
    /\ changeLog = {} /\ appendLog = NoAppends
    /\ pendingWrites = <<>> /\ cascade = {} /\ cascadeRounds = 0
    /\ running = FALSE /\ loops = 0 /\ stopping = FALSE
    /\ phase = "idle" /\ triggered = {} /\ unknown = FALSE
    /\ owed = {} /\ ran = {} /\ owedNext = {} /\ before = Fresh /\ torn = "none" /\ streak = 0
    /\ calls = 0
-----------------------------------------------------------------------------
(* Triggering.                                                             *)

\* changedAtOrBelow: the change is at the watched path or under it.
AtOrBelow(p, q) == Len(p) <= Len(q) /\ SubSeq(q, 1, Len(p)) = p

Active(w) == w \in DOMAIN watchers /\ watchers[w]

\* The watchers a change at q concerns, and those an append event does.
ChangeConcerns(q) ==
    {w \in Watchers \ Appending : Active(w) /\ \E p \in Watching[w] : AtOrBelow(p, q)}

AppendConcerns(p, event) ==
    {w \in Appending : Active(w) /\ p \in Watching[w] /\ (w \in Filtering => event = "matched")}

GetTriggeredWatchers ==
    (UNION {ChangeConcerns(q) : q \in changeLog})
      \cup (UNION {AppendConcerns(p, appendLog[p]) : p \in {q \in Paths : appendLog[q] # "none"}})
-----------------------------------------------------------------------------
(* Calls of clients.                                                       *)

Call == calls < MaxCalls /\ calls' = calls + 1

\* A client changes a value and records it.
RecordChange(p, v) ==
    /\ Call
    /\ v # stored[p]
    /\ stored' = [stored EXCEPT ![p] = v]
    /\ changeLog' = changeLog \cup {p}
    /\ owed' = IF phase = "idle" THEN owed \cup ChangeConcerns(p) ELSE owed
    /\ before' = IF phase = "idle" THEN before ELSE [before EXCEPT ![p] = v]
    /\ UNCHANGED <<coordinated, watchers, appendLog, tick, control, phase, ran, owedNext, torn, streak>>

\* RecordAppend replaces the event the path had. A filtering watcher is owed
\* a run only while that event stands.
RecordAppend(p, event) ==
    /\ Call
    /\ appendLog' = [appendLog EXCEPT ![p] = event]
    /\ owed' = IF phase = "idle" THEN owed \cup (AppendConcerns(p, event) \ Filtering) ELSE owed
    /\ UNCHANGED <<coordinated, stored, watchers, changeLog, tick, control, phase, ran, owedNext, before, torn, streak>>

\* A watcher of that name is replaced; the new one is enabled.
RegisterWatcher(w) ==
    /\ Call
    /\ watchers' = [x \in DOMAIN watchers \cup {w} |-> IF x = w THEN TRUE ELSE watchers[x]]
    /\ UNCHANGED <<coordinated, stored, changeLog, appendLog, tick, control, phase, ghosts>>

RemoveWatcher(w) ==
    /\ Call
    /\ watchers' = [x \in DOMAIN watchers \ {w} |-> watchers[x]]
    /\ owed' = owed \ {w} /\ owedNext' = owedNext \ {w}
    /\ UNCHANGED <<coordinated, stored, changeLog, appendLog, tick, control, phase, ran, before, torn, streak>>

EnableWatcher(w, on) ==
    /\ Call
    /\ w \in DOMAIN watchers
    /\ watchers' = [watchers EXCEPT ![w] = on]
    /\ owed' = IF on THEN owed ELSE owed \ {w}
    /\ owedNext' = IF on THEN owedNext ELSE owedNext \ {w}
    /\ UNCHANGED <<coordinated, stored, changeLog, appendLog, tick, control, phase, ran, before, torn, streak>>
-----------------------------------------------------------------------------
(* HeartbeatEngine.Start and Stop, and the loop's receive.                 *)

MutantMayStart == ~stopping

MayStart == ~stopping /\ ~running

Start ==
    /\ Call
    /\ MayStart
    /\ running' = TRUE
    /\ loops' = loops + 1
    /\ UNCHANGED <<coordinated, stored, engine, tick, stopping, phase, ghosts>>

\* Stop clears running and then blocks in its send, holding the mutex.
Stop ==
    /\ Call
    /\ ~stopping /\ running
    /\ running' = FALSE
    /\ stopping' = TRUE
    /\ UNCHANGED <<coordinated, stored, engine, tick, loops, phase, ghosts>>

MutantReceivable == phase = "idle" /\ running

\* The loop receives only at its select, between two ticks.
Receivable == phase = "idle"

ReceiveStop ==
    /\ stopping /\ loops > 0
    /\ Receivable
    /\ stopping' = FALSE
    /\ loops' = loops - 1
    /\ UNCHANGED <<coordinated, stored, engine, tick, running, phase, ghosts, calls>>
-----------------------------------------------------------------------------
(* Committing what a program staged.                                       *)

Apply(tree, writes) ==
    [p \in Paths |->
        LET hits == {i \in DOMAIN writes : writes[i].path = p}
        IN  IF hits = {} THEN tree[p]
            ELSE writes[CHOOSE i \in hits : \A j \in hits : j <= i].value]

\* The tree as write i of the batch finds it.
Before(tree, writes, i) == Apply(tree, SubSeq(writes, 1, i - 1))

\* flushBufferDirect announces the writes that changed something.
ChangedPaths(tree, writes) ==
    {writes[i].path : i \in {j \in DOMAIN writes :
        ~writes[j].quiet /\ Before(tree, writes, j)[writes[j].path] # writes[j].value}}

\* With a coordinator nobody knows yet: every write that is not quiet.
StagedPaths(writes) == {writes[i].path : i \in {j \in DOMAIN writes : ~writes[j].quiet}}

Locals(writes) == SelectSeq(writes, LAMBDA x : x.path \notin RemotePaths)
-----------------------------------------------------------------------------
(* executeTick.                                                            *)

\* Nothing was triggered: Tick and ClearChangeLog, and the tick is over. The
\* count of cascading rounds is left as it is.
IdleTick ==
    /\ loops > 0 /\ phase = "idle"
    /\ GetTriggeredWatchers = {}
    /\ changeLog' = {} /\ appendLog' = NoAppends
    /\ streak' = 0
    /\ UNCHANGED <<coordinated, stored, watchers, tick, control, phase, owed, ran, owedNext, before, torn, calls>>

BeginTick ==
    /\ loops > 0 /\ phase = "idle"
    /\ GetTriggeredWatchers # {}
    /\ triggered' = GetTriggeredWatchers
    /\ unknown' = FALSE
    /\ phase' = "executing"
    /\ before' = stored
    /\ UNCHANGED <<coordinated, stored, engine, pendingWrites, cascade, cascadeRounds, control,
                   owed, ran, owedNext, torn, streak, calls>>

\* The paths a run changed go to pendingCascadePaths.
Announce(paths) ==
    /\ cascade' = cascade \cup paths
    /\ owedNext' = owedNext \cup UNION {ChangeConcerns(p) : p \in paths}

\* ExecuteWatcher, up to the program's last statement: w is no longer due.
Run(w) ==
    /\ phase = "executing"
    /\ w \in triggered
    /\ triggered' = triggered \ {w}
    /\ ran' = ran \cup {w}
    /\ UNCHANGED <<coordinated, engine, control, phase, cascadeRounds, owed, before, torn, streak, calls>>

\* No coordinator: the writes go to the tree. An Unknown about data, unlike
\* one about the system, is the result and yet the program commits.
CommitDirect(w, body) ==
    /\ ~coordinated
    /\ Run(w)
    /\ stored' = Apply(stored, body)
    /\ Announce(ChangedPaths(stored, body))
    /\ unknown' \in {unknown, TRUE}
    /\ UNCHANGED pendingWrites

\* A write of the batch fails: those before it stay, and the result is the
\* Unknown "commit failed".
CommitDirectFails(w, body) ==
    /\ ~coordinated
    /\ Run(w)
    /\ unknown' = TRUE
    /\ \E n \in 0..(Len(body) - 1) :
          /\ stored' = Apply(stored, SubSeq(body, 1, n))
          /\ Announce(ChangedPaths(stored, SubSeq(body, 1, n)))
    /\ UNCHANGED pendingWrites

MutantStaged(w, body) ==
    /\ coordinated
    /\ Run(w)
    /\ Len(pendingWrites) + Len(body) <= BufferLimit
    /\ pendingWrites' = pendingWrites \o body
    /\ Announce(StagedPaths(body))
    /\ unknown' \in {unknown, TRUE}
    /\ stored' = Apply(stored, Locals(body))

\* With one, StageWrites keeps them for the end of the tick.
CommitStaged(w, body) ==
    /\ coordinated
    /\ Run(w)
    /\ Len(pendingWrites) + Len(body) <= BufferLimit
    /\ pendingWrites' = pendingWrites \o body
    /\ Announce(StagedPaths(body))
    /\ unknown' \in {unknown, TRUE}
    /\ UNCHANGED stored

\* The program's writes are discarded: its result is an Unknown that rolls
\* back, or the coordinator has no room left for them.
Discard(w) ==
    /\ Run(w)
    /\ unknown' = TRUE
    /\ Announce({})
    /\ UNCHANGED <<stored, pendingWrites>>

\* A tick that is rolled back leaves the log and lastTickTime, so that the
\* same changes trigger again.
RollBack(tree, cause) ==
    /\ pendingWrites' = <<>>
    /\ cascade' = {}
    /\ phase' = "idle"
    /\ torn' = IF tree # before THEN cause ELSE torn
    /\ before' = Fresh
    /\ ran' = {} /\ owedNext' = {}

MutantRollBackUnknown ==
    /\ phase = "executing" /\ triggered = {} /\ unknown
    /\ changeLog' = {}
    /\ RollBack(stored, "unknown")
    /\ UNCHANGED <<coordinated, stored, watchers, appendLog, cascadeRounds, triggered, unknown, control,
                   owed, streak, calls>>

RollBackUnknown ==
    /\ phase = "executing" /\ triggered = {} /\ unknown
    /\ RollBack(stored, "unknown")
    /\ UNCHANGED <<coordinated, stored, engine, cascadeRounds, triggered, unknown, control,
                   owed, streak, calls>>

\* FlushAll: the writes of this node's zones first, then the others'.
Flush ==
    /\ phase = "executing" /\ triggered = {} /\ ~unknown
    /\ stored' = Apply(stored, Locals(pendingWrites))
    /\ pendingWrites' = <<>>
    /\ phase' = "tick"
    /\ owed' = (owed \ ran) \cup owedNext
    /\ ran' = {} /\ owedNext' = {}
    /\ UNCHANGED <<coordinated, engine, cascade, cascadeRounds, triggered, unknown, control,
                   before, torn, streak, calls>>

\* One of them fails: the local writes before it stay.
FlushFails ==
    /\ phase = "executing" /\ triggered = {} /\ ~unknown
    /\ pendingWrites # <<>>
    /\ \E n \in 0..Len(Locals(pendingWrites)) :
          LET tree == Apply(stored, SubSeq(Locals(pendingWrites), 1, n)) IN
          /\ stored' = tree
          /\ RollBack(tree, "flush")
    /\ UNCHANGED <<coordinated, engine, cascadeRounds, triggered, unknown, control,
                   owed, streak, calls>>

\* Tick advances lastTickTime past every entry and ClearChangeLog drops them.
CloseTick ==
    /\ phase = "tick"
    /\ changeLog' = {} /\ appendLog' = NoAppends
    /\ phase' = "cascade"
    /\ UNCHANGED <<coordinated, stored, watchers, tick, control, ghosts, calls>>

MutantNextRound == 1

NextRound == cascadeRounds + 1

\* CommitCascadeChanges: nothing to record, too many rounds, or the paths
\* are recorded for the next tick.
CommitCascadeChanges ==
    /\ phase = "cascade"
    /\ phase' = "idle"
    /\ cascade' = {}
    /\ before' = Fresh
    /\ \/ /\ cascade = {}
          /\ cascadeRounds' = 0
          /\ streak' = 0
          /\ UNCHANGED <<changeLog, owed>>
       \/ /\ cascade # {}
          /\ NextRound > MaxCascadeRounds
          /\ cascadeRounds' = 0
          /\ streak' = 0
          /\ owed' = {}
          /\ UNCHANGED changeLog
       \/ /\ cascade # {}
          /\ NextRound <= MaxCascadeRounds
          /\ cascadeRounds' = NextRound
          /\ streak' = IF streak < MaxCascadeRounds THEN streak + 1 ELSE streak
          /\ changeLog' = changeLog \cup cascade
          /\ UNCHANGED owed
    /\ UNCHANGED <<coordinated, stored, watchers, appendLog, pendingWrites, triggered, unknown,
                   control, ran, owedNext, torn, calls>>
-----------------------------------------------------------------------------
Client ==
    \/ \E p \in Paths, v \in Values : RecordChange(p, v)
    \/ \E p \in Lists, e \in AppendEvents \ {"none"} : RecordAppend(p, e)
    \/ \E w \in Watchers : RegisterWatcher(w) \/ RemoveWatcher(w)
    \/ \E w \in Watchers, on \in BOOLEAN : EnableWatcher(w, on)
    \/ Start
    \/ Stop

Execute ==
    \E w \in triggered :
        \/ \E body \in Bodies[w] :
              CommitDirect(w, body) \/ CommitDirectFails(w, body) \/ CommitStaged(w, body)
        \/ Discard(w)

Loop ==
    \/ IdleTick \/ BeginTick
    \/ Execute
    \/ RollBackUnknown \/ Flush \/ FlushFails
    \/ CloseTick \/ CommitCascadeChanges

Next == Client \/ Loop \/ ReceiveStop

Spec == Init /\ [][Next]_vars

\* The ticker fires for ever and the loop's goroutine runs. When a stop and
\* a tick are both ready, select picks one at random, again and again.
FairSpec == Spec /\ WF_vars(Loop) /\ SF_vars(ReceiveStop)
-----------------------------------------------------------------------------
(* Properties.                                                             *)

\* No change is lost between ticks: an active watcher that a change still
\* calls for is about to run in this tick, or the log (or the cascade that
\* becomes the log) still holds a path that triggers it. This is why a rolled
\* back tick keeps the log and why CommitCascadeChanges comes after
\* ClearChangeLog. What a tick that is rolled back had written calls for
\* nobody, and a change recorded while a tick runs is not counted.
NoChangeLost ==
    \A w \in owed :
        \/ w \in GetTriggeredWatchers
        \/ \E p \in cascade : w \in ChangeConcerns(p)

\* A rollback is complete: with a coordinator, a tick that an Unknown rolls
\* back leaves the tree as the tick found it, whatever the watchers that ran
\* before the failing one had written (DiscardAll).
RollbackRestores == coordinated => torn # "unknown"

\* Two loops never run at once, whatever the order of Start and Stop: Stop
\* holds the mutex until the loop has received, so ticks never overlap.
OneLoop == loops <= 1 /\ (running => loops = 1)

\* The engine has nothing left to react to, again and again.
QuietAgain == []<>(loops = 0 \/ (phase = "idle" /\ changeLog = {}))

\* Cascades end once the clients leave the engine alone: again and again it is
\* stopped or stands between two ticks with nothing left to react to, whatever
\* the watchers write, because the cap breaks what does not converge; or else
\* ticks are rolled back for ever, since a rollback keeps the log and a watcher
\* that answers Unknown each time is triggered each time.
CascadesEnd ==
    \/ QuietAgain
    \/ []<><<RollBackUnknown \/ FlushFails>>_vars

\* A Stop returns, however many ticks come before the loop receives it.
StopReturns == stopping ~> ~stopping

\* The count the cap is compared with counts consecutive cascading ticks.
RoundsAreConsecutive == cascadeRounds <= streak
=============================================================================
