# AmorphDB in TLA+

AmorphDB is a temporal tree-graph database written in Go: every path holds a
chain of timestamped instances, programs in its own language (MBL) react to
changes, and nodes form a mesh. This directory holds the TLA+ modules that
model it, the TLC configurations that check them, and the theorems TLAPS
proves. Every definition is translated from the source; `PROJECT.json` maps
each one to its lines, and lists the components, the runs, the mutants, the
findings, the hazards and the theorems.

## The system and its parts

| Part | Source | State | Operations | Status |
|---|---|---|---|---|
| Temporal tree | `internal/storage/tree.go` | none of its own: four stores | WriteReportingChange, Read, ReadAt, Purge, listings | modelled |
| Attribute store, label index | `attributes.go`, `hashindex.go` | label and first instance per attribute; label -> attribute in memory | write, read, repoint, insert, look up, rebuild | modelled but for unused operations |
| Instance store | `instances.go` | value, older instance, author, time per instance | write, read, chain walks, tombstone | modelled |
| Value store | `values.go` | tiered files, dedup map, reference counts | write, read, tombstone, rebuild at open | modelled |
| Free list, defragmenter | `freelist.go`, `defrag.go` | free blocks per tier | add with coalescing, first fit, rescan, compact | modelled |
| Watcher engine | `internal/watcher/engine.go` | watchers, change and append logs, pending cascade, round count | register, enable, remove, record, trigger, execute, tick, cascade | modelled |
| Heartbeat engine | `internal/watcher/heartbeat.go` | running flag, loop goroutine, stop channel | Start, Stop, executeTick | modelled |
| Commit coordinator | `internal/mbl/interpreter/coordinator.go` | staged writes | stage, flush, discard | modelled |
| Lexer, parser | `internal/mbl/lexer`, `internal/mbl/parser` | indent stack, owed DEDENTs; current and peek token | tokens, statements, expressions, printing | modelled over words |
| MBL interpreter | `internal/mbl/interpreter/interpreter.go`, `internal/types` | scopes, commit buffer, procedures, watchers, quiet and call depth | evaluate, stage, flush, commit, roll back | modelled but for library functions |
| Directory, subscriptions | `internal/directory`, `internal/subscription` | path -> authority and time, subscribers | set, get, delete, merge, subscribe | modelled |
| Authority | `internal/mesh/authority.go` | missed heartbeats, write rates, elections | announce, delegate, split, elect | modelled |
| Replication | `internal/mesh/replication.go` | queues of writes, subscriptions, the loop | record, forward, send, cut, start, stop | modelled but for the legacy zones |
| Wire protocol | `internal/protocol` | none | frame, encode, decode | modelled |
| Service, connections | `internal/service` | context, listeners, connection map, sessions | accept, handle, respond, stop | life cycle, handshake, enrolment and what messages write to its records |
| Owner, invitations | `internal/service/owner.go`, `invite.go` | owner marker, keys, invites in the tree | initialise, issue, redeem, register | modelled |
| Web front | `internal/service/http_server.go`, `sse_manager.go`, `asset_cache.go`, `pwa_bridge.go` | streams, buffered events, cached assets | serve, broadcast, refresh | not modelled |
| Mesh membership | the rest of `internal/mesh` | members, identities, bridges | join, gossip, heartbeat, leave | not modelled |
| Security | `internal/security`, `auth`, `identity`, `crypto` | sessions, permissions, recovery | authenticate, check, recover | the handshake's session; cryptography external |
| Agents and bridges in storage, ARI, CLI | `agent.go`, `bridge.go`, `internal/ari`, `cmd` | records, none | | not modelled |

How they interact. The service runs one goroutine per connection; all of them
call one `StorageTree`, which calls the stores, each under its own lock. A
connection reads frames of the wire protocol and answers each. MBL programs are
lexed, parsed and evaluated; they stage their writes in a buffer that goes to
the tree at their end, or to the coordinator, which flushes it at the end of a
tick. The heartbeat loop asks the watcher engine which watchers the logged
changes trigger, prints and re-parses their bodies, runs them, and logs what
they changed for the next tick. The authority manager and the replication
manager share the path directory and the subscription registry; the coordinator
records local writes with the replication manager.

What is hard here: the tree has no lock across the calls of one operation;
readers of one store share a file offset; only some files are synced; maps are
rebuilt at restart from what can be scanned; free space is handed out from
under records that are shared by count; a tick runs several programs of which
one may fail; cascades may not converge; `Stop` blocks with the mutex held;
elections and replication rounds release their lock in the middle; connections
arrive while the service goes down; enrolment checks and then acts.
`PROJECT.json`, "hazards", lists these at their lines.

## Modules

* `TemporalTree` is the promise: per path a sequence of assignments; an
  assignment of the current value records nothing, any other is appended.
* `StorageTree` is the engine. One step is one call into a store (one lock); a
  read of a store is two steps, Seek and Read, because it holds only the read
  lock and the offset is shared. `pc` and `op` are a goroutine's place and
  locals. IDs are record numbers, 0 is none; a store hands out its `nextID`,
  the number of the record after its file's last until a Sync fails. An I/O
  error may end an operation at any file call (`IOError`). A Sync may fail
  after its record was appended (`SyncFails`): the record stays, `nextID` does
  not move, and the ID of the next record then names the failed one, which the
  ghost `misnamed` remembers. A crash resets the memory, rebuilds the dedup map
  (`RebuiltHashMap`), the index (`RebuiltIndex`) and the counters, and may lose
  values, which are never synced. `Tick` sets the wall clock to any other time,
  an earlier one too. The audit record of a purge is a write of its own that
  the same operation goes on to. Authors are left out; so is a Write that
  stores a part of a record, and a record whose Sync failed is taken to be in
  the file after a crash.
* `StorageTreeHistory` reads a path's history off the stores (`ChainsIn` is
  GetInstanceChain), maps it to `TemporalTree`, and states what clients see.
* `ValueStore` is the value store with its space: a file is a sequence of
  cells, a record a sentinel cell and body cells, so a record written over is
  told from an intact one. Every operation holds the exclusive lock and is one
  step. `Restart` and `Defragment` are steps too. `TombstoneUnhashed` is the
  path on which tombstoneValue cannot read the record whose hash entry it is to
  delete and frees it all the same (`values.go:280-286`). `freelist.go` has a
  table of sizes of its own, without Money, Reference and Unknown: `ScanSize`
  is the size it takes a record for, `Lookalikes` the body bytes it takes for
  sentinels when it steps into one. `DefragmentMisled` is a defragmentation of
  files with such records, `Defragment` one of files without. Not modelled: a
  write that is torn in the middle of a record.
* `Heartbeat` is the reactive engine with the interpreter's commit path and the
  coordinator. A tick is a sequence of steps (trigger, each watcher, flush or
  roll back, close, cascade) and clients call between any two. A watcher's
  program is any of `Bodies`; its result may be an Unknown that commits (about
  data) or one that discards, any number of times. `coordinated` is chosen at
  the start: both engines are checked. `owed`, `ran`, `owedNext`, `before`,
  `torn` and `streak` are ghosts for the properties.
* `Protocol` holds the encoders and decoders, one operator per message, over
  cells: a byte is a cell, and so is an integer of a fixed width, which carries
  its bits (`M32` and `M64` say how many numbers the two formats have, 2^32 and
  2^64 in the code). A length is a cell too and does not wrap, so the model is
  of fields below 4 GiB. `Wire` is a sender, a stream that may be cut or
  damaged, and the reader of `processNextMessage`; `Paths`, `Tags`,
  `ChildLists` and `Codes` are what the fields hold.
* `Lexer` is the token state machine with its indentation stack, over words
  instead of characters. `Parser` is the Pratt parser: a parser state is the
  tokens left and the errors so far, and each parse function an operator on it.
  `Syntax` is what the nodes print. `Values` is `internal/types` as the
  evaluator uses it; texts compare by the order `Collation` gives their
  characters, and records in any order of their fields, as a Go map gives it.
  `Interpreter` has one operator per eval function of the source, from a
  session to a session. The parse functions call each other through `Parsed`
  and the eval functions through `Eval`, one recursive operator for each
  module, which keeps TLC's coverage statistics small. `Language` is the state
  machine that takes a program word by word through the lexer, parses,
  evaluates one top-level statement a step, and concludes as `Interpret` does;
  the tree has room for a bounded number of writes, so a flush may fail part
  way. A slice is its elements and the array it shares, where sharing matters:
  a staged path remembers in `was` what it was when it was staged.
* `Directory` holds the directory's operators. `Authority` is the authority
  manager of a node: a method that holds the mutex is a step up to its Set,
  which is a step of its own (`update` is the method between the two): Merge
  takes the directory's lock only and may come between. Timestamps of other
  nodes are any, their clocks and this node's are not related. `go f()` puts a
  task into a bag, and the election's goroutine is three steps. `SelfKnown`
  says whether gossip's list has this node; no property depends on it.
  `Replication` is the replication manager: the loop copies a queue, sends and
  cuts in separate steps, Stop unlocks and closes in two; the directory and the
  registry change under it. `owed` (write and subscriber, not sent yet) and
  `raced` (a Start came between the halves of a Stop) are ghosts.
* `Service` is the daemon: its life cycle, the goroutine of each connection,
  both kinds of mutex (`MutexFree`, `CanClose`), and enrolment, in which every
  read or write of the tree that another connection may come before is a step.
  A WRITE changes the key of the agent that sends it, an EXECUTE any key, the
  owner and the invitations, as no permission is checked there (`HandleWrite`,
  `HandleExecute`); the key is the client's own or none, and a REGISTER may
  bring an empty one. `enrolled`, `written`, `redeemed` and `burnt` are ghosts.
  An identity stands for the number `ownerAgentID` hashes it to. What is in a
  response is left out: no property tells them apart.
* `MCStorageTree`, `MCValueStore`, `MCHeartbeat`, `MCWire`, `MCLanguage`,
  `MCAuthority`, `MCReplication`, `MCService` give the constants values.
* `StorageTreeProofs`, `StorageTreeHistoryProofs`, `HeartbeatProofs`,
  `ValueStoreProofs`, `AuthorityProofs`, `ReplicationProofs`, `ServiceProofs`,
  `WireProofs` hold the theorems about the module they are named after.

## Runs

| Run | Instance | Shows |
|---|---|---|
| `TreeSequential` | 1 client, 2 paths, 2 data, 3 operations, 2 faults | the engine implements `TemporalTree`, reads and reads as of a time answer from the history, acknowledged changes stay, with errors, failed Syncs and crashes between any two calls |
| `TreeConcurrent` | 2 clients, 3 operations, 1 fault, lost values | maps agree with files, chains go back in the file, the instance file is append-only |
| `TreeLiveness` | 2 clients, fairness | every operation returns |
| `ValueSpace` | 2 holders, 4 contents, files of 7 cells, 2 upsets | free blocks are never live and maximal; held values read back; counts are the references held; no space leaks |
| `HeartbeatTicks` | 4 watchers, 4 client calls, any number of failures, cap 2 | no change is lost, rollbacks restore, one loop, cascades end, `Stop` returns |
| `WireFormats` | every message kind, small fields, one damage | decoders invert encoders; a cut or damaged frame is never taken for a message |
| `Language` | 22 programs, 2 in a session, a tree that may fill up, 44 sample values | blocks balance, operators group as the table of operators says, watchers re-parse, sessions are restored, rollbacks leave nothing, quiet blocks announce nothing, the last write stands, comparisons are consistent |
| `MeshAuthority` | 2 nodes, a root and its partition, clocks of 2, 2 goroutines, 3 elections | elections do not depend on map order; nothing another node says puts an older assignment in the place of a newer one; an open election has a goroutine that will complete it |
| `Replication` | 3 nodes, 2 writes, 2 starts | a recorded write is queued or was sent; the cut takes what was sent; queued writes leave |
| `Service` | a local and a network client, 2 identities, 1 token, 4 messages, 1 fault | the connection map is exact; a bound identity is proven; a redeemed invite enrols; nobody is left waiting after `Stop` |
| `TreeLostHistory` | violation | two writers of one path: an acknowledged change leaves the history |
| `ScopedWrites` | violation | two assignments under a scope statement both go to the second name |

Bounds. In the tree runs three operations are enough for two writers and a
reader of one path, for a purge between two of its walks, and for a path
created by two clients at once. With two faults a Sync fails and the process
crashes before or after the next record, or two Syncs fail; with two clients
one fault falls between any two calls. Two clock values give assignments at the
same time, later and, with the clock set back, earlier than the one before. In
`ValueSpace` the contents of tier 1 have sizes 2 and 3, so blocks are split,
merged and fitted exactly, in 7 cells also behind a leftover; two upsets are,
among others, a defragmentation of files that a restart or a defragmentation
has left, and a failure before a restart; one of the contents is an Unknown,
which the rescan steps into. Two holders share a content or hold two. In
`HeartbeatTicks` two watchers write at and below each other's paths, so a
cascade may go on past the cap of 2; the buffer limit of 2 is met by two
bodies. In `WireFormats` strings are empty or one byte, paths and lists of
children have up to two members, numbers are on both sides of the sign, the two
widths differ (4 and 8 numbers), and a second frame follows, so a wrong length
runs into it. In `Language` the limits (buffer, calls, iterations, elements,
flush interval) are small enough for a program to meet each; each statement and
expression form is in some program. In `MeshAuthority` two goroutines are the
fewest that overlap, a clock of 2 gives older, equal and newer assignments, and
three elections are one cancelled, its successor and another. In `Replication`
two writes are one copied and one recorded during the round, two subscribers
are one sent to and one not yet, and two starts give two loops, one of them in
the round of the first. In `Service` two connections suffice for every race,
since REGISTER is not restricted to the network; four messages are a
registration with its handshake, a whole handshake with a second AUTH_INIT in
it, or one with an EXECUTE before the answer; one token is enough for two
registrations to race for it. The fault of `Service` is a failed write or a
WRITE or EXECUTE to the daemon's own records. Deadlock is not checked: with the
bounds used up clients stop calling, and a service without calls may stand
still.

What the properties leave out, because the code does not promise it:
`HeldValuesReadBack`, `CountsAreReferences` and `SpaceIsAccounted` hold up to
the first restart or defragmentation (a restart counts one reference per record
and forgets the free blocks; compaction moves records whose IDs others keep);
the first two also end when a value is tombstoned that could not be read, since
its hash entry stays. `FreeListsSound` holds unless a file call failed and the
files are defragmented as well: a write that fails has taken its block off the
free list and left the block's tombstones in the file, so the next block may
begin inside a tombstone, and the rescan frees the whole tombstone with what
was written there since. It also ends with a defragmentation of files that hold
a Money, a Reference or an Unknown. `ImplementsTemporalTree`,
`AcknowledgedChangesStay` and the labels of `MapsAgreeWithFiles` hold until a
record is written behind one whose Sync failed: from then on IDs name the
record before (`misnamed`). `CascadesEnd` names its alternative: ticks that are
rolled back for ever, because a watcher answers Unknown each time or the flush
fails each time. `EntriesNeverGoBack` leaves out the assignments the node makes
itself, which it sets with its own clock unchecked, and an announcement whose
check a Merge has overtaken. `RoundsFit` and `WritesSentOrQueued` end with a
Start between the halves of a Stop (`raced`). `IdentityProven` counts the keys
that clients wrote by WRITE and EXECUTE as stored. `LastWriteStands` does not
count a write under a scope that a full buffer refused, and
`ComparisonsConsistent` says that the answers to two values fit together, not
that there is one: two records may be compared from any field. `ChainsGroup`
follows the table of the language design, which contradicts the text above it
(see the findings). `RollbackRestores` is about the engine with a coordinator:
without one, and this is how `service.go` builds it, the writes of the watchers
that ran stay in the tree when a later one fails. `NoChangeLost` does not count
a change recorded while a tick runs, which ClearChangeLog drops, nor what a
rolled back tick had written. `RoundTrip` leaves out messages that end in an
empty string and the error of a PURGE_ACK. `RolledBackLeavesNothing` leaves out
programs whose loop flushed on the way or whose flush failed, `SessionRestored`
a `for` that gave up on its list or its flush (its scope stays current).
`WatchersReparse` is about bodies without nested blocks, whose expressions the
text can say (`Expressible`). `WritesSentOrQueued` counts a write as sent when
the send was made: the batch is cut when one subscriber took it. `InvitesEnrol`
does not say that a token enrols once, and leaves out keys the tree refused and
empty keys (`burnt`). `NobodyLeftWaiting` is the safety core of a shutdown that
completes; that `Stop` returns also needs clients that read their responses,
which nothing in the code ensures.

Fairness. A goroutine inside an operation gets on (`SF` of its steps: Go's
RWMutex admits no new reader once a writer waits, so a lock that is free again
and again is got). The ticker fires for ever (`WF(Loop)`), and `select` chooses
at random between a tick and a stop (`SF(ReceiveStop)`). The replication loop's
ticker fires and its goroutine runs (`WF(LoopStep)`). Clients, crashes and
failures get no fairness.

## Findings

Two runs show the code doing other than a comment or a document says; the
quotations are in `PROJECT.json`. Twenty-one more properties have a
configuration here, to be run by hand with the MC module named; TLC finds each
violated. Where a configuration lists several, all but the first are comments:
TLC stops at the first violation, so they are checked one at a time.

With `MCStorageTree`:

* `TreeSharedOffset.cfg`, `ReadsStayOnPath`: two readers of one store share the
  file offset, and one answers with the other path's data
  (`storage/instances.go:121`);
* `TreeRecords.cfg`, `AcknowledgedIDsName`: a Sync fails after the record was
  appended and `nextID` is kept, so the next acknowledged change is given the
  ID of the failed record (`instances.go:90-103`; `attributes.go:84-97` alike);
* `TreeRecords.cfg`, `ChainTimesDescend`: two assignments in one microsecond,
  or a clock set back, leave a chain that ValidateChainOrder
  (`instances.go:163-173`) calls invalid: nothing in WriteInstance keeps times
  apart (`instances.go:71`);
* `TreePurge.cfg`, `PurgeKeepsChains`: TombstoneInstance writes its mark over
  the older link, not over the author as its comment says (`instances.go:273`);
* `TreeReopen.cfg`, `RecordedPathsFound`: the rebuild of the dedup map guesses
  how far to scan, and a recorded path is not found after a restart
  (`values.go:880`).

With `MCValueStore`:

* `TombstoneMisread.cfg`, `HeldReferencesRead`: tombstoneValue cannot read the
  record, frees it anyway and leaves its hash entry, and the next writer of the
  content is given the freed record (`values.go:280-286`);
* `DefragmentScan.cfg`, `FreeSpaceIsDead`: RebuildFromFile does not know the
  size of an Unknown, steps into the record and takes a byte of it for a
  tombstone: live cells are free with no fault (`freelist.go:270-299` against
  `values.go:399-409`);
* `DefragmentAfterFault.cfg`, `FreeSpaceIsDead`: a failed write, then a reuse
  inside a tombstone, then RebuildFromFile: a free block lies over a live
  record (`freelist.go:193`);
* `DefragmentScan.cfg`, `CompactionKeepsValues`: a record that reuses the front
  of a larger freed one leaves bytes behind that begin no record;
  scanAndCopyTier3Records takes them for the end of the data and the records
  after them are gone (`defrag.go:186`), where `docs/AmorphDB_Test_Plan.md:70`
  has "surviving values intact". Nothing in the program calls the defragmenter
  yet.

With `MCHeartbeat`:

* `HeartbeatClaims.cfg`, `RoundsAreConsecutive`: quiet ticks do not reset the
  cascade count (`watcher/heartbeat.go:126`);
* `HeartbeatClaims.cfg`, `QuietAgain`: a watcher that answers Unknown each time
  is triggered each time, since a rollback keeps the log, and no cap counts
  rolled back ticks (`heartbeat.go:160-170`).

With `MCLanguage`:

* `LanguageClaims.cfg`, `AndOrGroupEqually`: `docs/amorphdb_design.md:483` and
  `docs/AmorphDB_Test_Plan.md:178` have `and` and `or` of equal precedence; the
  parser, and the table at `docs/amorphdb_design.md:549-559` that `ChainsGroup`
  follows, have `and` bind tighter. The documents contradict each other;
* `LanguageClaims.cfg`, `FlatWatchersReparse`: the text a watcher's body is
  kept as loses the reason of `unknown("x")` (`parser/ast.go:177-179`), prints
  `f(x) + y` so that it lexes as a modifier, and `my.k[1]` as `my.k.1`, whose
  number ends the path (`ast.go:106`);
* `LanguageClaims.cfg`, `NoWriteIsDropped`: under a scope statement the result
  of stageWrite is not looked at (`interpreter.go:1398`), so a write the full
  buffer refuses is lost and the program commits, where
  `docs/amorphdb_design.md:1101` has "an Unknown is produced";
* `LanguageClaims.cfg`, `ComparisonsDetermined`: two records that differ in two
  fields compare by whichever the Go map gives first
  (`types/compare.go:289-299`), so one comparison has two answers.

With `MCAuthority`:

* `AuthorityClaims.cfg`, `LastAssignmentWins`: announcing, delegating,
  splitting and promoting set the entry with the local clock and no check
  (`mesh/authority.go:100-103`), so a node whose clock is behind puts its
  assignment in the place of a newer one;
* `AuthorityClaims.cfg`, `CancelledElectionsEnd`: an announcement cancels an
  election, whose goroutine takes the authority after all (`authority.go:312`).

With `MCReplication`:

* `ReplicationOverlap.cfg`, `SentOrQueued`: a Start between the Unlock and the
  close of a Stop leaves two loops, which cut one queue twice; a write that was
  not sent is dropped (`replication.go:154-163`).

With `MCService`:

* `ServiceKeys.cfg`, `OnlyEnrolledKeys`: handleExecute runs a program with no
  permission check (`service/connection.go:688-695`), and handleWrite lets an
  agent write its own key, so the handshake accepts keys that no registration
  stored;
* `ServiceInvites.cfg`, `InvitesNeverBurn`: a REGISTER with an empty key passes
  the check (`connection.go:229`, `invite.go:157`), spends its token and stores
  "", which `owner.go:84` takes for no key;
* `ServiceInvites.cfg`, `InvitesEnrolOnce`: two registrations read the used
  flag before either writes it, where `invite.go:93-95` has "the same token
  cannot be redeemed twice".

Seen while modelling and without a configuration of their own:

* storage and ticks: two clients may create two attributes for one path;
  reassigning the current value after a restart records a change when the value
  is in a tier the rebuild does not scan; an Unknown about data commits its
  program's writes while the heartbeat reports the tick as rolled back; a
  second append to a list replaces the first one's event; the coordinator
  announces unchanged writes; `mesh/manager.go:576` purges a range in seconds
  of instances that carry microseconds;
* language: `pass` is no statement to the evaluator and rolls its program back
  (`docs/mbl_reference.md:423` calls it a no-op); `and` and `or` evaluate both
  sides (`docs/amorphdb_design.md:482`); `consider` never parses; `break` in a
  procedure leaves the call; the fields of a `(quietly)` record assignment are
  announced; the literal `nothing` is an Unknown; `Record.Serialize` counts
  fields it skips;
* wire: a message whose last field is an empty string is refused by its own
  decoder, so a READ_RESPONSE with Nothing does not arrive; DecodePurgeAck
  drops the error; the messages gossip, mesh heartbeats and bootstrap build
  have PayloadLength 0 and are never sent;
* mesh: equal timestamps keep whichever entry came first, so nodes may disagree
  for ever; a second Stop of the replication manager closes a closed channel;
* service: two registrations of one name at once overwrite each other's key;
  InitOwner that fails after its marker leaves an owner who cannot issue
  invitations and cannot be initialised again; sendResponse holds the
  connection's mutex while it writes, so a client that does not read stalls
  Stop; Stop waits for the accept loops, not for the connections; a STOP
  message stops the service but not the process, whose main waits for a signal.

## Proofs

The theorems hold for every value of the constants that the named ASSUME of the
module allows; TLC evaluates those on the runs. The assumptions are types,
finiteness, and what the code's own constants satisfy (a value file is smaller
than the offsets an ID can name; the owner is an identity).

| Module | Theorem | States | Inductive invariant |
|---|---|---|---|
| `StorageTreeProofs` | `TypeCorrect`, `MapsStaySound`, `ChainsAlwaysGoBack`, `HistoryIsAppendOnly` | `TypeOK`, `MapsAgreeWithFiles`, `ChainsGoBack`, `InstancesAppendOnly` | `Inv` |
| `StorageTreeHistoryProofs` | `OneClientImplementsPromise`, `OneClientReadsCurrent`, `OneClientReadsAsOf`, `OneClientKeepsChanges` | `ImplementsTemporalTree`, `ReadsAnswerCurrent`, `ReadAtAnswersAsOf`, `AcknowledgedChangesStay` | `Inv` and `AloneInv` |
| `HeartbeatProofs` | `NeverTwoLoops`, `RollbacksAreComplete`, `ChangesReachWatchers` | `OneLoop`, `RollbackRestores`, `NoChangeLost` | `LoopInv`, `TreeInv`, `LostInv` |
| `ValueStoreProofs` | `FreeSpaceIsFree`, `HeldValuesStay`, `CountsAreExact`, `NothingLeaks` | `FreeListsSound`, `HeldValuesReadBack`, `CountsAreReferences`, `SpaceIsAccounted` | `SpaceSound`, `HeldInv`, `SpaceInv` |
| `AuthorityProofs` | `OpenElectionsHaveGoroutines`, `AssignmentsOnlyAdvance`, `ElectionsDoNotDependOnOrder` | `AuthTypeOK`, `EntriesNeverGoBack`, `ElectionsAgree` | `AuthInv` |
| `ReplicationProofs` | `RoundsCutWhatTheySent`, `NoWriteIsDropped`, `OneStartIsSafe` | `RoundsFit`, `WritesSentOrQueued`; `CopiesHeadQueues`, `SentOrQueued` | `raced \/ ReplicationInv`, `OneStartInv` |
| `ServiceProofs` | `ServiceTypes`, `ConnectionsAreRegistered`, `HandshakesProveIdentity`, `SpentInvitesEnrol`, `StopWakesEveryone` | `ServiceTypeOK`, `RegistryExact`, `IdentityProven`, `InvitesEnrol`, `NobodyLeftWaiting` | `TypeInv`, `RegistryInv`, `CountInv`, `KeyInv`, `InvitesEnrol`, `WalkInv` |
| `WireProofs` | `MessagesArrive` | `RoundTrip` | `Exchange` |

*Storage tree.* `Inv` adds two parts to the properties. `LocalsOK`: what a
goroutine has read stays in the files, which only grow, so its later updates
hit records that exist; this holds although the read may have returned another
reader's record. `IDsInRange`: a store's `nextID` is never past the record
after the last, so an ID that is handed out names a record even when failed
Syncs have shifted the IDs; and an older link, taken from a record that was in
the file, lies before the new one. That is all the proof of `ChainsGoBack`
needs: no clock is involved. The proof has one lemma per action, with
`LocalStep` for those that only move a goroutine.

*History.* The refinement of `TemporalTree` has a condition, `Alone`: one
client, no purge, and crashes of the process only, so that nothing written is
lost; and a hypothesis, `ScanReaches`: whatever is stored lies in the tier and
under the IDs that a restart scans. The code does not establish these: they are
the conditions of use under which it keeps the promise. `TreeLostHistory`,
`TreePurge.cfg` and `TreeReopen.cfg` show what happens without the first, the
second and the last; `TreeSequential` is an instance that meets them all. They
leave errors, failed Syncs and crashes between any two calls. A record that is
written behind one whose Sync failed ends the promise (`misnamed`), so the
invariant and each step's effect (`Kept`: the step keeps every history) are up
to that. `AloneInv` has two parts. `FilesOK`: a content is stored once, and
(`Tidy`) the index names the last attribute of a label, one it does not name
having no instance. `OpsOK`: what the locals of the operation under way say of
the history at each step: a write knows the newest instance of its path and
that its value differs; a ReadAt (`Walked`) has passed only instances that are
too new; the shared offsets are where this client's Seek left them. `ChainsIn`
is recursive: that it has a value at all (`ChainsExist`), unrolls, links each
instance to the one before and does not change when the file grows
(`ChainsStay`) are shown by smallest counterexamples. Then every step keeps
every history (`HistoryStays`) but UpdateAttributeFirstInstance, which is
`Assign`, and Tick, which is `Pass`; a restart keeps them because it rebuilds
the same dedup map (`RebuildsSame`) and an index that differs only in a label
whose attribute has no instance.

*Heartbeat.* `LoopInv`: a loop exists exactly while the engine runs or a `Stop`
waits. `TreeInv`: until a coordinated tick flushes, the tree is as the tick
found it. `LostInv` says where a change that calls for a watcher is at each
point of a tick: in the log until the log is cleared, which happens only after
every triggered watcher ran, and then in the cascade, which becomes the log
only after that.

*Value store.* `FreeInv` is about each tier alone: free blocks are separate
(not even adjacent), inside the file, and no intact record has a cell in one.
It rests on what the allocator's operators do for any blocks
(`AllocatedBlocks`: first fit takes a part of one block; `AddedBlocks`:
coalescing frees exactly the cells given and keeps blocks separate) and on what
a write does to a file (`WrittenMakesOne`, `WrittenKeepsOthers`: in free cells
it makes one record and breaks none; `RecordsApart`: intact records never
overlap). `HeldInv` adds that the hash map, the counts and the references
agree, and `SpaceInv` that every cell is held or free. Coalescing walks runs of
adjacent blocks; the facts about runs are proved by the smallest
counterexample, not by induction. `FreeInv` alone does not survive a
defragmentation, which believes what the file says: `SpaceSound` adds that
every value sentinel begins a whole record (`ValuesInv`) and, while no call
failed, that every tombstone still spans what it did and no free block begins
inside one (`TombsInv`). Then the scan visits only places of records
(`ScanWithin`; that its recursion has a value is shown from the last offset
down), the rebuilt list frees exactly tombstones (`RebuiltSpace`), when the
file holds no record FreeList misreads (`PlainFile`), and the compacted file,
whose cells are found by counting the kept ones before them (`NthElements`), is
again one of whole records (`CompactedFile`). The proof is what showed that a
failed call and a defragmentation together break the property.

*Authority.* `AuthInv` types the directory and the method between its decision
and its Set, and relates the two: unless a Merge has overtaken it, an
announcement about to be recorded is newer than the entry it replaces
(`UpdateOK`), whatever the clocks; `Get` of a path with an entry of its own
answers with that entry (`GetOwnEntry`), so the check of an announcement
compares with the right one; a goroutine that counts for an election in the map
counts for the path it is in the map for, so the end of one election never
marks another. That the loop of electByUptime elects the best of its candidates
in any order (`BestIsElected`) is again a smallest counterexample.

*Replication.* Stop clears the running flag under the mutex and closes the
channel after unlocking (`replication.go:154-163`), and a `Start` between the
two gives two loops that cut one queue twice. So the invariant is `raced \/
ReplicationInv`, for any number of starts: at most one loop is in a round or
may begin one (`LoopsInv`), what a round copied is the head of the queue
(`RoundInv`), and what a write still owes a subscriber is in the queue.
`OneStartIsSafe` shows that a manager that is started once never meets that
Start, so both properties hold of it without exception.

*Service.* `RegistryInv` relates the map to each goroutine's place; `CountInv`
says `nextConnID` is the number of IDs drawn, so IDs are not drawn twice;
`KeyInv` that every key in the tree and the key of every pending handshake was
stored for its identity, by an enrolment or a client's write, although the tree
may hold another by the time of the response; `InvitesEnrol` is inductive over
the tokens `redeemed`, which a client's write to an invitation does not undo;
`WalkInv` that a walk has closed every registered connection it has behind it,
and that an open one after a walk is on its way to the cancelled context.

*Wire.* `Exchange` says that an undamaged stream holds the frame and the next
one; the work is in `EveryMessage`, that each decoder inverts its encoder. A
reader that finds the cells of a field anywhere in a payload reads the value
and stops behind it (`Reads`), an empty string only if something follows it
(`ReadsOn`): this is where `reader.Read` answers EOF to a read of no bytes at
the end. From that, a decoder's loop that has come to the end of some fields
with a message goes past one more (`FieldStep` and a lemma per field type);
each message is the chain of its fields. The loops, and FlattenSeq behind the
lists, are recursive functions: each is shown equal to the function of its
intermediate results from index 0 up (`UpTo`, again a smallest counterexample).
The last string must not be empty: the theorem assumes `AnyTail = FALSE`, as
the run does. That a receiver refuses damage cannot be proved: a wrong length
gives another payload and another cell for its checksum, and for some payloads
the two agree by chance.

Only model-checked:

* liveness (`OperationsReturn`, `CascadesEnd`, `StopReturns`,
  `QueuedWritesLeave`): fairness is out of the prover's reach;
* `DamageRefused`, which a checksum only makes likely outside the bounds;
* the language modules, which are recursive throughout.

## Plan

1. Done: storage core, value space, reactive engine, first theorems.
2. Done: language, wire protocol, authority, replication, service.
3. Done: the safety invariants of value store, heartbeat, authority,
   replication and service as theorems, and the refinement of `TemporalTree` by
   a tree with one client.
4. Done: `FreeListsSound` across defragmentations, and `RoundTrip`.
5. A module for the SSE manager and the asset cache, and one for recovery.

## Not modelled

* Mesh membership (join, gossip, failure detection, leave, bridges): no program
  starts the gossip and heartbeat managers and their messages are refused by
  the encoder, so their protocol has no behaviour to check yet.
* The web front: HTTP handlers are I/O; the SSE manager and the asset cache
  keep shared state, and their hazards are listed.
* Permission cascade, filters, stamps and recovery rules; cryptography.
* MBL's library: temporal selectors, interpolated strings, text, time, random,
  HTTP, file and XML functions.
* Agents and bridges in storage, ARI, the command line tools, and the zone
  ring, which is deprecated.
* The legacy zones of the replication manager (marked for removal; nothing
  fills their queues), and writes that store only a part of a record.
