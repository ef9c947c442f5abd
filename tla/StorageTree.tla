---------------------------- MODULE StorageTree ----------------------------
(***************************************************************************)
(* The temporal tree of internal/storage: StorageTree (tree.go) over the   *)
(* value, attribute and instance stores (values.go, attributes.go,         *)
(* instances.go) and the in-memory label index (hashindex.go).             *)
(*                                                                         *)
(* The service runs one goroutine per connection over one StorageTree.     *)
(* The tree has no lock of its own: an operation is a series of calls,     *)
(* each under the lock of the one store it touches, so a step below is one *)
(* such call and the steps of the threads interleave.  A Read* call of a   *)
(* store takes only the read lock and moves the offset of the one shared   *)
(* *os.File (Seek) before it reads there, so it is two steps: two readers  *)
(* of one store can both be between their Seek and their Read.             *)
(*                                                                         *)
(* Value IDs, attribute IDs and instance IDs are positions in the store's  *)
(* file; 0 is "none" everywhere, as in the code.                           *)
(***************************************************************************)
EXTENDS Naturals, Sequences, FiniteSets

CONSTANTS
    Threads,        \* the goroutines that hold a connection
    Paths,          \* composite path labels ("a.b.c")
    Data,           \* the values clients write
    DataFor,        \* [Paths -> SUBSET Data]: what they write to each path
    AuditPath,      \* [Paths -> Paths]: the path of a path's purge audit record
    AuditRecord,    \* the text of a purge audit record
    Small,          \* the contents whose record fits tier 0 (at most 64 bytes)
    ScanLimit,      \* the highest value ID rebuildHashMap tries
    Tombstone,      \* 0xFFFFFFFFFFFFFFFF, an instance ID that cannot be read
    Kinds,          \* the operations the clients of this instance issue
    LoseUnsynced,   \* TRUE: a crash may lose writes the value store never synced
    MaxOps,         \* bound: operations started
    MaxClock,       \* bound: the highest time the wall clock shows
    MaxFaults       \* bound: crashes and I/O errors

Contents == Paths \cup Data \cup {AuditRecord}

Outcomes == Contents \cup {"pending", "changed", "unchanged", "notFound", "failed"}

OpKinds == {"write", "read", "readAt", "purge"}

ASSUME ConstantsAssumption ==
    /\ Paths # {}
    /\ AuditPath \in [Paths -> Paths]
    /\ DataFor \in [Paths -> SUBSET Data]
    /\ Small \subseteq Contents
    /\ Kinds \subseteq OpKinds
    /\ LoseUnsynced \in BOOLEAN
    /\ {ScanLimit, MaxOps, MaxClock, MaxFaults} \subseteq Nat
    /\ Tombstone \notin Nat

VARIABLES
    values,         \* value files: the content at each value ID
    hashToValueID,  \* ValueStore.hashToValueID, in memory; 0 when absent
    attributes,     \* attributes.dat: label value ID and first instance ID
    hashIndex,      \* HashIndex: label value ID -> attribute ID, in memory
    instances,      \* instances.dat: value ID, older instance ID, timestamp
    nextAttribute,  \* AttributeStore.nextID, in memory
    nextInstance,   \* InstanceStore.nextID, in memory
    misnamed,       \* history: an ID was handed out for another record
    clock,          \* time.Now
    valuePos,       \* offset of each value file, by the ID last sought
    attributePos,   \* offset of attributes.dat, as a record number
    instancePos,    \* offset of instances.dat, as a record number
    pc,             \* the step each thread takes next
    op,             \* the locals of the operation each thread runs
    started,        \* operations started
    faults          \* crashes and I/O errors so far

counters == <<nextAttribute, nextInstance, misnamed>>
stores == <<values, hashToValueID, attributes, hashIndex, instances, counters>>
positions == <<valuePos, attributePos, instancePos>>
vars == <<stores, clock, positions, pc, op, started, faults>>

Times == 1..MaxClock

InstanceIDs == Nat \cup {Tombstone}

AttributeRecords == [label : Nat, first : Nat]

InstanceRecords == [value : Nat, older : InstanceIDs, time : Times]

Ops == [kind : OpKinds, path : Paths, data : Contents, from : Nat, at : Nat,
        hit : BOOLEAN, value : Nat, label : Nat, attribute : Nat,
        inst : InstanceIDs, older : InstanceIDs, made : Nat, out : Outcomes]

Steps == {"idle", "value", "label", "lookup", "attribute", "insert",
          "seekAttribute", "readAttribute", "seekInstance", "readInstance",
          "instance", "first", "tombstone", "seekValue", "readValue", "done"}

\* The tiers fall in two classes: the one rebuildHashMap scans and the rest.
TierOf(id) == id \in DOMAIN values /\ values[id] \in Small

NewOp(kind, p, d, from, at) ==
    [kind |-> kind, path |-> p, data |-> d, from |-> from, at |-> at,
     hit |-> FALSE, value |-> 0, label |-> 0, attribute |-> 0,
     inst |-> 0, older |-> 0, made |-> 0, out |-> "pending"]

NoOp == NewOp("read", CHOOSE p \in Paths : TRUE, AuditRecord, 0, 0)

MutantNextID(file) == Len(file) + 2

\* NewAttributeStore, NewInstanceStore: the next ID follows from the file size.
NextID(file) == Len(file) + 1

Init ==
    /\ values = <<>> /\ attributes = <<>> /\ instances = <<>>
    /\ hashToValueID = [c \in Contents |-> 0]
    /\ hashIndex = [v \in {} |-> 0]
    /\ nextAttribute = NextID(attributes) /\ nextInstance = NextID(instances)
    /\ misnamed = FALSE
    /\ clock \in Times
    /\ valuePos = [tier \in BOOLEAN |-> 0]
    /\ attributePos = 0 /\ instancePos = 0
    /\ pc = [t \in Threads |-> "idle"]
    /\ op = [t \in Threads |-> NoOp]
    /\ started = 0 /\ faults = 0
-----------------------------------------------------------------------------
(* Control: a thread's next step, and the exclusive locks of the stores.   *)

Goto(t, step) == pc' = [pc EXCEPT ![t] = step]

Set(t, o) == op' = [op EXCEPT ![t] = o]

Finish(t, outcome) ==
    /\ Goto(t, "done")
    /\ op' = [op EXCEPT ![t].out = outcome]

\* A store's write lock waits for the readers between their Seek and Read.
Unread(step) == \A u \in Threads : pc[u] # step

(* The value store: a content is stored once while the hash map knows it.  *)

MutantWriteValueIDOffByOne(c) ==
    IF hashToValueID[c] # 0 THEN hashToValueID[c] ELSE Len(values)

WriteValueID(c) ==
    IF hashToValueID[c] # 0 THEN hashToValueID[c] ELSE Len(values) + 1

WriteValue(c) ==
    \/ /\ hashToValueID[c] # 0
       /\ UNCHANGED <<values, hashToValueID>>
    \/ /\ hashToValueID[c] = 0
       /\ values' = Append(values, c)
       /\ hashToValueID' = [hashToValueID EXCEPT ![c] = Len(values) + 1]
-----------------------------------------------------------------------------
(* WriteReportingChange, Read, ReadAt and Purge, one call at a time.       *)

\* A request reaches the tree. ReadAt takes an instant, Purge a time range.
Begin(t, kind, p, d, from, at) ==
    /\ pc[t] \in {"idle", "done"}
    /\ kind \in Kinds
    /\ started < MaxOps
    /\ started' = started + 1
    /\ Set(t, NewOp(kind, p, d, from, at))
    /\ Goto(t, IF kind = "write" THEN "value" ELSE "label")
    /\ UNCHANGED <<stores, clock, positions, faults>>

\* WriteReportingChange: valueStore.WriteValue(value).
StoreData(t) ==
    /\ pc[t] = "value"
    /\ Unread("readValue")
    /\ WriteValue(op[t].data)
    /\ op' = [op EXCEPT ![t].value = WriteValueID(op[t].data)]
    /\ Goto(t, "label")
    /\ UNCHANGED <<attributes, hashIndex, instances, counters, clock, positions, started, faults>>

\* The label's value ID: a write stores the label; a read looks it up in the
\* hash map and, when it is not there, stores it too.
StoreLabel(t) ==
    /\ pc[t] = "label"
    /\ \/ Unread("readValue")
       \/ op[t].kind # "write" /\ hashToValueID[op[t].path] # 0
    /\ WriteValue(op[t].path)
    /\ op' = [op EXCEPT ![t].label = WriteValueID(op[t].path)]
    /\ Goto(t, "lookup")
    /\ UNCHANGED <<attributes, hashIndex, instances, counters, clock, positions, started, faults>>

\* hashIndex.Lookup: a write creates the attribute it does not find.
LookupLabel(t) ==
    /\ pc[t] = "lookup"
    /\ \/ /\ op[t].label \in DOMAIN hashIndex
          /\ op' = [op EXCEPT ![t].attribute = hashIndex[op[t].label]]
          /\ Goto(t, "seekAttribute")
       \/ /\ op[t].label \notin DOMAIN hashIndex
          /\ op[t].kind = "write"
          /\ Goto(t, "attribute")
          /\ UNCHANGED op
       \/ /\ op[t].label \notin DOMAIN hashIndex
          /\ op[t].kind # "write"
          /\ Finish(t, "notFound")
    /\ UNCHANGED <<stores, clock, positions, started, faults>>

NewAttribute(o) == [label |-> o.label, first |-> 0]

\* WriteAttribute appends at the end of the file and answers nextID, which is
\* the number of the record only if every record before it was counted.
WriteAttribute(t) ==
    /\ pc[t] = "attribute"
    /\ Unread("readAttribute")
    /\ attributes' = Append(attributes, NewAttribute(op[t]))
    /\ op' = [op EXCEPT ![t].attribute = nextAttribute]
    /\ nextAttribute' = nextAttribute + 1
    /\ misnamed' = IF nextAttribute = Len(attributes) + 1 THEN misnamed ELSE TRUE
    /\ Goto(t, "insert")
    /\ UNCHANGED <<values, hashToValueID, hashIndex, instances, nextInstance, clock, positions, started, faults>>

MutantInsertedUnderValue(o) ==
    [v \in DOMAIN hashIndex \cup {o.value} |->
        IF v = o.value THEN o.attribute ELSE hashIndex[v]]

Inserted(o) ==
    [v \in DOMAIN hashIndex \cup {o.label} |->
        IF v = o.label THEN o.attribute ELSE hashIndex[v]]

\* HashIndex.Insert: an entry the label already has is overwritten.
InsertLabel(t) ==
    /\ pc[t] = "insert"
    /\ hashIndex' = Inserted(op[t])
    /\ Goto(t, "seekAttribute")
    /\ UNCHANGED <<values, hashToValueID, attributes, instances, counters, clock, positions, op, started, faults>>

SeekAttribute(t) ==
    /\ pc[t] = "seekAttribute"
    /\ attributePos' = op[t].attribute
    /\ Goto(t, "readAttribute")
    /\ UNCHANGED <<stores, clock, valuePos, instancePos, op, started, faults>>

\* The record read is the one at the file's offset, which the read advances.
ReadAttribute(t) ==
    /\ pc[t] = "readAttribute"
    /\ attributePos' = attributePos + 1
    /\ \/ /\ attributePos \notin DOMAIN attributes
          /\ Finish(t, "failed")
       \/ /\ attributePos \in DOMAIN attributes
          /\ LET first == attributes[attributePos].first IN
             \/ /\ first # 0
                /\ op' = [op EXCEPT ![t].inst = first]
                /\ Goto(t, "seekInstance")
             \/ /\ first = 0 /\ op[t].kind = "write"
                /\ op' = [op EXCEPT ![t].inst = 0]
                /\ Goto(t, "instance")
             \/ /\ first = 0 /\ op[t].kind = "purge"
                /\ Finish(t, "unchanged")
             \/ /\ first = 0 /\ op[t].kind \in {"read", "readAt"}
                /\ Finish(t, "notFound")
    /\ UNCHANGED <<stores, clock, valuePos, instancePos, started, faults>>

\* Seeking to the record of the tombstone ID overflows to a negative offset.
SeekInstance(t) ==
    /\ pc[t] = "seekInstance"
    /\ \/ /\ op[t].inst # Tombstone
          /\ instancePos' = op[t].inst
          /\ Goto(t, "readInstance")
          /\ UNCHANGED op
       \/ /\ op[t].inst = Tombstone
          /\ Finish(t, "failed")
          /\ UNCHANGED instancePos
    /\ UNCHANGED <<stores, clock, valuePos, attributePos, started, faults>>

\* A walk along the chain goes on at the older instance, or ends: ReadAt
\* finds nothing, Purge goes on to write its audit record.
WalkOn(t, older) ==
    \/ /\ older # 0
       /\ op' = [op EXCEPT ![t].inst = older]
       /\ Goto(t, "seekInstance")
    \/ /\ older = 0 /\ op[t].kind = "readAt"
       /\ Finish(t, "notFound")
    \/ /\ older = 0 /\ op[t].kind = "purge"
       /\ Set(t, NewOp("write", AuditPath[op[t].path], AuditRecord, 0, 0))
       /\ Goto(t, "value")

\* FindInstanceAtTime stops at the first instance that is old enough.
MutantActiveBefore(r, at) == r.time < at

ActiveAt(r, at) == r.time <= at

\* ReadInstance, and what its caller does with the record: a write compares
\* the value IDs, Read fetches the value, ReadAt and Purge walk the chain.
ReadInstance(t) ==
    /\ pc[t] = "readInstance"
    /\ instancePos' = instancePos + 1
    /\ \/ /\ instancePos \notin DOMAIN instances
          /\ Finish(t, "failed")
       \/ /\ instancePos \in DOMAIN instances
          /\ LET r == instances[instancePos]
                 o == op[t] IN
             \/ /\ o.kind = "write" /\ r.value = o.value
                /\ Finish(t, "unchanged")
             \/ /\ o.kind = "write" /\ r.value # o.value
                /\ Goto(t, "instance")
                /\ UNCHANGED op
             \/ /\ o.kind = "read" \/ (o.kind = "readAt" /\ o.hit)
                /\ op' = [op EXCEPT ![t].value = r.value]
                /\ Goto(t, "seekValue")
             \/ /\ o.kind = "readAt" /\ ~o.hit /\ ActiveAt(r, o.at)
                /\ op' = [op EXCEPT ![t].hit = TRUE]
                /\ Goto(t, "seekInstance")
             \/ /\ o.kind = "readAt" /\ ~o.hit /\ ~ActiveAt(r, o.at)
                /\ WalkOn(t, r.older)
             \/ /\ o.kind = "purge" /\ r.time \in o.from..o.at
                /\ op' = [op EXCEPT ![t].older = r.older]
                /\ Goto(t, "tombstone")
             \/ /\ o.kind = "purge" /\ r.time \notin o.from..o.at
                /\ WalkOn(t, r.older)
    /\ UNCHANGED <<stores, clock, valuePos, attributePos, started, faults>>

MutantNewInstanceAlone(o) == [value |-> o.value, older |-> 0, time |-> clock]

MutantNewInstanceSelf(o) ==
    [value |-> o.value, older |-> Len(instances) + 1, time |-> clock]

NewInstance(o) == [value |-> o.value, older |-> o.inst, time |-> clock]

\* WriteInstance links the new record to the first instance read earlier.
WriteInstance(t) ==
    /\ pc[t] = "instance"
    /\ Unread("readInstance")
    /\ instances' = Append(instances, NewInstance(op[t]))
    /\ op' = [op EXCEPT ![t].made = nextInstance]
    /\ nextInstance' = nextInstance + 1
    /\ misnamed' = IF nextInstance = Len(instances) + 1 THEN misnamed ELSE TRUE
    /\ Goto(t, "first")
    /\ UNCHANGED <<values, hashToValueID, attributes, hashIndex, nextAttribute, clock, positions, started, faults>>

MutantPointBack(r, o) == [r EXCEPT !.first = IF o.inst \in Nat THEN o.inst ELSE 0]

PointAt(r, o) == [r EXCEPT !.first = o.made]

UpdateAttributeFirstInstance(t) ==
    /\ pc[t] = "first"
    /\ Unread("readAttribute")
    /\ attributes' = [attributes EXCEPT ![op[t].attribute] = PointAt(@, op[t])]
    /\ Finish(t, "changed")
    /\ UNCHANGED <<values, hashToValueID, hashIndex, instances, counters, clock, positions, started, faults>>

MutantTombstonedValue(r) == [r EXCEPT !.value = Tombstone]

MutantTombstonedTime(r) == [r EXCEPT !.time = 0]

Tombstoned(r) == [r EXCEPT !.older = Tombstone]

\* TombstoneInstance overwrites the eight bytes at offset 8 of the record,
\* which is where serializeInstance puts OlderInstanceID.
TombstoneInstance(t) ==
    /\ pc[t] = "tombstone"
    /\ Unread("readInstance")
    /\ instances' = [instances EXCEPT ![op[t].inst] = Tombstoned(@)]
    /\ WalkOn(t, op[t].older)
    /\ UNCHANGED <<values, hashToValueID, attributes, hashIndex, counters, clock, positions, started, faults>>

SeekValue(t) ==
    /\ pc[t] = "seekValue"
    /\ valuePos' = [valuePos EXCEPT ![TierOf(op[t].value)] = op[t].value]
    /\ Goto(t, "readValue")
    /\ UNCHANGED <<stores, clock, attributePos, instancePos, op, started, faults>>

\* readFromBucketTier: several Seek and Read calls on the shared file. With
\* another reader's Seek between them the record may be any one, or garbage.
ReadValue(t) ==
    LET id == op[t].value IN
    /\ pc[t] = "readValue"
    /\ \/ /\ valuePos[TierOf(id)] = id /\ id \in DOMAIN values
          /\ Finish(t, values[id])
       \/ /\ valuePos[TierOf(id)] = id /\ id \notin DOMAIN values
          /\ Finish(t, "failed")
       \/ /\ valuePos[TierOf(id)] # id
          /\ \E c \in {values[i] : i \in DOMAIN values} \cup {"failed"} : Finish(t, c)
    /\ valuePos' = [valuePos EXCEPT ![TierOf(id)] = 0]
    /\ UNCHANGED <<stores, clock, attributePos, instancePos, started, faults>>
-----------------------------------------------------------------------------
(* The environment: time, I/O errors and crashes.                          *)

\* The wall clock shows another time: it runs on, or is set back.
Tick ==
    /\ clock' \in Times \ {clock}
    /\ UNCHANGED <<stores, positions, pc, op, started, faults>>

\* A Seek, a Read or a Write fails: the operation returns the error and keeps
\* what the calls before it wrote.
IOError(t) ==
    /\ pc[t] \in Steps \ {"idle", "done", "lookup", "insert"}
    /\ faults < MaxFaults
    /\ faults' = faults + 1
    /\ Finish(t, "failed")
    /\ UNCHANGED <<stores, clock, positions, started>>

\* The Sync that ends a write of an attribute or an instance fails: what was
\* written stays in the file and the operation returns the error. The new
\* record of WriteAttribute or WriteInstance is then not counted in nextID.
SyncFails(t) ==
    /\ faults < MaxFaults
    /\ faults' = faults + 1
    /\ \/ /\ pc[t] = "attribute" /\ Unread("readAttribute")
          /\ attributes' = Append(attributes, NewAttribute(op[t]))
          /\ UNCHANGED instances
       \/ /\ pc[t] = "first" /\ Unread("readAttribute")
          /\ attributes' = [attributes EXCEPT ![op[t].attribute] = PointAt(@, op[t])]
          /\ UNCHANGED instances
       \/ /\ pc[t] = "instance" /\ Unread("readInstance")
          /\ instances' = Append(instances, NewInstance(op[t]))
          /\ UNCHANGED attributes
       \/ /\ pc[t] = "tombstone" /\ Unread("readInstance")
          /\ instances' = [instances EXCEPT ![op[t].inst] = Tombstoned(@)]
          /\ UNCHANGED attributes
    /\ Finish(t, "failed")
    /\ UNCHANGED <<values, hashToValueID, hashIndex, counters, clock, positions, started>>

\* rebuildHashMap: of the records it scans, the last one of a content wins.
RebuiltHashMap(vals) ==
    [c \in Contents |->
        LET ids == {i \in DOMAIN vals : i <= ScanLimit /\ vals[i] = c /\ c \in Small}
        IN  IF ids = {} THEN 0 ELSE CHOOSE i \in ids : \A j \in ids : j <= i]

\* RebuildFromAttributeStore: the last attribute of a label wins.
RebuiltIndex(attrs) ==
    [v \in {attrs[a].label : a \in DOMAIN attrs} |->
        CHOOSE a \in DOMAIN attrs :
            /\ attrs[a].label = v
            /\ \A b \in DOMAIN attrs : attrs[b].label = v => b <= a]

\* The process dies and NewStorageTree opens the files again. Attributes and
\* instances were synced by the call that wrote them, values never are.
CrashRestart ==
    /\ faults < MaxFaults
    /\ faults' = faults + 1
    /\ \E n \in (IF LoseUnsynced THEN 0..Len(values) ELSE {Len(values)}) :
          /\ values' = SubSeq(values, 1, n)
          /\ hashToValueID' = RebuiltHashMap(SubSeq(values, 1, n))
    /\ hashIndex' = RebuiltIndex(attributes)
    /\ nextAttribute' = NextID(attributes) /\ nextInstance' = NextID(instances)
    /\ pc' = [t \in Threads |-> "idle"]
    /\ op' = [t \in Threads |-> NoOp]
    /\ UNCHANGED <<attributes, instances, misnamed, clock, positions, started>>
-----------------------------------------------------------------------------
Step(t) ==
    \/ StoreData(t) \/ StoreLabel(t) \/ LookupLabel(t)
    \/ WriteAttribute(t) \/ InsertLabel(t)
    \/ SeekAttribute(t) \/ ReadAttribute(t)
    \/ SeekInstance(t) \/ ReadInstance(t)
    \/ WriteInstance(t) \/ UpdateAttributeFirstInstance(t)
    \/ TombstoneInstance(t)
    \/ SeekValue(t) \/ ReadValue(t)

Request(t) ==
    \/ \E p \in Paths : \E d \in DataFor[p] : Begin(t, "write", p, d, 0, 0)
    \/ \E p \in Paths : Begin(t, "read", p, AuditRecord, 0, 0)
    \/ \E p \in Paths, at \in 0..MaxClock : Begin(t, "readAt", p, AuditRecord, 0, at)
    \/ \E p \in Paths, from, to \in 1..MaxClock : Begin(t, "purge", p, AuditRecord, from, to)

Next ==
    \/ \E t \in Threads : Request(t) \/ Step(t) \/ IOError(t) \/ SyncFails(t)
    \/ Tick
    \/ CrashRestart

Spec == Init /\ [][Next]_vars

\* A goroutine inside an operation runs. Strong fairness: a write lock is
\* free again and again while readers come and go, and Go's RWMutex admits no
\* new reader once a writer waits, so the writer gets it.
FairSpec == Spec /\ \A t \in Threads : SF_vars(Step(t))
-----------------------------------------------------------------------------
(* Properties.                                                             *)

\* Type invariant: the shape of the stores, the file offsets and the locals.
TypeOK ==
    /\ values \in Seq(Contents)
    /\ hashToValueID \in [Contents -> Nat]
    /\ attributes \in Seq(AttributeRecords)
    /\ DOMAIN hashIndex \subseteq Nat
    /\ \A v \in DOMAIN hashIndex : hashIndex[v] \in Nat
    /\ instances \in Seq(InstanceRecords)
    /\ nextAttribute \in Nat /\ nextInstance \in Nat /\ misnamed \in BOOLEAN
    /\ clock \in Times /\ attributePos \in Nat /\ instancePos \in Nat
    /\ valuePos \in [BOOLEAN -> Nat]
    /\ pc \in [Threads -> Steps]
    /\ op \in [Threads -> Ops]
    /\ started \in Nat /\ faults \in Nat

\* Whatever the threads interleave and whenever a crash or an I/O error cuts
\* them off, the in-memory maps agree with the files: the dedup map names
\* records of that content, an index entry names an attribute of the file,
\* and unless a record was written behind one whose Sync had failed, it is an
\* attribute of that label, and every attribute counted in nextID is in the
\* index or its creator is about to insert it (NewStorageTree, writeValue,
\* WriteAttribute, findOrCreateAttributeForPath).
MapsAgreeWithFiles ==
    /\ \A c \in Contents : hashToValueID[c] # 0 =>
          hashToValueID[c] \in DOMAIN values /\ values[hashToValueID[c]] = c
    /\ \A v \in DOMAIN hashIndex :
          /\ hashIndex[v] \in DOMAIN attributes
          /\ misnamed \/ attributes[hashIndex[v]].label = v
    /\ misnamed \/ \A a \in 1..(nextAttribute - 1) :
          \/ attributes[a].label \in DOMAIN hashIndex
          \/ \E t \in Threads : pc[t] = "insert" /\ op[t].attribute = a

\* Every chain goes strictly back in the file: an instance's older one has a
\* smaller ID, whichever record a racing reader took for its predecessor and
\* even when a failed Sync has shifted the IDs. So every walk (ReadAt, Purge,
\* GetInstanceChain) ends.
ChainsGoBack ==
    /\ \A a \in DOMAIN attributes : attributes[a].first <= Len(instances)
    /\ \A i \in DOMAIN instances : instances[i].older \in Nat => instances[i].older < i

\* The instance file is append-only: no operation of any thread, no error
\* and no crash removes an instance or changes the value or the time of one
\* (Purge included, which only marks it).
InstancesAppendOnly ==
    [][/\ Len(instances') >= Len(instances)
       /\ \A i \in DOMAIN instances :
             /\ instances'[i].value = instances[i].value
             /\ instances'[i].time = instances[i].time]_vars

\* Every operation a client starts returns: no store's lock is held for ever,
\* no walk goes on for ever.
OperationsReturn ==
    \A t \in Threads : pc[t] \notin {"idle", "done"} ~> pc[t] \in {"idle", "done"}
=============================================================================
