------------------------- MODULE StorageTreeProofs -------------------------
(***************************************************************************)
(* Safety of StorageTree for every set of threads, paths and data and      *)
(* every bound: the theorems hold of all the interleavings, I/O errors,    *)
(* crashes and lost writes that the specification allows.                  *)
(***************************************************************************)
EXTENDS StorageTree, SequenceTheorems, WellFoundedInduction, TLAPS

\* The steps after which a thread's attribute is known.
Located == {"insert", "seekAttribute", "readAttribute", "seekInstance",
            "readInstance", "instance", "first", "tombstone"}

\* What the locals of an operation say of the stores, at each of its steps.
LocalOK(o, s) ==
    /\ o.inst \in Nat => o.inst <= Len(instances)
    /\ o.older \in Nat => o.older <= Len(instances)
    /\ s \in Located => o.attribute \in DOMAIN attributes
    /\ s = "insert" => misnamed \/ attributes[o.attribute].label = o.label
    /\ s \in {"readInstance", "tombstone"} => o.inst \in Nat
    /\ s \in {"seekInstance", "readInstance", "tombstone"} => o.inst # 0
    /\ s = "first" => o.made \in DOMAIN instances

LocalsOK == \A t \in Threads : LocalOK(op[t], pc[t])

\* A store's nextID is the number of a record of its file or of the one after
\* the last: lower when the Sync of a record failed.
IDsInRange ==
    /\ nextAttribute \in 1..(Len(attributes) + 1)
    /\ nextInstance \in 1..(Len(instances) + 1)

\* The inductive invariant: each part needs the others. LocalsOK keeps the
\* updates of attributes and instances inside the files, IDsInRange lets an ID
\* that WriteAttribute or WriteInstance answers name a record.
Inv ==
    /\ TypeOK
    /\ LocalsOK
    /\ IDsInRange
    /\ ChainsGoBack
    /\ MapsAgreeWithFiles
-----------------------------------------------------------------------------
\* A bounded set of naturals has a largest element.
LEMMA LargestExists ==
    ASSUME NEW n \in Nat, NEW S, S \subseteq 0..n, S # {}
    PROVE  \E m \in S : \A j \in S : j <= m
<1> DEFINE B == {k \in Nat : \A j \in S : j <= k}
<1>1. n \in B OBVIOUS
<1> DEFINE Less == {ss \in Nat \X Nat : ss[1] < ss[2]}
<1>2. IsWellFoundedOn(Less, Nat)
  BY NatLessThanWellFounded DEF OpToRel
<1>3. PICK m \in B : \A y \in B : m <= y
  <2>1. B \subseteq Nat OBVIOUS
  <2> HIDE DEF Less
  <2>2. PICK m \in B : \A y \in B : ~ (<<y, m>> \in Less)
    BY <1>1, <1>2, <2>1, WFMin
  <2>3. \A y \in B : ~ (y < m)
    BY <2>2 DEF Less
  <2> QED BY <2>3
<1>4. m \in S
  <2> SUFFICES ASSUME m \notin S PROVE FALSE OBVIOUS
  <2> PICK j \in S : TRUE OBVIOUS
  <2>1. m # 0
    <3>1. j \in Nat /\ j <= m /\ j # m OBVIOUS
    <3> QED BY <3>1
  <2>2. m - 1 \in B BY <2>1
  <2> QED BY <2>2, <1>3
<1> QED BY <1>4

\* A new operation's locals have their types.
LEMMA NewOpType ==
    ASSUME NEW k \in OpKinds, NEW p \in Paths, NEW d \in Contents,
           NEW from \in Nat, NEW at \in Nat
    PROVE  NewOp(k, p, d, from, at) \in Ops
BY DEF NewOp, Ops, InstanceIDs, Outcomes

\* The locals of a thread that runs nothing have their types.
LEMMA NoOpType == NoOp \in Ops
<1>1. (CHOOSE p \in Paths : TRUE) \in Paths
  BY ConstantsAssumption
<1> QED BY <1>1, NewOpType DEF NoOp, OpKinds, Contents

\* rebuildHashMap maps a content only to a record that holds it.
LEMMA RebuiltHashMapSound ==
    ASSUME NEW vals \in Seq(Contents)
    PROVE  /\ RebuiltHashMap(vals) \in [Contents -> Nat]
           /\ \A c \in Contents : RebuiltHashMap(vals)[c] # 0 =>
                 /\ RebuiltHashMap(vals)[c] \in DOMAIN vals
                 /\ vals[RebuiltHashMap(vals)[c]] = c
<1> DEFINE ids(c) == {i \in DOMAIN vals : i <= ScanLimit /\ vals[i] = c /\ c \in Small}
<1>1. ASSUME NEW c \in Contents, ids(c) # {}
      PROVE  (CHOOSE i \in ids(c) : \A j \in ids(c) : j <= i) \in ids(c)
  <2>1. ids(c) \subseteq 0..Len(vals) OBVIOUS
  <2>2. Len(vals) \in Nat OBVIOUS
  <2> HIDE DEF ids
  <2>3. \E i \in ids(c) : \A j \in ids(c) : j <= i
    BY <1>1, <2>1, <2>2, LargestExists
  <2> QED BY <2>3
<1>2. ASSUME NEW c \in Contents
      PROVE  RebuiltHashMap(vals)[c] \in {0} \cup ids(c)
  BY <1>1 DEF RebuiltHashMap
<1>3. DOMAIN RebuiltHashMap(vals) = Contents BY DEF RebuiltHashMap
<1>4. RebuiltHashMap(vals) \in [Contents -> Nat]
  <2>1. \A c \in Contents : RebuiltHashMap(vals)[c] \in Nat BY <1>2
  <2> QED BY <2>1 DEF RebuiltHashMap
<1> QED BY <1>2, <1>4

\* RebuildFromAttributeStore indexes every attribute's label, under one of
\* the attributes that have it.
LEMMA RebuiltIndexSound ==
    ASSUME NEW attrs \in Seq(AttributeRecords)
    PROVE  /\ DOMAIN RebuiltIndex(attrs) = {attrs[a].label : a \in DOMAIN attrs}
           /\ \A v \in DOMAIN RebuiltIndex(attrs) :
                 /\ RebuiltIndex(attrs)[v] \in DOMAIN attrs
                 /\ attrs[RebuiltIndex(attrs)[v]].label = v
                 /\ \A b \in DOMAIN attrs : attrs[b].label = v => b <= RebuiltIndex(attrs)[v]
<1>1. DOMAIN RebuiltIndex(attrs) = {attrs[a].label : a \in DOMAIN attrs}
  BY DEF RebuiltIndex
<1>2. ASSUME NEW v \in DOMAIN RebuiltIndex(attrs)
      PROVE  \E a \in DOMAIN attrs :
                /\ attrs[a].label = v
                /\ \A b \in DOMAIN attrs : attrs[b].label = v => b <= a
  <2> DEFINE S == {a \in DOMAIN attrs : attrs[a].label = v}
  <2>1. S \subseteq 0..Len(attrs) /\ S # {} BY <1>1
  <2>2. Len(attrs) \in Nat OBVIOUS
  <2>3. \E a \in S : \A b \in S : b <= a
    <3> HIDE DEF S
    <3> QED BY <2>1, <2>2, LargestExists
  <2> QED BY <2>3
<1>3. ASSUME NEW v \in DOMAIN RebuiltIndex(attrs)
      PROVE  /\ RebuiltIndex(attrs)[v] \in DOMAIN attrs
             /\ attrs[RebuiltIndex(attrs)[v]].label = v
             /\ \A b \in DOMAIN attrs : attrs[b].label = v => b <= RebuiltIndex(attrs)[v]
  BY <1>2 DEF RebuiltIndex
<1> QED BY <1>1, <1>3
-----------------------------------------------------------------------------
(* How a step changes the locals and the stores.                           *)

\* A field of the locals may be set to any value of its type.
LEMMA SetField ==
    ASSUME NEW o \in Ops
    PROVE  /\ \A n \in Nat : /\ [o EXCEPT !.value = n] \in Ops
                             /\ [o EXCEPT !.label = n] \in Ops
                             /\ [o EXCEPT !.attribute = n] \in Ops
                             /\ [o EXCEPT !.made = n] \in Ops
           /\ \A i \in InstanceIDs : /\ [o EXCEPT !.inst = i] \in Ops
                                     /\ [o EXCEPT !.older = i] \in Ops
           /\ \A x \in Outcomes : [o EXCEPT !.out = x] \in Ops
           /\ [o EXCEPT !.hit = TRUE] \in Ops
BY DEF Ops

\* The type of each local, spelled out for the steps that use one.
LEMMA OpTypes ==
    ASSUME TypeOK, NEW t \in Threads
    PROVE  /\ op[t] \in Ops /\ pc[t] \in Steps
           /\ op[t].kind \in OpKinds /\ op[t].path \in Paths
           /\ op[t].data \in Contents
           /\ op[t].value \in Nat /\ op[t].label \in Nat /\ op[t].attribute \in Nat
           /\ op[t].inst \in InstanceIDs /\ op[t].older \in InstanceIDs
           /\ op[t].made \in Nat
BY DEF TypeOK, Ops

\* One thread's locals and step change, the others' stay.
LEMMA ThreadMoves ==
    ASSUME TypeOK, NEW t \in Threads, NEW o \in Ops, NEW s \in Steps,
           op' = [op EXCEPT ![t] = o], Goto(t, s)
    PROVE  /\ op' \in [Threads -> Ops] /\ pc' \in [Threads -> Steps]
           /\ op'[t] = o /\ pc'[t] = s
           /\ \A u \in Threads : u # t => op'[u] = op[u] /\ pc'[u] = pc[u]
BY DEF TypeOK, Goto

\* What Append does to the length, the domain and the elements.
LEMMA AppendFacts ==
    ASSUME NEW S, NEW q \in Seq(S), NEW e \in S
    PROVE  /\ Append(q, e) \in Seq(S)
           /\ Len(q) \in Nat
           /\ Len(Append(q, e)) = Len(q) + 1
           /\ DOMAIN Append(q, e) = 1..Len(q) + 1
           /\ Append(q, e)[Len(q) + 1] = e
           /\ \A i \in DOMAIN q : i \in 1..Len(q) /\ Append(q, e)[i] = q[i]
OBVIOUS

\* What an update in place does to the length, the domain and the elements.
LEMMA UpdateFacts ==
    ASSUME NEW S, NEW q \in Seq(S), NEW i \in 1..Len(q), NEW e \in S,
           NEW p, p = [q EXCEPT ![i] = e]
    PROVE  /\ p \in Seq(S) /\ Len(p) = Len(q) /\ DOMAIN p = DOMAIN q
           /\ \A j \in DOMAIN q : p[j] = IF j = i THEN e ELSE q[j]
<1>1. DOMAIN q = 1..Len(q) BY LenProperties
<1> QED BY <1>1, ExceptSeq

\* writeValue stores well-typed contents and keeps the dedup map sound.
LEMMA WriteValueOK ==
    ASSUME TypeOK, NEW c \in Contents, WriteValue(c)
    PROVE  /\ values' \in Seq(Contents)
           /\ hashToValueID' \in [Contents -> Nat]
           /\ WriteValueID(c) \in Nat
<1>1. Len(values) \in Nat BY DEF TypeOK
<1>2. CASE hashToValueID[c] # 0
  BY <1>2 DEF TypeOK, WriteValue, WriteValueID
<1>3. CASE hashToValueID[c] = 0
  <2>1. /\ values' = Append(values, c)
        /\ hashToValueID' = [hashToValueID EXCEPT ![c] = Len(values) + 1]
    BY <1>3 DEF WriteValue
  <2>2. values' \in Seq(Contents)
    BY <2>1 DEF TypeOK
  <2>3. hashToValueID' \in [Contents -> Nat]
    BY <1>1, <2>1 DEF TypeOK
  <2> QED BY <1>1, <1>3, <2>2, <2>3 DEF WriteValueID
<1> QED BY <1>2, <1>3

\* writeValue keeps every dedup entry on a record of its content.
LEMMA WriteValueSound ==
    ASSUME TypeOK, NEW c \in Contents, WriteValue(c),
           \A d \in Contents : hashToValueID[d] # 0 =>
              hashToValueID[d] \in DOMAIN values /\ values[hashToValueID[d]] = d
    PROVE  \A d \in Contents : hashToValueID'[d] # 0 =>
              hashToValueID'[d] \in DOMAIN values' /\ values'[hashToValueID'[d]] = d
<1>1. Len(values) \in Nat BY DEF TypeOK
<1>2. CASE hashToValueID[c] # 0
  BY <1>2 DEF TypeOK, WriteValue
<1>3. CASE hashToValueID[c] = 0
  <2>1. /\ values' = Append(values, c)
        /\ hashToValueID' = [hashToValueID EXCEPT ![c] = Len(values) + 1]
    BY <1>3 DEF WriteValue
  <2>2. /\ DOMAIN values' = 1..Len(values) + 1
        /\ values'[Len(values) + 1] = c
        /\ \A i \in DOMAIN values : i \in DOMAIN values' /\ values'[i] = values[i]
    BY <1>1, <2>1 DEF TypeOK
  <2>3. /\ hashToValueID'[c] = Len(values) + 1
        /\ \A d \in Contents : d # c => hashToValueID'[d] = hashToValueID[d]
    BY <2>1 DEF TypeOK
  <2> QED BY <1>1, <2>2, <2>3
<1> QED BY <1>2, <1>3
-----------------------------------------------------------------------------
(* The steps that leave the stores alone.                                  *)

\* A step that only moves one thread, to a step its new locals fit.
LEMMA LocalStep ==
    ASSUME Inv, NEW t \in Threads, NEW o \in Ops, NEW s \in Steps,
           op' = [op EXCEPT ![t] = o], Goto(t, s),
           pc[t] # "insert", LocalOK(o, s),
           UNCHANGED <<stores, clock>>,
           valuePos' \in [BOOLEAN -> Nat], attributePos' \in Nat, instancePos' \in Nat,
           started' \in Nat, faults' \in Nat
    PROVE  Inv'
<1>1. /\ op' \in [Threads -> Ops] /\ pc' \in [Threads -> Steps]
      /\ op'[t] = o /\ pc'[t] = s
      /\ \A u \in Threads : u # t => op'[u] = op[u] /\ pc'[u] = pc[u]
  BY ThreadMoves DEF Inv
<1>2. TypeOK'
  BY <1>1 DEF Inv, TypeOK, stores, counters
<1>3. LocalsOK'
  <2> SUFFICES ASSUME NEW u \in Threads PROVE LocalOK(op[u], pc[u])'
    BY DEF LocalsOK
  <2>1. LocalOK(op'[u], pc'[u])
    BY <1>1 DEF Inv, LocalsOK
  <2> QED BY <2>1 DEF LocalOK, stores, counters
<1>4. IDsInRange' /\ ChainsGoBack'
  BY DEF Inv, IDsInRange, ChainsGoBack, stores, counters
<1>5. MapsAgreeWithFiles'
  BY <1>1 DEF Inv, MapsAgreeWithFiles, stores, counters
<1> QED BY <1>2, <1>3, <1>4, <1>5 DEF Inv

\* An operation may return at any step but the one that inserts its attribute.
LEMMA FinishStep ==
    ASSUME Inv, NEW t \in Threads, NEW x \in Outcomes, Finish(t, x),
           pc[t] # "insert",
           UNCHANGED <<stores, clock>>,
           valuePos' \in [BOOLEAN -> Nat], attributePos' \in Nat, instancePos' \in Nat,
           started' \in Nat, faults' \in Nat
    PROVE  Inv'
<1> DEFINE o == [op[t] EXCEPT !.out = x]
<1>1. op[t] \in Ops BY OpTypes DEF Inv
<1>2. o \in Ops /\ op' = [op EXCEPT ![t] = o] /\ Goto(t, "done")
  BY <1>1, SetField DEF Finish
<1>3. o.inst = op[t].inst /\ o.older = op[t].older
  BY <1>1 DEF Ops
<1>4. LocalOK(o, "done")
  BY <1>3 DEF Inv, LocalsOK, LocalOK, Located
<1> HIDE DEF o
<1> QED BY <1>2, <1>4, LocalStep DEF Steps

\* A new request only resets its thread's locals.
LEMMA BeginInv ==
    ASSUME Inv, NEW t \in Threads, NEW k \in OpKinds, NEW p \in Paths,
           NEW d \in Contents, NEW from \in Nat, NEW at \in Nat,
           Begin(t, k, p, d, from, at)
    PROVE  Inv'
<1> DEFINE o == NewOp(k, p, d, from, at)
           s == IF k = "write" THEN "value" ELSE "label"
<1>1. o \in Ops BY NewOpType
<1>2. s \in Steps /\ s \notin Located BY DEF Steps, Located
<1>3. LocalOK(o, s)
  BY <1>2 DEF LocalOK, NewOp, Located, Inv, TypeOK
<1>4. op' = [op EXCEPT ![t] = o] /\ Goto(t, s) /\ pc[t] # "insert"
  BY DEF Begin, Set
<1>5. started' \in Nat BY DEF Begin, Inv, TypeOK
<1> HIDE DEF o, s
<1> QED BY <1>1, <1>2, <1>3, <1>4, <1>5, LocalStep DEF Begin, positions, Inv, TypeOK

\* hashIndex.Lookup yields an attribute that the file holds.
LEMMA LookupLabelInv ==
    ASSUME Inv, NEW t \in Threads, LookupLabel(t)
    PROVE  Inv'
<1>1. op[t] \in Ops /\ op[t].label \in Nat BY OpTypes DEF Inv
<1>2. LocalOK(op[t], pc[t]) BY DEF Inv, LocalsOK
<1>3. CASE op[t].label \in DOMAIN hashIndex
  <2> DEFINE o == [op[t] EXCEPT !.attribute = hashIndex[op[t].label]]
  <2>1. hashIndex[op[t].label] \in Nat /\ hashIndex[op[t].label] \in DOMAIN attributes
    BY <1>3 DEF Inv, TypeOK, MapsAgreeWithFiles
  <2>2. o \in Ops /\ op' = [op EXCEPT ![t] = o] /\ Goto(t, "seekAttribute")
    BY <1>1, <1>3, <2>1, SetField DEF LookupLabel
  <2>3. /\ o.attribute = hashIndex[op[t].label]
        /\ o.inst = op[t].inst /\ o.older = op[t].older
    BY <1>1 DEF Ops
  <2>4. LocalOK(o, "seekAttribute")
    BY <1>2, <2>1, <2>3 DEF LocalOK, Located
  <2> HIDE DEF o
  <2> QED BY <2>2, <2>4, LocalStep DEF LookupLabel, positions, Inv, TypeOK, Steps
<1>4. CASE op[t].label \notin DOMAIN hashIndex /\ op[t].kind = "write"
  <2>1. op' = [op EXCEPT ![t] = op[t]] /\ Goto(t, "attribute")
    BY <1>4 DEF LookupLabel, Inv, TypeOK
  <2>2. LocalOK(op[t], "attribute")
    BY <1>2 DEF LocalOK, Located
  <2> QED BY <1>1, <2>1, <2>2, LocalStep DEF LookupLabel, positions, Inv, TypeOK, Steps
<1>5. CASE op[t].label \notin DOMAIN hashIndex /\ op[t].kind # "write"
  <2>1. Finish(t, "notFound") BY <1>5 DEF LookupLabel
  <2> QED BY <2>1, FinishStep DEF LookupLabel, positions, Inv, TypeOK, Outcomes
<1> QED BY <1>3, <1>4, <1>5

\* ReadAttribute's Seek moves the shared offset only.
LEMMA SeekAttributeInv ==
    ASSUME Inv, NEW t \in Threads, SeekAttribute(t)
    PROVE  Inv'
<1>1. op[t] \in Ops /\ op[t].attribute \in Nat BY OpTypes DEF Inv
<1>2. LocalOK(op[t], pc[t]) BY DEF Inv, LocalsOK
<1>3. op' = [op EXCEPT ![t] = op[t]] /\ Goto(t, "readAttribute")
  BY DEF SeekAttribute, Inv, TypeOK
<1>4. LocalOK(op[t], "readAttribute")
  BY <1>2 DEF LocalOK, Located, SeekAttribute
<1> QED BY <1>1, <1>3, <1>4, LocalStep DEF SeekAttribute, Inv, TypeOK, Steps

\* Whatever record the shared offset names, the first instance it yields is
\* none or an instance of the file.
LEMMA ReadAttributeInv ==
    ASSUME Inv, NEW t \in Threads, ReadAttribute(t)
    PROVE  Inv'
<1> DEFINE first == attributes[attributePos].first
           o == [op[t] EXCEPT !.inst = first]
<1>1. op[t] \in Ops BY OpTypes DEF Inv
<1>2. LocalOK(op[t], pc[t]) BY DEF Inv, LocalsOK
<1>3. /\ attributePos' \in Nat /\ pc[t] = "readAttribute"
      /\ UNCHANGED <<stores, clock, valuePos, instancePos, started, faults>>
      /\ valuePos \in [BOOLEAN -> Nat] /\ instancePos \in Nat
      /\ started \in Nat /\ faults \in Nat
  BY DEF ReadAttribute, Inv, TypeOK
<1>4. CASE \E x \in {"failed", "unchanged", "notFound"} : Finish(t, x)
  BY <1>3, <1>4, FinishStep DEF Outcomes
<1>5. CASE /\ attributePos \in DOMAIN attributes
           /\ op' = [op EXCEPT ![t].inst = first]
           /\ \/ first # 0 /\ Goto(t, "seekInstance")
              \/ first = 0 /\ Goto(t, "instance")
  <2>1. first \in Nat /\ first <= Len(instances)
    <3>1. attributes[attributePos] \in AttributeRecords
      BY <1>5, ElementOfSeq, LenProperties DEF Inv, TypeOK
    <3>2. first <= Len(instances) BY <1>5 DEF Inv, ChainsGoBack
    <3> QED BY <3>1, <3>2 DEF AttributeRecords
  <2>2. o \in Ops /\ op' = [op EXCEPT ![t] = o]
    BY <1>1, <1>5, <2>1, SetField DEF InstanceIDs
  <2>3. /\ o.inst = first /\ o.older = op[t].older /\ o.attribute = op[t].attribute
    BY <1>1 DEF Ops
  <2>4. CASE first # 0 /\ Goto(t, "seekInstance")
    <3>1. LocalOK(o, "seekInstance")
      BY <1>2, <1>3, <2>1, <2>3, <2>4 DEF LocalOK, Located
    <3> HIDE DEF o
    <3> QED BY <1>3, <2>2, <2>4, <3>1, LocalStep DEF Steps
  <2>5. CASE first = 0 /\ Goto(t, "instance")
    <3>1. LocalOK(o, "instance")
      BY <1>2, <1>3, <2>1, <2>3, <2>5 DEF LocalOK, Located
    <3> HIDE DEF o
    <3> QED BY <1>3, <2>2, <2>5, <3>1, LocalStep DEF Steps
  <2> QED BY <1>5, <2>4, <2>5
<1> QED BY <1>4, <1>5 DEF ReadAttribute

\* ReadInstance's Seek moves the shared offset only, or fails.
LEMMA SeekInstanceInv ==
    ASSUME Inv, NEW t \in Threads, SeekInstance(t)
    PROVE  Inv'
<1>1. op[t] \in Ops /\ op[t].inst \in InstanceIDs BY OpTypes DEF Inv
<1>2. LocalOK(op[t], pc[t]) BY DEF Inv, LocalsOK
<1>3. CASE op[t].inst # Tombstone
  <2>1. op' = [op EXCEPT ![t] = op[t]] /\ Goto(t, "readInstance") /\ instancePos' \in Nat
    BY <1>1, <1>3 DEF SeekInstance, Inv, TypeOK, InstanceIDs
  <2>2. LocalOK(op[t], "readInstance")
    BY <1>1, <1>2, <1>3 DEF LocalOK, Located, SeekInstance, InstanceIDs
  <2> QED BY <1>1, <2>1, <2>2, LocalStep DEF SeekInstance, Inv, TypeOK, Steps
<1>4. CASE op[t].inst = Tombstone
  <2>1. Finish(t, "failed") /\ UNCHANGED instancePos BY <1>4 DEF SeekInstance
  <2> QED BY <2>1, FinishStep DEF SeekInstance, Inv, TypeOK, Outcomes
<1> QED BY <1>3, <1>4

\* readFromBucketTier's Seek moves one tier's offset only.
LEMMA SeekValueInv ==
    ASSUME Inv, NEW t \in Threads, SeekValue(t)
    PROVE  Inv'
<1>1. op[t] \in Ops /\ op[t].value \in Nat BY OpTypes DEF Inv
<1>2. LocalOK(op[t], pc[t]) BY DEF Inv, LocalsOK
<1>3. op' = [op EXCEPT ![t] = op[t]] /\ Goto(t, "readValue")
  BY DEF SeekValue, Inv, TypeOK
<1>4. LocalOK(op[t], "readValue")
  BY <1>2 DEF LocalOK, Located, SeekValue
<1>5. valuePos' \in [BOOLEAN -> Nat]
  BY <1>1 DEF SeekValue, Inv, TypeOK
<1> QED BY <1>1, <1>3, <1>4, <1>5, LocalStep DEF SeekValue, Inv, TypeOK, Steps

\* A read of a value ends the operation, right or wrong record alike.
LEMMA ReadValueInv ==
    ASSUME Inv, NEW t \in Threads, ReadValue(t)
    PROVE  Inv'
<1>1. \A i \in DOMAIN values : values[i] \in Outcomes
  BY DEF Inv, TypeOK, Outcomes
<1>2. \E x \in Outcomes : Finish(t, x)
  BY <1>1 DEF ReadValue, Outcomes
<1>3. valuePos' \in [BOOLEAN -> Nat]
  BY DEF ReadValue, Inv, TypeOK
<1> QED BY <1>2, <1>3, FinishStep DEF ReadValue, Inv, TypeOK

\* An operation that returns an error leaves the stores alone.
LEMMA IOErrorInv ==
    ASSUME Inv, NEW t \in Threads, IOError(t)
    PROVE  Inv'
<1>1. "failed" \in Outcomes BY DEF Outcomes
<1>2. pc[t] # "insert" /\ Finish(t, "failed") BY DEF IOError
<1>3. faults' \in Nat BY DEF IOError, Inv, TypeOK
<1> QED BY <1>1, <1>2, <1>3, FinishStep DEF IOError, Inv, TypeOK, positions

\* A walk goes on at an older instance that is in the file, or ends.
LEMMA WalkOnControl ==
    ASSUME Inv, NEW t \in Threads, NEW older \in InstanceIDs, WalkOn(t, older),
           pc[t] \in {"readInstance", "tombstone"},
           older \in Nat => older <= Len(instances)
    PROVE  \E o \in Ops, s \in Steps :
              /\ op' = [op EXCEPT ![t] = o] /\ Goto(t, s)
              /\ LocalOK(o, s)
              /\ s \in {"seekInstance", "done", "value"}
<1>1. op[t] \in Ops /\ op[t].path \in Paths BY OpTypes DEF Inv
<1>2. LocalOK(op[t], pc[t]) BY DEF Inv, LocalsOK
<1>3. CASE older # 0
  <2> DEFINE o == [op[t] EXCEPT !.inst = older]
  <2>1. o \in Ops /\ op' = [op EXCEPT ![t] = o] /\ Goto(t, "seekInstance")
    BY <1>1, <1>3, SetField DEF WalkOn
  <2>2. o.inst = older /\ o.older = op[t].older /\ o.attribute = op[t].attribute
    BY <1>1 DEF Ops
  <2>3. LocalOK(o, "seekInstance")
    BY <1>2, <1>3, <2>2 DEF LocalOK, Located
  <2> HIDE DEF o
  <2> QED BY <2>1, <2>3 DEF Steps
<1>4. CASE older = 0 /\ op[t].kind = "readAt"
  <2> DEFINE o == [op[t] EXCEPT !.out = "notFound"]
  <2>1. o \in Ops /\ op' = [op EXCEPT ![t] = o] /\ Goto(t, "done")
    BY <1>1, <1>4, SetField DEF WalkOn, Finish, Outcomes
  <2>2. o.inst = op[t].inst /\ o.older = op[t].older
    BY <1>1 DEF Ops
  <2>3. LocalOK(o, "done")
    BY <1>2, <2>2 DEF LocalOK, Located
  <2> HIDE DEF o
  <2> QED BY <2>1, <2>3 DEF Steps
<1>5. CASE older = 0 /\ op[t].kind = "purge"
  <2> DEFINE o == NewOp("write", AuditPath[op[t].path], AuditRecord, 0, 0)
  <2>1. op' = [op EXCEPT ![t] = o] /\ Goto(t, "value")
    BY <1>5 DEF WalkOn, Set
  <2>2. AuditPath[op[t].path] \in Paths /\ AuditRecord \in Contents /\ "write" \in OpKinds
    BY <1>1, ConstantsAssumption DEF Contents, OpKinds
  <2>3. o \in Ops BY <2>2, NewOpType
  <2>4. LocalOK(o, "value")
    BY DEF LocalOK, Located, NewOp, Inv, TypeOK
  <2> HIDE DEF o
  <2> QED BY <2>1, <2>3, <2>4 DEF Steps
<1> QED BY <1>3, <1>4, <1>5 DEF WalkOn

\* The record read, though it may be another reader's, is no later than now
\* and its older one is in the file: what a write needs to link to it.
LEMMA ReadInstanceInv ==
    ASSUME Inv, NEW t \in Threads, ReadInstance(t)
    PROVE  Inv'
<1> DEFINE r == instances[instancePos]
<1>1. op[t] \in Ops BY OpTypes DEF Inv
<1>2. LocalOK(op[t], pc[t]) BY DEF Inv, LocalsOK
<1>3. /\ instancePos' \in Nat /\ pc[t] = "readInstance"
      /\ UNCHANGED <<stores, clock, valuePos, attributePos, started, faults>>
      /\ valuePos \in [BOOLEAN -> Nat] /\ attributePos \in Nat
      /\ started \in Nat /\ faults \in Nat
  BY DEF ReadInstance, Inv, TypeOK
<1>4. CASE \E x \in {"failed", "unchanged"} : Finish(t, x)
  BY <1>3, <1>4, FinishStep DEF Outcomes
<1>5. CASE instancePos \notin DOMAIN instances
  BY <1>4, <1>5 DEF ReadInstance
<1>6. CASE instancePos \in DOMAIN instances
  <2>1. /\ r \in InstanceRecords
        /\ r.value \in Nat /\ r.older \in InstanceIDs
    <3>1. r \in InstanceRecords
      BY <1>6, ElementOfSeq, LenProperties DEF Inv, TypeOK
    <3> QED BY <3>1 DEF InstanceRecords
  <2>2. r.older \in Nat => r.older <= Len(instances)
    <3>1. instancePos \in 1..Len(instances) BY <1>6, LenProperties DEF Inv, TypeOK
    <3>2. r.older \in Nat \ {0} => r.older < instancePos
      BY <1>6 DEF Inv, ChainsGoBack
    <3> QED BY <3>1, <3>2
  <2>3. CASE op[t].kind = "write" /\ r.value # op[t].value
    <3>1. op' = [op EXCEPT ![t] = op[t]] /\ Goto(t, "instance")
      BY <1>6, <2>3 DEF ReadInstance, Inv, TypeOK
    <3>2. LocalOK(op[t], "instance") BY <1>2, <1>3 DEF LocalOK, Located
    <3> QED BY <1>1, <1>3, <3>1, <3>2, LocalStep DEF Steps
  <2>4. CASE op[t].kind = "read" \/ (op[t].kind = "readAt" /\ op[t].hit)
    <3> DEFINE o == [op[t] EXCEPT !.value = r.value]
    <3>1. op' = [op EXCEPT ![t] = o] /\ Goto(t, "seekValue")
      BY <1>6, <2>4 DEF ReadInstance
    <3>2. o \in Ops BY <1>1, <2>1, SetField
    <3>3. o.inst = op[t].inst /\ o.older = op[t].older BY <1>1 DEF Ops
    <3>4. LocalOK(o, "seekValue") BY <1>2, <3>3 DEF LocalOK, Located
    <3> HIDE DEF o
    <3> QED BY <1>3, <3>1, <3>2, <3>4, LocalStep DEF Steps
  <2>5. CASE op[t].kind = "readAt" /\ ~op[t].hit /\ ActiveAt(r, op[t].at)
    <3> DEFINE o == [op[t] EXCEPT !.hit = TRUE]
    <3>1. op' = [op EXCEPT ![t] = o] /\ Goto(t, "seekInstance")
      BY <1>6, <2>5 DEF ReadInstance
    <3>2. o \in Ops BY <1>1, SetField
    <3>3. o.inst = op[t].inst /\ o.older = op[t].older /\ o.attribute = op[t].attribute
      BY <1>1 DEF Ops
    <3>4. LocalOK(o, "seekInstance") BY <1>2, <1>3, <3>3 DEF LocalOK, Located
    <3> HIDE DEF o
    <3> QED BY <1>3, <3>1, <3>2, <3>4, LocalStep DEF Steps
  <2>6. CASE op[t].kind = "purge" /\ r.time \in op[t].from..op[t].at
    <3> DEFINE o == [op[t] EXCEPT !.older = r.older]
    <3>1. op' = [op EXCEPT ![t] = o] /\ Goto(t, "tombstone")
      BY <1>6, <2>6 DEF ReadInstance
    <3>2. o \in Ops BY <1>1, <2>1, SetField
    <3>3. o.inst = op[t].inst /\ o.older = r.older /\ o.attribute = op[t].attribute
      BY <1>1 DEF Ops
    <3>4. LocalOK(o, "tombstone") BY <1>2, <1>3, <2>2, <3>3 DEF LocalOK, Located
    <3> HIDE DEF o
    <3> QED BY <1>3, <3>1, <3>2, <3>4, LocalStep DEF Steps
  <2>7. CASE op[t].kind \in {"readAt", "purge"} /\ WalkOn(t, r.older)
    <3>1. \E o \in Ops, s \in Steps :
              /\ op' = [op EXCEPT ![t] = o] /\ Goto(t, s) /\ LocalOK(o, s)
      BY <1>3, <2>1, <2>2, <2>7, WalkOnControl
    <3> QED BY <1>3, <3>1, LocalStep
  <2> QED BY <1>4, <1>6, <2>3, <2>4, <2>5, <2>6, <2>7 DEF ReadInstance
<1> QED BY <1>5, <1>6
-----------------------------------------------------------------------------
(* The steps that write to a store.                                        *)

\* WriteValue of the data appends at most one record.
LEMMA StoreDataInv ==
    ASSUME Inv, NEW t \in Threads, StoreData(t)
    PROVE  Inv'
<1> DEFINE o == [op[t] EXCEPT !.value = WriteValueID(op[t].data)]
<1>1. op[t].data \in Contents /\ op[t] \in Ops
  BY OpTypes DEF Inv, Contents
<1>2. o \in Ops /\ op' = [op EXCEPT ![t] = o]
  BY <1>1, WriteValueOK, SetField DEF Inv, StoreData
<1>3. /\ op' \in [Threads -> Ops] /\ pc' \in [Threads -> Steps]
      /\ op'[t] = o /\ pc'[t] = "label"
      /\ \A u \in Threads : u # t => op'[u] = op[u] /\ pc'[u] = pc[u]
  <2> HIDE DEF o
  <2> QED BY <1>2, ThreadMoves DEF Inv, StoreData, Steps
<1>4. o.inst = op[t].inst /\ o.older = op[t].older
  BY <1>1 DEF Ops
<1>5. TypeOK'
  BY <1>1, <1>3, WriteValueOK DEF Inv, TypeOK, StoreData, positions, counters
<1>6. LocalsOK'
  BY <1>3, <1>4 DEF Inv, LocalsOK, LocalOK, StoreData, Located, counters
<1>7. IDsInRange' /\ ChainsGoBack'
  BY DEF Inv, IDsInRange, ChainsGoBack, StoreData, counters
<1>8. MapsAgreeWithFiles'
  BY <1>1, <1>3, WriteValueSound DEF Inv, MapsAgreeWithFiles, StoreData, counters
<1> QED BY <1>5, <1>6, <1>7, <1>8 DEF Inv

\* WriteValue of the label appends at most one record.
LEMMA StoreLabelInv ==
    ASSUME Inv, NEW t \in Threads, StoreLabel(t)
    PROVE  Inv'
<1> DEFINE o == [op[t] EXCEPT !.label = WriteValueID(op[t].path)]
<1>1. op[t].path \in Contents /\ op[t] \in Ops
  BY OpTypes DEF Inv, Contents
<1>2. o \in Ops /\ op' = [op EXCEPT ![t] = o]
  BY <1>1, WriteValueOK, SetField DEF Inv, StoreLabel
<1>3. /\ op' \in [Threads -> Ops] /\ pc' \in [Threads -> Steps]
      /\ op'[t] = o /\ pc'[t] = "lookup"
      /\ \A u \in Threads : u # t => op'[u] = op[u] /\ pc'[u] = pc[u]
  <2> HIDE DEF o
  <2> QED BY <1>2, ThreadMoves DEF Inv, StoreLabel, Steps
<1>4. o.inst = op[t].inst /\ o.older = op[t].older
  BY <1>1 DEF Ops
<1>5. TypeOK'
  BY <1>1, <1>3, WriteValueOK DEF Inv, TypeOK, StoreLabel, positions, counters
<1>6. LocalsOK'
  BY <1>3, <1>4 DEF Inv, LocalsOK, LocalOK, StoreLabel, Located, counters
<1>7. IDsInRange' /\ ChainsGoBack'
  BY DEF Inv, IDsInRange, ChainsGoBack, StoreLabel, counters
<1>8. MapsAgreeWithFiles'
  BY <1>1, <1>3, WriteValueSound DEF Inv, MapsAgreeWithFiles, StoreLabel, counters
<1> QED BY <1>5, <1>6, <1>7, <1>8 DEF Inv

\* A new record of attributes.dat: the thread that made it is about to insert
\* it, or its Sync failed and it is not counted.
LEMMA AttributeAppended ==
    ASSUME Inv, NEW t \in Threads, NEW o \in Ops, NEW s \in Steps,
           op' = [op EXCEPT ![t] = o], Goto(t, s), pc[t] = "attribute",
           o.inst = op[t].inst, o.older = op[t].older,
           attributes' = Append(attributes, NewAttribute(op[t])),
           \/ /\ s = "done" /\ UNCHANGED <<nextAttribute, misnamed>>
           \/ /\ s = "insert" /\ o.attribute = nextAttribute /\ o.label = op[t].label
              /\ nextAttribute' = nextAttribute + 1
              /\ misnamed' = IF nextAttribute = Len(attributes) + 1 THEN misnamed ELSE TRUE,
           UNCHANGED <<values, hashToValueID, hashIndex, instances, nextInstance,
                       clock, positions, started>>,
           faults' \in Nat
    PROVE  Inv'
<1> DEFINE a == Len(attributes) + 1
           r == NewAttribute(op[t])
<1>1. op[t] \in Ops /\ op[t].label \in Nat BY OpTypes DEF Inv
<1>2. r \in AttributeRecords /\ r.label = op[t].label /\ r.first = 0
  BY <1>1 DEF AttributeRecords, NewAttribute
<1>3. /\ attributes' \in Seq(AttributeRecords)
      /\ Len(attributes) \in Nat /\ Len(attributes') = a
      /\ DOMAIN attributes' = 1..a
      /\ attributes'[a] = r
      /\ \A b \in DOMAIN attributes : b \in 1..Len(attributes) /\ attributes'[b] = attributes[b]
  <2> HIDE DEF r
  <2> QED BY <1>2, AppendFacts DEF Inv, TypeOK, r
<1>4. /\ op' \in [Threads -> Ops] /\ pc' \in [Threads -> Steps]
      /\ op'[t] = o /\ pc'[t] = s
      /\ \A u \in Threads : u # t => op'[u] = op[u] /\ pc'[u] = pc[u]
  BY ThreadMoves DEF Inv
<1>5. nextAttribute \in 1..a /\ DOMAIN attributes = 1..Len(attributes)
  BY LenProperties DEF Inv, IDsInRange, TypeOK
<1>6. misnamed' \in BOOLEAN /\ (misnamed => misnamed') /\ nextAttribute' \in 1..(a + 1)
  <2>1. nextAttribute' \in 1..(a + 1)
    <3>1. nextAttribute' = nextAttribute \/ nextAttribute' = nextAttribute + 1 OBVIOUS
    <3>2. a \in Nat BY <1>3
    <3> HIDE DEF a
    <3> QED BY <1>5, <3>1, <3>2
  <2>2. misnamed \in BOOLEAN BY DEF Inv, TypeOK
  <2>3. misnamed' \in BOOLEAN /\ (misnamed => misnamed') BY <2>2
  <2> QED BY <2>1, <2>3
<1> HIDE DEF r
<1>7. TypeOK'
  BY <1>3, <1>4, <1>6 DEF Inv, TypeOK, positions
<1>8. LocalsOK'
  <2> SUFFICES ASSUME NEW u \in Threads PROVE LocalOK(op[u], pc[u])'
    BY DEF LocalsOK
  <2>1. LocalOK(op[u], pc[u]) BY DEF Inv, LocalsOK
  <2>2. CASE u = t
    <3>1. LocalOK(op[t], pc[t]) BY DEF Inv, LocalsOK
    <3>2. ~misnamed' /\ s = "insert" => attributes'[o.attribute].label = o.label
      BY <1>2, <1>3
    <3> QED BY <1>3, <1>4, <1>5, <2>2, <3>1, <3>2 DEF LocalOK, Located
  <2>3. CASE u # t
    <3>1. op'[u] = op[u] /\ pc'[u] = pc[u] BY <1>4, <2>3
    <3>2. DOMAIN attributes \subseteq DOMAIN attributes'
      BY <1>3 DEF Inv, TypeOK
    <3>3. op[u].attribute \in DOMAIN attributes =>
             attributes'[op[u].attribute] = attributes[op[u].attribute]
      BY <1>3
    <3> QED BY <1>6, <2>1, <3>1, <3>2, <3>3 DEF LocalOK, Located
  <2> QED BY <2>2, <2>3
<1>9. ChainsGoBack' /\ IDsInRange'
  <2>1. Len(instances) \in Nat BY DEF Inv, TypeOK
  <2>2. \A b \in DOMAIN attributes' : attributes'[b].first <= Len(instances)
    BY <1>2, <1>3, <2>1 DEF Inv, ChainsGoBack, TypeOK
  <2> QED BY <1>3, <1>6, <2>2 DEF Inv, IDsInRange, ChainsGoBack
<1>10. MapsAgreeWithFiles'
  <2>1. \A v \in DOMAIN hashIndex :
          /\ hashIndex[v] \in DOMAIN attributes'
          /\ misnamed' \/ attributes'[hashIndex[v]].label = v
    BY <1>3, <1>6 DEF Inv, MapsAgreeWithFiles
  <2>2. ASSUME ~misnamed', NEW b \in 1..(nextAttribute' - 1)
        PROVE  \/ attributes'[b].label \in DOMAIN hashIndex
               \/ \E u \in Threads : pc'[u] = "insert" /\ op'[u].attribute = b
    <3>1. CASE s = "insert" /\ b = nextAttribute BY <1>4, <3>1
    <3>2. CASE b \in 1..(nextAttribute - 1)
      <4>1. b \in DOMAIN attributes /\ attributes'[b] = attributes[b]
        BY <1>3, <1>5, <3>2
      <4>2. \/ attributes[b].label \in DOMAIN hashIndex
            \/ \E u \in Threads : pc[u] = "insert" /\ op[u].attribute = b
        BY <1>6, <2>2, <3>2 DEF Inv, MapsAgreeWithFiles
      <4>3. ASSUME NEW u \in Threads, pc[u] = "insert" PROVE pc'[u] = pc[u] /\ op'[u] = op[u]
        BY <1>4, <4>3
      <4> QED BY <4>1, <4>2, <4>3
    <3>3. \/ nextAttribute' = nextAttribute
          \/ s = "insert" /\ nextAttribute' = nextAttribute + 1
      OBVIOUS
    <3>4. b \in 1..(nextAttribute - 1) \/ (s = "insert" /\ b = nextAttribute)
      <4>1. nextAttribute \in Nat BY DEF Inv, TypeOK
      <4> QED BY <2>2, <3>3, <4>1
    <3> QED BY <3>1, <3>2, <3>4
  <2> QED BY <2>1, <2>2 DEF Inv, MapsAgreeWithFiles
<1> QED BY <1>7, <1>8, <1>9, <1>10 DEF Inv

\* WriteAttribute counts the record it appends.
LEMMA WriteAttributeInv ==
    ASSUME Inv, NEW t \in Threads, WriteAttribute(t)
    PROVE  Inv'
<1> DEFINE o == [op[t] EXCEPT !.attribute = nextAttribute]
<1>1. op[t] \in Ops /\ nextAttribute \in Nat BY OpTypes DEF Inv, TypeOK
<1>2. o \in Ops BY <1>1, SetField
<1>3. /\ o.inst = op[t].inst /\ o.older = op[t].older
      /\ o.attribute = nextAttribute /\ o.label = op[t].label
  BY <1>1 DEF Ops
<1>4. op' = [op EXCEPT ![t] = o] /\ Goto(t, "insert") BY DEF WriteAttribute
<1> HIDE DEF o
<1> QED BY <1>2, <1>3, <1>4, AttributeAppended DEF WriteAttribute, Steps, Inv, TypeOK

\* HashIndex.Insert puts the attribute under its own label.
LEMMA InsertLabelInv ==
    ASSUME Inv, NEW t \in Threads, InsertLabel(t)
    PROVE  Inv'
<1>1. op[t] \in Ops /\ op[t].label \in Nat /\ op[t].attribute \in Nat
  BY OpTypes DEF Inv
<1>2. /\ op[t].attribute \in DOMAIN attributes
      /\ misnamed \/ attributes[op[t].attribute].label = op[t].label
  BY DEF Inv, LocalsOK, LocalOK, InsertLabel, Located, counters
<1>3. /\ pc' \in [Threads -> Steps] /\ pc'[t] = "seekAttribute"
      /\ \A u \in Threads : u # t => pc'[u] = pc[u]
  BY DEF Inv, TypeOK, InsertLabel, Goto, Steps
<1>4. /\ DOMAIN hashIndex' = DOMAIN hashIndex \cup {op[t].label}
      /\ \A v \in DOMAIN hashIndex' :
            hashIndex'[v] = IF v = op[t].label THEN op[t].attribute ELSE hashIndex[v]
  BY DEF InsertLabel, Inserted
<1>5. TypeOK'
  BY <1>1, <1>3, <1>4 DEF Inv, TypeOK, InsertLabel, positions, counters
<1>6. LocalsOK'
  BY <1>3 DEF Inv, LocalsOK, LocalOK, InsertLabel, Located, counters
<1>7. IDsInRange' /\ ChainsGoBack'
  BY DEF Inv, IDsInRange, ChainsGoBack, InsertLabel, counters
<1>8. MapsAgreeWithFiles'
  <2>1. \A v \in DOMAIN hashIndex' :
          /\ hashIndex'[v] \in DOMAIN attributes
          /\ misnamed \/ attributes[hashIndex'[v]].label = v
    BY <1>2, <1>4 DEF Inv, MapsAgreeWithFiles
  <2>2. misnamed \/ \A a \in 1..(nextAttribute - 1) :
          \/ attributes[a].label \in DOMAIN hashIndex'
          \/ \E u \in Threads : pc'[u] = "insert" /\ op[u].attribute = a
    BY <1>2, <1>3, <1>4 DEF Inv, MapsAgreeWithFiles
  <2> QED BY <2>1, <2>2 DEF Inv, MapsAgreeWithFiles, InsertLabel, counters
<1> QED BY <1>5, <1>6, <1>7, <1>8 DEF Inv

\* A new record of instances.dat comes after the one it links to.
LEMMA InstanceAppended ==
    ASSUME Inv, NEW t \in Threads, NEW o \in Ops, NEW s \in Steps,
           op' = [op EXCEPT ![t] = o], Goto(t, s), pc[t] = "instance",
           o.inst = op[t].inst, o.older = op[t].older, o.attribute = op[t].attribute,
           instances' = Append(instances, NewInstance(op[t])),
           \/ /\ s = "done" /\ UNCHANGED <<nextInstance, misnamed>>
           \/ /\ s = "first" /\ o.made = nextInstance
              /\ nextInstance' = nextInstance + 1
              /\ misnamed' = IF nextInstance = Len(instances) + 1 THEN misnamed ELSE TRUE,
           UNCHANGED <<values, hashToValueID, attributes, hashIndex, nextAttribute,
                       clock, positions, started>>,
           faults' \in Nat
    PROVE  Inv'
<1> DEFINE i == Len(instances) + 1
           r == NewInstance(op[t])
<1>1. /\ op[t] \in Ops /\ op[t].value \in Nat /\ op[t].inst \in InstanceIDs
  BY OpTypes DEF Inv
<1>2. LocalOK(op[t], pc[t]) BY DEF Inv, LocalsOK
<1>3. r \in InstanceRecords /\ r.older = op[t].inst
  BY <1>1 DEF InstanceRecords, NewInstance, Inv, TypeOK
<1>4. /\ instances' \in Seq(InstanceRecords)
      /\ Len(instances) \in Nat /\ Len(instances') = i
      /\ DOMAIN instances' = 1..i
      /\ instances'[i] = r
      /\ \A j \in DOMAIN instances : j \in 1..Len(instances) /\ instances'[j] = instances[j]
  <2> HIDE DEF r
  <2> QED BY <1>3, AppendFacts DEF Inv, TypeOK, r
<1>5. /\ op' \in [Threads -> Ops] /\ pc' \in [Threads -> Steps]
      /\ op'[t] = o /\ pc'[t] = s
      /\ \A u \in Threads : u # t => op'[u] = op[u] /\ pc'[u] = pc[u]
  BY ThreadMoves DEF Inv
<1>6. nextInstance \in 1..i BY DEF Inv, IDsInRange
<1>7. misnamed' \in BOOLEAN /\ (misnamed => misnamed') /\ nextInstance' \in 1..(i + 1)
  <2>1. nextInstance' \in 1..(i + 1)
    <3>1. nextInstance' = nextInstance \/ nextInstance' = nextInstance + 1 OBVIOUS
    <3>2. i \in Nat BY <1>4
    <3> HIDE DEF i
    <3> QED BY <1>6, <3>1, <3>2
  <2>2. misnamed \in BOOLEAN BY DEF Inv, TypeOK
  <2>3. misnamed' \in BOOLEAN /\ (misnamed => misnamed') BY <2>2
  <2> QED BY <2>1, <2>3
<1> HIDE DEF r
<1>8. TypeOK'
  BY <1>4, <1>5, <1>7 DEF Inv, TypeOK, positions
<1>9. LocalsOK'
  <2> SUFFICES ASSUME NEW u \in Threads PROVE LocalOK(op[u], pc[u])'
    BY DEF LocalsOK
  <2>1. LocalOK(op[u], pc[u]) BY DEF Inv, LocalsOK
  <2>2. DOMAIN instances \subseteq DOMAIN instances'
    BY <1>4 DEF Inv, TypeOK
  <2>3. CASE u = t
    <3>1. /\ op[t].inst \in Nat => op[t].inst <= Len(instances')
          /\ op[t].older \in Nat => op[t].older <= Len(instances')
      BY <1>2, <1>4 DEF LocalOK
    <3>2. op[t].attribute \in DOMAIN attributes
      BY <1>2 DEF LocalOK, Located
    <3>3. nextInstance \in DOMAIN instances' BY <1>4, <1>6
    <3> QED BY <1>5, <2>3, <3>1, <3>2, <3>3 DEF LocalOK, Located
  <2>4. CASE u # t
    BY <1>4, <1>5, <1>7, <2>1, <2>2, <2>4 DEF LocalOK
  <2> QED BY <2>3, <2>4
<1>10. ChainsGoBack' /\ IDsInRange'
  <2>1. r.older \in Nat => r.older < i
    BY <1>2, <1>3, <1>4 DEF LocalOK
  <2>2. \A a \in DOMAIN attributes' : attributes'[a].first <= Len(instances')
    <3> SUFFICES ASSUME NEW a \in DOMAIN attributes
                 PROVE  attributes[a].first <= Len(instances) + 1
      BY <1>4
    <3>1. attributes[a] \in AttributeRecords
      BY ElementOfSeq, LenProperties DEF Inv, TypeOK
    <3>2. attributes[a].first <= Len(instances) BY DEF Inv, ChainsGoBack
    <3> QED BY <1>4, <3>1, <3>2 DEF AttributeRecords
  <2>3. ASSUME NEW j \in DOMAIN instances', instances'[j].older \in Nat
        PROVE  instances'[j].older < j
    <3>1. CASE j = i BY <1>4, <2>1, <2>3, <3>1
    <3>2. CASE j # i
      <4>1. j \in DOMAIN instances /\ instances'[j] = instances[j]
        BY <1>4, <3>2 DEF Inv, TypeOK
      <4> QED BY <2>3, <4>1 DEF Inv, ChainsGoBack
    <3> QED BY <3>1, <3>2
  <2>4. IDsInRange' BY <1>4, <1>7 DEF Inv, IDsInRange
  <2> QED BY <2>2, <2>3, <2>4 DEF ChainsGoBack
<1>11. MapsAgreeWithFiles'
  <2>1. \A u \in Threads : pc[u] = "insert" => pc'[u] = "insert" /\ op'[u] = op[u]
    BY <1>5
  <2> QED BY <1>7, <2>1 DEF Inv, MapsAgreeWithFiles
<1> QED BY <1>8, <1>9, <1>10, <1>11 DEF Inv

\* WriteInstance counts the record it appends.
LEMMA WriteInstanceInv ==
    ASSUME Inv, NEW t \in Threads, WriteInstance(t)
    PROVE  Inv'
<1> DEFINE o == [op[t] EXCEPT !.made = nextInstance]
<1>1. op[t] \in Ops /\ nextInstance \in Nat BY OpTypes DEF Inv, TypeOK
<1>2. o \in Ops BY <1>1, SetField
<1>3. /\ o.inst = op[t].inst /\ o.older = op[t].older
      /\ o.attribute = op[t].attribute /\ o.made = nextInstance
  BY <1>1 DEF Ops
<1>4. op' = [op EXCEPT ![t] = o] /\ Goto(t, "first") BY DEF WriteInstance
<1> HIDE DEF o
<1> QED BY <1>2, <1>3, <1>4, InstanceAppended DEF WriteInstance, Steps, Inv, TypeOK

\* The first instance of an attribute becomes one that was written.
LEMMA FirstInstanceSet ==
    ASSUME Inv, NEW t \in Threads, NEW x \in Outcomes, Finish(t, x), pc[t] = "first",
           UpdateAttributeFirstInstance(t) \/ SyncFails(t)
    PROVE  Inv'
<1> DEFINE a == op[t].attribute
           r == PointAt(attributes[a], op[t])
           o == [op[t] EXCEPT !.out = x]
<1>0. /\ UNCHANGED <<values, hashToValueID, hashIndex, instances, nextAttribute,
                      nextInstance, misnamed, clock, positions, started>>
      /\ faults' \in Nat
  BY DEF UpdateAttributeFirstInstance, SyncFails, counters, Inv, TypeOK
<1>1. op[t] \in Ops /\ op[t].made \in Nat BY OpTypes DEF Inv
<1>2. LocalOK(op[t], pc[t]) BY DEF Inv, LocalsOK
<1>3. a \in 1..Len(attributes) /\ op[t].made \in 1..Len(instances)
  <2>1. a \in DOMAIN attributes /\ op[t].made \in DOMAIN instances
    BY <1>2 DEF LocalOK, Located
  <2> QED BY <2>1, LenProperties DEF Inv, TypeOK
<1>4. /\ r \in AttributeRecords
      /\ r.label = attributes[a].label /\ r.first = op[t].made
  <2>1. attributes[a] \in AttributeRecords
    BY <1>3, ElementOfSeq DEF Inv, TypeOK
  <2> QED BY <1>1, <2>1 DEF AttributeRecords, PointAt
<1>5. /\ attributes' \in Seq(AttributeRecords)
      /\ Len(attributes') = Len(attributes)
      /\ DOMAIN attributes' = DOMAIN attributes
      /\ \A b \in DOMAIN attributes : attributes'[b] = IF b = a THEN r ELSE attributes[b]
  <2>1. attributes' = [attributes EXCEPT ![a] = r] BY DEF UpdateAttributeFirstInstance, SyncFails
  <2>2. attributes \in Seq(AttributeRecords) BY DEF Inv, TypeOK
  <2> HIDE DEF r, a
  <2> QED BY <1>3, <1>4, <2>1, <2>2, UpdateFacts
<1>6. o \in Ops /\ op' = [op EXCEPT ![t] = o]
  BY <1>1, SetField DEF Finish
<1>7. /\ op' \in [Threads -> Ops] /\ pc' \in [Threads -> Steps]
      /\ op'[t] = o /\ pc'[t] = "done"
      /\ \A u \in Threads : u # t => op'[u] = op[u] /\ pc'[u] = pc[u]
  <2> HIDE DEF o
  <2> QED BY <1>6, ThreadMoves DEF Inv, Finish, Steps
<1>8. o.inst = op[t].inst /\ o.older = op[t].older
  BY <1>1 DEF Ops
<1>9. TypeOK'
  BY <1>0, <1>5, <1>7 DEF Inv, TypeOK, positions
<1>10. LocalsOK'
  <2> SUFFICES ASSUME NEW u \in Threads PROVE LocalOK(op[u], pc[u])'
    BY DEF LocalsOK
  <2>1. LocalOK(op[u], pc[u]) BY DEF Inv, LocalsOK
  <2>2. instances' = instances /\ misnamed' = misnamed BY <1>0
  <2>3. \A b \in DOMAIN attributes : attributes'[b].label = attributes[b].label
    <3> HIDE DEF r
    <3> QED BY <1>4, <1>5
  <2>4. CASE u = t
    <3> HIDE DEF o
    <3> QED BY <1>2, <1>7, <1>8, <2>2, <2>4 DEF LocalOK, Located
  <2>5. CASE u # t
    <3>1. op'[u] = op[u] /\ pc'[u] = pc[u] BY <1>7, <2>5
    <3> QED BY <1>5, <2>1, <2>2, <2>3, <3>1 DEF LocalOK, Located
  <2> QED BY <2>4, <2>5
<1>11. IDsInRange' /\ ChainsGoBack'
  <2>1. \A b \in DOMAIN attributes' : attributes'[b].first <= Len(instances)
    <3> HIDE DEF r
    <3> QED BY <1>3, <1>4, <1>5 DEF Inv, ChainsGoBack
  <2> QED BY <1>0, <1>5, <2>1 DEF Inv, IDsInRange, ChainsGoBack
<1>12. MapsAgreeWithFiles'
  <2>1. \A b \in DOMAIN attributes : attributes'[b].label = attributes[b].label
    <3> HIDE DEF r
    <3> QED BY <1>4, <1>5
  <2>2. \A u \in Threads : pc[u] = "insert" => pc'[u] = "insert" /\ op'[u] = op[u]
    BY <1>7
  <2>3. 1..(nextAttribute - 1) \subseteq DOMAIN attributes
    BY LenProperties DEF Inv, IDsInRange, TypeOK
  <2>4. /\ UNCHANGED <<values, hashToValueID, hashIndex, nextAttribute, misnamed>>
        /\ DOMAIN attributes' = DOMAIN attributes
    BY <1>0, <1>5
  <2>5. \A v \in DOMAIN hashIndex :
          /\ hashIndex[v] \in DOMAIN attributes'
          /\ misnamed \/ attributes'[hashIndex[v]].label = v
    BY <2>1, <2>4 DEF Inv, MapsAgreeWithFiles
  <2>6. ASSUME ~misnamed, NEW b \in 1..(nextAttribute - 1)
        PROVE  \/ attributes'[b].label \in DOMAIN hashIndex
               \/ \E u \in Threads : pc'[u] = "insert" /\ op'[u].attribute = b
    BY <2>1, <2>2, <2>3, <2>6 DEF Inv, MapsAgreeWithFiles
  <2> QED BY <2>4, <2>5, <2>6 DEF Inv, MapsAgreeWithFiles
<1> QED BY <1>9, <1>10, <1>11, <1>12 DEF Inv

\* UpdateAttributeFirstInstance acknowledges the change.
LEMMA UpdateAttributeFirstInstanceInv ==
    ASSUME Inv, NEW t \in Threads, UpdateAttributeFirstInstance(t)
    PROVE  Inv'
<1>1. "changed" \in Outcomes /\ Finish(t, "changed")
  BY DEF Outcomes, UpdateAttributeFirstInstance
<1>2. pc[t] = "first" BY DEF UpdateAttributeFirstInstance
<1> QED BY <1>1, <1>2, FirstInstanceSet

\* TombstoneInstance cuts a chain and bends none.
LEMMA InstanceMarked ==
    ASSUME Inv, NEW t \in Threads, NEW o \in Ops, NEW s \in Steps,
           op' = [op EXCEPT ![t] = o], Goto(t, s), LocalOK(o, s), pc[t] = "tombstone",
           TombstoneInstance(t) \/ SyncFails(t)
    PROVE  Inv'
<1> DEFINE i == op[t].inst
           r == Tombstoned(instances[i])
<1>1. /\ UNCHANGED <<values, hashToValueID, attributes, hashIndex, nextAttribute,
                      nextInstance, misnamed, clock, positions, started>>
      /\ faults' \in Nat
  BY DEF TombstoneInstance, SyncFails, counters, Inv, TypeOK
<1>2. LocalOK(op[t], pc[t]) BY DEF Inv, LocalsOK
<1>3. i \in 1..Len(instances)
  <2>1. i \in Nat /\ i # 0 /\ i <= Len(instances)
    BY <1>2 DEF LocalOK
  <2> QED BY <2>1 DEF Inv, TypeOK
<1>4. /\ r \in InstanceRecords
      /\ r.time = instances[i].time /\ r.older = Tombstone
  <2>1. instances[i] \in InstanceRecords
    BY <1>3, ElementOfSeq DEF Inv, TypeOK
  <2> QED BY <2>1 DEF InstanceRecords, Tombstoned, InstanceIDs
<1>5. /\ instances' \in Seq(InstanceRecords)
      /\ Len(instances') = Len(instances)
      /\ DOMAIN instances' = DOMAIN instances
      /\ \A j \in DOMAIN instances : instances'[j] = IF j = i THEN r ELSE instances[j]
  <2>1. instances' = [instances EXCEPT ![i] = r] BY DEF TombstoneInstance, SyncFails
  <2>2. instances \in Seq(InstanceRecords) BY DEF Inv, TypeOK
  <2> HIDE DEF r, i
  <2> QED BY <1>3, <1>4, <2>1, <2>2, UpdateFacts
<1>7. /\ op' \in [Threads -> Ops] /\ pc' \in [Threads -> Steps]
      /\ op'[t] = o /\ pc'[t] = s
      /\ \A u \in Threads : u # t => op'[u] = op[u] /\ pc'[u] = pc[u]
  BY ThreadMoves DEF Inv
<1>8. TypeOK'
  BY <1>1, <1>5, <1>7 DEF Inv, TypeOK, positions
<1>9. LocalsOK'
  <2> SUFFICES ASSUME NEW u \in Threads PROVE LocalOK(op[u], pc[u])'
    BY DEF LocalsOK
  <2>1. LocalOK(op'[u], pc'[u]) BY <1>7 DEF Inv, LocalsOK
  <2> QED BY <1>1, <1>5, <2>1 DEF LocalOK
<1>10. ChainsGoBack' /\ IDsInRange'
  <2> HIDE DEF r
  <2>1. ASSUME NEW j \in DOMAIN instances', instances'[j].older \in Nat
        PROVE  instances'[j].older < j
    <3>1. j # i /\ j \in DOMAIN instances /\ instances'[j] = instances[j]
      BY <1>4, <1>5, <2>1, ConstantsAssumption
    <3> QED BY <2>1, <3>1 DEF Inv, ChainsGoBack
  <2>2. \A a \in DOMAIN attributes' : attributes'[a].first <= Len(instances')
    BY <1>1, <1>5 DEF Inv, ChainsGoBack
  <2> QED BY <1>1, <1>5, <2>1, <2>2 DEF Inv, ChainsGoBack, IDsInRange
<1>11. MapsAgreeWithFiles'
  <2>1. \A u \in Threads : pc[u] = "insert" => pc'[u] = "insert" /\ op'[u] = op[u]
    BY <1>7
  <2> QED BY <1>1, <2>1 DEF Inv, MapsAgreeWithFiles
<1> QED BY <1>8, <1>9, <1>10, <1>11 DEF Inv
\* TombstoneInstance marks the record and the walk goes on.
LEMMA TombstoneInstanceInv ==
    ASSUME Inv, NEW t \in Threads, TombstoneInstance(t)
    PROVE  Inv'
<1>1. op[t].older \in InstanceIDs BY OpTypes DEF Inv
<1>2. LocalOK(op[t], pc[t]) BY DEF Inv, LocalsOK
<1>3. PICK o \in Ops, s \in Steps :
         op' = [op EXCEPT ![t] = o] /\ Goto(t, s) /\ LocalOK(o, s)
  BY <1>1, <1>2, WalkOnControl DEF TombstoneInstance, LocalOK
<1>4. pc[t] = "tombstone" BY DEF TombstoneInstance
<1> QED BY <1>3, <1>4, InstanceMarked

\* A failed Sync keeps what was written and counts no new record.
LEMMA SyncFailsInv ==
    ASSUME Inv, NEW t \in Threads, SyncFails(t)
    PROVE  Inv'
<1> DEFINE o == [op[t] EXCEPT !.out = "failed"]
<1>1. op[t] \in Ops /\ "failed" \in Outcomes /\ "done" \in Steps
  BY OpTypes DEF Inv, Outcomes, Steps
<1>2. o \in Ops BY <1>1, SetField
<1>3. o.inst = op[t].inst /\ o.older = op[t].older /\ o.attribute = op[t].attribute
  BY <1>1 DEF Ops
<1>4. /\ op' = [op EXCEPT ![t] = o] /\ Goto(t, "done") /\ Finish(t, "failed")
      /\ faults' \in Nat
      /\ UNCHANGED <<values, hashToValueID, hashIndex, counters, clock, positions, started>>
  BY DEF SyncFails, Finish, Inv, TypeOK
<1>5. LocalOK(o, "done")
  BY <1>3 DEF Inv, LocalsOK, LocalOK, Located
<1> HIDE DEF o
<1>6. CASE /\ pc[t] = "attribute" /\ UNCHANGED instances
           /\ attributes' = Append(attributes, NewAttribute(op[t]))
  BY <1>1, <1>2, <1>3, <1>4, <1>6, AttributeAppended DEF counters
<1>7. CASE pc[t] = "first"
  BY <1>1, <1>4, <1>7, FirstInstanceSet
<1>8. CASE /\ pc[t] = "instance" /\ UNCHANGED attributes
           /\ instances' = Append(instances, NewInstance(op[t]))
  BY <1>1, <1>2, <1>3, <1>4, <1>8, InstanceAppended DEF counters
<1>9. CASE pc[t] = "tombstone"
  BY <1>1, <1>2, <1>4, <1>5, <1>9, InstanceMarked
<1> QED BY <1>6, <1>7, <1>8, <1>9 DEF SyncFails
-----------------------------------------------------------------------------
(* Time and crashes, the whole next-state relation, and the theorems.      *)

\* The clock shows another time: no store changes.
LEMMA TickInv == Inv /\ Tick => Inv'
<1> SUFFICES ASSUME Inv, Tick PROVE Inv' OBVIOUS
<1>1. TypeOK' BY DEF Inv, TypeOK, Tick, stores, counters, positions
<1>2. LocalsOK' BY DEF Inv, LocalsOK, LocalOK, Tick, stores, counters
<1>3. IDsInRange' BY DEF Inv, IDsInRange, Tick, stores, counters
<1>4. ChainsGoBack' /\ MapsAgreeWithFiles'
  BY DEF Inv, ChainsGoBack, MapsAgreeWithFiles, Tick, stores, counters
<1> QED BY <1>1, <1>2, <1>3, <1>4 DEF Inv

\* A restart rebuilds both maps from what is left of the files.
LEMMA CrashRestartInv == Inv /\ CrashRestart => Inv'
<1> SUFFICES ASSUME Inv, CrashRestart PROVE Inv' OBVIOUS
<1>1. PICK n \in 0..Len(values) :
         /\ values' = SubSeq(values, 1, n)
         /\ hashToValueID' = RebuiltHashMap(SubSeq(values, 1, n))
  <2>1. Len(values) \in Nat BY DEF Inv, TypeOK
  <2> QED BY <2>1 DEF CrashRestart
<1>2. SubSeq(values, 1, n) \in Seq(Contents)
  <2>1. \A i \in 1..n : values[i] \in Contents
    BY ElementOfSeq, LenProperties DEF Inv, TypeOK
  <2> QED BY <2>1, SubSeqProperties
<1>3. /\ values' \in Seq(Contents)
      /\ hashToValueID' \in [Contents -> Nat]
      /\ \A c \in Contents : hashToValueID'[c] # 0 =>
            hashToValueID'[c] \in DOMAIN values' /\ values'[hashToValueID'[c]] = c
  BY <1>1, <1>2, RebuiltHashMapSound
<1>4. /\ hashIndex' = RebuiltIndex(attributes) /\ attributes' = attributes
      /\ instances' = instances /\ clock' = clock /\ misnamed' = misnamed
      /\ nextAttribute' = Len(attributes) + 1 /\ nextInstance' = Len(instances) + 1
      /\ Len(attributes) \in Nat /\ Len(instances) \in Nat
      /\ DOMAIN attributes = 1..Len(attributes)
  BY DEF CrashRestart, NextID, Inv, TypeOK
<1>5. /\ DOMAIN hashIndex' = {attributes[a].label : a \in DOMAIN attributes}
      /\ \A v \in DOMAIN hashIndex' :
            hashIndex'[v] \in DOMAIN attributes /\ attributes[hashIndex'[v]].label = v
  BY <1>4, RebuiltIndexSound DEF Inv, TypeOK
<1>6. \A a \in DOMAIN attributes : a \in Nat /\ attributes[a].label \in Nat
  <2> SUFFICES ASSUME NEW a \in DOMAIN attributes
               PROVE  a \in Nat /\ attributes[a].label \in Nat
    OBVIOUS
  <2>1. a \in Nat /\ attributes[a] \in AttributeRecords
    BY ElementOfSeq, LenProperties DEF Inv, TypeOK
  <2> QED BY <2>1 DEF AttributeRecords
<1>7. pc' \in [Threads -> Steps] /\ op' \in [Threads -> Ops]
  BY NoOpType DEF CrashRestart, Steps
<1>8. TypeOK'
  <2>1. DOMAIN hashIndex' \subseteq Nat /\ \A v \in DOMAIN hashIndex' : hashIndex'[v] \in Nat
    BY <1>5, <1>6
  <2>2. faults' \in Nat /\ UNCHANGED <<positions, started>>
    BY DEF CrashRestart, Inv, TypeOK
  <2> QED BY <1>3, <1>4, <1>7, <2>1, <2>2 DEF Inv, TypeOK, positions
<1>9. LocalsOK'
  <2>1. Len(instances) \in Nat BY DEF Inv, TypeOK
  <2> QED BY <2>1, <1>4 DEF CrashRestart, LocalsOK, LocalOK, NoOp, NewOp, Located
<1>10. IDsInRange' /\ ChainsGoBack'
  BY <1>4 DEF Inv, IDsInRange, ChainsGoBack
<1>11. MapsAgreeWithFiles'
  <2>1. \A a \in 1..(nextAttribute' - 1) : a \in DOMAIN attributes BY <1>4
  <2> QED BY <1>3, <1>4, <1>5, <2>1 DEF MapsAgreeWithFiles
<1> QED BY <1>8, <1>9, <1>10, <1>11 DEF Inv

\* The empty stores satisfy the inductive invariant.
LEMMA InitInv == Init => Inv
<1> SUFFICES ASSUME Init PROVE Inv OBVIOUS
<1>1. TypeOK
  <2>1. op \in [Threads -> Ops] BY NoOpType DEF Init
  <2>2. nextAttribute \in Nat /\ nextInstance \in Nat BY DEF Init, NextID
  <2>3. misnamed \in BOOLEAN BY DEF Init
  <2> QED BY <2>1, <2>2, <2>3 DEF Init, TypeOK, Steps
<1>2. LocalsOK
  BY DEF Init, LocalsOK, LocalOK, NoOp, NewOp, Located
<1>3. IDsInRange /\ ChainsGoBack /\ MapsAgreeWithFiles
  BY DEF Init, IDsInRange, ChainsGoBack, MapsAgreeWithFiles, NextID
<1> QED BY <1>1, <1>2, <1>3 DEF Inv

\* What a request asks for.
LEMMA RequestBegins ==
    ASSUME NEW t \in Threads, Request(t)
    PROVE  \E k \in OpKinds, p \in Paths, d \in Contents, from, at \in Nat :
              Begin(t, k, p, d, from, at)
<1>1. \A p \in Paths : DataFor[p] \subseteq Contents
  BY ConstantsAssumption DEF Contents
<1>2. \A at \in 0..MaxClock : at \in Nat
  BY ConstantsAssumption
<1>3. AuditRecord \in Contents /\ OpKinds = {"write", "read", "readAt", "purge"}
  BY DEF Contents, OpKinds
<1>4. CASE \E p \in Paths : \E d \in DataFor[p] : Begin(t, "write", p, d, 0, 0)
  BY <1>1, <1>3, <1>4
<1>5. CASE \E p \in Paths : Begin(t, "read", p, AuditRecord, 0, 0)
  BY <1>3, <1>5
<1>6. CASE \E p \in Paths, at \in 0..MaxClock : Begin(t, "readAt", p, AuditRecord, 0, at)
  BY <1>2, <1>3, <1>6
<1>7. CASE \E p \in Paths, from, to \in 1..MaxClock :
              Begin(t, "purge", p, AuditRecord, from, to)
  BY <1>2, <1>3, <1>7
<1>8. QED
  BY <1>4, <1>5, <1>6, <1>7 DEF Request

\* Every step preserves the inductive invariant.
LEMMA NextInv == Inv /\ [Next]_vars => Inv'
<1> SUFFICES ASSUME Inv, [Next]_vars PROVE Inv' OBVIOUS
<1>1. CASE UNCHANGED vars
  <2>1. UNCHANGED stores /\ UNCHANGED positions /\ UNCHANGED <<clock, pc, op, started, faults>>
    BY <1>1 DEF vars
  <2> QED BY <2>1 DEF Inv, TypeOK, LocalsOK, LocalOK, IDsInRange, ChainsGoBack,
                      MapsAgreeWithFiles, stores, counters, positions
<1>2. CASE Tick BY <1>2, TickInv
<1>3. CASE CrashRestart BY <1>3, CrashRestartInv
<1>4. ASSUME NEW t \in Threads, Request(t) PROVE Inv'
  <2>1. \E k \in OpKinds, p \in Paths, d \in Contents, from, at \in Nat :
           Begin(t, k, p, d, from, at)
    BY <1>4, RequestBegins
  <2> QED BY <2>1, BeginInv
<1>5. ASSUME NEW t \in Threads, Step(t) PROVE Inv'
  <2>1. CASE StoreData(t) BY <2>1, StoreDataInv
  <2>2. CASE StoreLabel(t) BY <2>2, StoreLabelInv
  <2>3. CASE LookupLabel(t) BY <2>3, LookupLabelInv
  <2>4. CASE WriteAttribute(t) BY <2>4, WriteAttributeInv
  <2>5. CASE InsertLabel(t) BY <2>5, InsertLabelInv
  <2>6. CASE SeekAttribute(t) BY <2>6, SeekAttributeInv
  <2>7. CASE ReadAttribute(t) BY <2>7, ReadAttributeInv
  <2>8. CASE SeekInstance(t) BY <2>8, SeekInstanceInv
  <2>9. CASE ReadInstance(t) BY <2>9, ReadInstanceInv
  <2>10. CASE WriteInstance(t) BY <2>10, WriteInstanceInv
  <2>11. CASE UpdateAttributeFirstInstance(t) BY <2>11, UpdateAttributeFirstInstanceInv
  <2>12. CASE TombstoneInstance(t) BY <2>12, TombstoneInstanceInv
  <2>13. CASE SeekValue(t) BY <2>13, SeekValueInv
  <2>14. CASE ReadValue(t) BY <2>14, ReadValueInv
  <2> QED BY <1>5, <2>1, <2>2, <2>3, <2>4, <2>5, <2>6, <2>7,
            <2>8, <2>9, <2>10, <2>11, <2>12, <2>13, <2>14 DEF Step
<1>6. ASSUME NEW t \in Threads, IOError(t) PROVE Inv'
  BY <1>6, IOErrorInv
<1>7. ASSUME NEW t \in Threads, SyncFails(t) PROVE Inv'
  BY <1>7, SyncFailsInv
<1> QED BY <1>1, <1>2, <1>3, <1>4, <1>5, <1>6, <1>7 DEF Next

\* The inductive invariant holds of every reachable state.
LEMMA InvInvariant == Spec => []Inv
BY InitInv, NextInv, PTL DEF Spec

\* The stores, the offsets and the locals keep their types, whatever the
\* threads, errors and crashes do.
THEOREM TypeCorrect == Spec => []TypeOK
<1>1. Inv => TypeOK BY DEF Inv
<1> QED BY <1>1, InvInvariant, PTL

\* For any number of connections and any interleaving of their calls, with
\* I/O errors, failed Syncs and crashes anywhere: the dedup map agrees with
\* the files, an index entry names an attribute of the file, and until a
\* record is written behind one whose Sync failed it is one of its label and
\* no attribute counted in nextID is left out of the index.
THEOREM MapsStaySound == Spec => []MapsAgreeWithFiles
<1>1. Inv => MapsAgreeWithFiles BY DEF Inv
<1> QED BY <1>1, InvInvariant, PTL

\* Every chain of instances goes strictly back in the file, so every walk of
\* one ends: racing reads of the shared files, records not counted after a
\* failed Sync and a clock that is set back cannot make a cycle.
THEOREM ChainsAlwaysGoBack == Spec => []ChainsGoBack
<1>1. Inv => ChainsGoBack BY DEF Inv
<1> QED BY <1>1, InvInvariant, PTL

\* A step keeps every instance's value and time.
LEMMA KeepsInstances ==
    ASSUME Inv, Next
    PROVE  /\ Len(instances') >= Len(instances)
           /\ \A i \in DOMAIN instances :
                 /\ instances'[i].value = instances[i].value
                 /\ instances'[i].time = instances[i].time
<1> DEFINE Kept == /\ Len(instances') >= Len(instances)
                   /\ \A i \in DOMAIN instances :
                         /\ instances'[i].value = instances[i].value
                         /\ instances'[i].time = instances[i].time
<1>1. Len(instances) \in Nat BY DEF Inv, TypeOK
<1>2. CASE UNCHANGED instances BY <1>1, <1>2
<1>3. ASSUME NEW t \in Threads, instances' = Append(instances, NewInstance(op[t]))
      PROVE  Kept
  <2>1. op[t].value \in Nat /\ op[t].inst \in InstanceIDs BY OpTypes DEF Inv
  <2>2. NewInstance(op[t]) \in InstanceRecords
    BY <2>1 DEF InstanceRecords, NewInstance, Inv, TypeOK
  <2> QED BY <1>1, <1>3, <2>2, AppendFacts DEF Inv, TypeOK
<1>4. ASSUME NEW t \in Threads, pc[t] = "tombstone",
             instances' = [instances EXCEPT ![op[t].inst] = Tombstoned(@)]
      PROVE  Kept
  <2> DEFINE i == op[t].inst
             r == Tombstoned(instances[i])
  <2>1. i \in 1..Len(instances)
    <3>1. i \in Nat /\ i # 0 /\ i <= Len(instances)
      BY <1>4 DEF Inv, LocalsOK, LocalOK
    <3> QED BY <3>1, <1>1
  <2>2. /\ r \in InstanceRecords
        /\ r.value = instances[i].value /\ r.time = instances[i].time
    <3>1. instances[i] \in InstanceRecords
      BY <2>1, ElementOfSeq DEF Inv, TypeOK
    <3> QED BY <3>1 DEF InstanceRecords, Tombstoned, InstanceIDs
  <2>3. instances' = [instances EXCEPT ![i] = r] BY <1>4
  <2>4. DOMAIN instances = 1..Len(instances) BY LenProperties DEF Inv, TypeOK
  <2> HIDE DEF r, i
  <2> QED BY <1>1, <2>1, <2>2, <2>3, <2>4, ExceptSeq DEF Inv, TypeOK
<1>5. ASSUME NEW t \in Threads, Step(t), ~WriteInstance(t), ~TombstoneInstance(t)
      PROVE  UNCHANGED instances
  BY <1>5 DEF Step, StoreData, StoreLabel, LookupLabel, WriteAttribute, InsertLabel,
              SeekAttribute, ReadAttribute, SeekInstance, ReadInstance,
              UpdateAttributeFirstInstance, SeekValue, ReadValue, stores, counters
<1>6. ASSUME NEW t \in Threads, Request(t) \/ IOError(t)
      PROVE  UNCHANGED instances
  BY <1>6 DEF Request, Begin, IOError, stores, counters
<1>7. CASE Tick \/ CrashRestart
  BY <1>2, <1>7 DEF Tick, CrashRestart, stores, counters
<1>8. ASSUME NEW t \in Threads, WriteInstance(t) \/ TombstoneInstance(t) \/ SyncFails(t)
      PROVE  \/ UNCHANGED instances
             \/ instances' = Append(instances, NewInstance(op[t]))
             \/ /\ pc[t] = "tombstone"
                /\ instances' = [instances EXCEPT ![op[t].inst] = Tombstoned(@)]
  BY <1>8 DEF WriteInstance, TombstoneInstance, SyncFails
<1> HIDE DEF Kept
<1> QED BY <1>2, <1>3, <1>4, <1>5, <1>6, <1>7, <1>8 DEF Next, Kept

\* No operation, error or crash removes an instance or changes its value or
\* its time: the instance file is append-only but for the tombstone mark.
THEOREM HistoryIsAppendOnly == Spec => InstancesAppendOnly
<1> DEFINE Keep == /\ Len(instances') >= Len(instances)
                   /\ \A i \in DOMAIN instances :
                         /\ instances'[i].value = instances[i].value
                         /\ instances'[i].time = instances[i].time
<1>1. Inv /\ [Next]_vars => [Keep]_vars
  BY KeepsInstances
<1> QED BY <1>1, InvInvariant, PTL DEF Spec, InstancesAppendOnly
=============================================================================
