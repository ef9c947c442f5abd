---------------------- MODULE StorageTreeHistoryProofs ----------------------
(***************************************************************************)
(* A tree with one client that purges nothing implements TemporalTree, and *)
(* its reads answer from the history, for any paths, data and times, with  *)
(* I/O errors, failed Syncs and crashes of the process between any two     *)
(* calls, as long as a restart scans all that is stored.                   *)
(***************************************************************************)
EXTENDS StorageTreeHistory, StorageTreeProofs

-----------------------------------------------------------------------------
(* Chains *)

\* Every instance names an older one, or none.
Back(insts) ==
    \A i \in DOMAIN insts : insts[i].older \in Nat /\ insts[i].older < i

\* The chain of i, given those of the instances before.
NextChain(insts, c, i) ==
    IF i \notin DOMAIN insts THEN <<>>
    ELSE IF insts[i].older = Tombstone THEN <<i>>
    ELSE Append(c[insts[i].older], i)

\* A set of naturals that is not empty has a smallest element.
LEMMA LeastExists ==
    ASSUME NEW S, S \subseteq Nat, S # {}
    PROVE  \E m \in S : \A j \in S : m <= j
<1> DEFINE Below == {ss \in Nat \X Nat : ss[1] < ss[2]}
<1>1. IsWellFoundedOn(Below, Nat)
  BY NatLessThanWellFounded DEF OpToRel
<1> HIDE DEF Below
<1>2. PICK m \in S : \A y \in S : ~ (<<y, m>> \in Below)
  BY <1>1, WFMin
<1>3. \A y \in S : ~ (y < m)
  BY <1>2 DEF Below
<1>4. QED
  BY <1>3

\* A file whose instances go back has chains: there is no first instance
\* without one.
LEMMA ChainsExist ==
    ASSUME NEW insts \in Seq(InstanceRecords), Back(insts)
    PROVE  \E c : c = [i \in Nat |-> NextChain(insts, c, i)]
<1> DEFINE P(m) == \E f \in [0..m -> Seq(Nat)] :
                     \A i \in 0..m : f[i] = NextChain(insts, f, i)
           Bad == {m \in 0..Len(insts) : ~ P(m)}
<1>0. Len(insts) \in Nat /\ DOMAIN insts = 1..Len(insts)
  OBVIOUS
<1>1. Bad = {}
  <2>1. SUFFICES ASSUME Bad # {} PROVE FALSE
    OBVIOUS
  <2>2. PICK m \in Bad : \A j \in Bad : m <= j
    <3>1. Bad \subseteq Nat
      OBVIOUS
    <3>2. QED
      BY <2>1, <3>1, LeastExists
  <2>3. m \in 0..Len(insts) /\ ~ P(m)
    BY <2>2
  <2>4. m # 0
    <3> DEFINE z == [i \in 0..0 |-> <<>>]
    <3>1. z \in [0..0 -> Seq(Nat)]
      OBVIOUS
    <3>2. \A i \in 0..0 : z[i] = NextChain(insts, z, i)
      BY <1>0 DEF NextChain
    <3> HIDE DEF z
    <3>3. \E f \in [0..0 -> Seq(Nat)] : \A i \in 0..0 : f[i] = NextChain(insts, f, i)
      BY <3>1, <3>2
    <3>4. QED
      BY <2>3, <3>3
  <2>5. P(m - 1)
    <3>1. m - 1 \in 0..Len(insts) /\ m - 1 < m
      BY <1>0, <2>3, <2>4
    <3>2. m - 1 \notin Bad
      <4> HIDE DEF Bad
      <4>1. m - 1 \in Bad => m <= m - 1
        BY <2>2
      <4>2. QED
        BY <2>3, <4>1
    <3>3. QED
      BY <3>1, <3>2
  <2>6. PICK f \in [0..(m - 1) -> Seq(Nat)] :
               \A i \in 0..(m - 1) : f[i] = NextChain(insts, f, i)
    BY <2>5
  <2> DEFINE g == [i \in 0..m |-> IF i = m THEN NextChain(insts, f, m) ELSE f[i]]
  <2>7. m \in DOMAIN insts /\ insts[m].older \in 0..(m - 1) /\ m \in Nat
    <3>1. m \in DOMAIN insts /\ m \in Nat
      BY <1>0, <2>3, <2>4
    <3>2. insts[m].older \in Nat /\ insts[m].older < m
      BY <3>1 DEF Back
    <3>3. QED
      BY <3>1, <3>2
  <2>8. NextChain(insts, f, m) \in Seq(Nat)
    <3>1. f[insts[m].older] \in Seq(Nat)
      BY <2>6, <2>7
    <3>2. Append(f[insts[m].older], m) \in Seq(Nat)
      BY <2>7, <3>1
    <3>3. <<m>> \in Seq(Nat)
      BY <2>7
    <3>4. QED
      BY <2>7, <3>2, <3>3 DEF NextChain
  <2>9. g \in [0..m -> Seq(Nat)]
    <3>1. \A i \in 0..m : i # m => i \in 0..(m - 1)
      BY <2>7
    <3>2. \A i \in 0..m : (IF i = m THEN NextChain(insts, f, m) ELSE f[i]) \in Seq(Nat)
      BY <2>6, <2>8, <3>1
    <3>3. QED
      BY <3>2
  <2>10. ASSUME NEW i \in 0..m
         PROVE  g[i] = NextChain(insts, g, i)
    <3>1. g[i] = NextChain(insts, f, i)
      BY <2>6, <2>7
    <3>2. i \in DOMAIN insts => g[insts[i].older] = f[insts[i].older]
      <4>1. i \in DOMAIN insts => insts[i].older \in 0..m /\ insts[i].older # m
        <5>1. i \in DOMAIN insts => insts[i].older \in Nat /\ insts[i].older < i
          BY DEF Back
        <5>2. QED
          BY <2>7, <5>1
      <4>2. QED
        BY <4>1
    <3> HIDE DEF g
    <3>3. NextChain(insts, g, i) = NextChain(insts, f, i)
      BY <3>2 DEF NextChain
    <3>4. QED
      BY <3>1, <3>3
  <2> HIDE DEF g
  <2>11. P(m)
    BY <2>9, <2>10
  <2>12. QED
    BY <2>3, <2>11
<1>2. P(Len(insts))
  <2>1. Len(insts) \in 0..Len(insts)
    BY <1>0
  <2>2. QED
    BY <1>1, <2>1
<1>3. PICK f \in [0..Len(insts) -> Seq(Nat)] :
             \A i \in 0..Len(insts) : f[i] = NextChain(insts, f, i)
  BY <1>2
<1> DEFINE c == [i \in Nat |-> IF i \in 0..Len(insts) THEN f[i] ELSE <<>>]
<1>4. ASSUME NEW i \in Nat
      PROVE  c[i] = NextChain(insts, c, i)
  <2>1. CASE i \in DOMAIN insts
    <3>1. insts[i].older \in 0..Len(insts)
      BY <1>0, <2>1 DEF Back
    <3>2. c[insts[i].older] = f[insts[i].older] /\ c[i] = f[i] /\ i \in 0..Len(insts)
      BY <1>0, <2>1, <3>1
    <3>3. f[i] = NextChain(insts, f, i)
      BY <1>3, <3>2
    <3>4. QED
      BY <3>2, <3>3 DEF NextChain
  <2>2. CASE i \notin DOMAIN insts
    <3>1. NextChain(insts, c, i) = <<>> /\ NextChain(insts, f, i) = <<>>
      BY <2>2 DEF NextChain
    <3>2. QED
      BY <1>3, <3>1
  <2>3. QED
    BY <2>1, <2>2
<1>5. c = [i \in Nat |-> NextChain(insts, c, i)]
  <2>1. \A i \in Nat : c[i] = NextChain(insts, c, i)
    BY <1>4
  <2>2. c = [i \in Nat |-> c[i]]
    OBVIOUS
  <2> HIDE DEF c
  <2>3. QED
    BY <2>1, <2>2
<1>6. QED
  BY <1>5

\* GetInstanceChain of an instance is that of its older one and itself.
LEMMA ChainUnrolls ==
    ASSUME NEW insts \in Seq(InstanceRecords), Back(insts), NEW i \in Nat
    PROVE  /\ i \notin DOMAIN insts => ChainsIn(insts)[i] = <<>>
           /\ i \in DOMAIN insts =>
                ChainsIn(insts)[i] = Append(ChainsIn(insts)[insts[i].older], i)
<1>1. ChainsIn(insts) = CHOOSE c : c = [n \in Nat |-> NextChain(insts, c, n)]
  BY DEF ChainsIn, NextChain
<1>2. \E c : c = [n \in Nat |-> NextChain(insts, c, n)]
  BY ChainsExist
<1>3. ChainsIn(insts) = [n \in Nat |-> NextChain(insts, ChainsIn(insts), n)]
  BY <1>1, <1>2
<1>4. ChainsIn(insts)[i] = NextChain(insts, ChainsIn(insts), i)
  BY <1>3
<1>5. i \in DOMAIN insts => insts[i].older # Tombstone
  BY ConstantsAssumption DEF Back
<1>6. QED
  BY <1>4, <1>5 DEF NextChain

\* A chain is made of instances, ends with the one it is the chain of, and
\* goes from each instance to the one that names it as older.
Links(insts, c, i) ==
    /\ c \in Seq(DOMAIN insts)
    /\ c # <<>> <=> i \in DOMAIN insts
    /\ c # <<>> => c[Len(c)] = i /\ insts[c[1]].older = 0
    /\ \A k \in 1..(Len(c) - 1) : insts[c[k + 1]].older = c[k]

\* Appending an instance that names the last one as older.
LEMMA LinksGrow ==
    ASSUME NEW insts \in Seq(InstanceRecords), NEW i \in DOMAIN insts,
           NEW c, Links(insts, c, insts[i].older),
           insts[i].older \in Nat, insts[i].older # 0 => insts[i].older \in DOMAIN insts
    PROVE  Links(insts, Append(c, i), i)
<1> DEFINE d == Append(c, i)
<1>1. c \in Seq(DOMAIN insts) /\ Len(c) \in Nat
  BY DEF Links
<1>2. /\ d \in Seq(DOMAIN insts) /\ Len(d) = Len(c) + 1
      /\ d[Len(c) + 1] = i /\ \A k \in 1..Len(c) : d[k] = c[k]
  BY <1>1
<1> HIDE DEF d
<1>3. d # <<>>
  <2>1. Len(d) # 0
    BY <1>1, <1>2
  <2>2. Len(<<>>) = 0
    OBVIOUS
  <2>3. QED
    BY <2>1, <2>2
<1>4. CASE c = <<>>
  <2>1. Len(c) = 0 /\ insts[i].older = 0
    BY <1>4 DEF Links
  <2>2. Len(d) = 1 /\ d[1] = i
    BY <1>2, <2>1
  <2>3. \A k \in 1..(Len(d) - 1) : insts[d[k + 1]].older = d[k]
    BY <2>2
  <2>4. QED
    BY <1>2, <1>3, <2>1, <2>2, <2>3 DEF Links, d
<1>5. CASE c # <<>>
  <2>1. /\ Len(c) >= 1 /\ c[Len(c)] = insts[i].older /\ insts[c[1]].older = 0
        /\ \A k \in 1..(Len(c) - 1) : insts[c[k + 1]].older = c[k]
    BY <1>1, <1>5 DEF Links
  <2>2. d[1] = c[1] /\ d[Len(d)] = i
    BY <1>1, <1>2, <2>1
  <2>3. ASSUME NEW k \in 1..(Len(d) - 1)
        PROVE  insts[d[k + 1]].older = d[k]
    <3>1. CASE k = Len(c)
      <4>1. d[k + 1] = i /\ d[k] = c[Len(c)]
        BY <1>1, <1>2, <2>1, <3>1
      <4>2. QED
        BY <2>1, <4>1
    <3>2. CASE k # Len(c)
      <4>1. k \in 1..(Len(c) - 1) /\ k + 1 \in 1..Len(c) /\ k \in 1..Len(c)
        BY <1>1, <1>2, <3>2
      <4>2. d[k + 1] = c[k + 1] /\ d[k] = c[k]
        BY <1>2, <4>1
      <4>3. QED
        BY <2>1, <4>1, <4>2
    <3>3. QED
      BY <3>1, <3>2
  <2>4. QED
    BY <1>2, <1>3, <2>1, <2>2, <2>3 DEF Links, d
<1>6. QED
  BY <1>4, <1>5

\* GetInstanceChain of an instance links it to its oldest.
LEMMA ChainLinks ==
    ASSUME NEW insts \in Seq(InstanceRecords), Back(insts), NEW i \in Nat
    PROVE  Links(insts, ChainsIn(insts)[i], i)
<1> DEFINE Bad == {m \in Nat : ~ Links(insts, ChainsIn(insts)[m], m)}
<1>0. Len(insts) \in Nat /\ DOMAIN insts = 1..Len(insts)
  OBVIOUS
<1>1. SUFFICES ASSUME Bad # {} PROVE FALSE
  OBVIOUS
<1>2. PICK m \in Bad : \A j \in Bad : m <= j
  <2>1. Bad \subseteq Nat
    OBVIOUS
  <2>2. QED
    BY <1>1, <2>1, LeastExists
<1>3. m \in Nat /\ ~ Links(insts, ChainsIn(insts)[m], m)
  BY <1>2
<1>4. CASE m \notin DOMAIN insts
  <2>1. ChainsIn(insts)[m] = <<>>
    BY <1>3, <1>4, ChainUnrolls
  <2>2. <<>> \in Seq(DOMAIN insts) /\ Len(<<>>) = 0
    OBVIOUS
  <2>3. \A k \in 1..(Len(<<>>) - 1) : FALSE
    BY <2>2
  <2>4. Links(insts, <<>>, m)
    BY <1>4, <2>2, <2>3 DEF Links
  <2>5. QED
    BY <1>3, <2>1, <2>4
<1>5. CASE m \in DOMAIN insts
  <2> DEFINE n == insts[m].older
  <2>1. n \in Nat /\ n < m
    BY <1>5 DEF Back
  <2>2. ChainsIn(insts)[m] = Append(ChainsIn(insts)[n], m)
    BY <1>3, <1>5, ChainUnrolls
  <2>3. Links(insts, ChainsIn(insts)[n], n)
    <3>1. n \notin Bad
      <4> HIDE DEF Bad
      <4>1. n \in Bad => m <= n
        BY <1>2
      <4>2. QED
        BY <1>3, <2>1, <4>1
    <3>2. QED
      BY <2>1, <3>1
  <2>4. n # 0 => n \in DOMAIN insts
    BY <1>0, <1>5, <2>1
  <2>5. Links(insts, Append(ChainsIn(insts)[n], m), m)
    BY <1>5, <2>1, <2>3, <2>4, LinksGrow
  <2>6. QED
    BY <1>3, <2>2, <2>5
<1>6. QED
  BY <1>4, <1>5

\* A new instance leaves the chains of the others as they are.
LEMMA ChainsStay ==
    ASSUME NEW insts \in Seq(InstanceRecords), Back(insts),
           NEW more \in Seq(InstanceRecords), Back(more),
           Len(insts) <= Len(more),
           \A i \in DOMAIN insts : more[i] = insts[i],
           NEW i \in 0..Len(insts)
    PROVE  ChainsIn(more)[i] = ChainsIn(insts)[i]
<1> DEFINE Bad == {m \in 0..Len(insts) : ChainsIn(more)[m] # ChainsIn(insts)[m]}
<1>0. /\ Len(insts) \in Nat /\ DOMAIN insts = 1..Len(insts)
      /\ Len(more) \in Nat /\ DOMAIN more = 1..Len(more)
  OBVIOUS
<1>1. SUFFICES ASSUME Bad # {} PROVE FALSE
  OBVIOUS
<1>2. PICK m \in Bad : \A j \in Bad : m <= j
  <2>1. Bad \subseteq Nat
    OBVIOUS
  <2>2. QED
    BY <1>1, <2>1, LeastExists
<1>3. m \in Nat /\ m \in 0..Len(insts) /\ ChainsIn(more)[m] # ChainsIn(insts)[m]
  BY <1>2
<1>4. CASE m = 0
  <2>1. m \notin DOMAIN insts /\ m \notin DOMAIN more
    BY <1>0, <1>4
  <2>2. QED
    BY <1>3, <2>1, ChainUnrolls
<1>5. CASE m # 0
  <2>1. m \in DOMAIN insts /\ m \in DOMAIN more /\ more[m] = insts[m]
    BY <1>0, <1>3, <1>5
  <2> DEFINE n == insts[m].older
  <2>2. n \in Nat /\ n < m
    BY <2>1 DEF Back
  <2>3. ChainsIn(insts)[m] = Append(ChainsIn(insts)[n], m)
    BY <1>3, <2>1, ChainUnrolls
  <2>4. ChainsIn(more)[m] = Append(ChainsIn(more)[n], m)
    BY <1>3, <2>1, ChainUnrolls
  <2>5. ChainsIn(more)[n] = ChainsIn(insts)[n]
    <3>1. n \notin Bad
      <4> HIDE DEF Bad
      <4>1. n \in Bad => m <= n
        BY <1>2
      <4>2. QED
        BY <1>3, <2>2, <4>1
    <3>2. n \in 0..Len(insts)
      BY <1>3, <2>2
    <3>3. QED
      BY <3>1, <3>2
  <2>6. QED
    BY <1>3, <2>3, <2>4, <2>5
<1>6. QED
  BY <1>4, <1>5

-----------------------------------------------------------------------------
(* The files and the history *)

\* One client, no purge, and crashes of the process, which lose nothing that
\* was written, not of the machine: what the promise needs (TreeLostHistory,
\* TreePurge and TreeReopen show it broken without).
Alone ==
    /\ \A t, u \in Threads : t = u
    /\ "purge" \notin Kinds
    /\ ~ LoseUnsynced

\* The index names the last attribute of a label; one that is not in the
\* index, as its creator failed, has no instance.
Tidy ==
    \A a \in DOMAIN attributes :
        /\ attributes[a].label \in DOMAIN hashIndex =>
              a <= hashIndex[attributes[a].label]
        /\ attributes[a].label \notin DOMAIN hashIndex => attributes[a].first = 0

\* A content is stored once and the dedup map knows it; labels are stored;
\* nothing is purged.
FilesOK ==
    /\ \A i \in DOMAIN values : hashToValueID[values[i]] = i
    /\ \A a \in DOMAIN attributes : attributes[a].label \in DOMAIN values
    /\ DOMAIN hashIndex \subseteq DOMAIN values
    /\ \A i \in DOMAIN instances :
          instances[i].older \in Nat /\ instances[i].value \in DOMAIN values
    /\ misnamed \/ Tidy

\* The newest instance of a path, 0 for none.
FirstOf(p) == IF AttributeOf(p) = 0 THEN 0 ELSE attributes[AttributeOf(p)].first

\* Times are numbers.
LEMMA TimesAreNat == Times \subseteq Nat
BY ConstantsAssumption DEF Times

\* Instances of a sound file go back.
LEMMA FilesGoBack ==
    ASSUME Inv, FilesOK
    PROVE  instances \in Seq(InstanceRecords) /\ Back(instances)
<1>1. instances \in Seq(InstanceRecords)
  BY DEF Inv, TypeOK
<1>2. ASSUME NEW i \in DOMAIN instances
      PROVE  instances[i].older \in Nat /\ instances[i].older < i
  <2>1. instances[i].older \in Nat
    BY DEF FilesOK
  <2>2. instances[i].older # 0 => instances[i].older < i
    BY <2>1 DEF Inv, ChainsGoBack
  <2>3. i \in Nat /\ i > 0
    BY <1>1
  <2>4. QED
    BY <2>1, <2>2, <2>3
<1>3. QED
  BY <1>1, <1>2 DEF Back

\* An attribute that a path finds is in the file, and its newest instance too.
LEMMA AttributeFacts ==
    ASSUME Inv, NEW p \in Paths
    PROVE  /\ AttributeOf(p) # 0 =>
                 /\ AttributeOf(p) \in DOMAIN attributes
                 /\ misnamed \/ attributes[AttributeOf(p)].label = hashToValueID[p]
                 /\ hashToValueID[p] \in DOMAIN values /\ values[hashToValueID[p]] = p
           /\ FirstOf(p) \in 0..Len(instances)
<1>1. Len(instances) \in Nat /\ p \in Contents
  BY DEF Inv, TypeOK, Contents
<1>2. ASSUME AttributeOf(p) # 0
      PROVE  /\ AttributeOf(p) \in DOMAIN attributes
             /\ misnamed \/ attributes[AttributeOf(p)].label = hashToValueID[p]
             /\ hashToValueID[p] \in DOMAIN values /\ values[hashToValueID[p]] = p
  <2>1. /\ hashToValueID[p] # 0 /\ hashToValueID[p] \in DOMAIN hashIndex
        /\ AttributeOf(p) = hashIndex[hashToValueID[p]]
    BY <1>2 DEF AttributeOf
  <2>2. QED
    BY <1>1, <2>1 DEF Inv, MapsAgreeWithFiles
<1>3. \A a \in DOMAIN attributes : attributes[a].first \in 0..Len(instances)
  <2>1. \A a \in DOMAIN attributes : attributes[a] \in AttributeRecords
    BY DEF Inv, TypeOK
  <2>2. \A a \in DOMAIN attributes : attributes[a].first \in Nat
    BY <2>1 DEF AttributeRecords
  <2>3. QED
    BY <1>1, <2>2 DEF Inv, ChainsGoBack
<1>4. QED
  BY <1>1, <1>2, <1>3 DEF FirstOf

\* A path's chain is that of its newest instance.
LEMMA ChainFacts ==
    ASSUME Inv, FilesOK, NEW p \in Paths
    PROVE  /\ ChainOf(p) = ChainsIn(instances)[FirstOf(p)]
           /\ Links(instances, ChainOf(p), FirstOf(p))
           /\ ChainOf(p) # <<>> <=> FirstOf(p) # 0
<1>1. instances \in Seq(InstanceRecords) /\ Back(instances)
  BY FilesGoBack
<1>2. Len(instances) \in Nat /\ DOMAIN instances = 1..Len(instances)
  BY <1>1
<1>3. FirstOf(p) \in 0..Len(instances)
  BY AttributeFacts
<1>4. ChainsIn(instances)[0] = <<>>
  <2>1. 0 \notin DOMAIN instances /\ 0 \in Nat
    BY <1>2
  <2>2. QED
    BY <1>1, <2>1, ChainUnrolls
<1>5. ChainOf(p) = ChainsIn(instances)[FirstOf(p)]
  BY <1>4 DEF ChainOf, FirstOf
<1>6. FirstOf(p) \in Nat
  BY <1>2, <1>3
<1>7. Links(instances, ChainOf(p), FirstOf(p))
  BY <1>1, <1>5, <1>6, ChainLinks
<1>8. FirstOf(p) # 0 <=> FirstOf(p) \in DOMAIN instances
  BY <1>2, <1>3
<1>9. QED
  BY <1>5, <1>7, <1>8 DEF Links

\* A function on 1..n is a sequence of that length.
LEMMA FunctionIsSeq ==
    ASSUME NEW S, NEW n \in Nat, NEW f \in [1..n -> S]
    PROVE  f \in Seq(S) /\ Len(f) = n
OBVIOUS

\* What the history of a path holds.
LEMMA HistoryFacts ==
    ASSUME Inv, FilesOK, NEW p \in Paths
    PROVE  /\ ChainOf(p) \in Seq(DOMAIN instances)
           /\ Len(ChainOf(p)) \in Nat /\ DOMAIN ChainOf(p) = 1..Len(ChainOf(p))
           /\ History(p) \in Seq([data : Contents, time : Nat])
           /\ DOMAIN History(p) = DOMAIN ChainOf(p)
           /\ Len(History(p)) = Len(ChainOf(p))
           /\ \A k \in DOMAIN ChainOf(p) :
                 /\ ChainOf(p)[k] \in DOMAIN instances
                 /\ History(p)[k].data = values[instances[ChainOf(p)[k]].value]
                 /\ History(p)[k].time = instances[ChainOf(p)[k]].time
<1> DEFINE c == ChainOf(p)
<1>1. c \in Seq(DOMAIN instances)
  BY ChainFacts DEF Links
<1>2. Len(c) \in Nat /\ DOMAIN c = 1..Len(c) /\ \A k \in DOMAIN c : c[k] \in DOMAIN instances
  BY <1>1
<1> HIDE DEF c
<1>3. ASSUME NEW k \in DOMAIN c
      PROVE  /\ Stored(instances[c[k]].value) = values[instances[c[k]].value]
             /\ Stored(instances[c[k]].value) \in Contents
             /\ instances[c[k]].time \in Nat
  <2>1. c[k] \in DOMAIN instances
    BY <1>2
  <2>2. instances[c[k]].value \in DOMAIN values
    BY <2>1 DEF FilesOK
  <2>3. instances[c[k]] \in InstanceRecords /\ values[instances[c[k]].value] \in Contents
    BY <2>1, <2>2 DEF Inv, TypeOK
  <2>4. QED
    BY <2>2, <2>3, TimesAreNat DEF Stored, InstanceRecords
<1>4. History(p) = [k \in DOMAIN c |-> [data |-> Stored(instances[c[k]].value),
                                        time |-> instances[c[k]].time]]
  BY DEF History, c
<1>5. /\ DOMAIN History(p) = 1..Len(c)
      /\ \A k \in DOMAIN c : /\ History(p)[k].data = values[instances[c[k]].value]
                             /\ History(p)[k].time = instances[c[k]].time
                             /\ History(p)[k] \in [data : Contents, time : Nat]
  BY <1>2, <1>3, <1>4
<1>6. History(p) \in Seq([data : Contents, time : Nat]) /\ Len(History(p)) = Len(c)
  <2>1. History(p) \in [1..Len(c) -> [data : Contents, time : Nat]]
    BY <1>2, <1>4, <1>5
  <2>2. QED
    BY <1>2, <2>1, FunctionIsSeq
<1>7. QED
  BY <1>1, <1>2, <1>5, <1>6 DEF c

\* The chain of every path is that of its newest instance, in a file whose
\* instances go back.
HistoryOK ==
    /\ instances \in Seq(InstanceRecords) /\ Back(instances)
    /\ \A p \in Paths :
          /\ FirstOf(p) \in 0..Len(instances)
          /\ ChainOf(p) = ChainsIn(instances)[FirstOf(p)]
          /\ History(p) \in Seq([data : Contents, time : Nat])
          /\ Len(History(p)) = Len(ChainOf(p))
          /\ \A k \in DOMAIN ChainOf(p) :
                /\ History(p)[k].data = values[instances[ChainOf(p)[k]].value]
                /\ History(p)[k].time = instances[ChainOf(p)[k]].time

\* Sound files have it.
LEMMA HistoryIsOK == Inv /\ FilesOK => HistoryOK
BY FilesGoBack, AttributeFacts, ChainFacts, HistoryFacts DEF HistoryOK

\* What a step that adds to the files and keeps a path's newest instance
\* leaves of its history: all of it.
LEMMA HistoryStays ==
    ASSUME Inv, FilesOK, Inv', FilesOK', NEW p \in Paths,
           FirstOf(p)' = FirstOf(p),
           Len(instances) <= Len(instances'),
           \A i \in DOMAIN instances : instances'[i] = instances[i],
           \A i \in DOMAIN values : i \in DOMAIN values' /\ values'[i] = values[i]
    PROVE  History(p)' = History(p) /\ ChainOf(p)' = ChainOf(p)
<1>1. HistoryOK /\ HistoryOK'
  BY HistoryIsOK, PTL
<1>2. /\ instances \in Seq(InstanceRecords) /\ Back(instances)
      /\ FirstOf(p) \in 0..Len(instances)
      /\ ChainOf(p) = ChainsIn(instances)[FirstOf(p)]
  BY <1>1 DEF HistoryOK
<1>3. /\ instances' \in Seq(InstanceRecords) /\ Back(instances')
      /\ ChainOf(p)' = ChainsIn(instances')[FirstOf(p)']
  BY <1>1 DEF HistoryOK
<1>4. ChainsIn(instances')[FirstOf(p)] = ChainsIn(instances)[FirstOf(p)]
  BY <1>2, <1>3, ChainsStay
<1>6. ChainOf(p)' = ChainOf(p)
  BY <1>2, <1>3, <1>4
<1> DEFINE c == ChainOf(p)
<1>7. \A k \in DOMAIN c : c[k] \in DOMAIN instances
  BY HistoryFacts
<1>8. ASSUME NEW k \in DOMAIN c
      PROVE  /\ instances'[c[k]] = instances[c[k]]
             /\ instances[c[k]].value \in DOMAIN values
             /\ instances[c[k]].value \in DOMAIN values'
             /\ values'[instances[c[k]].value] = values[instances[c[k]].value]
  <2>1. c[k] \in DOMAIN instances
    BY <1>7
  <2>2. QED
    BY <2>1 DEF FilesOK
<1>9. History(p) = [k \in DOMAIN c |-> [data |-> Stored(instances[c[k]].value),
                                        time |-> instances[c[k]].time]]
  BY DEF History
<1>10. History(p)' = [k \in DOMAIN c' |->
                        [data |-> IF instances'[c'[k]].value \in DOMAIN values'
                                  THEN values'[instances'[c'[k]].value] ELSE "failed",
                         time |-> instances'[c'[k]].time]]
  BY DEF History, Stored
<1>11. c' = c
  BY <1>6
<1> HIDE DEF c
<1>12. QED
  BY <1>6, <1>8, <1>9, <1>10, <1>11 DEF Stored

-----------------------------------------------------------------------------
(* The locals of the operation under way *)

\* The steps at which the attribute of the path has been found.
Found == {"seekAttribute", "readAttribute", "seekInstance", "readInstance",
          "instance", "first", "seekValue", "readValue"}

\* The steps at which the label has its value ID.
Labelled == {"lookup", "attribute", "insert"} \cup Found

\* The answer a read or a ReadAt owes its client.
Answer(o) == IF o.kind = "read" THEN CurrentOf(o.path) ELSE AsOf(o.path, o.at)

\* FindInstanceAtTime has come to the k-th instance of the history: all newer
\* ones are too new.
Walked(o, k) ==
    /\ ChainOf(o.path)[k] = o.inst
    /\ \A j \in DOMAIN ChainOf(o.path) : j > k => instances[ChainOf(o.path)[j]].time > o.at
    /\ o.hit => instances[o.inst].time <= o.at

\* What the calls made so far have found and left in the stores.
StoredOK(o, s) ==
    /\ o.kind # "purge" /\ s # "tombstone" /\ o.inst \in Nat
    /\ s \in {"value", "attribute", "insert", "instance", "first"} => o.kind = "write"
    /\ o.kind = "write" /\ s \in {"label"} \cup Labelled =>
          o.value \in DOMAIN values /\ values[o.value] = o.data
    /\ s \in Labelled => o.label # 0 /\ hashToValueID[o.path] = o.label
    /\ s \in {"attribute", "insert"} => o.label \notin DOMAIN hashIndex
    /\ s = "insert" => \/ misnamed
                       \/ /\ o.attribute = Len(attributes)
                          /\ attributes[o.attribute].first = 0
    /\ s \in {"value", "label", "lookup", "attribute", "insert",
             "seekAttribute", "readAttribute"} => ~ o.hit
    /\ s \in Found => o.attribute # 0 /\ AttributeOf(o.path) = o.attribute

\* The assignment an operation made is in the history.
Recorded(o) ==
    \E k \in DOMAIN ChainOf(o.path) :
        ChainOf(o.path)[k] = o.made /\ History(o.path)[k].data = o.data

\* What they have found of the history.
WalkOK(o, s) ==
    /\ o.kind # "readAt" /\ s \in {"seekInstance", "readInstance", "instance", "first"} =>
          o.inst = FirstOf(o.path)
    /\ o.kind = "readAt" /\ s \in {"seekInstance", "readInstance"} =>
          \E k \in DOMAIN ChainOf(o.path) : Walked(o, k)
    /\ s \in {"instance", "first"} /\ o.inst # 0 => instances[o.inst].value # o.value
    /\ s = "first" => \/ misnamed
                      \/ /\ o.made \in DOMAIN instances
                         /\ instances[o.made].value = o.value
                         /\ instances[o.made].older = o.inst
    /\ s \in {"seekValue", "readValue"} =>
          /\ o.kind \in {"read", "readAt"}
          /\ o.value \in DOMAIN values /\ values[o.value] = Answer(o)
    /\ s = "done" /\ o.kind \in {"read", "readAt"} /\ o.out # "failed" => o.out = Answer(o)
    /\ s = "done" /\ o.kind = "write" /\ o.out = "changed" =>
          misnamed \/ Recorded(o)

\* The offsets of the files, which no one else moves.
OffsetOK(o, s) ==
    /\ s = "readAttribute" => attributePos = o.attribute
    /\ s = "readInstance" => instancePos = o.inst
    /\ s = "readValue" => valuePos[TierOf(o.value)] = o.value

\* They are where the next step needs them.
OffsetNext(o, s) ==
    /\ s = "readAttribute" => attributePos' = o.attribute
    /\ s = "readInstance" => instancePos' = o.inst
    /\ s = "readValue" => valuePos'[TierOf(o.value)] = o.value

OpOK(o, s) == StoredOK(o, s) /\ WalkOK(o, s) /\ OffsetOK(o, s)

\* The inductive invariant of a tree with one client.
OpsOK ==
    \A t \in Threads, o \in Ops, s \in Steps : op[t] = o /\ pc[t] = s => OpOK(o, s)

AloneInv == FilesOK /\ OpsOK

\* The one client's operation is sound when its new locals and step are.
LEMMA MovesAlone ==
    ASSUME Alone, Inv, NEW t \in Threads, NEW o \in Ops, NEW s \in Steps,
           op' = [op EXCEPT ![t] = o], Goto(t, s),
           StoredOK(o, s)', WalkOK(o, s)', OffsetOK(o, s)'
    PROVE  OpsOK'
<1>1. op'[t] = o /\ pc'[t] = s
  BY ThreadMoves DEF Inv
<1>2. SUFFICES ASSUME NEW u \in Threads, NEW n \in Ops, NEW r \in Steps,
                      op'[u] = n, pc'[u] = r
               PROVE  OpOK(n, r)'
  BY DEF OpsOK
<1>3. u = t
  BY DEF Alone
<1>4. n = o /\ r = s
  BY <1>1, <1>2, <1>3
<1>5. OpOK(o, s)'
  BY DEF OpOK
<1>6. QED
  BY <1>4, <1>5 DEF OpOK, StoredOK, WalkOK, OffsetOK, Walked, Answer, Recorded

\* A step that leaves the stores alone leaves the history alone.
LEMMA QuietFacts ==
    ASSUME UNCHANGED stores, NEW p \in Paths
    PROVE  /\ AttributeOf(p)' = AttributeOf(p) /\ FirstOf(p)' = FirstOf(p)
           /\ ChainOf(p)' = ChainOf(p) /\ History(p)' = History(p)
           /\ CurrentOf(p)' = CurrentOf(p)
           /\ \A at \in Nat : AsOf(p, at)' = AsOf(p, at)
BY DEF stores, AttributeOf, FirstOf, ChainOf, History, CurrentOf, AsOf, Stored

\* No path's history changes, while records have their own IDs.
Kept ==
    /\ misnamed => misnamed'
    /\ misnamed' \/ \A p \in Paths : History(p)' = History(p)

\* So locals may be judged by the stores before the step.
LEMMA QuietLocals ==
    ASSUME UNCHANGED stores, NEW o \in Ops, NEW s \in Steps,
           StoredOK(o, s), WalkOK(o, s), OffsetNext(o, s)
    PROVE  StoredOK(o, s)' /\ WalkOK(o, s)' /\ OffsetOK(o, s)'
<1>1. /\ values' = values /\ hashToValueID' = hashToValueID /\ attributes' = attributes
      /\ hashIndex' = hashIndex /\ instances' = instances /\ misnamed' = misnamed
  BY DEF stores, counters
<1>2. o.path \in Paths /\ o.at \in Nat
  BY DEF Ops
<1>3. StoredOK(o, s)'
  BY <1>1 DEF StoredOK, AttributeOf
<1>4. WalkOK(o, s)'
  <2>1. /\ FirstOf(o.path)' = FirstOf(o.path) /\ ChainOf(o.path)' = ChainOf(o.path)
        /\ CurrentOf(o.path)' = CurrentOf(o.path) /\ AsOf(o.path, o.at)' = AsOf(o.path, o.at)
    BY <1>2, QuietFacts
  <2>2. Answer(o)' = Answer(o)
    BY <2>1 DEF Answer
  <2>3. \A k : Walked(o, k)' <=> Walked(o, k)
    BY <1>1, <2>1 DEF Walked
  <2>4. Recorded(o)' <=> Recorded(o)
    <3>1. History(o.path)' = History(o.path)
      BY <1>2, QuietFacts
    <3>2. QED
      BY <2>1, <3>1 DEF Recorded
  <2>5. QED
    BY <1>1, <2>1, <2>2, <2>3, <2>4 DEF WalkOK
<1>5. OffsetOK(o, s)'
  BY <1>1 DEF OffsetOK, OffsetNext, TierOf
<1>6. QED
  BY <1>3, <1>4, <1>5

\* A step of the client that leaves the stores alone.
LEMMA QuietStep ==
    ASSUME Alone, Inv, FilesOK, NEW t \in Threads, NEW o \in Ops, NEW s \in Steps,
           op' = [op EXCEPT ![t] = o], Goto(t, s), UNCHANGED stores,
           StoredOK(o, s), WalkOK(o, s), OffsetNext(o, s)
    PROVE  AloneInv' /\ Kept
<1>1. FilesOK'
  BY DEF FilesOK, Tidy, stores, counters
<1>2. OpsOK'
  BY QuietLocals, MovesAlone
<1>3. Kept
  BY QuietFacts DEF Kept, stores, counters
<1>4. QED
  BY <1>1, <1>2, <1>3 DEF AloneInv

\* A step that only lets time pass.
LEMMA TimePasses ==
    ASSUME Inv, AloneInv, UNCHANGED <<stores, positions, pc, op>>
    PROVE  AloneInv' /\ Kept
<1>1. FilesOK'
  BY DEF AloneInv, FilesOK, Tidy, stores, counters
<1>2. OpsOK'
  <2>1. SUFFICES ASSUME NEW u \in Threads, NEW o \in Ops, NEW s \in Steps,
                        op'[u] = o, pc'[u] = s
                 PROVE  OpOK(o, s)'
    BY DEF OpsOK
  <2>2. OpOK(o, s)
    BY <2>1 DEF AloneInv, OpsOK
  <2>3. OffsetNext(o, s)
    BY <2>2 DEF OpOK, OffsetOK, OffsetNext, positions
  <2>4. StoredOK(o, s)' /\ WalkOK(o, s)' /\ OffsetOK(o, s)'
    BY <2>2, <2>3, QuietLocals DEF OpOK
  <2>5. QED
    BY <2>4 DEF OpOK
<1>3. Kept
  BY QuietFacts DEF Kept, stores, counters
<1>4. QED
  BY <1>1, <1>2, <1>3 DEF AloneInv

\* A path without instances has no current value, and none at any time.
LEMMA EmptyAnswer ==
    ASSUME Inv, FilesOK, NEW p \in Paths, FirstOf(p) = 0
    PROVE  CurrentOf(p) = "notFound" /\ \A at \in Nat : AsOf(p, at) = "notFound"
<1>1. ChainOf(p) = <<>>
  BY ChainFacts
<1>2. DOMAIN ChainOf(p) = {} /\ DOMAIN History(p) = {} /\ History(p) = <<>>
  <2>1. Len(ChainOf(p)) = 0 /\ DOMAIN ChainOf(p) = {}
    BY <1>1
  <2>2. DOMAIN History(p) = DOMAIN ChainOf(p) /\ Len(History(p)) = Len(ChainOf(p))
        /\ History(p) \in Seq([data : Contents, time : Nat])
    BY HistoryFacts
  <2>3. QED
    BY <2>1, <2>2, EmptySeq
<1>3. QED
  BY <1>2 DEF CurrentOf, AsOf

\* The current value is that of the newest instance.
LEMMA CurrentIs ==
    ASSUME Inv, FilesOK, NEW p \in Paths, FirstOf(p) # 0
    PROVE  /\ FirstOf(p) \in DOMAIN instances
           /\ CurrentOf(p) = values[instances[FirstOf(p)].value]
           /\ Len(ChainOf(p)) \in DOMAIN ChainOf(p)
           /\ ChainOf(p)[Len(ChainOf(p))] = FirstOf(p)
           /\ History(p) # <<>>
<1> DEFINE c == ChainOf(p)
<1>1. c # <<>> /\ c[Len(c)] = FirstOf(p) /\ FirstOf(p) \in DOMAIN instances
  BY ChainFacts DEF Links
<1>2. /\ c \in Seq(DOMAIN instances) /\ Len(c) \in Nat /\ DOMAIN c = 1..Len(c)
      /\ Len(History(p)) = Len(c)
      /\ \A k \in DOMAIN c : History(p)[k].data = values[instances[c[k]].value]
  BY HistoryFacts
<1> HIDE DEF c
<1>3. Len(c) # 0
  BY <1>1, <1>2, EmptySeq
<1>4. Len(c) \in DOMAIN c
  BY <1>2, <1>3
<1>5. History(p) # <<>>
  <2>1. Len(History(p)) # 0
    BY <1>2, <1>3
  <2>2. Len(<<>>) = 0
    OBVIOUS
  <2>3. QED
    BY <2>1, <2>2
<1>6. CurrentOf(p) = History(p)[Len(c)].data
  BY <1>2, <1>5 DEF CurrentOf
<1>7. QED
  BY <1>1, <1>2, <1>4, <1>5, <1>6 DEF c

\* The type of an instance, spelled out.
LEMMA InstanceTypes ==
    ASSUME TypeOK
    PROVE  /\ DOMAIN instances = 1..Len(instances) /\ Len(instances) \in Nat
           /\ \A i \in DOMAIN instances :
                 /\ i \in Nat /\ i # 0
                 /\ instances[i].value \in Nat /\ instances[i].time \in Nat
<1>1. instances \in Seq(InstanceRecords)
  BY DEF TypeOK
<1>2. DOMAIN instances = 1..Len(instances) /\ Len(instances) \in Nat
  BY <1>1
<1>3. \A i \in DOMAIN instances : instances[i] \in InstanceRecords
  BY <1>1
<1>4. \A r \in InstanceRecords : r.value \in Nat /\ r.time \in Nat
  BY TimesAreNat DEF InstanceRecords
<1>5. QED
  BY <1>2, <1>3, <1>4

\* The index of the last instance that is old enough is the one AsOf takes.
LEMMA AsOfIs ==
    ASSUME Inv, FilesOK, NEW o \in Ops, NEW k \in DOMAIN ChainOf(o.path), Walked(o, k),
           instances[o.inst].time <= o.at
    PROVE  /\ o.inst \in DOMAIN instances
           /\ AsOf(o.path, o.at) = values[instances[o.inst].value]
<1> DEFINE c == ChainOf(o.path)
           h == History(o.path)
           past == {j \in DOMAIN h : h[j].time <= o.at}
<1>0. o.path \in Paths /\ o.at \in Nat
  BY DEF Ops
<1>1. /\ DOMAIN h = DOMAIN c /\ DOMAIN c = 1..Len(c) /\ Len(c) \in Nat
      /\ \A j \in DOMAIN c : /\ c[j] \in DOMAIN instances
                             /\ h[j].data = values[instances[c[j]].value]
                             /\ h[j].time = instances[c[j]].time
                             /\ h[j].time \in Nat
  <2>1. /\ DOMAIN h = DOMAIN c /\ DOMAIN c = 1..Len(c) /\ Len(c) \in Nat
        /\ \A j \in DOMAIN c : /\ c[j] \in DOMAIN instances
                               /\ h[j].data = values[instances[c[j]].value]
                               /\ h[j].time = instances[c[j]].time
    BY <1>0, HistoryFacts
  <2> HIDE DEF c, h
  <2>2. \A i \in DOMAIN instances : instances[i].time \in Nat
    BY InstanceTypes DEF Inv
  <2>3. QED
    BY <2>1, <2>2
<1>2. c[k] = o.inst /\ \A j \in DOMAIN c : j > k => instances[c[j]].time > o.at
  BY DEF Walked
<1>3. AsOf(o.path, o.at) = IF past = {} THEN "notFound"
                           ELSE h[CHOOSE j \in past : \A i \in past : i <= j].data
  BY DEF AsOf
<1> HIDE DEF c, h
<1>4. k \in DOMAIN c
  BY DEF c
<1>5. k \in past /\ \A j \in past : j <= k
  <2>1. k \in past
    BY <1>1, <1>2, <1>4
  <2>2. ASSUME NEW j \in past PROVE j <= k
    <3>1. j \in DOMAIN c /\ instances[c[j]].time <= o.at /\ instances[c[j]].time \in Nat
      BY <1>1
    <3>2. ~ (j > k)
      BY <1>0, <1>2, <3>1
    <3>3. QED
      BY <1>1, <1>4, <3>1, <3>2
  <2>3. QED
    BY <2>1, <2>2
<1>6. past \subseteq Nat
  BY <1>1
<1> HIDE DEF past
<1>7. (CHOOSE j \in past : \A i \in past : i <= j) = k
  <2> DEFINE m == CHOOSE j \in past : \A i \in past : i <= j
  <2>1. m \in past /\ \A i \in past : i <= m
    BY <1>5
  <2> HIDE DEF m
  <2>2. m = k
    BY <1>5, <1>6, <2>1
  <2>3. QED
    BY <2>2 DEF m
<1>8. QED
  BY <1>1, <1>2, <1>3, <1>4, <1>5, <1>7

\* Past an instance that is too new, the walk goes on to the one before it in
\* the history, or there was no assignment by that time.
LEMMA WalkGoesOn ==
    ASSUME Inv, FilesOK, NEW o \in Ops, NEW k \in DOMAIN ChainOf(o.path), Walked(o, k),
           ~ o.hit, ~ (instances[o.inst].time <= o.at)
    PROVE  /\ o.inst \in DOMAIN instances
           /\ instances[o.inst].older = 0 => AsOf(o.path, o.at) = "notFound"
           /\ instances[o.inst].older # 0 =>
                 \E j \in DOMAIN ChainOf(o.path) :
                    Walked([o EXCEPT !.inst = instances[o.inst].older], j)
<1> DEFINE c == ChainOf(o.path)
           h == History(o.path)
           older == instances[o.inst].older
           n == [o EXCEPT !.inst = older]
<1>0. o.path \in Paths /\ o.at \in Nat
  BY DEF Ops
<1>1. /\ DOMAIN h = DOMAIN c /\ DOMAIN c = 1..Len(c) /\ Len(c) \in Nat
      /\ \A j \in DOMAIN c : /\ c[j] \in DOMAIN instances
                             /\ h[j].time = instances[c[j]].time
  BY <1>0, HistoryFacts
<1>2. /\ c # <<>> => instances[c[1]].older = 0
      /\ \A j \in 1..(Len(c) - 1) : instances[c[j + 1]].older = c[j]
  BY <1>0, ChainFacts DEF Links
<1>3. c[k] = o.inst /\ \A j \in DOMAIN c : j > k => instances[c[j]].time > o.at
  BY DEF Walked
<1>4. AsOf(o.path, o.at) = LET past == {j \in DOMAIN h : h[j].time <= o.at}
                           IN  IF past = {} THEN "notFound"
                               ELSE h[CHOOSE j \in past : \A i \in past : i <= j].data
  BY DEF AsOf
<1>5. k \in DOMAIN c
  OBVIOUS
<1>6. n.path = o.path /\ n.at = o.at /\ n.hit = o.hit /\ n.inst = older
  BY DEF Ops
<1>7. Walked(n, k - 1) <=> /\ c[k - 1] = older
                           /\ \A j \in DOMAIN c : j > k - 1 => instances[c[j]].time > o.at
  BY <1>6 DEF Walked
<1> HIDE DEF c, h, n
<1>8. \A i \in DOMAIN instances : instances[i].time \in Nat
  BY InstanceTypes DEF Inv
<1>9. o.inst \in DOMAIN instances /\ instances[o.inst].time > o.at
  BY <1>0, <1>1, <1>3, <1>5, <1>8
<1>10. \A j \in DOMAIN c : j > k - 1 => instances[c[j]].time > o.at
  <2>1. ASSUME NEW j \in DOMAIN c, j > k - 1 PROVE j = k \/ j > k
    BY <1>1, <1>5, <2>1
  <2>2. QED
    BY <1>3, <1>9, <2>1
<1>11. CASE k = 1
  <2>1. older = 0
    <3>1. c # <<>>
      BY <1>5
    <3>2. QED
      BY <1>2, <1>3, <1>11, <3>1
  <2>2. \A j \in DOMAIN h : ~ (h[j].time <= o.at)
    <3>1. \A j \in DOMAIN c : j > k - 1
      BY <1>1, <1>11
    <3>2. QED
      BY <1>0, <1>1, <1>8, <1>10, <3>1
  <2>3. AsOf(o.path, o.at) = "notFound"
    BY <1>4, <2>2
  <2>4. QED
    BY <1>9, <2>1, <2>3
<1>12. CASE k # 1
  <2>1. k - 1 \in DOMAIN c /\ k - 1 \in 1..(Len(c) - 1) /\ (k - 1) + 1 = k
    BY <1>1, <1>5, <1>12
  <2>2. older = c[k - 1] /\ older \in DOMAIN instances
    BY <1>1, <1>2, <1>3, <2>1
  <2>3. older # 0
    BY <2>2 DEF Inv, TypeOK
  <2>4. Walked(n, k - 1)
    BY <1>7, <1>10, <2>2
  <2>5. QED
    BY <1>9, <2>1, <2>3, <2>4 DEF c, n
<1>13. QED
  BY <1>11, <1>12

-----------------------------------------------------------------------------
(* The steps that leave the stores alone *)

\* What is known of the locals at a step.
LEMMA OpFacts ==
    ASSUME Inv, AloneInv, NEW t \in Threads
    PROVE  /\ StoredOK(op[t], pc[t]) /\ WalkOK(op[t], pc[t]) /\ OffsetOK(op[t], pc[t])
           /\ op[t] \in Ops /\ pc[t] \in Steps
           /\ op[t].kind \in {"write", "read", "readAt"} /\ op[t].path \in Paths
           /\ op[t].at \in Nat /\ op[t].data \in Contents /\ op[t].inst \in Nat
           /\ op[t].value \in Nat /\ op[t].label \in Nat /\ op[t].attribute \in Nat
           /\ FilesOK
<1>1. op[t] \in Ops /\ pc[t] \in Steps
  BY OpTypes DEF Inv
<1>2. StoredOK(op[t], pc[t]) /\ WalkOK(op[t], pc[t]) /\ OffsetOK(op[t], pc[t])
  BY <1>1 DEF AloneInv, OpsOK, OpOK
<1>3. op[t].kind # "purge" /\ op[t].inst \in Nat
  BY <1>2 DEF StoredOK
<1>4. QED
  BY <1>1, <1>2, <1>3 DEF Ops, OpKinds, AloneInv

\* An operation that returns with its answer, or without one.
LEMMA FinishAlone ==
    ASSUME Alone, Inv, AloneInv, NEW t \in Threads, NEW x \in Outcomes, Finish(t, x),
           UNCHANGED stores,
           op[t].kind \in {"read", "readAt"} /\ x # "failed" => x = Answer(op[t]),
           op[t].kind = "write" => x # "changed"
    PROVE  AloneInv' /\ Kept
<1> DEFINE o == [op[t] EXCEPT !.out = x]
<1>1. op[t] \in Ops /\ op[t].kind # "purge" /\ op[t].inst \in Nat /\ FilesOK
  BY OpFacts
<1>2. /\ o \in Ops /\ o.kind = op[t].kind /\ o.path = op[t].path /\ o.at = op[t].at
      /\ o.out = x /\ o.inst = op[t].inst
  BY <1>1, SetField DEF Ops
<1>3. op' = [op EXCEPT ![t] = o] /\ Goto(t, "done") /\ "done" \in Steps
  BY <1>1 DEF Finish, Ops, Inv, TypeOK, Steps
<1>4. Answer(o) = Answer(op[t])
  BY <1>2 DEF Answer
<1> HIDE DEF o
<1>5. StoredOK(o, "done")
  BY <1>1, <1>2 DEF StoredOK, Labelled, Found
<1>6. WalkOK(o, "done")
  BY <1>2, <1>4 DEF WalkOK
<1>7. OffsetNext(o, "done")
  BY DEF OffsetNext
<1>8. QED
  BY <1>1, <1>2, <1>3, <1>5, <1>6, <1>7, QuietStep

\* A file call that fails: the operation returns the error.
LEMMA IOErrorAlone ==
    ASSUME Alone, Inv, AloneInv, NEW t \in Threads, IOError(t)
    PROVE  AloneInv' /\ Kept
BY FinishAlone DEF IOError, Outcomes

\* A request that is not a purge.
LEMMA BeginAlone ==
    ASSUME Alone, Inv, AloneInv, NEW t \in Threads, NEW k \in OpKinds, NEW p \in Paths,
           NEW d \in Contents, NEW from \in Nat, NEW at \in Nat,
           Begin(t, k, p, d, from, at)
    PROVE  AloneInv' /\ Kept
<1> DEFINE o == NewOp(k, p, d, from, at)
           s == IF k = "write" THEN "value" ELSE "label"
<1>1. o \in Ops /\ s \in Steps /\ o.kind = k /\ o.inst = 0 /\ ~ o.hit
  BY NewOpType DEF NewOp, Steps
<1>2. k # "purge"
  BY DEF Begin, Alone
<1>3. op' = [op EXCEPT ![t] = o] /\ Goto(t, s) /\ UNCHANGED stores
  BY DEF Begin, Set
<1>4. (s = "value" /\ k = "write") \/ (s = "label" /\ k # "write")
  OBVIOUS
<1> HIDE DEF o, s
<1>5. StoredOK(o, s)
  BY <1>1, <1>2, <1>4 DEF StoredOK, Labelled, Found
<1>6. WalkOK(o, s)
  BY <1>4 DEF WalkOK
<1>7. OffsetNext(o, s)
  BY <1>4 DEF OffsetNext
<1>8. QED
  BY <1>1, <1>3, <1>5, <1>6, <1>7, QuietStep DEF AloneInv

\* HashIndex.Lookup finds the path's attribute, or there is none.
LEMMA LookupLabelAlone ==
    ASSUME Alone, Inv, AloneInv, NEW t \in Threads, LookupLabel(t)
    PROVE  AloneInv' /\ Kept
<1> DEFINE l == op[t].label
<1>1. /\ op[t] \in Ops /\ op[t].path \in Paths /\ op[t].at \in Nat /\ FilesOK
      /\ op[t].kind \in {"write", "read", "readAt"} /\ op[t].inst \in Nat
  BY OpFacts
<1>2. pc[t] = "lookup" /\ UNCHANGED <<stores, positions, started, faults>>
  BY DEF LookupLabel
<1>3. /\ StoredOK(op[t], "lookup")
      /\ l # 0 /\ hashToValueID[op[t].path] = l /\ ~ op[t].hit
      /\ op[t].kind = "write" =>
            op[t].value \in DOMAIN values /\ values[op[t].value] = op[t].data
  <2>1. StoredOK(op[t], "lookup")
    BY <1>2, OpFacts
  <2>2. QED
    BY <2>1 DEF StoredOK, Labelled
<1>4. CASE l \in DOMAIN hashIndex
  <2> DEFINE a == hashIndex[l]
             o == [op[t] EXCEPT !.attribute = a]
  <2>1. op' = [op EXCEPT ![t] = o] /\ Goto(t, "seekAttribute")
    BY <1>1, <1>4 DEF LookupLabel, Inv, TypeOK
  <2>2. a \in DOMAIN attributes /\ a \in Nat /\ a # 0
    BY <1>4 DEF Inv, MapsAgreeWithFiles, TypeOK
  <2>3. /\ o \in Ops /\ o.kind = op[t].kind /\ o.path = op[t].path /\ o.label = l
        /\ o.value = op[t].value /\ o.data = op[t].data /\ o.inst = op[t].inst
        /\ o.attribute = a /\ o.hit = op[t].hit
    BY <1>1, <2>2, SetField DEF Ops
  <2>4. AttributeOf(op[t].path) = a
    BY <1>3, <1>4 DEF AttributeOf
  <2> HIDE DEF o, a
  <2>5. StoredOK(o, "seekAttribute")
    BY <1>1, <1>3, <2>2, <2>3, <2>4 DEF StoredOK, Labelled, Found
  <2>6. WalkOK(o, "seekAttribute")
    BY DEF WalkOK
  <2>7. OffsetNext(o, "seekAttribute") /\ "seekAttribute" \in Steps
    BY DEF OffsetNext, Steps
  <2>8. QED
    BY <1>1, <1>2, <2>1, <2>3, <2>5, <2>6, <2>7, QuietStep
<1>5. CASE l \notin DOMAIN hashIndex /\ op[t].kind = "write"
  <2>1. op' = [op EXCEPT ![t] = op[t]] /\ Goto(t, "attribute")
    BY <1>5 DEF LookupLabel, Inv, TypeOK
  <2>2. StoredOK(op[t], "attribute")
    BY <1>1, <1>3, <1>5 DEF StoredOK, Labelled, Found
  <2>3. WalkOK(op[t], "attribute")
    BY DEF WalkOK
  <2>4. "attribute" \in Steps /\ OffsetNext(op[t], "attribute")
    BY DEF OffsetNext, Steps
  <2>5. QED
    BY <1>1, <1>2, <2>1, <2>2, <2>3, <2>4, QuietStep
<1>6. CASE l \notin DOMAIN hashIndex /\ op[t].kind # "write"
  <2>1. Finish(t, "notFound")
    BY <1>6 DEF LookupLabel
  <2>2. FirstOf(op[t].path) = 0
    BY <1>3, <1>6 DEF FirstOf, AttributeOf
  <2>3. Answer(op[t]) = "notFound"
    BY <1>1, <2>2, EmptyAnswer DEF Answer
  <2>4. "notFound" \in Outcomes
    BY DEF Outcomes
  <2>5. QED
    BY <1>2, <1>6, <2>1, <2>3, <2>4, FinishAlone
<1>7. QED
  BY <1>4, <1>5, <1>6

\* ReadAttribute's Seek.
LEMMA SeekAttributeAlone ==
    ASSUME Alone, Inv, AloneInv, NEW t \in Threads, SeekAttribute(t)
    PROVE  AloneInv' /\ Kept
<1>1. /\ StoredOK(op[t], "seekAttribute") /\ WalkOK(op[t], "seekAttribute")
      /\ op[t] \in Ops /\ FilesOK
  BY OpFacts DEF SeekAttribute
<1>2. StoredOK(op[t], "readAttribute")
  BY <1>1 DEF StoredOK, Labelled, Found
<1>3. WalkOK(op[t], "readAttribute")
  BY DEF WalkOK
<1>4. OffsetNext(op[t], "readAttribute") /\ "readAttribute" \in Steps
  BY DEF OffsetNext, SeekAttribute, Steps
<1>5. op' = [op EXCEPT ![t] = op[t]] /\ Goto(t, "readAttribute") /\ UNCHANGED stores
  BY DEF SeekAttribute, Inv, TypeOK
<1>6. QED
  BY <1>1, <1>2, <1>3, <1>4, <1>5, QuietStep

\* Nobody moved the offset: the record read is the path's attribute, and the
\* instance it names the newest of the path.
LEMMA ReadAttributeAlone ==
    ASSUME Alone, Inv, AloneInv, NEW t \in Threads, ReadAttribute(t)
    PROVE  AloneInv' /\ Kept
<1> DEFINE a == op[t].attribute
           first == attributes[a].first
           o == [op[t] EXCEPT !.inst = first]
<1>1. /\ op[t] \in Ops /\ op[t].path \in Paths /\ op[t].at \in Nat /\ FilesOK
      /\ op[t].kind \in {"write", "read", "readAt"} /\ op[t].inst \in Nat
  BY OpFacts
<1>2. pc[t] = "readAttribute" /\ UNCHANGED stores
  BY DEF ReadAttribute
<1>3. StoredOK(op[t], "readAttribute") /\ OffsetOK(op[t], "readAttribute")
  BY <1>2, OpFacts
<1>4. attributePos = a
  BY <1>3 DEF OffsetOK
<1>5. /\ a # 0 /\ AttributeOf(op[t].path) = a /\ ~ op[t].hit
      /\ op[t].label # 0 /\ hashToValueID[op[t].path] = op[t].label
      /\ op[t].kind = "write" =>
            op[t].value \in DOMAIN values /\ values[op[t].value] = op[t].data
  BY <1>3 DEF StoredOK, Labelled, Found
<1>6. a \in DOMAIN attributes /\ FirstOf(op[t].path) = first
  BY <1>1, <1>5, AttributeFacts DEF FirstOf
<1>7. first \in Nat /\ first \in 0..Len(instances)
  BY <1>1, <1>6, AttributeFacts, InstanceTypes DEF Inv
<1>8. /\ o \in Ops /\ o.kind = op[t].kind /\ o.path = op[t].path /\ o.label = op[t].label
      /\ o.value = op[t].value /\ o.data = op[t].data /\ o.inst = first
      /\ o.attribute = a /\ o.hit = op[t].hit /\ o.at = op[t].at
  BY <1>1, <1>7, SetField DEF Ops, InstanceIDs
<1>9. CASE first # 0
  <2>1. op' = [op EXCEPT ![t] = o] /\ Goto(t, "seekInstance")
    BY <1>1, <1>4, <1>6, <1>9 DEF ReadAttribute, Inv, TypeOK
  <2> HIDE DEF o, first, a
  <2>2. StoredOK(o, "seekInstance")
    BY <1>1, <1>5, <1>7, <1>8 DEF StoredOK, Labelled, Found
  <2>3. o.kind = "readAt" => \E k \in DOMAIN ChainOf(o.path) : Walked(o, k)
    <3> DEFINE c == ChainOf(o.path)
    <3>1. Len(c) \in DOMAIN c /\ c[Len(c)] = first
      BY <1>1, <1>6, <1>8, <1>9, CurrentIs
    <3>2. \A j \in DOMAIN c : ~ (j > Len(c))
      <4>1. DOMAIN c = 1..Len(c) /\ Len(c) \in Nat
        BY <1>1, <1>8, HistoryFacts
      <4> HIDE DEF c
      <4>2. QED
        BY <4>1
    <3>3. Walked(o, Len(c))
      BY <1>5, <1>8, <3>1, <3>2 DEF Walked
    <3>4. QED
      BY <3>1, <3>3
  <2>4. WalkOK(o, "seekInstance")
    BY <1>6, <1>8, <2>3 DEF WalkOK
  <2>5. OffsetNext(o, "seekInstance") /\ "seekInstance" \in Steps
    BY DEF OffsetNext, Steps
  <2>6. QED
    BY <1>1, <1>2, <1>8, <2>1, <2>2, <2>4, <2>5, QuietStep
<1>10. CASE first = 0 /\ op[t].kind = "write"
  <2>1. op' = [op EXCEPT ![t] = o] /\ Goto(t, "instance")
    BY <1>1, <1>4, <1>6, <1>10 DEF ReadAttribute, Inv, TypeOK
  <2> HIDE DEF o, first, a
  <2>2. StoredOK(o, "instance")
    BY <1>1, <1>5, <1>7, <1>8, <1>10 DEF StoredOK, Labelled, Found
  <2>3. WalkOK(o, "instance")
    BY <1>6, <1>8, <1>10 DEF WalkOK
  <2>4. OffsetNext(o, "instance") /\ "instance" \in Steps
    BY DEF OffsetNext, Steps
  <2>5. QED
    BY <1>1, <1>2, <1>8, <2>1, <2>2, <2>3, <2>4, QuietStep
<1>11. CASE first = 0 /\ op[t].kind # "write"
  <2>1. Finish(t, "notFound")
    BY <1>1, <1>4, <1>6, <1>11 DEF ReadAttribute
  <2>2. Answer(op[t]) = "notFound"
    BY <1>1, <1>6, <1>11, EmptyAnswer DEF Answer
  <2>3. "notFound" \in Outcomes
    BY DEF Outcomes
  <2>4. QED
    BY <1>2, <1>11, <2>1, <2>2, <2>3, FinishAlone
<1>12. QED
  BY <1>9, <1>10, <1>11

\* ReadInstance's Seek.
LEMMA SeekInstanceAlone ==
    ASSUME Alone, Inv, AloneInv, NEW t \in Threads, SeekInstance(t)
    PROVE  AloneInv' /\ Kept
<1>1. /\ StoredOK(op[t], "seekInstance") /\ WalkOK(op[t], "seekInstance")
      /\ op[t] \in Ops /\ FilesOK /\ op[t].inst \in Nat
  BY OpFacts DEF SeekInstance
<1>2. op[t].inst # Tombstone
  BY <1>1, ConstantsAssumption
<1>3. /\ instancePos' = op[t].inst /\ UNCHANGED op /\ Goto(t, "readInstance")
      /\ UNCHANGED stores
  BY <1>2 DEF SeekInstance
<1>4. StoredOK(op[t], "readInstance")
  BY <1>1 DEF StoredOK, Labelled, Found
<1>5. WalkOK(op[t], "readInstance")
  BY <1>1 DEF WalkOK
<1>6. OffsetNext(op[t], "readInstance") /\ "readInstance" \in Steps
  BY <1>3 DEF OffsetNext, Steps
<1>7. op' = [op EXCEPT ![t] = op[t]]
  BY <1>3 DEF Inv, TypeOK
<1>8. QED
  BY <1>1, <1>3, <1>4, <1>5, <1>6, <1>7, QuietStep

\* ReadValue's Seek.
LEMMA SeekValueAlone ==
    ASSUME Alone, Inv, AloneInv, NEW t \in Threads, SeekValue(t)
    PROVE  AloneInv' /\ Kept
<1>1. /\ StoredOK(op[t], "seekValue") /\ WalkOK(op[t], "seekValue")
      /\ op[t] \in Ops /\ FilesOK
  BY OpFacts DEF SeekValue
<1>2. StoredOK(op[t], "readValue")
  BY <1>1 DEF StoredOK, Labelled, Found
<1>3. WalkOK(op[t], "readValue")
  BY <1>1 DEF WalkOK
<1>4. TierOf(op[t].value) \in BOOLEAN /\ DOMAIN valuePos = BOOLEAN
  BY DEF TierOf, Inv, TypeOK
<1>5. OffsetNext(op[t], "readValue") /\ "readValue" \in Steps
  BY <1>4 DEF OffsetNext, SeekValue, Steps
<1>6. op' = [op EXCEPT ![t] = op[t]] /\ Goto(t, "readValue") /\ UNCHANGED stores
  BY DEF SeekValue, Inv, TypeOK
<1>7. QED
  BY <1>1, <1>2, <1>3, <1>5, <1>6, QuietStep

\* Nobody moved the offset: the value read is the one asked for.
LEMMA ReadValueAlone ==
    ASSUME Alone, Inv, AloneInv, NEW t \in Threads, ReadValue(t)
    PROVE  AloneInv' /\ Kept
<1> DEFINE id == op[t].value
<1>1. pc[t] = "readValue" /\ UNCHANGED stores
  BY DEF ReadValue
<1>2. WalkOK(op[t], "readValue") /\ OffsetOK(op[t], "readValue")
  BY <1>1, OpFacts
<1>3. /\ op[t].kind \in {"read", "readAt"} /\ id \in DOMAIN values
      /\ values[id] = Answer(op[t])
  BY <1>2 DEF WalkOK
<1>4. valuePos[TierOf(id)] = id
  BY <1>2 DEF OffsetOK
<1>5. Finish(t, values[id])
  BY <1>3, <1>4 DEF ReadValue
<1>6. values[id] \in Outcomes
  BY <1>3 DEF Inv, TypeOK, Outcomes
<1>7. QED
  BY <1>1, <1>3, <1>5, <1>6, FinishAlone

\* The record read is the instance the operation has come to: a write finds
\* the newest one, Read takes its value, ReadAt takes it or walks on.
LEMMA ReadInstanceAlone ==
    ASSUME Alone, Inv, AloneInv, NEW t \in Threads, ReadInstance(t)
    PROVE  AloneInv' /\ Kept
<1> DEFINE i == op[t].inst
           r == instances[i]
           p == op[t].path
<1>1. /\ op[t] \in Ops /\ p \in Paths /\ op[t].at \in Nat /\ FilesOK
      /\ op[t].kind \in {"write", "read", "readAt"} /\ i \in Nat
  BY OpFacts
<1>2. pc[t] = "readInstance" /\ UNCHANGED stores
  BY DEF ReadInstance
<1>3. /\ StoredOK(op[t], "readInstance") /\ WalkOK(op[t], "readInstance")
      /\ OffsetOK(op[t], "readInstance")
  BY <1>2, OpFacts
<1>4. instancePos = i
  BY <1>3 DEF OffsetOK
<1>5. /\ op[t].attribute # 0 /\ AttributeOf(p) = op[t].attribute
      /\ op[t].label # 0 /\ hashToValueID[p] = op[t].label
      /\ op[t].kind = "write" =>
            op[t].value \in DOMAIN values /\ values[op[t].value] = op[t].data
  BY <1>3 DEF StoredOK, Labelled, Found
<1>6. i \in DOMAIN instances
  <2>1. LocalOK(op[t], pc[t])
    BY DEF Inv, LocalsOK
  <2>2. i # 0 /\ i <= Len(instances)
    BY <1>1, <1>2, <2>1 DEF LocalOK
  <2>3. QED
    BY <1>1, <2>2, InstanceTypes DEF Inv
<1>7. r.value \in Nat /\ r.time \in Nat /\ r.value \in DOMAIN values /\ r.older \in Nat
  BY <1>1, <1>6, InstanceTypes DEF Inv, FilesOK
<1>8. CASE op[t].kind = "write"
  <2>1. i = FirstOf(p)
    BY <1>3, <1>8 DEF WalkOK
  <2>2. CASE r.value = op[t].value
    <3>1. Finish(t, "unchanged")
      BY <1>4, <1>6, <1>8, <2>2 DEF ReadInstance
    <3>2. QED
      BY <1>2, <1>8, <3>1, FinishAlone DEF Outcomes
  <2>3. CASE r.value # op[t].value
    <3>1. op' = [op EXCEPT ![t] = op[t]] /\ Goto(t, "instance")
      BY <1>4, <1>6, <1>8, <2>3 DEF ReadInstance, Inv, TypeOK
    <3>2. StoredOK(op[t], "instance")
      BY <1>1, <1>5, <1>8 DEF StoredOK, Labelled, Found
    <3>3. WalkOK(op[t], "instance")
      BY <1>8, <2>1, <2>3 DEF WalkOK
    <3>4. OffsetNext(op[t], "instance") /\ "instance" \in Steps
      BY DEF OffsetNext, Steps
    <3>5. QED
      BY <1>1, <1>2, <3>1, <3>2, <3>3, <3>4, QuietStep
  <2>4. QED
    BY <2>2, <2>3
<1>9. CASE op[t].kind = "read" \/ (op[t].kind = "readAt" /\ op[t].hit)
  <2> DEFINE o == [op[t] EXCEPT !.value = r.value]
  <2>1. op' = [op EXCEPT ![t] = o] /\ Goto(t, "seekValue")
    BY <1>4, <1>6, <1>9 DEF ReadInstance, Inv, TypeOK
  <2>2. /\ o \in Ops /\ o.kind = op[t].kind /\ o.path = p /\ o.label = op[t].label
        /\ o.value = r.value /\ o.inst = i /\ o.attribute = op[t].attribute
        /\ o.at = op[t].at
    BY <1>1, <1>7, SetField DEF Ops
  <2>3. Answer(op[t]) = values[r.value]
    <3>1. CASE op[t].kind = "read"
      <4>1. i = FirstOf(p) /\ FirstOf(p) # 0
        BY <1>3, <1>6, <3>1, InstanceTypes DEF WalkOK, Inv
      <4>2. QED
        BY <1>1, <3>1, <4>1, CurrentIs DEF Answer
    <3>2. CASE op[t].kind = "readAt" /\ op[t].hit
      <4>1. PICK k \in DOMAIN ChainOf(p) : Walked(op[t], k)
        BY <1>3, <3>2 DEF WalkOK
      <4>2. r.time <= op[t].at
        BY <3>2, <4>1 DEF Walked
      <4>3. AsOf(p, op[t].at) = values[r.value]
        BY <1>1, <4>1, <4>2, AsOfIs
      <4>4. QED
        BY <3>2, <4>3 DEF Answer
    <3>3. QED
      BY <1>9, <3>1, <3>2
  <2>4. Answer(o) = Answer(op[t])
    BY <2>2 DEF Answer
  <2> HIDE DEF o
  <2>5. StoredOK(o, "seekValue")
    BY <1>1, <1>5, <1>9, <2>2 DEF StoredOK, Labelled, Found
  <2>6. WalkOK(o, "seekValue")
    BY <1>7, <1>9, <2>2, <2>3, <2>4 DEF WalkOK
  <2>7. OffsetNext(o, "seekValue") /\ "seekValue" \in Steps
    BY DEF OffsetNext, Steps
  <2>8. QED
    BY <1>1, <1>2, <2>1, <2>2, <2>5, <2>6, <2>7, QuietStep
<1>10. CASE op[t].kind = "readAt" /\ ~ op[t].hit
  <2>1. PICK k \in DOMAIN ChainOf(p) : Walked(op[t], k)
    BY <1>3, <1>10 DEF WalkOK
  <2>2. CASE r.time <= op[t].at
    <3> DEFINE o == [op[t] EXCEPT !.hit = TRUE]
    <3>1. op' = [op EXCEPT ![t] = o] /\ Goto(t, "seekInstance")
      BY <1>4, <1>6, <1>10, <2>2 DEF ReadInstance, ActiveAt, Inv, TypeOK
    <3>2. /\ o \in Ops /\ o.kind = "readAt" /\ o.path = p /\ o.label = op[t].label
          /\ o.inst = i /\ o.attribute = op[t].attribute /\ o.at = op[t].at
      BY <1>1, <1>10, SetField DEF Ops
    <3>3. Walked(o, k)
      BY <2>1, <2>2, <3>2 DEF Walked
    <3> HIDE DEF o
    <3>4. StoredOK(o, "seekInstance")
      BY <1>1, <1>5, <3>2 DEF StoredOK, Labelled, Found
    <3>5. WalkOK(o, "seekInstance")
      BY <2>1, <3>2, <3>3 DEF WalkOK
    <3>6. OffsetNext(o, "seekInstance") /\ "seekInstance" \in Steps
      BY DEF OffsetNext, Steps
    <3>7. QED
      BY <1>1, <1>2, <3>1, <3>2, <3>4, <3>5, <3>6, QuietStep
  <2>3. CASE ~ (r.time <= op[t].at)
    <3>1. WalkOn(t, r.older)
      BY <1>4, <1>6, <1>10, <2>3 DEF ReadInstance, ActiveAt
    <3>2. /\ r.older = 0 => AsOf(p, op[t].at) = "notFound"
          /\ r.older # 0 => \E j \in DOMAIN ChainOf(p) :
                Walked([op[t] EXCEPT !.inst = r.older], j)
      BY <1>1, <1>10, <2>1, <2>3, WalkGoesOn
    <3>3. CASE r.older = 0
      <4>1. Finish(t, "notFound")
        BY <1>10, <3>1, <3>3 DEF WalkOn
      <4>2. Answer(op[t]) = "notFound"
        BY <1>10, <3>2, <3>3 DEF Answer
      <4>3. QED
        BY <1>2, <1>10, <4>1, <4>2, FinishAlone DEF Outcomes
    <3>4. CASE r.older # 0
      <4> DEFINE o == [op[t] EXCEPT !.inst = r.older]
      <4>1. op' = [op EXCEPT ![t] = o] /\ Goto(t, "seekInstance")
        BY <3>1, <3>4 DEF WalkOn, Inv, TypeOK
      <4>2. /\ o \in Ops /\ o.kind = "readAt" /\ o.path = p /\ o.label = op[t].label
            /\ o.inst = r.older /\ o.attribute = op[t].attribute /\ o.at = op[t].at
        BY <1>1, <1>7, <1>10, SetField DEF Ops, InstanceIDs
      <4>3. \E j \in DOMAIN ChainOf(p) : Walked(o, j)
        BY <3>2, <3>4
      <4> HIDE DEF o
      <4>4. StoredOK(o, "seekInstance")
        BY <1>1, <1>5, <1>7, <4>2 DEF StoredOK, Labelled, Found
      <4>5. WalkOK(o, "seekInstance")
        BY <4>2, <4>3 DEF WalkOK
      <4>6. OffsetNext(o, "seekInstance") /\ "seekInstance" \in Steps
        BY DEF OffsetNext, Steps
      <4>7. QED
        BY <1>1, <1>2, <4>1, <4>2, <4>4, <4>5, <4>6, QuietStep
    <3>5. QED
      BY <3>3, <3>4
  <2>4. QED
    BY <2>2, <2>3
<1>11. QED
  BY <1>1, <1>8, <1>9, <1>10

-----------------------------------------------------------------------------
(* The steps that write *)

\* WriteValue of a content stores it once, under an ID that stays its own.
LEMMA WriteValueFacts ==
    ASSUME Inv, FilesOK, NEW c \in Contents, WriteValue(c)
    PROVE  /\ \A i \in DOMAIN values : i \in DOMAIN values' /\ values'[i] = values[i]
           /\ \A i \in DOMAIN values' : hashToValueID'[values'[i]] = i
           /\ WriteValueID(c) # 0 /\ hashToValueID'[c] = WriteValueID(c)
           /\ WriteValueID(c) \in DOMAIN values' /\ values'[WriteValueID(c)] = c
           /\ \A d \in Contents : hashToValueID'[d] # hashToValueID[d] =>
                 hashToValueID[d] = 0 /\ hashToValueID'[d] \notin DOMAIN values
<1>1. /\ values \in Seq(Contents) /\ hashToValueID \in [Contents -> Nat]
      /\ Len(values) \in Nat /\ DOMAIN values = 1..Len(values)
      /\ \A i \in DOMAIN values : values[i] \in Contents
  BY DEF Inv, TypeOK
<1>2. CASE hashToValueID[c] # 0
  <2>1. UNCHANGED <<values, hashToValueID>> /\ WriteValueID(c) = hashToValueID[c]
    BY <1>2 DEF WriteValue, WriteValueID
  <2>2. hashToValueID[c] \in DOMAIN values /\ values[hashToValueID[c]] = c
    BY <1>2 DEF Inv, MapsAgreeWithFiles
  <2>3. QED
    BY <1>2, <2>1, <2>2 DEF FilesOK
<1>3. CASE hashToValueID[c] = 0
  <2> DEFINE n == Len(values) + 1
  <2>1. /\ values' = Append(values, c) /\ WriteValueID(c) = n
        /\ hashToValueID' = [hashToValueID EXCEPT ![c] = n]
    BY <1>3 DEF WriteValue, WriteValueID
  <2>2. /\ DOMAIN values' = 1..n /\ values'[n] = c
        /\ \A i \in DOMAIN values : values'[i] = values[i]
    BY <1>1, <2>1, AppendFacts
  <2>3. hashToValueID'[c] = n /\ \A d \in Contents : d # c => hashToValueID'[d] = hashToValueID[d]
    BY <1>1, <2>1
  <2>4. n \in Nat /\ n # 0 /\ n \notin DOMAIN values /\ n \in DOMAIN values'
    BY <1>1, <2>2
  <2>5. \A i \in DOMAIN values' : i = n \/ i \in DOMAIN values
    BY <1>1, <2>2
  <2>6. \A i \in DOMAIN values : i \in DOMAIN values'
    BY <1>1, <2>2
  <2> HIDE DEF n
  <2>7. ASSUME NEW i \in DOMAIN values PROVE hashToValueID'[values'[i]] = i
    <3>1. hashToValueID[values[i]] = i /\ i # 0
      BY <1>1 DEF FilesOK
    <3>2. values[i] # c
      BY <1>3, <3>1
    <3>3. QED
      BY <1>1, <2>2, <2>3, <3>1, <3>2
  <2>8. \A i \in DOMAIN values' : hashToValueID'[values'[i]] = i
    BY <2>2, <2>3, <2>5, <2>7
  <2>9. QED
    BY <1>3, <2>1, <2>2, <2>3, <2>4, <2>6, <2>8
<1>4. QED
  BY <1>2, <1>3

\* The newest instances stay when the label index and the attributes do: a
\* new value ID is no one's label yet.
LEMMA StoreStep ==
    ASSUME Inv, FilesOK, Inv', NEW c \in Contents, WriteValue(c),
           UNCHANGED <<attributes, hashIndex, instances, misnamed>>
    PROVE  FilesOK' /\ Kept
<1>1. /\ \A i \in DOMAIN values : i \in DOMAIN values' /\ values'[i] = values[i]
      /\ \A i \in DOMAIN values' : hashToValueID'[values'[i]] = i
      /\ \A d \in Contents : hashToValueID'[d] # hashToValueID[d] =>
            hashToValueID[d] = 0 /\ hashToValueID'[d] \notin DOMAIN values
  BY WriteValueFacts
<1>2. FilesOK'
  <2>1. /\ \A a \in DOMAIN attributes' : attributes'[a].label \in DOMAIN values'
        /\ DOMAIN hashIndex' \subseteq DOMAIN values'
    BY <1>1 DEF FilesOK
  <2>2. \A i \in DOMAIN instances' :
           instances'[i].older \in Nat /\ instances'[i].value \in DOMAIN values'
    BY <1>1 DEF FilesOK
  <2>3. misnamed' \/ Tidy'
    BY DEF FilesOK, Tidy
  <2>4. QED
    BY <1>1, <2>1, <2>2, <2>3 DEF FilesOK
<1>3. ASSUME NEW p \in Paths PROVE FirstOf(p)' = FirstOf(p)
  <2>1. p \in Contents
    BY DEF Contents
  <2>2. \A v \in DOMAIN hashIndex : v \in DOMAIN values
    BY DEF FilesOK
  <2>3. CASE hashToValueID'[p] = hashToValueID[p]
    BY <2>3 DEF FirstOf, AttributeOf
  <2>4. CASE hashToValueID'[p] # hashToValueID[p]
    <3>1. hashToValueID[p] = 0 /\ hashToValueID'[p] \notin DOMAIN hashIndex'
      BY <1>1, <2>1, <2>2, <2>4
    <3>2. FirstOf(p) = 0
      BY <3>1 DEF FirstOf, AttributeOf
    <3>3. FirstOf(p)' = 0
      BY <3>1 DEF FirstOf, AttributeOf
    <3>4. QED
      BY <3>2, <3>3
  <2>5. QED
    BY <2>3, <2>4
<1>4. Len(instances) <= Len(instances')
  BY InstanceTypes DEF Inv
<1>5. Kept
  BY <1>1, <1>2, <1>3, <1>4, HistoryStays DEF Kept
<1>6. QED
  BY <1>2, <1>5

\* WriteValue of the data of a write.
LEMMA StoreDataAlone ==
    ASSUME Alone, Inv, AloneInv, NEW t \in Threads, StoreData(t)
    PROVE  AloneInv' /\ Kept
<1> DEFINE v == WriteValueID(op[t].data)
<1>1. /\ op[t] \in Ops /\ op[t].inst \in Nat /\ FilesOK /\ op[t].data \in Contents
      /\ StoredOK(op[t], "value")
  BY OpFacts DEF StoreData
<1>2. WriteValue(op[t].data) /\ UNCHANGED <<attributes, hashIndex, instances, misnamed>>
  BY DEF counters, StoreData
<1>3. op[t].kind = "write"
  BY <1>1 DEF StoredOK
<1>4. v \in DOMAIN values' /\ values'[v] = op[t].data /\ v \in Nat
  BY <1>1, <1>2, WriteValueFacts, WriteValueOK DEF Inv
<1>5. Inv'
  BY StoreDataInv
<1>6. FilesOK' /\ Kept
  BY <1>1, <1>2, <1>5, StoreStep
<1>7. PICK o \in Ops : o = [op[t] EXCEPT !.value = v]
  BY <1>1, <1>4, SetField
<1>8. /\ o.value = v /\ o.kind = "write" /\ o.data = op[t].data /\ o.inst \in Nat
      /\ o.hit = op[t].hit
  BY <1>1, <1>3, <1>7 DEF Ops
<1>9. op' = [op EXCEPT ![t] = o] /\ Goto(t, "label") /\ "label" \in Steps
  BY <1>7 DEF StoreData, Inv, TypeOK, Steps
<1> HIDE DEF v
<1>10. ~ o.hit
  BY <1>1, <1>8 DEF StoredOK
<1>11. StoredOK(o, "label")'
  BY <1>4, <1>8, <1>10 DEF StoredOK, Labelled, Found
<1>12. WalkOK(o, "label")' /\ OffsetOK(o, "label")'
  BY DEF WalkOK, OffsetOK
<1>13. OpsOK'
  BY <1>9, <1>11, <1>12, MovesAlone
<1>14. QED
  BY <1>6, <1>13 DEF AloneInv

\* The label's value ID is found or made.
LEMMA StoreLabelAlone ==
    ASSUME Alone, Inv, AloneInv, NEW t \in Threads, StoreLabel(t)
    PROVE  AloneInv' /\ Kept
<1> DEFINE l == WriteValueID(op[t].path)
<1>1. /\ op[t] \in Ops /\ op[t].inst \in Nat /\ FilesOK /\ op[t].path \in Contents
      /\ op[t].kind # "purge" /\ StoredOK(op[t], "label")
  BY OpFacts DEF StoreLabel, Contents
<1>2. WriteValue(op[t].path) /\ UNCHANGED <<attributes, hashIndex, instances, misnamed>>
  BY DEF counters, StoreLabel
<1>3. /\ l # 0 /\ hashToValueID'[op[t].path] = l /\ l \in Nat
      /\ \A i \in DOMAIN values : i \in DOMAIN values' /\ values'[i] = values[i]
  BY <1>1, <1>2, WriteValueFacts, WriteValueOK DEF Inv
<1>4. /\ ~ op[t].hit
      /\ op[t].kind = "write" =>
            op[t].value \in DOMAIN values' /\ values'[op[t].value] = op[t].data
  BY <1>1, <1>3 DEF StoredOK, Labelled, Found
<1>5. Inv'
  BY StoreLabelInv
<1>6. FilesOK' /\ Kept
  BY <1>1, <1>2, <1>5, StoreStep
<1>7. PICK o \in Ops : o = [op[t] EXCEPT !.label = l]
  BY <1>1, <1>3, SetField
<1>8. /\ o.value = op[t].value /\ o.kind = op[t].kind /\ o.data = op[t].data
      /\ o.inst \in Nat /\ o.hit = op[t].hit /\ o.path = op[t].path /\ o.label = l
  BY <1>1, <1>7 DEF Ops
<1>9. op' = [op EXCEPT ![t] = o] /\ Goto(t, "lookup") /\ "lookup" \in Steps
  BY <1>7 DEF StoreLabel, Inv, TypeOK, Steps
<1> HIDE DEF l
<1>10. StoredOK(o, "lookup")'
  BY <1>1, <1>3, <1>4, <1>8 DEF StoredOK, Labelled, Found
<1>11. WalkOK(o, "lookup")' /\ OffsetOK(o, "lookup")'
  BY DEF WalkOK, OffsetOK
<1>12. OpsOK'
  BY <1>9, <1>10, <1>11, MovesAlone
<1>13. QED
  BY <1>6, <1>12 DEF AloneInv

\* The label has no attribute in the index: one is added, counted or not.
LEMMA AttributeAdded ==
    ASSUME Inv, AloneInv, Inv', NEW t \in Threads, pc[t] = "attribute",
           attributes' = Append(attributes, NewAttribute(op[t])),
           UNCHANGED <<values, hashToValueID, hashIndex, instances>>,
           misnamed => misnamed'
    PROVE  /\ FilesOK' /\ Kept
           /\ Len(attributes') = Len(attributes) + 1
           /\ attributes'[Len(attributes) + 1].first = 0
<1> DEFINE r == NewAttribute(op[t])
           n == Len(attributes) + 1
<1>1. /\ op[t] \in Ops /\ FilesOK /\ op[t].path \in Paths
      /\ op[t].label \in Nat /\ StoredOK(op[t], "attribute")
  BY OpFacts
<1>2. /\ op[t].label # 0 /\ hashToValueID[op[t].path] = op[t].label
      /\ op[t].label \notin DOMAIN hashIndex
  BY <1>1 DEF StoredOK, Labelled
<1>4. op[t].label \in DOMAIN values
  <2>1. op[t].path \in Contents
    BY <1>1 DEF Contents
  <2>2. QED
    BY <1>2, <2>1 DEF Inv, MapsAgreeWithFiles
<1>5. /\ DOMAIN attributes' = 1..n /\ attributes'[n] = r /\ n \in Nat
      /\ \A a \in DOMAIN attributes : attributes'[a] = attributes[a]
      /\ DOMAIN attributes = 1..Len(attributes) /\ Len(attributes) \in Nat
      /\ Len(attributes') = n
  <2>1. attributes \in Seq(AttributeRecords) /\ r \in AttributeRecords
    BY <1>1 DEF Inv, TypeOK, AttributeRecords, NewAttribute
  <2>2. QED
    BY <2>1, AppendFacts
<1>6. \A a \in DOMAIN attributes' : a = n \/ a \in DOMAIN attributes
  BY <1>5
<1>7. r.label = op[t].label /\ r.first = 0
  BY DEF NewAttribute
<1> HIDE DEF r, n
<1>10. FilesOK'
  <2>1. \A a \in DOMAIN attributes' : attributes'[a].label \in DOMAIN values'
    BY <1>1, <1>4, <1>5, <1>6, <1>7 DEF FilesOK
  <2>2. misnamed' \/ Tidy'
    <3>1. SUFFICES ASSUME ~ misnamed' PROVE Tidy'
      OBVIOUS
    <3>2. Tidy
      BY <1>1, <3>1 DEF FilesOK
    <3>3. SUFFICES ASSUME NEW a \in DOMAIN attributes'
                   PROVE  /\ attributes'[a].label \in DOMAIN hashIndex =>
                                a <= hashIndex[attributes'[a].label]
                          /\ attributes'[a].label \notin DOMAIN hashIndex =>
                                attributes'[a].first = 0
      BY DEF Tidy
    <3>4. CASE a = n
      BY <1>2, <1>5, <1>7, <3>4
    <3>5. CASE a \in DOMAIN attributes
      BY <1>5, <3>2, <3>5 DEF Tidy
    <3>6. QED
      BY <1>6, <3>4, <3>5
  <2>3. QED
    BY <1>1, <2>1, <2>2 DEF FilesOK
<1>11. ASSUME NEW p \in Paths PROVE FirstOf(p)' = FirstOf(p)
  <2>1. AttributeOf(p)' = AttributeOf(p)
    BY DEF AttributeOf
  <2>2. AttributeOf(p) # 0 => AttributeOf(p) \in DOMAIN attributes
    BY AttributeFacts
  <2>3. QED
    BY <1>5, <2>1, <2>2 DEF FirstOf
<1>12. Kept
  <2>1. Len(instances) <= Len(instances')
    BY InstanceTypes DEF Inv
  <2>2. QED
    BY <1>1, <1>10, <1>11, <2>1, HistoryStays DEF Kept
<1>13. QED
  BY <1>5, <1>7, <1>10, <1>12 DEF n

\* The new attribute is counted, and has its own ID or ends the promise.
LEMMA WriteAttributeAlone ==
    ASSUME Alone, Inv, AloneInv, NEW t \in Threads, WriteAttribute(t)
    PROVE  AloneInv' /\ Kept
<1>1. /\ op[t] \in Ops /\ op[t].inst \in Nat /\ FilesOK
      /\ StoredOK(op[t], "attribute")
  BY OpFacts DEF WriteAttribute
<1>2. /\ op[t].kind = "write" /\ op[t].label # 0 /\ hashToValueID[op[t].path] = op[t].label
      /\ op[t].value \in DOMAIN values /\ values[op[t].value] = op[t].data
      /\ op[t].label \notin DOMAIN hashIndex /\ ~ op[t].hit
  BY <1>1 DEF StoredOK, Labelled
<1>3. /\ pc[t] = "attribute" /\ attributes' = Append(attributes, NewAttribute(op[t]))
      /\ UNCHANGED <<values, hashToValueID, hashIndex, instances>>
      /\ misnamed => misnamed'
      /\ nextAttribute \in Nat
  BY DEF WriteAttribute, Inv, TypeOK
<1>4. ~ misnamed' => nextAttribute = Len(attributes) + 1
  BY DEF WriteAttribute
<1>5. /\ FilesOK' /\ Kept /\ Len(attributes') = Len(attributes) + 1
      /\ attributes'[Len(attributes) + 1].first = 0
  BY <1>3, WriteAttributeInv, AttributeAdded
<1>13. PICK o \in Ops : o = [op[t] EXCEPT !.attribute = nextAttribute]
  BY <1>1, <1>3, SetField
<1>14. /\ o.value = op[t].value /\ o.kind = "write" /\ o.data = op[t].data
       /\ o.inst \in Nat /\ o.path = op[t].path /\ o.label = op[t].label
       /\ o.attribute = nextAttribute /\ o.hit = op[t].hit
  BY <1>1, <1>2, <1>13 DEF Ops
<1>15. op' = [op EXCEPT ![t] = o] /\ Goto(t, "insert") /\ "insert" \in Steps
  BY <1>13 DEF WriteAttribute, Inv, TypeOK, Steps
<1>16. \/ misnamed'
       \/ o.attribute = Len(attributes') /\ attributes'[o.attribute].first = 0
  BY <1>4, <1>5, <1>14
<1>17. StoredOK(o, "insert")'
  BY <1>2, <1>3, <1>14, <1>16 DEF StoredOK, Labelled, Found
<1>18. WalkOK(o, "insert")' /\ OffsetOK(o, "insert")'
  BY DEF WalkOK, OffsetOK
<1>19. OpsOK'
  BY <1>15, <1>17, <1>18, MovesAlone
<1>20. QED
  BY <1>5, <1>19 DEF AloneInv

\* HashIndex.Insert makes the new attribute the path's: it has no instance.
LEMMA InsertLabelAlone ==
    ASSUME Alone, Inv, AloneInv, NEW t \in Threads, InsertLabel(t)
    PROVE  AloneInv' /\ Kept
<1> DEFINE l == op[t].label
           a == op[t].attribute
<1>1. /\ op[t] \in Ops /\ op[t].inst \in Nat /\ FilesOK /\ op[t].path \in Paths
      /\ StoredOK(op[t], "insert")
  BY OpFacts DEF InsertLabel
<1>2. /\ op[t].kind = "write" /\ l # 0 /\ hashToValueID[op[t].path] = l
      /\ op[t].value \in DOMAIN values /\ values[op[t].value] = op[t].data
      /\ l \notin DOMAIN hashIndex /\ ~ op[t].hit
      /\ misnamed \/ (a = Len(attributes) /\ attributes[a].first = 0)
  BY <1>1 DEF StoredOK, Labelled
<1>3. /\ hashIndex' = Inserted(op[t]) /\ UNCHANGED op /\ Goto(t, "seekAttribute")
      /\ UNCHANGED <<values, hashToValueID, attributes, instances, misnamed>>
  BY DEF InsertLabel, counters
<1>4. a \in DOMAIN attributes /\ a # 0 /\ (misnamed \/ attributes[a].label = l)
  <2>1. LocalOK(op[t], "insert")
    BY DEF Inv, LocalsOK, InsertLabel
  <2>2. QED
    BY <2>1 DEF LocalOK, Located, Inv, TypeOK
<1>5. /\ l \in DOMAIN hashIndex' /\ hashIndex'[l] = a
      /\ \A v : v # l => /\ v \in DOMAIN hashIndex' <=> v \in DOMAIN hashIndex
                         /\ v \in DOMAIN hashIndex => hashIndex'[v] = hashIndex[v]
  BY <1>3 DEF Inserted
<1> HIDE DEF l, a
<1>6. Inv'
  BY InsertLabelInv
<1>7. FilesOK'
  <2>1. DOMAIN hashIndex' \subseteq DOMAIN values
    <3>1. op[t].path \in Contents
      BY <1>1 DEF Contents
    <3>2. l \in DOMAIN values
      BY <1>2, <3>1 DEF Inv, MapsAgreeWithFiles
    <3>3. QED
      BY <1>1, <1>5, <3>2 DEF FilesOK
  <2>2. ASSUME ~ misnamed PROVE Tidy'
    <3>1. Tidy /\ a = Len(attributes) /\ attributes[a].first = 0 /\ attributes[a].label = l
      BY <1>1, <1>2, <1>4, <2>2 DEF FilesOK
    <3>2. \A b \in DOMAIN attributes : b <= Len(attributes)
      BY DEF Inv, TypeOK
    <3>3. SUFFICES ASSUME NEW b \in DOMAIN attributes
                   PROVE  /\ attributes[b].label \in DOMAIN hashIndex' =>
                                b <= hashIndex'[attributes[b].label]
                          /\ attributes[b].label \notin DOMAIN hashIndex' =>
                                attributes[b].first = 0
      BY <1>3 DEF Tidy
    <3>4. CASE attributes[b].label = l
      BY <1>5, <3>1, <3>2, <3>4
    <3>5. CASE attributes[b].label # l
      BY <1>5, <3>1, <3>5 DEF Tidy
    <3>6. QED
      BY <3>4, <3>5
  <2>3. QED
    BY <1>1, <1>3, <2>1, <2>2 DEF FilesOK
<1>8. ASSUME ~ misnamed, NEW p \in Paths PROVE FirstOf(p)' = FirstOf(p)
  <2>1. CASE hashToValueID[p] = l
    <3>1. AttributeOf(p) = 0
      BY <1>2, <2>1 DEF AttributeOf
    <3>2. AttributeOf(p)' = a
      BY <1>2, <1>3, <1>5, <2>1 DEF AttributeOf
    <3>3. FirstOf(p) = 0
      BY <3>1 DEF FirstOf
    <3>4. FirstOf(p)' = 0
      BY <1>2, <1>3, <1>4, <1>8, <3>2 DEF FirstOf
    <3>5. QED
      BY <3>3, <3>4
  <2>2. CASE hashToValueID[p] # l
    <3>1. AttributeOf(p)' = AttributeOf(p)
      BY <1>3, <1>5, <2>2 DEF AttributeOf
    <3>2. QED
      BY <1>3, <3>1 DEF FirstOf
  <2>3. QED
    BY <2>1, <2>2
<1>9. Kept
  <2>1. Len(instances) <= Len(instances')
    BY <1>3, InstanceTypes DEF Inv
  <2>2. QED
    BY <1>1, <1>3, <1>6, <1>7, <1>8, <2>1, HistoryStays DEF Kept
<1>10. PICK o \in Ops : o = op[t]
  BY <1>1
<1>11. op' = [op EXCEPT ![t] = o] /\ "seekAttribute" \in Steps
  BY <1>3, <1>10 DEF Inv, TypeOK, Steps
<1>12. AttributeOf(o.path)' = a
  BY <1>2, <1>3, <1>5, <1>10 DEF AttributeOf
<1>13. StoredOK(o, "seekAttribute")'
  BY <1>1, <1>2, <1>3, <1>4, <1>10, <1>12 DEF StoredOK, Labelled, Found, l, a
<1>14. WalkOK(o, "seekAttribute")' /\ OffsetOK(o, "seekAttribute")'
  BY DEF WalkOK, OffsetOK
<1>15. OpsOK'
  BY <1>3, <1>11, <1>13, <1>14, MovesAlone
<1>16. QED
  BY <1>7, <1>9, <1>15 DEF AloneInv

\* The new instance is one that no attribute names yet.
LEMMA RecordAdded ==
    ASSUME Inv, AloneInv, Inv', NEW t \in Threads, pc[t] = "instance",
           instances' = Append(instances, NewInstance(op[t])),
           UNCHANGED <<values, hashToValueID, attributes, hashIndex>>,
           misnamed => misnamed'
    PROVE  /\ FilesOK' /\ Kept
           /\ Len(instances) + 1 \in DOMAIN instances'
           /\ instances'[Len(instances) + 1].value = op[t].value
           /\ instances'[Len(instances) + 1].older = op[t].inst
           /\ \A i \in DOMAIN instances : instances'[i] = instances[i]
           /\ \A p \in Paths : AttributeOf(p)' = AttributeOf(p) /\ FirstOf(p)' = FirstOf(p)
<1> DEFINE r == NewInstance(op[t])
           n == Len(instances) + 1
<1>1. /\ op[t] \in Ops /\ op[t].inst \in Nat /\ FilesOK
      /\ StoredOK(op[t], "instance") /\ op[t].value \in Nat
  BY OpFacts
<1>2. op[t].value \in DOMAIN values
  <2>1. op[t].kind = "write"
    BY <1>1 DEF StoredOK
  <2>2. QED
    BY <1>1, <2>1 DEF StoredOK, Labelled, Found
<1>5. r.value = op[t].value /\ r.older = op[t].inst
  BY DEF NewInstance
<1>6. /\ DOMAIN instances' = 1..n /\ instances'[n] = r /\ n \in Nat
      /\ \A i \in DOMAIN instances : instances'[i] = instances[i]
      /\ DOMAIN instances = 1..Len(instances) /\ Len(instances) \in Nat
      /\ Len(instances') = n
  <2>1. instances \in Seq(InstanceRecords) /\ r \in InstanceRecords
    BY <1>1 DEF Inv, TypeOK, InstanceRecords, NewInstance, InstanceIDs
  <2>2. QED
    BY <2>1, AppendFacts
<1>7. \A i \in DOMAIN instances' : i = n \/ i \in DOMAIN instances
  BY <1>6
<1>8. n \in DOMAIN instances' /\ Len(instances) <= Len(instances')
  BY <1>6
<1> HIDE DEF r, n
<1>10. FilesOK'
  <2>1. \A i \in DOMAIN instances' :
           instances'[i].older \in Nat /\ instances'[i].value \in DOMAIN values
    BY <1>1, <1>2, <1>5, <1>6, <1>7 DEF FilesOK
  <2>2. misnamed' \/ Tidy'
    BY <1>1 DEF FilesOK, Tidy
  <2>3. QED
    BY <1>1, <2>1, <2>2 DEF FilesOK
<1>11. \A p \in Paths : AttributeOf(p)' = AttributeOf(p) /\ FirstOf(p)' = FirstOf(p)
  BY DEF FirstOf, AttributeOf
<1>12. Kept
  BY <1>1, <1>6, <1>8, <1>10, <1>11, HistoryStays DEF Kept
<1>13. QED
  BY <1>5, <1>6, <1>8, <1>10, <1>11, <1>12 DEF n

\* WriteInstance counts it, and it has its own ID or ends the promise.
LEMMA WriteInstanceAlone ==
    ASSUME Alone, Inv, AloneInv, NEW t \in Threads, WriteInstance(t)
    PROVE  AloneInv' /\ Kept
<1> DEFINE n == Len(instances) + 1
<1>1. /\ op[t] \in Ops /\ op[t].inst \in Nat /\ FilesOK /\ op[t].path \in Paths
      /\ StoredOK(op[t], "instance") /\ WalkOK(op[t], "instance") /\ op[t].value \in Nat
  BY OpFacts DEF WriteInstance
<1>2. /\ op[t].kind = "write" /\ op[t].label # 0 /\ hashToValueID[op[t].path] = op[t].label
      /\ op[t].value \in DOMAIN values /\ values[op[t].value] = op[t].data
      /\ op[t].attribute # 0 /\ AttributeOf(op[t].path) = op[t].attribute
  BY <1>1 DEF StoredOK, Labelled, Found
<1>3. /\ op[t].inst = FirstOf(op[t].path)
      /\ op[t].inst # 0 => instances[op[t].inst].value # op[t].value
  BY <1>1, <1>2 DEF WalkOK
<1>4. /\ pc[t] = "instance" /\ instances' = Append(instances, NewInstance(op[t]))
      /\ UNCHANGED <<values, hashToValueID, attributes, hashIndex>>
      /\ misnamed => misnamed'
      /\ nextInstance \in Nat
  BY DEF WriteInstance, Inv, TypeOK
<1>5. ~ misnamed' => nextInstance = n
  BY DEF WriteInstance
<1>6. Inv'
  BY WriteInstanceInv
<1>7. /\ FilesOK' /\ Kept /\ n \in DOMAIN instances'
      /\ instances'[n].value = op[t].value /\ instances'[n].older = op[t].inst
      /\ \A i \in DOMAIN instances : instances'[i] = instances[i]
      /\ \A p \in Paths : AttributeOf(p)' = AttributeOf(p) /\ FirstOf(p)' = FirstOf(p)
  BY <1>4, <1>6, RecordAdded
<1> HIDE DEF n
<1>13. PICK o \in Ops : o = [op[t] EXCEPT !.made = nextInstance]
  BY <1>1, <1>4, SetField
<1>14. /\ o.value = op[t].value /\ o.kind = "write" /\ o.data = op[t].data
       /\ o.inst = op[t].inst /\ o.path = op[t].path /\ o.label = op[t].label
       /\ o.attribute = op[t].attribute /\ o.made = nextInstance
  BY <1>1, <1>2, <1>13 DEF Ops
<1>15. op' = [op EXCEPT ![t] = o] /\ Goto(t, "first") /\ "first" \in Steps
  BY <1>13 DEF WriteInstance, Inv, TypeOK, Steps
<1>16. AttributeOf(o.path)' = o.attribute /\ FirstOf(o.path)' = o.inst
  BY <1>1, <1>2, <1>3, <1>7, <1>14
<1>17. StoredOK(o, "first")'
  BY <1>1, <1>2, <1>4, <1>14, <1>16 DEF StoredOK, Labelled, Found
<1>18. o.inst # 0 => instances'[o.inst].value # o.value
  <2>1. o.inst # 0 => o.inst \in DOMAIN instances
    BY <1>1, <1>3, <1>14, AttributeFacts, InstanceTypes DEF Inv
  <2>2. QED
    BY <1>3, <1>7, <1>14, <2>1
<1>19. \/ misnamed'
       \/ /\ o.made \in DOMAIN instances' /\ instances'[o.made].value = o.value
          /\ instances'[o.made].older = o.inst
  BY <1>5, <1>7, <1>14
<1>20. WalkOK(o, "first")'
  BY <1>14, <1>16, <1>18, <1>19 DEF WalkOK
<1>21. OffsetOK(o, "first")'
  BY DEF OffsetOK
<1>22. OpsOK'
  BY <1>15, <1>17, <1>20, <1>21, MovesAlone
<1>23. QED
  BY <1>7, <1>22 DEF AloneInv

\* The write of UpdateAttributeFirstInstance, whether its Sync fails or not.
Points(t) ==
    /\ pc[t] = "first"
    /\ attributes' = [attributes EXCEPT ![op[t].attribute] = PointAt(@, op[t])]
    /\ UNCHANGED <<values, hashToValueID, hashIndex, instances, misnamed>>

\* It changes the newest instance of one attribute.
LEMMA PointsFacts ==
    ASSUME Inv, AloneInv, NEW t \in Threads, Points(t)
    PROVE  /\ FilesOK' /\ DOMAIN attributes' = DOMAIN attributes
           /\ AttributeOf(op[t].path) = op[t].attribute
           /\ op[t].attribute \in DOMAIN attributes /\ op[t].attribute # 0
           /\ attributes'[op[t].attribute].first = op[t].made
           /\ \A b \in DOMAIN attributes :
                 /\ attributes'[b].label = attributes[b].label
                 /\ b # op[t].attribute => attributes'[b] = attributes[b]
<1> DEFINE a == op[t].attribute
           p == op[t].path
<1>1. /\ op[t] \in Ops /\ FilesOK /\ p \in Paths /\ StoredOK(op[t], "first")
  BY OpFacts DEF Points
<1>2. a # 0 /\ AttributeOf(p) = a
  BY <1>1 DEF StoredOK, Found
<1>4. a \in DOMAIN attributes /\ (misnamed \/ attributes[a].label = hashToValueID[p])
  BY <1>1, <1>2, AttributeFacts
<1>5. /\ attributes' = [attributes EXCEPT ![a] = PointAt(attributes[a], op[t])]
      /\ UNCHANGED <<values, hashToValueID, hashIndex, instances, misnamed>>
  BY DEF Points
<1>6. attributes[a] \in AttributeRecords
  BY <1>4 DEF Inv, TypeOK
<1>7. /\ PointAt(attributes[a], op[t]).first = op[t].made
      /\ PointAt(attributes[a], op[t]).label = attributes[a].label
  BY <1>6 DEF PointAt, AttributeRecords
<1>8. /\ DOMAIN attributes' = DOMAIN attributes
      /\ attributes'[a].first = op[t].made
      /\ \A b \in DOMAIN attributes : /\ attributes'[b].label = attributes[b].label
                                      /\ b # a => attributes'[b] = attributes[b]
  <2> HIDE DEF a
  <2>1. DOMAIN attributes' = DOMAIN attributes
    BY <1>5
  <2>2. attributes'[a] = PointAt(attributes[a], op[t])
    BY <1>4, <1>5
  <2>3. \A b \in DOMAIN attributes : b # a => attributes'[b] = attributes[b]
    BY <1>5
  <2>4. QED
    BY <1>7, <2>1, <2>2, <2>3
<1>9. ASSUME ~ misnamed PROVE Tidy'
  <2>1. Tidy /\ attributes[a].label = hashToValueID[p]
    BY <1>1, <1>4, <1>9 DEF FilesOK
  <2>2. hashToValueID[p] \in DOMAIN hashIndex
    BY <1>2 DEF AttributeOf
  <2> HIDE DEF a, p
  <2>3. QED
    BY <1>5, <1>8, <2>1, <2>2 DEF Tidy
<1>10. FilesOK'
  BY <1>1, <1>5, <1>8, <1>9 DEF FilesOK
<1>11. QED
  BY <1>2, <1>4, <1>8, <1>10

\* UpdateAttributeFirstInstance makes the new instance the newest of the
\* written path, and of no other.
LEMMA PointsAtNewest ==
    ASSUME Inv, AloneInv, ~ misnamed, NEW t \in Threads, Points(t),
           NEW p \in Paths, p = op[t].path
    PROVE  /\ FilesOK' /\ op[t].made \in DOMAIN instances
           /\ UNCHANGED <<values, instances>>
           /\ FirstOf(p)' = op[t].made
           /\ \A q \in Paths : q # p => FirstOf(q)' = FirstOf(q)
<1> DEFINE a == op[t].attribute
<1>1. WalkOK(op[t], "first")
  BY OpFacts DEF Points
<1>2. /\ FilesOK' /\ DOMAIN attributes' = DOMAIN attributes
      /\ AttributeOf(p) = a /\ a \in DOMAIN attributes /\ a # 0
      /\ attributes'[a].first = op[t].made
      /\ \A b \in DOMAIN attributes : b # a => attributes'[b] = attributes[b]
  BY PointsFacts
<1>3. op[t].made \in DOMAIN instances
  BY <1>1 DEF WalkOK
<1>4. attributes[a].label = hashToValueID[p] /\ values[hashToValueID[p]] = p
  BY <1>2, AttributeFacts
<1>5. UNCHANGED <<values, hashToValueID, hashIndex, instances>>
  BY DEF Points
<1>10. \A q \in Paths : AttributeOf(q)' = AttributeOf(q)
  BY <1>5 DEF AttributeOf
<1>11. FirstOf(p)' = op[t].made
  <2>1. AttributeOf(p)' = a
    BY <1>2, <1>10
  <2>2. QED
    BY <1>2, <2>1 DEF FirstOf
<1>12. ASSUME NEW q \in Paths, q # p PROVE FirstOf(q)' = FirstOf(q)
  <2>1. AttributeOf(q) # 0 => /\ AttributeOf(q) \in DOMAIN attributes
                              /\ attributes[AttributeOf(q)].label = hashToValueID[q]
                              /\ values[hashToValueID[q]] = q
    BY AttributeFacts
  <2>2. AttributeOf(q) # a
    BY <1>2, <1>4, <1>12, <2>1
  <2>3. AttributeOf(q)' = AttributeOf(q)
    BY <1>10
  <2>4. QED
    BY <1>2, <2>1, <2>2, <2>3 DEF FirstOf
<1>13. QED
  BY <1>2, <1>3, <1>5, <1>11, <1>12

\* So its history is what it was and the assignment made.
LEMMA PointsHistory ==
    ASSUME Inv, AloneInv, ~ misnamed, Inv', NEW t \in Threads, Points(t),
           NEW p \in Paths, p = op[t].path
    PROVE  /\ ChainOf(p)' = Append(ChainOf(p), op[t].made)
           /\ History(p)' = Append(History(p), [data |-> op[t].data,
                                                time |-> instances[op[t].made].time])
           /\ \A q \in Paths : q # p => History(q)' = History(q)
<1> DEFINE m == op[t].made
           S == [data : Contents, time : Nat]
           e == [data |-> op[t].data, time |-> instances[m].time]
<1>1. /\ FilesOK' /\ m \in DOMAIN instances /\ FirstOf(p)' = m
      /\ values' = values /\ instances' = instances
      /\ \A q \in Paths : q # p => FirstOf(q)' = FirstOf(q)
  BY PointsAtNewest
<1>2. Inv' /\ FilesOK
  BY DEF AloneInv
<1>3. HistoryOK /\ HistoryOK'
  BY <1>1, <1>2, HistoryIsOK, PTL
<1>4. /\ instances[m].value = op[t].value /\ instances[m].older = FirstOf(p)
      /\ values[op[t].value] = op[t].data /\ op[t].data \in Contents
  <2>1. StoredOK(op[t], "first") /\ WalkOK(op[t], "first") /\ op[t].data \in Contents
    BY OpFacts DEF Points
  <2>2. op[t].kind = "write"
    BY <2>1 DEF StoredOK
  <2>3. QED
    BY <2>1, <2>2 DEF StoredOK, WalkOK, Labelled, Found
<1>5. /\ instances \in Seq(InstanceRecords) /\ Back(instances)
      /\ ChainOf(p) = ChainsIn(instances)[FirstOf(p)]
      /\ History(p) \in Seq(S) /\ Len(History(p)) = Len(ChainOf(p))
      /\ \A k \in DOMAIN ChainOf(p) :
            /\ History(p)[k].data = values[instances[ChainOf(p)[k]].value]
            /\ History(p)[k].time = instances[ChainOf(p)[k]].time
  BY <1>3 DEF HistoryOK
<1>6. /\ ChainOf(p)' = ChainsIn(instances)[m]
      /\ History(p)' \in Seq(S) /\ Len(History(p)') = Len(ChainOf(p)')
      /\ \A k \in DOMAIN (ChainOf(p)') :
            /\ History(p)'[k].data = values[instances[ChainOf(p)'[k]].value]
            /\ History(p)'[k].time = instances[ChainOf(p)'[k]].time
  BY <1>1, <1>3 DEF HistoryOK
<1>7. ChainOf(p)' = Append(ChainOf(p), m)
  <2>1. m \in Nat
    BY <1>1, InstanceTypes DEF Inv
  <2>2. ChainsIn(instances)[m] = Append(ChainsIn(instances)[instances[m].older], m)
    BY <1>1, <1>5, <2>1, ChainUnrolls
  <2>3. QED
    BY <1>4, <1>5, <1>6, <2>2
<1>8. History(p)' = Append(History(p), e)
  <2>1. PICK c \in Seq(DOMAIN instances) : c = ChainOf(p)
    BY <1>2, HistoryFacts
  <2>2. PICK h \in Seq(S) : h = History(p)
    BY <1>5
  <2>3. PICK g \in Seq(S) : g = History(p)'
    BY <1>6
  <2>4. /\ Len(c) \in Nat /\ DOMAIN c = 1..Len(c)
        /\ Append(c, m)[Len(c) + 1] = m /\ DOMAIN Append(c, m) = 1..Len(c) + 1
        /\ Len(Append(c, m)) = Len(c) + 1
        /\ \A k \in DOMAIN c : Append(c, m)[k] = c[k]
    BY <1>1, AppendFacts
  <2>5. e \in S /\ e.data = op[t].data /\ e.time = instances[m].time
    BY <1>1, <1>4, InstanceTypes DEF Inv
  <2> HIDE DEF e, S, m
  <2>6. /\ Append(h, e) \in Seq(S) /\ Len(Append(h, e)) = Len(h) + 1
        /\ Append(h, e)[Len(h) + 1] = e
        /\ \A k \in 1..Len(h) : Append(h, e)[k] = h[k]
    <3>1. DOMAIN h = 1..Len(h)
      OBVIOUS
    <3>2. QED
      BY <2>5, <3>1, AppendFacts
  <2>7. Len(h) = Len(c) /\ Len(g) = Len(c) + 1
    BY <1>5, <1>6, <1>7, <2>1, <2>2, <2>3, <2>4
  <2>8. \A k \in 1..Len(c) : h[k] \in S /\ h[k].data = values[instances[c[k]].value]
                             /\ h[k].time = instances[c[k]].time
    <3>1. \A k \in 1..Len(c) : h[k] \in S
      BY <2>7, ElementOfSeq
    <3>2. QED
      BY <1>5, <2>1, <2>2, <2>4, <3>1
  <2>9. \A k \in 1..Len(c) + 1 :
           /\ g[k] \in S /\ g[k].data = values[instances[Append(c, m)[k]].value]
           /\ g[k].time = instances[Append(c, m)[k]].time
    <3>1. \A k \in 1..Len(c) + 1 : g[k] \in S
      BY <2>7, ElementOfSeq
    <3>2. QED
      BY <1>6, <1>7, <2>1, <2>3, <2>4, <3>1
  <2>10. \A x, y \in S : x.data = y.data /\ x.time = y.time => x = y
    <3>1. \A x \in S : x = [data |-> x.data, time |-> x.time]
      BY DEF S
    <3>2. QED
      BY <3>1
  <2>11. ASSUME NEW k \in 1..Len(g) PROVE g[k] = Append(h, e)[k]
    <3>1. CASE k = Len(c) + 1
      <4>1. /\ Append(h, e)[k] = e /\ g[k] \in S
            /\ g[k].data = values[instances[m].value] /\ g[k].time = instances[m].time
        BY <2>4, <2>6, <2>7, <2>9, <3>1
      <4>2. QED
        BY <1>4, <2>5, <2>10, <4>1 DEF m
    <3>2. CASE k # Len(c) + 1
      <4>1. k \in 1..Len(c) /\ k \in 1..Len(c) + 1
        BY <2>4, <2>7, <3>2
      <4>2. Append(h, e)[k] = h[k] /\ Append(c, m)[k] = c[k]
        BY <2>4, <2>6, <2>7, <4>1
      <4>3. g[k] = h[k]
        BY <2>8, <2>9, <2>10, <4>1, <4>2
      <4>4. QED
        BY <4>2, <4>3
    <3>3. QED
      BY <3>1, <3>2
  <2>12. g = Append(h, e)
    BY <2>6, <2>7, <2>11, SeqEqual
  <2>13. QED
    BY <2>2, <2>3, <2>12 DEF e
<1>9. ASSUME NEW q \in Paths, q # p PROVE History(q)' = History(q)
  <2>1. FirstOf(q)' = FirstOf(q)
    BY <1>1, <1>9
  <2>2. Len(instances) <= Len(instances')
    BY <1>1, InstanceTypes DEF Inv
  <2>3. QED
    BY <1>1, <1>2, <2>1, <2>2, HistoryStays
<1>10. QED
  BY <1>7, <1>8, <1>9

\* The last call of a write is the assignment that the promise speaks of.
LEMMA PointsAssigns ==
    ASSUME Inv, AloneInv, ~ misnamed, Inv', NEW t \in Threads, Points(t)
    PROVE  \E p \in Paths, c \in Contents, at \in Times : Promise!Assign(p, c, at)
<1>1. /\ op[t] \in Ops /\ FilesOK /\ op[t].path \in Paths /\ op[t].inst \in Nat
      /\ StoredOK(op[t], "first") /\ WalkOK(op[t], "first") /\ op[t].data \in Contents
  BY OpFacts DEF Points
<1>2. PICK p \in Paths : p = op[t].path
  BY <1>1
<1>3. /\ op[t].kind = "write" /\ op[t].inst = FirstOf(p)
      /\ op[t].value \in DOMAIN values /\ values[op[t].value] = op[t].data
      /\ op[t].inst # 0 => instances[op[t].inst].value # op[t].value
  <2>1. op[t].kind = "write"
    BY <1>1 DEF StoredOK
  <2>2. QED
    BY <1>1, <1>2, <2>1 DEF StoredOK, WalkOK, Labelled, Found
<1>4. FilesOK' /\ op[t].made \in DOMAIN instances /\ misnamed' = misnamed
  BY <1>2, PointsAtNewest DEF Points
<1>5. /\ ChainOf(p)' = Append(ChainOf(p), op[t].made)
      /\ History(p)' = Append(History(p), [data |-> op[t].data,
                                           time |-> instances[op[t].made].time])
      /\ \A q \in Paths : q # p => History(q)' = History(q)
  BY <1>2, PointsHistory
<1>7. instances[op[t].made].time \in Times
  <2>1. \A i \in DOMAIN instances : instances[i] \in InstanceRecords
    BY DEF Inv, TypeOK
  <2>2. \A r \in InstanceRecords : r.time \in Times
    BY DEF InstanceRecords
  <2>3. QED
    BY <1>4, <2>1, <2>2
<1>8. History(p) = <<>> \/ History(p)[Len(History(p))].data # op[t].data
  <2>1. CASE FirstOf(p) = 0
    <3>1. ChainOf(p) = <<>>
      BY <1>1, <2>1, ChainFacts
    <3>2. Len(ChainOf(p)) = 0
      BY <3>1
    <3>3. Len(History(p)) = 0 /\ History(p) \in Seq([data : Contents, time : Nat])
      BY <1>1, <3>2, HistoryFacts
    <3>4. QED
      BY <3>3, EmptySeq
  <2>2. CASE FirstOf(p) # 0
    <3> DEFINE v == instances[FirstOf(p)].value
    <3>1. /\ FirstOf(p) \in DOMAIN instances /\ CurrentOf(p) = values[v]
          /\ History(p) # <<>>
      BY <1>1, <2>2, CurrentIs
    <3>2. v \in DOMAIN values /\ v # op[t].value
      BY <1>1, <1>3, <2>2, <3>1 DEF FilesOK
    <3>3. hashToValueID[values[v]] = v /\ hashToValueID[values[op[t].value]] = op[t].value
      BY <1>1, <1>3, <3>2 DEF FilesOK
    <3>4. values[v] # op[t].data
      BY <1>3, <3>2, <3>3
    <3>5. CurrentOf(p) = History(p)[Len(History(p))].data
      BY <3>1 DEF CurrentOf
    <3>6. QED
      BY <3>1, <3>4, <3>5
  <2>3. QED
    BY <2>1, <2>2
<1>9. Promise!Assign(p, op[t].data, instances[op[t].made].time)
  <2> DEFINE h == [q \in Paths |-> History(q)]
             g == [q \in Paths |-> History(q)']
             e == [data |-> op[t].data, time |-> instances[op[t].made].time]
  <2>1. h[p] = <<>> \/ h[p][Len(h[p])].data # op[t].data
    BY <1>8
  <2>2. g = [h EXCEPT ![p] = Append(h[p], e)]
    BY <1>5
  <2>3. QED
    BY <1>4, <2>1, <2>2 DEF Promise!Assign, Promise!Current
<1>10. QED
  BY <1>1, <1>7, <1>9

\* And the client is told of it.
LEMMA UpdateAlone ==
    ASSUME Alone, Inv, AloneInv, NEW t \in Threads, UpdateAttributeFirstInstance(t)
    PROVE  /\ AloneInv' /\ misnamed' = misnamed
           /\ \/ misnamed
              \/ \E p \in Paths, c \in Contents, at \in Times : Promise!Assign(p, c, at)
<1>1. /\ op[t] \in Ops /\ FilesOK /\ op[t].path \in Paths /\ op[t].inst \in Nat
      /\ StoredOK(op[t], "first") /\ op[t].data \in Contents
  BY OpFacts DEF UpdateAttributeFirstInstance
<1>2. Points(t)
  BY DEF Points, UpdateAttributeFirstInstance, counters
<1>3. Inv'
  BY UpdateAttributeFirstInstanceInv
<1>4. FilesOK' /\ misnamed' = misnamed
  BY <1>2, PointsFacts DEF Points
<1>5. PICK p \in Paths : p = op[t].path
  BY <1>1
<1>6. OpsOK'
  <2>1. PICK o \in Ops : o = [op[t] EXCEPT !.out = "changed"]
    BY <1>1, SetField DEF Outcomes
  <2>2. /\ o.kind = op[t].kind /\ o.inst = op[t].inst /\ o.path = p
        /\ o.made = op[t].made /\ o.data = op[t].data
    BY <1>1, <1>5, <2>1 DEF Ops
  <2>3. op' = [op EXCEPT ![t] = o] /\ Goto(t, "done") /\ "done" \in Steps
    BY <2>1 DEF UpdateAttributeFirstInstance, Finish, Inv, TypeOK, Steps
  <2>4. o.kind = "write"
    BY <1>1, <2>2 DEF StoredOK
  <2>5. StoredOK(o, "done")'
    BY <1>1, <2>2, <2>4 DEF StoredOK, Labelled, Found
  <2>6. ASSUME ~ misnamed PROVE Recorded(o)'
    <3>1. /\ ChainOf(p)' = Append(ChainOf(p), o.made)
          /\ History(p)' = Append(History(p), [data |-> o.data,
                                               time |-> instances[o.made].time])
      BY <1>2, <1>3, <1>5, <2>2, <2>6, PointsHistory
    <3>2. o.made \in DOMAIN instances
      BY <1>2, <1>5, <2>2, <2>6, PointsAtNewest
    <3>3. PICK c \in Seq(DOMAIN instances) : c = ChainOf(p)
      BY <1>1, HistoryFacts
    <3>4. PICK h \in Seq([data : Contents, time : Nat]) : h = History(p) /\ Len(h) = Len(c)
      BY <1>1, <3>3, HistoryFacts
    <3> DEFINE e == [data |-> o.data, time |-> instances[o.made].time]
    <3>5. e \in [data : Contents, time : Nat] /\ e.data = o.data
      BY <1>1, <2>2, <3>2, InstanceTypes DEF Inv
    <3> HIDE DEF e
    <3>6. /\ Len(c) \in Nat /\ Append(c, o.made)[Len(c) + 1] = o.made
          /\ DOMAIN Append(c, o.made) = 1..Len(c) + 1
      BY <3>2, AppendFacts
    <3>7. Append(h, e)[Len(h) + 1] = e
      BY <3>5, AppendFacts
    <3>8. Len(c) + 1 \in 1..Len(c) + 1
      BY <3>6
    <3>9. /\ Len(c) + 1 \in DOMAIN ChainOf(p)' /\ ChainOf(p)'[Len(c) + 1] = o.made
          /\ History(p)'[Len(c) + 1].data = o.data
      BY <3>1, <3>3, <3>4, <3>5, <3>6, <3>7, <3>8 DEF e
    <3>10. QED
      BY <2>2, <3>9 DEF Recorded
  <2>7. WalkOK(o, "done")'
    BY <1>4, <2>4, <2>6 DEF WalkOK
  <2>8. OffsetOK(o, "done")'
    BY DEF OffsetOK
  <2>9. QED
    BY <2>3, <2>5, <2>7, <2>8, MovesAlone
<1>7. misnamed \/ \E q \in Paths, c \in Contents, at \in Times : Promise!Assign(q, c, at)
  BY <1>2, <1>3, PointsAssigns
<1>8. QED
  BY <1>4, <1>6, <1>7 DEF AloneInv

\* An operation that returns an error owes nothing.
LEMMA FailedOwesNothing ==
    ASSUME Alone, Inv, AloneInv, NEW t \in Threads, Finish(t, "failed")
    PROVE  OpsOK'
<1>1. op[t] \in Ops /\ op[t].kind # "purge" /\ op[t].inst \in Nat
  BY OpFacts
<1>2. PICK o \in Ops : o = [op[t] EXCEPT !.out = "failed"]
  BY <1>1, SetField DEF Outcomes
<1>3. o.kind # "purge" /\ o.inst \in Nat /\ o.out = "failed"
  BY <1>1, <1>2 DEF Ops
<1>4. op' = [op EXCEPT ![t] = o] /\ Goto(t, "done") /\ "done" \in Steps
  BY <1>2 DEF Finish, Inv, TypeOK, Steps
<1>5. StoredOK(o, "done")'
  BY <1>3 DEF StoredOK, Labelled, Found
<1>6. WalkOK(o, "done")' /\ OffsetOK(o, "done")'
  BY <1>3 DEF WalkOK, OffsetOK
<1>7. QED
  BY <1>4, <1>5, <1>6, MovesAlone

\* A Sync that fails leaves a record that nothing names, or the assignment.
LEMMA SyncFailsAlone ==
    ASSUME Alone, Inv, AloneInv, NEW t \in Threads, SyncFails(t)
    PROVE  /\ AloneInv' /\ misnamed' = misnamed
           /\ \/ Kept \/ misnamed
              \/ \E p \in Paths, c \in Contents, at \in Times : Promise!Assign(p, c, at)
<1>1. Inv' /\ misnamed' = misnamed
  BY SyncFailsInv DEF SyncFails, counters
<1>2. OpsOK'
  BY FailedOwesNothing DEF SyncFails
<1>3. UNCHANGED <<values, hashToValueID, hashIndex>>
  BY DEF SyncFails
<1>4. CASE /\ pc[t] = "attribute" /\ UNCHANGED instances
           /\ attributes' = Append(attributes, NewAttribute(op[t]))
  <2>1. FilesOK' /\ Kept
    BY <1>1, <1>3, <1>4, AttributeAdded
  <2>2. QED
    BY <1>1, <1>2, <2>1 DEF AloneInv
<1>5. CASE /\ pc[t] = "instance" /\ UNCHANGED attributes
           /\ instances' = Append(instances, NewInstance(op[t]))
  <2>1. FilesOK' /\ Kept
    BY <1>1, <1>3, <1>5, RecordAdded
  <2>2. QED
    BY <1>1, <1>2, <2>1 DEF AloneInv
<1>6. CASE /\ pc[t] = "first" /\ UNCHANGED instances
           /\ attributes' = [attributes EXCEPT ![op[t].attribute] = PointAt(@, op[t])]
  <2>1. Points(t)
    BY <1>1, <1>3, <1>6 DEF Points
  <2>2. FilesOK'
    BY <2>1, PointsFacts
  <2>3. misnamed \/ \E p \in Paths, c \in Contents, at \in Times : Promise!Assign(p, c, at)
    BY <1>1, <2>1, PointsAssigns
  <2>4. QED
    BY <1>1, <1>2, <2>2, <2>3 DEF AloneInv
<1>7. CASE pc[t] = "tombstone"
  <2>1. StoredOK(op[t], pc[t])
    BY OpFacts
  <2>2. QED
    BY <1>7, <2>1 DEF StoredOK
<1>8. QED
  BY <1>4, <1>5, <1>6, <1>7 DEF SyncFails

\* Everything stored so far lies where rebuildHashMap scans: in the tier of
\* the small values, under an ID it tries.
ScanReaches ==
    \A i \in DOMAIN values : i <= ScanLimit /\ values[i] \in Small

\* Then it finds each content where it was.
LEMMA RebuildsSame ==
    ASSUME Inv, FilesOK, ScanReaches
    PROVE  RebuiltHashMap(values) = hashToValueID
<1> DEFINE ids(c) == {i \in DOMAIN values : i <= ScanLimit /\ values[i] = c /\ c \in Small}
<1>1. /\ hashToValueID \in [Contents -> Nat] /\ values \in Seq(Contents)
      /\ Len(values) \in Nat /\ DOMAIN values = 1..Len(values)
  BY DEF Inv, TypeOK
<1>2. ASSUME NEW c \in Contents
      PROVE  (IF ids(c) = {} THEN 0 ELSE CHOOSE i \in ids(c) : \A j \in ids(c) : j <= i)
                = hashToValueID[c]
  <2>1. \A i \in ids(c) : hashToValueID[c] = i /\ i # 0
    BY <1>1 DEF FilesOK
  <2>2. CASE hashToValueID[c] = 0
    <3>1. ids(c) = {}
      BY <2>1, <2>2
    <3>2. QED
      BY <2>2, <3>1
  <2>3. CASE hashToValueID[c] # 0
    <3> DEFINE v == hashToValueID[c]
    <3>1. v \in DOMAIN values /\ values[v] = c
      BY <2>3 DEF Inv, MapsAgreeWithFiles
    <3>2. v <= ScanLimit /\ v \in Nat /\ c \in Small
      BY <1>1, <3>1 DEF ScanReaches
    <3>3. v \in ids(c)
      BY <3>1, <3>2
    <3> HIDE DEF ids, v
    <3>4. ids(c) = {v}
      BY <2>1, <3>3 DEF v
    <3>5. (CHOOSE i \in ids(c) : \A j \in ids(c) : j <= i) = v
      <4>1. \A j \in ids(c) : j <= v
        BY <3>2, <3>4
      <4>2. QED
        BY <3>4, <4>1
    <3>6. QED
      BY <3>3, <3>5 DEF v
  <2>4. QED
    BY <2>2, <2>3
<1>3. RebuiltHashMap(values) =
        [c \in Contents |-> IF ids(c) = {} THEN 0
                            ELSE CHOOSE i \in ids(c) : \A j \in ids(c) : j <= i]
  BY DEF RebuiltHashMap
<1> HIDE DEF ids
<1>4. QED
  BY <1>1, <1>2, <1>3

\* NewStorageTree finds every history again, whichever call a crash came
\* after: the label of an attribute that was not inserted yet, too.
LEMMA CrashRestartAlone ==
    ASSUME Alone, Inv, AloneInv, ScanReaches, CrashRestart
    PROVE  AloneInv' /\ Kept
<1>0. FilesOK /\ OpsOK /\ Inv'
  BY CrashRestartInv DEF AloneInv
<1>1. SubSeq(values, 1, Len(values)) = values
  <2>1. values \in Seq(Contents) /\ Len(values) \in Nat
    BY DEF Inv, TypeOK
  <2> DEFINE q == SubSeq(values, 1, Len(values))
  <2>2. \A i \in 1..Len(values) : values[i] \in Contents
    BY <2>1, ElementOfSeq
  <2>3. /\ q \in Seq(Contents) /\ Len(q) = (IF 1 <= Len(values) THEN Len(values) - 1 + 1 ELSE 0)
        /\ \A i \in 1..Len(values) - 1 + 1 : q[i] = values[1 + i - 1]
    BY <2>1, <2>2, SubSeqProperties
  <2> HIDE DEF q
  <2>4. Len(q) = Len(values) /\ \A i \in 1..Len(q) : q[i] = values[i]
    BY <2>1, <2>3
  <2>5. q = values
    BY <2>1, <2>3, <2>4, SeqEqual
  <2>6. QED
    BY <2>5 DEF q
<1>2. /\ values' = values /\ hashToValueID' = hashToValueID
      /\ hashIndex' = RebuiltIndex(attributes)
      /\ attributes' = attributes /\ instances' = instances /\ misnamed' = misnamed
      /\ \A t \in Threads : op'[t] = NoOp /\ pc'[t] = "idle"
  <2>1. /\ values' = SubSeq(values, 1, Len(values))
        /\ hashToValueID' = RebuiltHashMap(SubSeq(values, 1, Len(values)))
    BY DEF CrashRestart, Alone
  <2>2. QED
    BY <1>0, <1>1, <2>1, RebuildsSame DEF CrashRestart
<1>4. /\ DOMAIN hashIndex' = {attributes[a].label : a \in DOMAIN attributes}
      /\ \A v \in DOMAIN hashIndex' :
            /\ hashIndex'[v] \in DOMAIN attributes /\ attributes[hashIndex'[v]].label = v
            /\ \A b \in DOMAIN attributes : attributes[b].label = v => b <= hashIndex'[v]
  BY <1>2, RebuiltIndexSound DEF Inv, TypeOK
<1>5. \A a \in DOMAIN attributes : a # 0 /\ a \in Nat
  BY DEF Inv, TypeOK
<1>3. FilesOK'
  <2>1. Tidy'
    BY <1>2, <1>4 DEF Tidy
  <2>2. DOMAIN hashIndex' \subseteq DOMAIN values
    BY <1>0, <1>4 DEF FilesOK
  <2>3. QED
    BY <1>0, <1>2, <2>1, <2>2 DEF FilesOK
<1>6. ASSUME ~ misnamed, NEW p \in Paths PROVE FirstOf(p)' = FirstOf(p)
  <2> DEFINE v == hashToValueID[p]
  <2>0. Tidy
    BY <1>0, <1>6 DEF FilesOK
  <2>1. CASE v # 0 /\ v \in DOMAIN hashIndex
    <3>1. hashIndex[v] \in DOMAIN attributes /\ attributes[hashIndex[v]].label = v
      BY <1>6, <2>1 DEF Inv, MapsAgreeWithFiles
    <3>2. v \in DOMAIN hashIndex'
      BY <1>4, <3>1
    <3>3. hashIndex'[v] = hashIndex[v]
      <4>1. hashIndex'[v] <= hashIndex[v]
        BY <1>4, <2>0, <2>1, <3>2 DEF Tidy
      <4>2. hashIndex[v] <= hashIndex'[v]
        BY <1>4, <3>1, <3>2
      <4>3. QED
        BY <1>4, <1>5, <3>1, <3>2, <4>1, <4>2
    <3>4. AttributeOf(p)' = AttributeOf(p)
      BY <1>2, <2>1, <3>2, <3>3 DEF AttributeOf
    <3>5. QED
      BY <1>2, <3>4 DEF FirstOf
  <2>2. CASE ~ (v # 0 /\ v \in DOMAIN hashIndex)
    <3>1. FirstOf(p) = 0
      BY <2>2 DEF FirstOf, AttributeOf
    <3>2. CASE v = 0 \/ v \notin DOMAIN hashIndex'
      BY <1>2, <3>1, <3>2 DEF FirstOf, AttributeOf
    <3>3. CASE v # 0 /\ v \in DOMAIN hashIndex'
      <4>1. PICK a \in DOMAIN attributes : a = hashIndex'[v] /\ attributes[a].label = v
        BY <1>4, <3>3
      <4>4. attributes[a].first = 0
        BY <2>0, <2>2, <3>3, <4>1 DEF Tidy
      <4>5. AttributeOf(p)' = a
        BY <1>2, <3>3, <4>1 DEF AttributeOf
      <4>6. FirstOf(p)' = 0
        BY <1>2, <1>5, <4>4, <4>5 DEF FirstOf
      <4>7. QED
        BY <3>1, <4>6
    <3>4. QED
      BY <3>2, <3>3
  <2>3. QED
    BY <2>1, <2>2
<1>7. Kept
  <2>1. Len(instances) <= Len(instances')
    BY <1>2, InstanceTypes DEF Inv
  <2>2. QED
    BY <1>0, <1>2, <1>3, <1>6, <2>1, HistoryStays DEF Kept
<1>8. OpsOK'
  <2>1. SUFFICES ASSUME NEW u \in Threads, NEW o \in Ops, NEW s \in Steps,
                        op'[u] = o, pc'[u] = s
                 PROVE  OpOK(o, s)'
    BY DEF OpsOK
  <2>2. o = NoOp /\ s = "idle"
    BY <1>2, <2>1
  <2>3. o.kind = "read" /\ o.inst = 0
    BY <2>2 DEF NoOp, NewOp
  <2>4. StoredOK(o, s)'
    BY <2>2, <2>3 DEF StoredOK, Labelled, Found
  <2>5. WalkOK(o, s)' /\ OffsetOK(o, s)'
    BY <2>2 DEF WalkOK, OffsetOK
  <2>6. QED
    BY <2>4, <2>5 DEF OpOK
<1>9. QED
  BY <1>2, <1>3, <1>7, <1>8 DEF AloneInv

-----------------------------------------------------------------------------
(* Theorems *)

\* The empty stores satisfy the invariant, and hold no history.
LEMMA InitAlone == Init => AloneInv /\ Promise!Init
<1>1. SUFFICES ASSUME Init PROVE AloneInv /\ Promise!Init
  OBVIOUS
<1>2. FilesOK
  BY <1>1 DEF Init, FilesOK, Tidy
<1>3. OpsOK
  <2>1. SUFFICES ASSUME NEW t \in Threads, NEW o \in Ops, NEW s \in Steps,
                        op[t] = o, pc[t] = s
                 PROVE  OpOK(o, s)
    BY DEF OpsOK
  <2>2. o = NoOp /\ s = "idle"
    BY <1>1, <2>1 DEF Init
  <2>3. o.kind = "read" /\ o.inst = 0
    BY <2>2 DEF NoOp, NewOp
  <2>4. StoredOK(o, s)
    BY <2>2, <2>3 DEF StoredOK, Labelled, Found
  <2>5. WalkOK(o, s) /\ OffsetOK(o, s)
    BY <2>2 DEF WalkOK, OffsetOK
  <2>6. QED
    BY <2>4, <2>5 DEF OpOK
<1>4. ASSUME NEW p \in Paths PROVE History(p) = <<>>
  <2>1. AttributeOf(p) = 0
    BY <1>1 DEF Init, AttributeOf
  <2>2. ChainOf(p) = <<>>
    BY <2>1 DEF ChainOf
  <2>3. FirstOf(p) = 0
    BY <2>1 DEF FirstOf
  <2>4. Len(History(p)) = Len(ChainOf(p)) /\ History(p) \in Seq([data : Contents, time : Nat])
    BY <1>1, <1>2, InitInv, HistoryFacts
  <2>5. Len(ChainOf(p)) = 0
    BY <2>2
  <2>6. QED
    BY <2>4, <2>5, EmptySeq
<1>5. Promise!Init
  BY <1>1, <1>4 DEF Init, Promise!Init
<1>6. QED
  BY <1>2, <1>3, <1>5 DEF AloneInv

\* Every step keeps the invariant, and is a step of the promise or keeps
\* every history.
LEMMA NextAlone ==
    ASSUME Alone
    PROVE  Inv /\ AloneInv /\ ScanReaches /\ [Next]_vars =>
              /\ AloneInv'
              /\ [Promise!Next]_<<[p \in Paths |-> History(p)], ~ misnamed>>
<1>1. SUFFICES ASSUME Inv, AloneInv, ScanReaches, [Next]_vars
               PROVE  /\ AloneInv'
                      /\ [Promise!Next]_<<[p \in Paths |-> History(p)], ~ misnamed>>
  OBVIOUS
<1>2. misnamed \in BOOLEAN /\ misnamed' \in BOOLEAN
  BY <1>1, NextInv DEF Inv, TypeOK
<1>3. SUFFICES AloneInv' /\ (Kept \/ misnamed' \/ Promise!Next)
  <2>1. misnamed' => Promise!Next
    BY <1>2 DEF Promise!Next, Promise!Break
  <2>2. Kept /\ ~ misnamed' =>
           /\ [p \in Paths |-> History(p)]' = [p \in Paths |-> History(p)]
           /\ (~ misnamed)' = ~ misnamed
    BY <1>2 DEF Kept
  <2>3. QED
    BY <1>3, <2>1, <2>2
<1>4. CASE UNCHANGED vars
  <2>1. UNCHANGED <<stores, positions, pc, op>>
    BY <1>4 DEF vars
  <2>2. QED
    BY <1>1, <2>1, TimePasses
<1>5. CASE Tick
  <2>1. UNCHANGED <<stores, positions, pc, op>>
    BY <1>5 DEF Tick
  <2>2. QED
    BY <1>1, <2>1, TimePasses
<1>6. CASE CrashRestart
  BY <1>1, <1>6, CrashRestartAlone
<1>7. ASSUME NEW t \in Threads, Request(t)
      PROVE  AloneInv' /\ Kept
  <2>1. \E k \in OpKinds, p \in Paths, d \in Contents, from, at \in Nat :
           Begin(t, k, p, d, from, at)
    BY <1>7, RequestBegins
  <2>2. PICK k \in OpKinds, p \in Paths, d \in Contents, from \in Nat, at \in Nat :
           Begin(t, k, p, d, from, at)
    BY <2>1
  <2>3. QED
    BY <1>1, <2>2, BeginAlone
<1>8. ASSUME NEW t \in Threads, IOError(t)
      PROVE  AloneInv' /\ Kept
  BY <1>1, <1>8, IOErrorAlone
<1>11. ASSUME NEW t \in Threads, SyncFails(t)
       PROVE  AloneInv' /\ (Kept \/ misnamed' \/ Promise!Next)
  BY <1>1, <1>11, SyncFailsAlone DEF Promise!Next
<1>9. ASSUME NEW t \in Threads, Step(t)
      PROVE  AloneInv' /\ (Kept \/ misnamed' \/ Promise!Next)
  <2>1. CASE StoreData(t)
    BY <1>1, <2>1, StoreDataAlone
  <2>2. CASE StoreLabel(t)
    BY <1>1, <2>2, StoreLabelAlone
  <2>3. CASE LookupLabel(t)
    BY <1>1, <2>3, LookupLabelAlone
  <2>4. CASE WriteAttribute(t)
    BY <1>1, <2>4, WriteAttributeAlone
  <2>5. CASE InsertLabel(t)
    BY <1>1, <2>5, InsertLabelAlone
  <2>6. CASE SeekAttribute(t)
    BY <1>1, <2>6, SeekAttributeAlone
  <2>7. CASE ReadAttribute(t)
    BY <1>1, <2>7, ReadAttributeAlone
  <2>8. CASE SeekInstance(t)
    BY <1>1, <2>8, SeekInstanceAlone
  <2>9. CASE ReadInstance(t)
    BY <1>1, <2>9, ReadInstanceAlone
  <2>10. CASE WriteInstance(t)
    BY <1>1, <2>10, WriteInstanceAlone
  <2>11. CASE UpdateAttributeFirstInstance(t)
    BY <1>1, <2>11, UpdateAlone DEF Promise!Next
  <2>12. CASE TombstoneInstance(t)
    <3>1. pc[t] = "tombstone"
      BY <2>12 DEF TombstoneInstance
    <3>2. StoredOK(op[t], pc[t])
      BY <1>1, OpFacts
    <3>3. QED
      BY <3>1, <3>2 DEF StoredOK
  <2>13. CASE SeekValue(t)
    BY <1>1, <2>13, SeekValueAlone
  <2>14. CASE ReadValue(t)
    BY <1>1, <2>14, ReadValueAlone
  <2>15. QED
    BY <1>9, <2>1, <2>2, <2>3, <2>4, <2>5, <2>6, <2>7, <2>8, <2>9, <2>10,
       <2>11, <2>12, <2>13, <2>14 DEF Step
<1>10. QED
  BY <1>1, <1>4, <1>5, <1>6, <1>7, <1>8, <1>9, <1>11 DEF Next

\* A tree with one client satisfies the invariant in every state.
LEMMA AloneInvInvariant ==
    ASSUME Alone
    PROVE  Spec /\ []ScanReaches => [](Inv /\ AloneInv)
BY InitInv, InitAlone, NextInv, NextAlone, PTL DEF Spec

\* The engine with one client that purges nothing implements the promise: the
\* history of a path changes only by the whole assignment a write makes in its
\* last call, never by the calls before it, by an error, a failed Sync or a
\* crash of the process after any of them, or by a restart that scans all that
\* is stored, until a record is written behind one whose Sync failed.
THEOREM OneClientImplementsPromise ==
    ASSUME Alone
    PROVE  Spec /\ []ScanReaches => ImplementsTemporalTree
BY InitInv, InitAlone, NextAlone, AloneInvInvariant, PTL
   DEF Spec, ImplementsTemporalTree, Promise!Spec

\* Read answers the one client, which purges nothing, with the last value of
\* the history, across errors, failed Syncs, and crashes of the process with
\* restarts that scan all that is stored.
THEOREM OneClientReadsCurrent ==
    ASSUME Alone
    PROVE  Spec /\ []ScanReaches => []ReadsAnswerCurrent
<1>1. Inv /\ AloneInv => ReadsAnswerCurrent
  <2>1. SUFFICES ASSUME Inv, AloneInv, NEW t \in Threads, Answered(t, "read")
                 PROVE  op[t].out = CurrentOf(op[t].path)
    BY DEF ReadsAnswerCurrent
  <2>2. WalkOK(op[t], "done")
    BY <2>1, OpFacts DEF Answered
  <2>3. QED
    BY <2>1, <2>2 DEF WalkOK, Answered, Answer
<1>2. QED
  BY <1>1, AloneInvInvariant, PTL

\* ReadAt answers the one client, which purges nothing, with the last value
\* assigned by the instant: the walk neither stops early nor passes an
\* instance, in whatever order the wall clock has stamped them, across errors,
\* failed Syncs and restarts that scan all that is stored.
THEOREM OneClientReadsAsOf ==
    ASSUME Alone
    PROVE  Spec /\ []ScanReaches => []ReadAtAnswersAsOf
<1>1. Inv /\ AloneInv => ReadAtAnswersAsOf
  <2>1. SUFFICES ASSUME Inv, AloneInv, NEW t \in Threads, Answered(t, "readAt")
                 PROVE  op[t].out = AsOf(op[t].path, op[t].at)
    BY DEF ReadAtAnswersAsOf
  <2>2. WalkOK(op[t], "done")
    BY <2>1, OpFacts DEF Answered
  <2>3. QED
    BY <2>1, <2>2 DEF WalkOK, Answered, Answer
<1>2. QED
  BY <1>1, AloneInvInvariant, PTL

\* A change acknowledged to the one client, which purges nothing, is in its
\* path's history with the value written, until a record is written behind one
\* whose Sync failed; restarts scan all that is stored.
THEOREM OneClientKeepsChanges ==
    ASSUME Alone
    PROVE  Spec /\ []ScanReaches => []AcknowledgedChangesStay
<1>1. Inv /\ AloneInv => AcknowledgedChangesStay
  <2>1. SUFFICES ASSUME Inv, AloneInv, NEW t \in Threads,
                        Answered(t, "write"), op[t].out = "changed"
                 PROVE  misnamed \/ Recorded(op[t])
    BY DEF AcknowledgedChangesStay, Recorded
  <2>2. WalkOK(op[t], "done")
    BY <2>1, OpFacts DEF Answered
  <2>3. QED
    BY <2>1, <2>2 DEF WalkOK, Answered
<1>2. QED
  BY <1>1, AloneInvInvariant, PTL

=============================================================================
