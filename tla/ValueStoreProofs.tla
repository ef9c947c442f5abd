------------------------- MODULE ValueStoreProofs -------------------------
(***************************************************************************)
(* Safety of the value store's space management for every set of contents, *)
(* record sizes and holders: what an allocator must never do, whatever the *)
(* order of writes, releases, tombstones and failed file calls.            *)
(***************************************************************************)
EXTENDS ValueStore, FiniteSetTheorems, WellFoundedInduction, TLAPS

\* What a cell of a file may be.
AnyCell == [mark : {"value", "body", "tomb", "pad"}, of : SUBSET Contents, at : Nat]

\* What a free list's blocks are.
AnyBlock == [offset : Nat, size : Nat \ {0}]

\* The cells of the record of content c at an offset.
RecordCells(o, c) == o..(o + SizeOf[c] - 1)
-----------------------------------------------------------------------------
(* Naturals and value IDs.                                                 *)

\* A set of naturals that is not empty has a smallest element.
LEMMA SmallestExists ==
    ASSUME NEW S, S \subseteq Nat, S # {}
    PROVE  \E m \in S : \A j \in S : m <= j
<1> DEFINE Below == {ss \in Nat \X Nat : ss[1] < ss[2]}
<1>1. IsWellFoundedOn(Below, Nat)
  BY NatLessThanWellFounded DEF OpToRel
<1> HIDE DEF Below
<1>2. PICK m \in S : \A y \in S : ~ (<<y, m>> \in Below)
  BY <1>1, WFMin
<1>3. \A y \in S : ~ (y < m)
  BY <1>2 DEF Below
<1>4. QED
  BY <1>3

\* A value ID gives back the tier and the offset it was made of, and only
\* offset 0 of tier 0 has ID 0.
LEMMA ValueIDs ==
    ASSUME NEW tier \in Tiers, NEW o \in Nat, o < Span
    PROVE  /\ EncodeValueID(tier, o) \in Nat
           /\ ExtractTier(EncodeValueID(tier, o)) = tier
           /\ ExtractOffset(EncodeValueID(tier, o)) = o
           /\ EncodeValueID(tier, o) = 0 <=> tier = 0 /\ o = 0
<1>1. Span \in Nat /\ Span > 0 /\ tier \in 0..3
  BY ValueStoreAssumption DEF Tiers
<1>2. CASE tier = 0
  BY <1>1, <1>2 DEF EncodeValueID, ExtractTier, ExtractOffset
<1>3. CASE tier = 1
  BY <1>1, <1>3 DEF EncodeValueID, ExtractTier, ExtractOffset
<1>4. CASE tier = 2
  BY <1>1, <1>4 DEF EncodeValueID, ExtractTier, ExtractOffset
<1>5. CASE tier = 3
  BY <1>1, <1>5 DEF EncodeValueID, ExtractTier, ExtractOffset
<1>6. QED
  BY <1>1, <1>2, <1>3, <1>4, <1>5
-----------------------------------------------------------------------------
(* Records.                                                                *)

\* A record takes at least its sentinel and one more cell.
LEMMA RecordSizes == \A c \in Contents : SizeOf[c] \in Nat /\ SizeOf[c] >= 2 /\ TierOf[c] \in Tiers
BY ValueStoreAssumption DEF Tiers

\* IntactAt finds a content exactly when the cells of its record are there.
LEMMA IntactCells ==
    ASSUME NEW f \in Seq(AnyCell), NEW o \in Nat, NEW c
    PROVE  c \in IntactAt(f, o) <=>
              /\ c \in Contents
              /\ o + SizeOf[c] <= Len(f)
              /\ \A k \in 1..SizeOf[c] : f[o + k] = Cell(c, k)
<1>1. ASSUME c \in IntactAt(f, o)
      PROVE  /\ c \in Contents
             /\ o + SizeOf[c] <= Len(f)
             /\ \A k \in 1..SizeOf[c] : f[o + k] = Cell(c, k)
  <2>1. o < Len(f)
    BY <1>1 DEF IntactAt
  <2>2. f[o + 1] \in AnyCell
    BY <2>1
  <2>3. f[o + 1].of \subseteq Contents
    BY <2>2 DEF AnyCell
  <2>4. QED
    BY <1>1, <2>1, <2>3 DEF IntactAt, CellAt
<1>2. ASSUME c \in Contents, o + SizeOf[c] <= Len(f),
             \A k \in 1..SizeOf[c] : f[o + k] = Cell(c, k)
      PROVE  c \in IntactAt(f, o)
  <2>1. SizeOf[c] \in Nat /\ SizeOf[c] >= 2
    BY <1>2, RecordSizes
  <2>2. f[o + 1] = Cell(c, 1)
    BY <1>2, <2>1
  <2>3. c \in f[o + 1].of
    BY <2>2 DEF Cell
  <2>4. QED
    BY <1>2, <2>1, <2>3 DEF IntactAt, CellAt
<1>3. QED
  BY <1>1, <1>2

\* There is at most one record at an offset.
LEMMA IntactOne ==
    ASSUME NEW f \in Seq(AnyCell), NEW o \in Nat, NEW c \in IntactAt(f, o)
    PROVE  IntactAt(f, o) = {c}
<1>1. c \in Contents /\ \A k \in 1..SizeOf[c] : f[o + k] = Cell(c, k)
  BY IntactCells
<1>2. f[o + 1] = Cell(c, 1)
  BY <1>1, RecordSizes
<1>3. f[o + 1].of = {c}
  BY <1>2 DEF Cell
<1>4. IntactAt(f, o) \subseteq f[o + 1].of
  BY DEF IntactAt, CellAt
<1>5. QED
  BY <1>3, <1>4

\* Two records of a file share no cell: a body cell knows its place.
LEMMA RecordsApart ==
    ASSUME NEW f \in Seq(AnyCell), NEW o \in Nat, NEW p \in Nat,
           NEW c \in IntactAt(f, o), NEW d \in IntactAt(f, p),
           NEW i \in RecordCells(o, c), i \in RecordCells(p, d)
    PROVE  o = p
<1>1. /\ c \in Contents /\ \A k \in 1..SizeOf[c] : f[o + k] = Cell(c, k)
      /\ d \in Contents /\ \A k \in 1..SizeOf[d] : f[p + k] = Cell(d, k)
  BY IntactCells
<1>2. SizeOf[c] \in Nat /\ SizeOf[d] \in Nat
  BY <1>1, RecordSizes
<1>3. /\ i \in Nat /\ i - o + 1 \in 1..SizeOf[c] /\ i - p + 1 \in 1..SizeOf[d]
  BY <1>2 DEF RecordCells
<1>4. f[o + (i - o + 1)] = Cell(c, i - o + 1) /\ f[p + (i - p + 1)] = Cell(d, i - p + 1)
  BY <1>1, <1>3
<1>5. o + (i - o + 1) = p + (i - p + 1)
  BY <1>3
<1>6. Cell(c, i - o + 1) = Cell(d, i - p + 1)
  BY <1>4, <1>5
<1>7. Cell(c, i - o + 1).at = i - o + 1 /\ Cell(d, i - p + 1).at = i - p + 1
  BY DEF Cell
<1>8. QED
  BY <1>3, <1>6, <1>7

\* What writing a record does to a file: the record is there, and of the
\* others those that it does not touch.
LEMMA WrittenFile ==
    ASSUME NEW f \in Seq(AnyCell), NEW o \in Nat, o <= Len(f), NEW c \in Contents
    PROVE  LET g == Written(f, o, c) IN
           /\ g \in Seq(AnyCell)
           /\ Len(g) = IF o + SizeOf[c] > Len(f) THEN o + SizeOf[c] ELSE Len(f)
           /\ \A i \in 1..Len(g) : g[i] = IF i \in (o + 1)..(o + SizeOf[c])
                                          THEN Cell(c, i - o) ELSE f[i]
<1> DEFINE n == IF o + SizeOf[c] > Len(f) THEN o + SizeOf[c] ELSE Len(f)
           g == Written(f, o, c)
<1>1. SizeOf[c] \in Nat /\ SizeOf[c] >= 2 /\ Len(f) \in Nat /\ n \in Nat
  BY RecordSizes
<1>2. g = [i \in 1..n |-> IF i \in (o + 1)..(o + SizeOf[c]) THEN Cell(c, i - o) ELSE f[i]]
  BY DEF Written
<1>3. \A k \in Nat : Cell(c, k) \in AnyCell
  BY DEF Cell, AnyCell
<1>4. ASSUME NEW i \in 1..n
      PROVE  (IF i \in (o + 1)..(o + SizeOf[c]) THEN Cell(c, i - o) ELSE f[i]) \in AnyCell
  <2>1. CASE i \in (o + 1)..(o + SizeOf[c])
    <3>1. i - o \in Nat
      BY <1>1, <2>1
    <3>2. QED
      BY <1>3, <2>1, <3>1
  <2>2. CASE i \notin (o + 1)..(o + SizeOf[c])
    <3>1. i \in 1..Len(f)
      BY <1>1, <2>2
    <3>2. f[i] \in AnyCell
      BY <3>1
    <3>3. QED
      BY <2>2, <3>2
  <2>3. QED
    BY <2>1, <2>2
<1>5. g \in [1..n -> AnyCell]
  BY <1>2, <1>4
<1> HIDE DEF g, n
<1>6. g \in Seq(AnyCell) /\ Len(g) = n
  BY <1>1, <1>5
<1>7. QED
  BY <1>2, <1>6 DEF g, n

\* The record just written reads back.
LEMMA WrittenReadsBack ==
    ASSUME NEW f \in Seq(AnyCell), NEW o \in Nat, o <= Len(f), NEW c \in Contents
    PROVE  c \in IntactAt(Written(f, o, c), o)
<1> DEFINE g == Written(f, o, c)
<1>1. /\ SizeOf[c] \in Nat /\ Len(f) \in Nat /\ g \in Seq(AnyCell)
      /\ Len(g) = IF o + SizeOf[c] > Len(f) THEN o + SizeOf[c] ELSE Len(f)
      /\ \A i \in 1..Len(g) : g[i] = IF i \in (o + 1)..(o + SizeOf[c])
                                     THEN Cell(c, i - o) ELSE f[i]
  BY WrittenFile, RecordSizes
<1> HIDE DEF g
<1>2. o + SizeOf[c] <= Len(g)
  BY <1>1
<1>3. ASSUME NEW k \in 1..SizeOf[c] PROVE g[o + k] = Cell(c, k)
  <2>1. o + k \in 1..Len(g) /\ o + k \in (o + 1)..(o + SizeOf[c]) /\ (o + k) - o = k
    BY <1>1, <1>2
  <2>2. QED
    BY <1>1, <2>1
<1>4. c \in IntactAt(g, o)
  BY <1>1, <1>2, <1>3, IntactCells
<1>5. QED
  BY <1>4 DEF g

\* A record that shares no cell with the one just written is still there.
LEMMA WrittenKeepsOthers ==
    ASSUME NEW f \in Seq(AnyCell), NEW o \in Nat, o <= Len(f), NEW c \in Contents,
           NEW p \in Nat, NEW d \in IntactAt(f, p),
           RecordCells(p, d) \cap RecordCells(o, c) = {}
    PROVE  d \in IntactAt(Written(f, o, c), p)
<1> DEFINE g == Written(f, o, c)
<1>1. /\ SizeOf[c] \in Nat /\ Len(f) \in Nat /\ g \in Seq(AnyCell)
      /\ Len(g) = IF o + SizeOf[c] > Len(f) THEN o + SizeOf[c] ELSE Len(f)
      /\ \A i \in 1..Len(g) : g[i] = IF i \in (o + 1)..(o + SizeOf[c])
                                     THEN Cell(c, i - o) ELSE f[i]
  BY WrittenFile, RecordSizes
<1>2. /\ d \in Contents /\ p + SizeOf[d] <= Len(f)
      /\ \A k \in 1..SizeOf[d] : f[p + k] = Cell(d, k)
  BY IntactCells
<1>3. SizeOf[d] \in Nat
  BY <1>2, RecordSizes
<1> HIDE DEF g
<1>4. p + SizeOf[d] <= Len(g)
  BY <1>1, <1>2, <1>3
<1>5. ASSUME NEW k \in 1..SizeOf[d] PROVE g[p + k] = Cell(d, k)
  <2>1. p + k - 1 \in RecordCells(p, d)
    BY <1>3 DEF RecordCells
  <2>2. p + k - 1 \notin RecordCells(o, c)
    BY <2>1
  <2>3. SizeOf[c] \in Nat /\ Len(g) \in Nat
    BY <1>1
  <2>4. p + k \notin (o + 1)..(o + SizeOf[c])
    BY <1>3, <2>2, <2>3 DEF RecordCells
  <2>5. p + k \in 1..Len(g)
    BY <1>3, <1>4, <2>3
  <2>6. QED
    BY <1>1, <1>2, <2>4, <2>5
<1>6. d \in IntactAt(g, p)
  BY <1>1, <1>2, <1>4, <1>5, IntactCells
<1>7. QED
  BY <1>6 DEF g

\* Writing a record makes no other one appear.
LEMMA WrittenMakesOne ==
    ASSUME NEW f \in Seq(AnyCell), NEW o \in Nat, o <= Len(f), NEW c \in Contents,
           NEW p \in Nat, NEW d \in IntactAt(Written(f, o, c), p)
    PROVE  \/ p = o /\ d = c
           \/ d \in IntactAt(f, p) /\ RecordCells(p, d) \cap RecordCells(o, c) = {}
<1> DEFINE g == Written(f, o, c)
<1>1. /\ SizeOf[c] \in Nat /\ Len(f) \in Nat /\ g \in Seq(AnyCell)
      /\ Len(g) = IF o + SizeOf[c] > Len(f) THEN o + SizeOf[c] ELSE Len(f)
      /\ \A i \in 1..Len(g) : g[i] = IF i \in (o + 1)..(o + SizeOf[c])
                                     THEN Cell(c, i - o) ELSE f[i]
  BY WrittenFile, RecordSizes
<1>2. c \in IntactAt(g, o) /\ d \in IntactAt(g, p)
  BY WrittenReadsBack
<1> HIDE DEF g
<1>3. /\ d \in Contents /\ p + SizeOf[d] <= Len(g)
      /\ \A k \in 1..SizeOf[d] : g[p + k] = Cell(d, k)
  <2>1. g \in Seq(AnyCell)
    BY <1>1
  <2>2. QED
    BY <1>2, <2>1, IntactCells
<1>4. SizeOf[d] \in Nat
  BY <1>3, RecordSizes
<1>5. CASE p = o
  <2>1. IntactAt(g, o) = {c}
    BY <1>1, <1>2, IntactOne
  <2>2. QED
    BY <1>2, <1>5, <2>1
<1>6. CASE p # o
  <2>1. RecordCells(p, d) \cap RecordCells(o, c) = {}
    BY <1>1, <1>2, <1>6, RecordsApart
  <2>2. ASSUME NEW k \in 1..SizeOf[d]
        PROVE p + k \in 1..Len(g) /\ p + k \notin (o + 1)..(o + SizeOf[c])
    <3>1. p + k - 1 \in RecordCells(p, d)
      BY <1>4 DEF RecordCells
    <3>2. p + k - 1 \notin RecordCells(o, c)
      BY <2>1, <3>1
    <3>3. SizeOf[c] \in Nat /\ Len(g) \in Nat
      BY <1>1
    <3>4. p + k \notin (o + 1)..(o + SizeOf[c])
      BY <1>4, <3>2, <3>3 DEF RecordCells
    <3>5. p + k \in 1..Len(g)
      BY <1>3, <1>4, <3>3
    <3>6. QED
      BY <3>4, <3>5
  <2>3. \A k \in 1..SizeOf[d] : f[p + k] = Cell(d, k)
    BY <1>1, <1>3, <2>2
  <2>4. p + SizeOf[d] <= Len(f)
    <3>1. SizeOf[d] \in 1..SizeOf[d]
      BY <1>3, <1>4, RecordSizes
    <3>2. p + SizeOf[d] \in 1..Len(g) /\ p + SizeOf[d] \notin (o + 1)..(o + SizeOf[c])
      BY <2>2, <3>1
    <3>3. QED
      BY <1>1, <1>4, <3>2
  <2>5. d \in IntactAt(f, p)
    BY <1>3, <2>3, <2>4, IntactCells
  <2>6. QED
    BY <2>1, <2>5
<1>7. QED
  BY <1>5, <1>6

\* A tombstone takes exactly the record whose sentinel it overwrites.
LEMMA TombstonedFile ==
    ASSUME NEW f \in Seq(AnyCell), NEW o \in Nat, NEW c \in IntactAt(f, o)
    PROVE  LET g == Tombstoned(f, o) IN
           /\ g \in Seq(AnyCell) /\ Len(g) = Len(f)
           /\ \A i \in 1..Len(f) : i # o + 1 => g[i] = f[i]
           /\ IntactAt(g, o) = {}
           /\ \A p \in Nat : p # o => IntactAt(g, p) = IntactAt(f, p)
<1> DEFINE g == Tombstoned(f, o)
           tomb == [mark |-> "tomb", of |-> f[o + 1].of, at |-> f[o + 1].at]
<1>1. /\ c \in Contents /\ o + SizeOf[c] <= Len(f)
      /\ \A k \in 1..SizeOf[c] : f[o + k] = Cell(c, k)
  BY IntactCells
<1>2. SizeOf[c] \in Nat /\ SizeOf[c] >= 2
  BY <1>1, RecordSizes
<1>3. o + 1 \in 1..Len(f) /\ f[o + 1] = Cell(c, 1)
  BY <1>1, <1>2
<1>4. f[o + 1] \in AnyCell
  BY <1>3
<1>5. g = [f EXCEPT ![o + 1] = [f[o + 1] EXCEPT !.mark = "tomb"]]
  BY DEF Tombstoned
<1>6. [f[o + 1] EXCEPT !.mark = "tomb"] = tomb /\ tomb \in AnyCell
  BY <1>4 DEF AnyCell
<1>7. g = [f EXCEPT ![o + 1] = tomb]
  BY <1>5, <1>6
<1>8. tomb.mark = "tomb" OBVIOUS
<1> HIDE DEF tomb, g
<1>9. g \in Seq(AnyCell) /\ Len(g) = Len(f) /\ g[o + 1] = tomb
      /\ \A i \in 1..Len(f) : i # o + 1 => g[i] = f[i]
  BY <1>3, <1>6, <1>7
<1>10. ASSUME NEW p \in Nat, NEW d \in IntactAt(g, p) PROVE p # o /\ d \in IntactAt(f, p)
  <2>1. /\ d \in Contents /\ p + SizeOf[d] <= Len(g)
        /\ \A k \in 1..SizeOf[d] : g[p + k] = Cell(d, k)
    BY <1>9, <1>10, IntactCells
  <2>2. SizeOf[d] \in Nat
    BY <2>1, RecordSizes
  <2>3. ASSUME NEW k \in 1..SizeOf[d] PROVE p + k # o + 1
    <3>1. g[p + k] = Cell(d, k)
      BY <2>1
    <3>2. Cell(d, k).mark \in {"value", "body"}
      BY DEF Cell
    <3>3. QED
      BY <1>8, <1>9, <3>1, <3>2
  <2>4. p # o
    BY <2>1, <2>2, <2>3, RecordSizes
  <2>5. \A k \in 1..SizeOf[d] : f[p + k] = Cell(d, k)
    <3>1. \A k \in 1..SizeOf[d] : p + k \in 1..Len(f)
      BY <1>9, <2>1, <2>2
    <3>2. QED
      BY <1>9, <2>1, <2>3, <3>1
  <2>6. QED
    BY <1>9, <2>1, <2>4, <2>5, IntactCells
<1>11. ASSUME NEW p \in Nat, p # o, NEW d \in IntactAt(f, p) PROVE d \in IntactAt(g, p)
  <2>1. /\ d \in Contents /\ p + SizeOf[d] <= Len(f)
        /\ \A k \in 1..SizeOf[d] : f[p + k] = Cell(d, k)
    BY <1>11, IntactCells
  <2>2. SizeOf[d] \in Nat
    BY <2>1, RecordSizes
  <2>3. ASSUME NEW k \in 1..SizeOf[d], p + k = o + 1 PROVE FALSE
    <3>1. o \in RecordCells(o, c) /\ o \in RecordCells(p, d)
      BY <1>2, <2>2, <2>3 DEF RecordCells
    <3>2. QED
      BY <1>11, <3>1, RecordsApart
  <2>4. \A k \in 1..SizeOf[d] : g[p + k] = Cell(d, k)
    <3>1. \A k \in 1..SizeOf[d] : p + k \in 1..Len(f)
      BY <2>1, <2>2
    <3>2. QED
      BY <1>9, <2>1, <2>3, <3>1
  <2>5. QED
    BY <1>9, <2>1, <2>4, IntactCells
<1>12. IntactAt(g, o) = {}
  BY <1>10
<1>13. \A p \in Nat : p # o => IntactAt(g, p) = IntactAt(f, p)
  BY <1>10, <1>11
<1>14. QED
  BY <1>9, <1>12, <1>13 DEF g
-----------------------------------------------------------------------------
(* Free lists.                                                             *)

\* The cells that a list's blocks cover.
FreeCells(B) == {i \in Nat : \E b \in B : b.offset <= i /\ i < EndOf(b)}

Disjoint(B) == \A x, y \in B : x = y \/ EndOf(x) <= y.offset \/ EndOf(y) <= x.offset

\* Disjoint, and with a gap between any two.
Separate(B) == \A x, y \in B : x = y \/ EndOf(x) < y.offset \/ EndOf(y) < x.offset

\* The first and the last cell of a block are free.
LEMMA BlockEnds ==
    ASSUME NEW B, B \subseteq AnyBlock, NEW b \in B
    PROVE  /\ b.offset \in Nat /\ b.size \in Nat /\ b.size >= 1 /\ EndOf(b) \in Nat
           /\ EndOf(b) = b.offset + b.size
           /\ b.offset \in FreeCells(B) /\ EndOf(b) - 1 \in FreeCells(B)
<1>1. b \in AnyBlock
  OBVIOUS
<1>2. b.offset \in Nat /\ b.size \in Nat /\ b.size >= 1 /\ EndOf(b) = b.offset + b.size
  BY <1>1 DEF AnyBlock, EndOf
<1>3. b.offset \in FreeCells(B)
  BY <1>2 DEF FreeCells
<1>4. EndOf(b) - 1 \in FreeCells(B)
  BY <1>2 DEF FreeCells
<1>5. QED
  BY <1>2, <1>3, <1>4

\* AllocateSpace takes a block of the list that is large enough.
LEMMA FirstFitFits ==
    ASSUME NEW B, B \subseteq AnyBlock, NEW n \in Nat, Fitting(B, n) # {}
    PROVE  FirstFit(B, n) \in B /\ FirstFit(B, n).size >= n
<1> DEFINE S == {b.offset : b \in Fitting(B, n)}
<1>1. \A b \in Fitting(B, n) : b \in B /\ b.size >= n /\ b.offset \in Nat
  BY BlockEnds DEF Fitting
<1>2. S \subseteq Nat /\ S # {}
  BY <1>1
<1>3. PICK m \in S : \A j \in S : m <= j
  BY <1>2, SmallestExists
<1>4. \E b \in Fitting(B, n) : \A x \in Fitting(B, n) : b.offset <= x.offset
  BY <1>3
<1>5. FirstFit(B, n) \in Fitting(B, n)
  BY <1>4 DEF FirstFit
<1>6. QED
  BY <1>1, <1>5

\* What is allocated is no longer free, and everything else that was free is.
LEMMA AllocatedBlocks ==
    ASSUME NEW B, B \subseteq AnyBlock, Separate(B), NEW b \in B,
           NEW n \in Nat, n >= 1, b.size >= n
    PROVE  /\ Allocated(B, b, n) \subseteq AnyBlock
           /\ Separate(Allocated(B, b, n))
           /\ FreeCells(Allocated(B, b, n)) = FreeCells(B) \ (b.offset..(b.offset + n - 1))
           /\ b.offset..(b.offset + n - 1) \subseteq FreeCells(B)
<1> DEFINE A == Allocated(B, b, n)
           r == Block(b.offset + n, b.size - n)
<1>1. \A x \in B : /\ x.offset \in Nat /\ x.size \in Nat /\ x.size >= 1
                   /\ EndOf(x) \in Nat /\ EndOf(x) = x.offset + x.size
  BY BlockEnds
<1>2. /\ r.offset = b.offset + n /\ r.size = b.size - n
      /\ EndOf(r) = (b.offset + n) + (b.size - n)
  BY DEF Block, EndOf
<1>3. b.offset + n \in Nat /\ b.size - n \in Nat /\ EndOf(r) = EndOf(b)
  BY <1>1, <1>2
<1>4. b.size # n => r \in AnyBlock
  BY <1>3 DEF Block, AnyBlock
<1>5. \A x \in B \ {b} : EndOf(x) < b.offset \/ EndOf(b) < x.offset
  BY DEF Separate
<1>6. A = IF b.size = n THEN B \ {b} ELSE (B \ {b}) \cup {r}
  BY DEF Allocated
<1> HIDE DEF A, r
<1>7. A \subseteq AnyBlock
  BY <1>4, <1>6
<1>8. Separate(A)
  <2>1. \A x \in B \ {b} : EndOf(x) < r.offset \/ EndOf(r) < x.offset
    BY <1>1, <1>2, <1>3, <1>5
  <2>2. SUFFICES ASSUME NEW x \in A, NEW y \in A, x # y
                 PROVE  EndOf(x) < y.offset \/ EndOf(y) < x.offset
    BY DEF Separate
  <2>3. CASE x = r \/ y = r
    BY <1>6, <2>1, <2>2, <2>3
  <2>4. CASE x # r /\ y # r
    BY <1>6, <2>2, <2>4 DEF Separate
  <2>5. QED
    BY <2>3, <2>4
<1>9. \A i \in b.offset..(b.offset + n - 1) : i \in FreeCells(B)
  BY <1>1 DEF FreeCells
<1>10. ASSUME NEW i \in FreeCells(A) PROVE i \in FreeCells(B) \ (b.offset..(b.offset + n - 1))
  <2>1. PICK x \in A : i \in Nat /\ x.offset <= i /\ i < EndOf(x)
    BY <1>10 DEF FreeCells
  <2>2. CASE x \in B \ {b}
    <3>1. i \in FreeCells(B)
      BY <2>1, <2>2 DEF FreeCells
    <3>2. i < b.offset \/ i > b.offset + n - 1
      BY <1>1, <1>5, <2>1, <2>2
    <3>3. QED
      BY <1>1, <2>1, <3>1, <3>2
  <2>3. CASE x = r
    <3>1. b.offset <= i /\ i < EndOf(b) /\ i > b.offset + n - 1
      BY <1>1, <1>2, <1>3, <2>1, <2>3
    <3>2. QED
      BY <1>1, <2>1, <3>1 DEF FreeCells
  <2>4. QED
    BY <1>6, <2>2, <2>3
<1>11. ASSUME NEW i \in FreeCells(B), i \notin b.offset..(b.offset + n - 1) PROVE i \in FreeCells(A)
  <2>1. PICK x \in B : i \in Nat /\ x.offset <= i /\ i < EndOf(x)
    BY <1>11 DEF FreeCells
  <2>2. CASE x # b
    BY <1>6, <2>1, <2>2 DEF FreeCells
  <2>3. CASE x = b
    <3>1. i >= b.offset + n
      BY <1>1, <1>11, <2>1, <2>3
    <3>2. b.size # n
      BY <1>1, <2>1, <2>3, <3>1
    <3>3. r \in A /\ r.offset <= i /\ i < EndOf(r)
      BY <1>2, <1>3, <1>6, <2>1, <2>3, <3>1, <3>2
    <3>4. QED
      BY <2>1, <3>3 DEF FreeCells
  <2>4. QED
    BY <2>2, <2>3
<1>12. FreeCells(A) = FreeCells(B) \ (b.offset..(b.offset + n - 1))
  BY <1>10, <1>11
<1>13. QED
  BY <1>7, <1>8, <1>9, <1>12 DEF A

\* Every block has a last one of its run: no block begins where it ends, and
\* no earlier one from b on has that.
LEMMA RunsEnd ==
    ASSUME NEW B, B \subseteq AnyBlock, NEW n \in Nat, FreeCells(B) \subseteq 0..n, NEW b \in B
    PROVE  LET x == LastOfRun(B, b) IN
           /\ x \in B /\ x.offset >= b.offset
           /\ \A y \in B : y.offset # EndOf(x)
           /\ \A z \in B : z.offset >= b.offset /\ (\A y \in B : y.offset # EndOf(z))
                             => x.offset <= z.offset
<1>1. \A x \in B : /\ x.offset \in Nat /\ x.size >= 1 /\ EndOf(x) \in Nat
                   /\ EndOf(x) = x.offset + x.size /\ x.size \in Nat /\ x.offset <= n
  <2>1. TAKE x \in B
  <2>2. x.offset \in 0..n
    BY BlockEnds
  <2>3. QED
    BY <2>2, BlockEnds
<1> DEFINE Later == {x \in B : x.offset >= b.offset}
           Room == {n - x.offset : x \in Later}
           Enders == {x \in Later : \A y \in B : y.offset # EndOf(x)}
           Starts == {x.offset : x \in Enders}
<1>2. Room \subseteq Nat /\ Room # {}
  <2>1. b \in Later
    BY <1>1
  <2>2. QED
    BY <1>1, <2>1
<1>3. PICK m \in Room : \A j \in Room : m <= j
  BY <1>2, SmallestExists
<1>4. PICK last \in Later : m = n - last.offset
  BY <1>3
<1>5. \A x \in Later : x.offset <= last.offset
  <2>1. TAKE x \in Later
  <2>2. n - x.offset \in Room
    OBVIOUS
  <2>3. n - last.offset <= n - x.offset
    BY <1>3, <1>4, <2>2
  <2>4. QED
    BY <1>1, <2>3
<1>6. last \in Enders
  <2>1. ASSUME NEW y \in B, y.offset = EndOf(last) PROVE FALSE
    <3>1. y.offset > last.offset /\ y.offset >= b.offset
      BY <1>1, <2>1
    <3>2. y.offset <= last.offset
      BY <1>5, <3>1
    <3>3. QED
      BY <1>1, <3>1, <3>2
  <2>2. QED
    BY <2>1
<1>7. Starts \subseteq Nat /\ Starts # {}
  BY <1>1, <1>6
<1>8. PICK s \in Starts : \A j \in Starts : s <= j
  BY <1>7, SmallestExists
<1>9. PICK first \in Enders : s = first.offset
  BY <1>8
<1>10. \E x \in B :
          /\ x.offset >= b.offset
          /\ \A y \in B : y.offset # EndOf(x)
          /\ \A z \in B : z.offset >= b.offset /\ (\A y \in B : y.offset # EndOf(z))
                            => x.offset <= z.offset
  <2>1. \A z \in B : z.offset >= b.offset /\ (\A y \in B : y.offset # EndOf(z))
                        => first.offset <= z.offset
    BY <1>8, <1>9
  <2>2. QED
    BY <1>9, <2>1
<1>11. QED
  BY <1>10 DEF LastOfRun

\* From a block to the end of its run there is no gap.
LEMMA RunsAreFree ==
    ASSUME NEW B, B \subseteq AnyBlock, Disjoint(B),
           NEW n \in Nat, FreeCells(B) \subseteq 0..n, NEW b \in B
    PROVE  /\ EndOf(LastOfRun(B, b)) \in Nat /\ EndOf(b) <= EndOf(LastOfRun(B, b))
           /\ b.offset..(EndOf(LastOfRun(B, b)) - 1) \subseteq FreeCells(B)
<1> DEFINE x == LastOfRun(B, b)
           Gaps == {i \in b.offset..(EndOf(x) - 1) : i \notin FreeCells(B)}
<1>1. \A y \in B : /\ y.offset \in Nat /\ y.size >= 1 /\ EndOf(y) \in Nat
                   /\ EndOf(y) = y.offset + y.size /\ y.size \in Nat /\ y.offset \in FreeCells(B)
  BY BlockEnds
<1>2. /\ x \in B /\ x.offset >= b.offset
      /\ \A z \in B : z.offset >= b.offset /\ (\A y \in B : y.offset # EndOf(z))
                        => x.offset <= z.offset
  BY RunsEnd
<1> HIDE DEF x
<1>3. EndOf(b) <= EndOf(x)
  BY <1>1, <1>2 DEF Disjoint
<1>4. ASSUME Gaps # {} PROVE FALSE
  <2>1. Gaps \subseteq Nat
    BY <1>1
  <2>2. PICK i \in Gaps : \A j \in Gaps : i <= j
    BY <1>4, <2>1, SmallestExists
  <2>3. i \in Nat /\ b.offset <= i /\ i < EndOf(x) /\ i \notin FreeCells(B)
    BY <1>1, <1>2, <2>2
  <2>4. i # b.offset
    BY <1>1, <2>3
  <2>5. i - 1 \in b.offset..(EndOf(x) - 1) /\ i - 1 \in Nat
    BY <1>1, <1>2, <2>3, <2>4
  <2>6. i - 1 \in FreeCells(B)
    BY <2>2, <2>3, <2>5
  <2>7. PICK z \in B : z.offset <= i - 1 /\ i - 1 < EndOf(z)
    BY <2>6 DEF FreeCells
  <2>8. EndOf(z) = i
    <3>1. ~ (z.offset <= i /\ i < EndOf(z))
      BY <2>3 DEF FreeCells
    <3>2. QED
      BY <1>1, <2>3, <2>7, <3>1
  <2>9. z.offset >= b.offset
    <3>1. z = b \/ EndOf(z) <= b.offset \/ EndOf(b) <= z.offset
      BY DEF Disjoint
    <3>2. QED
      BY <1>1, <2>3, <2>4, <2>8, <3>1
  <2>10. \A y \in B : y.offset # EndOf(z)
    BY <1>1, <2>3, <2>8
  <2>11. x.offset <= z.offset
    BY <1>2, <2>9, <2>10
  <2>12. x = z \/ EndOf(x) <= z.offset \/ EndOf(z) <= x.offset
    BY <1>2 DEF Disjoint
  <2>13. QED
    BY <1>1, <1>2, <2>3, <2>7, <2>8, <2>11, <2>12
<1>5. EndOf(x) \in Nat /\ b.offset..(EndOf(x) - 1) \subseteq FreeCells(B)
  BY <1>1, <1>2, <1>4
<1>6. QED
  BY <1>3, <1>5 DEF x

\* coalesceBlocks keeps what is free, and leaves a gap between any two blocks.
LEMMA CoalescedBlocks ==
    ASSUME NEW B, B \subseteq AnyBlock, Disjoint(B), NEW n \in Nat, FreeCells(B) \subseteq 0..n
    PROVE  /\ CoalesceBlocks(B) \subseteq AnyBlock
           /\ Separate(CoalesceBlocks(B))
           /\ FreeCells(CoalesceBlocks(B)) = FreeCells(B)
<1> DEFINE C == CoalesceBlocks(B)
           Heads == {x \in B : \A y \in B : EndOf(y) # x.offset}
           end(b) == EndOf(LastOfRun(B, b))
           run(b) == Block(b.offset, end(b) - b.offset)
<1>1. \A y \in B : /\ y.offset \in Nat /\ y.size >= 1 /\ EndOf(y) \in Nat
                   /\ EndOf(y) = y.offset + y.size /\ y.size \in Nat
  BY BlockEnds
<1>2. \A b \in B : /\ end(b) \in Nat /\ EndOf(b) <= end(b)
                   /\ \A i \in b.offset..(end(b) - 1) : i \in FreeCells(B)
  BY RunsAreFree
<1>3. \A b \in B : \A y \in B : y.offset # end(b)
  BY RunsEnd
<1>4. C = {run(b) : b \in Heads}
  BY DEF CoalesceBlocks
<1>5. \A b \in B : run(b).offset = b.offset /\ run(b).size = end(b) - b.offset
  BY DEF Block
<1>6. \A b \in B : EndOf(run(b)) = end(b) /\ run(b) \in AnyBlock
  <2>1. TAKE b \in B
  <2>2. /\ b.offset \in Nat /\ end(b) \in Nat /\ end(b) - b.offset \in Nat \ {0}
        /\ b.offset + (end(b) - b.offset) = end(b)
    BY <1>1, <1>2
  <2> HIDE DEF end
  <2>3. QED
    BY <2>2 DEF Block, AnyBlock, EndOf
<1>7. C \subseteq AnyBlock
  BY <1>4, <1>6
<1> HIDE DEF C, end, run
<1>8. ASSUME NEW b \in Heads, NEW d \in Heads, b.offset < d.offset PROVE end(b) < d.offset
  <2>1. SUFFICES ASSUME d.offset < end(b) PROVE FALSE
    BY <1>1, <1>2, <1>3
  <2>2. d.offset - 1 \in b.offset..(end(b) - 1) /\ d.offset - 1 \in Nat
    BY <1>1, <1>2, <1>8, <2>1
  <2>3. PICK z \in B : z.offset <= d.offset - 1 /\ d.offset - 1 < EndOf(z)
    BY <1>2, <2>2 DEF FreeCells
  <2>4. z = d \/ EndOf(z) <= d.offset \/ EndOf(d) <= z.offset
    BY DEF Disjoint
  <2>5. EndOf(z) = d.offset
    BY <1>1, <2>3, <2>4
  <2>6. QED
    BY <2>5
<1>9. Separate(C)
  <2>1. SUFFICES ASSUME NEW p \in C, NEW q \in C, p # q
                 PROVE  EndOf(p) < q.offset \/ EndOf(q) < p.offset
    BY DEF Separate
  <2>2. PICK b \in Heads : p = run(b)
    BY <1>4
  <2>3. PICK d \in Heads : q = run(d)
    BY <1>4
  <2>4. b # d
    BY <2>1, <2>2, <2>3
  <2>5. b.offset # d.offset
    BY <1>1, <2>4 DEF Disjoint
  <2>6. b.offset < d.offset \/ d.offset < b.offset
    BY <1>1, <2>5
  <2>7. QED
    BY <1>5, <1>6, <1>8, <2>2, <2>3, <2>6
<1>10. ASSUME NEW i \in FreeCells(C) PROVE i \in FreeCells(B)
  <2>1. PICK p \in C : i \in Nat /\ p.offset <= i /\ i < EndOf(p)
    BY <1>10 DEF FreeCells
  <2>2. PICK b \in Heads : p = run(b)
    BY <1>4
  <2>3. i \in b.offset..(end(b) - 1)
    BY <1>1, <1>2, <1>5, <1>6, <2>1, <2>2
  <2>4. QED
    BY <1>2, <2>3
<1>11. ASSUME NEW i \in FreeCells(B) PROVE i \in FreeCells(C)
  <2> DEFINE Back == {j \in Nat : j <= i /\ \A k \in j..i : k \in FreeCells(B)}
  <2>1. i \in Nat /\ i \in Back
    BY <1>11 DEF FreeCells
  <2>2. PICK j \in Back : \A k \in Back : j <= k
    <3>1. Back \subseteq Nat /\ Back # {}
      BY <2>1
    <3> HIDE DEF Back
    <3>2. QED
      BY <3>1, SmallestExists
  <2>3. j = 0 \/ j - 1 \notin FreeCells(B)
    <3>1. SUFFICES ASSUME j # 0, j - 1 \in FreeCells(B) PROVE FALSE
      OBVIOUS
    <3>2. j - 1 \in Nat /\ \A k \in (j - 1)..i : k = j - 1 \/ k \in j..i
      BY <2>1, <2>2, <3>1
    <3>3. j - 1 \in Back
      BY <2>1, <2>2, <3>1, <3>2
    <3>4. QED
      BY <2>2, <3>2, <3>3
  <2>4. j \in FreeCells(B) /\ j \in Nat /\ j <= i
    BY <2>1, <2>2
  <2>5. PICK b \in B : b.offset <= j /\ j < EndOf(b)
    BY <2>4 DEF FreeCells
  <2>6. b.offset = j
    <3>1. SUFFICES ASSUME b.offset < j PROVE FALSE
      BY <1>1, <2>4, <2>5
    <3>2. j - 1 \in Nat /\ b.offset <= j - 1 /\ j - 1 < EndOf(b) /\ j # 0
      BY <1>1, <2>4, <2>5, <3>1
    <3>3. QED
      BY <2>3, <3>2 DEF FreeCells
  <2>7. b \in Heads
    <3>1. SUFFICES ASSUME NEW y \in B, EndOf(y) = b.offset PROVE FALSE
      OBVIOUS
    <3>2. j - 1 \in Nat /\ y.offset <= j - 1 /\ j - 1 < EndOf(y) /\ j # 0
      BY <1>1, <2>4, <2>6, <3>1
    <3>3. QED
      BY <2>3, <3>2 DEF FreeCells
  <2>8. i < end(b)
    <3>1. SUFFICES ASSUME end(b) <= i PROVE FALSE
      BY <1>2, <2>1
    <3>2. end(b) \in j..i
      BY <1>1, <1>2, <2>1, <2>4, <2>6, <3>1
    <3>3. end(b) \in FreeCells(B)
      BY <2>2, <3>2
    <3>4. PICK y \in B : y.offset <= end(b) /\ end(b) < EndOf(y)
      BY <3>3 DEF FreeCells
    <3> DEFINE x == LastOfRun(B, b)
    <3>5. x \in B /\ EndOf(x) = end(b)
      BY RunsEnd DEF end
    <3> HIDE DEF x
    <3>6. y = x \/ EndOf(y) <= x.offset \/ EndOf(x) <= y.offset
      BY <3>5 DEF Disjoint
    <3>7. y.offset = end(b)
      BY <1>1, <3>4, <3>5, <3>6
    <3>8. QED
      BY <1>3, <3>7
  <2>9. run(b) \in C /\ run(b).offset <= i /\ i < EndOf(run(b))
    BY <1>4, <1>5, <1>6, <2>4, <2>6, <2>7, <2>8
  <2>10. QED
    BY <2>1, <2>9 DEF FreeCells
<1>12. FreeCells(C) = FreeCells(B)
  BY <1>10, <1>11
<1>13. QED
  BY <1>7, <1>9, <1>12 DEF C

\* AddBlock: the space of a block apart from the free ones becomes free.
LEMMA AddedBlocks ==
    ASSUME NEW B, B \subseteq AnyBlock, Separate(B), NEW n \in Nat, FreeCells(B) \subseteq 0..n,
           NEW o \in Nat, NEW s \in Nat \ {0}, o + s <= n + 1,
           (o..(o + s - 1)) \cap FreeCells(B) = {}
    PROVE  /\ AddBlock(B, o, s) \subseteq AnyBlock
           /\ Separate(AddBlock(B, o, s))
           /\ FreeCells(AddBlock(B, o, s)) = FreeCells(B) \cup (o..(o + s - 1))
<1> DEFINE new == Block(o, s)
           D == B \cup {new}
<1>1. /\ new \in AnyBlock /\ new.offset = o /\ new.size = s /\ EndOf(new) = o + s
  BY DEF Block, AnyBlock, EndOf
<1> HIDE DEF new
<1>2. \A x \in B : /\ x.offset \in Nat /\ x.size >= 1 /\ EndOf(x) \in Nat
                   /\ EndOf(x) = x.offset + x.size /\ x.size \in Nat
  BY BlockEnds
<1>3. D \subseteq AnyBlock
  BY <1>1
<1>4. \A x \in B : EndOf(x) <= o \/ o + s <= x.offset
  <2>1. SUFFICES ASSUME NEW x \in B, EndOf(x) > o, o + s > x.offset PROVE FALSE
    BY <1>2
  <2>2. CASE x.offset <= o
    <3>1. o \in FreeCells(B) /\ o \in o..(o + s - 1)
      BY <1>2, <2>1, <2>2 DEF FreeCells
    <3>2. QED
      BY <3>1
  <2>3. CASE o < x.offset
    <3>1. x.offset \in FreeCells(B)
      BY BlockEnds
    <3>2. x.offset \in o..(o + s - 1)
      BY <1>2, <2>1, <2>3
    <3>3. QED
      BY <3>1, <3>2
  <2>4. QED
    BY <1>2, <2>2, <2>3
<1>5. Disjoint(D)
  <2>1. SUFFICES ASSUME NEW x \in D, NEW y \in D, x # y
                 PROVE  EndOf(x) <= y.offset \/ EndOf(y) <= x.offset
    BY DEF Disjoint
  <2>2. CASE x = new
    BY <1>1, <1>4, <2>1, <2>2
  <2>3. CASE y = new
    BY <1>1, <1>4, <2>1, <2>3
  <2>4. CASE x \in B /\ y \in B
    BY <1>2, <2>1, <2>4 DEF Separate
  <2>5. QED
    BY <2>2, <2>3, <2>4
<1>6. FreeCells(D) = FreeCells(B) \cup (o..(o + s - 1))
  <2>1. ASSUME NEW i \in FreeCells(D) PROVE i \in FreeCells(B) \cup (o..(o + s - 1))
    <3>1. PICK x \in D : i \in Nat /\ x.offset <= i /\ i < EndOf(x)
      BY <2>1 DEF FreeCells
    <3>2. CASE x \in B
      BY <3>1, <3>2 DEF FreeCells
    <3>3. CASE x = new
      BY <1>1, <3>1, <3>3
    <3>4. QED
      BY <3>2, <3>3
  <2>2. ASSUME NEW i \in FreeCells(B) PROVE i \in FreeCells(D)
    BY <2>2 DEF FreeCells
  <2>3. ASSUME NEW i \in o..(o + s - 1) PROVE i \in FreeCells(D)
    <3>1. i \in Nat /\ new.offset <= i /\ i < EndOf(new)
      BY <1>1, <2>3
    <3>2. QED
      BY <3>1 DEF FreeCells
  <2>4. QED
    BY <2>1, <2>2, <2>3
<1>7. FreeCells(D) \subseteq 0..n
  BY <1>6
<1>8. AddBlock(B, o, s) = CoalesceBlocks(D)
  BY DEF AddBlock, new
<1> HIDE DEF D
<1>9. QED
  BY <1>3, <1>5, <1>6, <1>7, <1>8, CoalescedBlocks
-----------------------------------------------------------------------------
(* Free space is never live.                                               *)

\* The value IDs there are.
IDs == {EncodeValueID(tier, o) : tier \in Tiers, o \in 0..(Span - 1)}

\* A free list of a file: its blocks lie in the file, with gaps between them,
\* and touch no record that reads back.
FreeOK(B, f) ==
    /\ B \subseteq AnyBlock /\ Separate(B)
    /\ FreeCells(B) \subseteq 0..(Len(f) - 1)
    /\ \A o \in Nat : \A c \in IntactAt(f, o) : RecordCells(o, c) \cap FreeCells(B) = {}

StoreType ==
    /\ files \in [Tiers -> Seq(AnyCell)]
    /\ \A tier \in Tiers : Len(files[tier]) <= MaxFile
    /\ freeLists \in [Tiers -> SUBSET AnyBlock]
    /\ hashToValueID \in [Contents -> IDs]
    /\ ref \in [Holders -> [id : IDs, of : SUBSET Contents]]

FreeInv == StoreType /\ \A tier \in Tiers : FreeOK(freeLists[tier], files[tier])

\* Each ID is the encoding of its tier and its offset.
LEMMA IDParts ==
    ASSUME NEW id \in IDs
    PROVE  /\ id \in Nat /\ ExtractTier(id) \in Tiers
           /\ ExtractOffset(id) \in 0..(Span - 1) /\ ExtractOffset(id) \in Nat
           /\ id = EncodeValueID(ExtractTier(id), ExtractOffset(id))
<1>1. PICK tier \in Tiers, o \in 0..(Span - 1) : id = EncodeValueID(tier, o)
  BY DEF IDs
<1>2. Span \in Nat
  BY ValueStoreAssumption
<1>3. o \in Nat /\ o < Span
  BY <1>2
<1>4. ExtractTier(id) = tier /\ ExtractOffset(id) = o /\ id \in Nat
  BY <1>1, <1>3, ValueIDs
<1>5. QED
  BY <1>1, <1>3, <1>4

\* An encoding is an ID.
LEMMA EncodedIDs ==
    ASSUME NEW tier \in Tiers, NEW o \in Nat, o < Span
    PROVE  EncodeValueID(tier, o) \in IDs
<1>1. o \in 0..(Span - 1)
  BY ValueStoreAssumption
<1>2. QED
  BY <1>1 DEF IDs

\* The ID that stands for none is in the range of the maps.
LEMMA ZeroIsAnID == 0 \in IDs
<1>1. Span \in Nat /\ 0 < Span /\ 0 \in Nat /\ 0 \in Tiers
  BY ValueStoreAssumption DEF Tiers
<1>2. EncodeValueID(0, 0) = 0
  BY <1>1 DEF EncodeValueID
<1>3. QED
  BY <1>1, <1>2, EncodedIDs

\* A record written where no other record of the file lies, its space taken
\* from the free list.
LEMMA WrittenFree ==
    ASSUME NEW f \in Seq(AnyCell), NEW B, FreeOK(B, f), NEW o \in Nat, o <= Len(f),
           NEW c \in Contents, NEW A, A \subseteq AnyBlock, Separate(A),
           FreeCells(A) = FreeCells(B) \ RecordCells(o, c)
    PROVE  FreeOK(A, Written(f, o, c))
<1> DEFINE g == Written(f, o, c)
<1>1. SizeOf[c] \in Nat /\ Len(f) \in Nat /\ Len(g) \in Nat /\ Len(g) >= Len(f)
  BY WrittenFile, RecordSizes
<1>2. FreeCells(A) \subseteq 0..(Len(g) - 1)
  <2>1. \A i \in FreeCells(A) : i \in 0..(Len(f) - 1)
    BY DEF FreeOK
  <2> HIDE DEF g
  <2>2. QED
    BY <1>1, <2>1
<1>3. ASSUME NEW p \in Nat, NEW d \in IntactAt(g, p) PROVE RecordCells(p, d) \cap FreeCells(A) = {}
  <2>1. CASE p = o /\ d = c
    BY <2>1
  <2>2. CASE d \in IntactAt(f, p)
    BY <2>2 DEF FreeOK
  <2>3. QED
    BY <1>3, <2>1, <2>2, WrittenMakesOne
<1>4. QED
  BY <1>2, <1>3 DEF FreeOK

\* An empty file that is padded.
LEMMA PaddedFile ==
    ASSUME StoreType, NEW tier \in Tiers
    PROVE  /\ Padded(tier) \in Seq(AnyCell) /\ Len(Padded(tier)) <= MaxFile
           /\ \A o \in Nat : IntactAt(Padded(tier), o) = IntactAt(files[tier], o)
           /\ FreeOK(freeLists[tier], files[tier]) => FreeOK(freeLists[tier], Padded(tier))
           /\ tier = 0 => Len(Padded(tier)) >= 1
           /\ files[tier] # <<>> => Padded(tier) = files[tier]
           /\ files[tier] = <<>> => Padded(tier) = (IF tier = 0 THEN <<Pad>> ELSE <<>>)
<1>1. files[tier] \in Seq(AnyCell) /\ Len(files[tier]) <= MaxFile /\ MaxFile \in Nat /\ MaxFile > 0
  BY ValueStoreAssumption DEF StoreType
<1>2. CASE tier = 0 /\ files[tier] = <<>>
  <2>1. Padded(tier) = <<Pad>>
    BY <1>2 DEF Padded
  <2>2. Pad \in AnyCell /\ Pad.of = {}
    BY DEF Pad, AnyCell
  <2>3. <<Pad>> \in Seq(AnyCell) /\ Len(<<Pad>>) = 1 /\ <<Pad>>[1] = Pad
    BY <2>2
  <2>4. ASSUME NEW o \in Nat PROVE IntactAt(<<Pad>>, o) = {}
    <3>1. CASE o >= 1
      BY <2>3, <3>1 DEF IntactAt
    <3>2. CASE o = 0
      BY <2>2, <2>3, <3>2 DEF IntactAt, CellAt
    <3>3. QED
      BY <3>1, <3>2
  <2>5. \A o \in Nat : IntactAt(files[tier], o) = {}
    BY <1>2 DEF IntactAt
  <2>6. ASSUME FreeOK(freeLists[tier], files[tier]) PROVE FreeOK(freeLists[tier], <<Pad>>)
    <3>1. FreeCells(freeLists[tier]) \subseteq 0..(0 - 1)
      BY <1>2, <2>6 DEF FreeOK
    <3>2. FreeCells(freeLists[tier]) \subseteq 0..(Len(<<Pad>>) - 1)
      BY <3>1
    <3>3. QED
      BY <2>4, <2>6, <3>2 DEF FreeOK
  <2>7. Len(Padded(tier)) <= MaxFile /\ Len(Padded(tier)) >= 1
    BY <1>1, <2>1, <2>3
  <2>8. \A o \in Nat : IntactAt(Padded(tier), o) = IntactAt(files[tier], o)
    BY <2>1, <2>4, <2>5
  <2>9. FreeOK(freeLists[tier], files[tier]) => FreeOK(freeLists[tier], Padded(tier))
    BY <2>1, <2>6
  <2>10. Padded(tier) \in Seq(AnyCell)
    BY <2>1, <2>3
  <2>11. QED
    BY <1>2, <2>1, <2>7, <2>8, <2>9, <2>10, Zenon
<1>3. CASE tier # 0 \/ files[tier] # <<>>
  <2>1. Padded(tier) = files[tier]
    BY <1>3 DEF Padded
  <2>2. tier = 0 => Len(files[tier]) >= 1
    BY <1>1, <1>3
  <2>3. QED
    BY <1>1, <1>3, <2>1, <2>2
<1>4. QED
  BY <1>2, <1>3

\* What Reuse does to a tier: its file keeps its length, and the record takes
\* the front of the first block that fits.
LEMMA ReusedSpace ==
    ASSUME NEW f \in Seq(AnyCell), NEW B, FreeOK(B, f), NEW c \in Contents, Fitting(B, SizeOf[c]) # {}
    PROVE  LET b == FirstFit(B, SizeOf[c]) IN
           /\ b.offset \in Nat /\ b.offset + SizeOf[c] <= Len(f)
           /\ RecordCells(b.offset, c) \subseteq FreeCells(B)
           /\ FreeOK(Allocated(B, b, SizeOf[c]), f)
           /\ FreeOK(Allocated(B, b, SizeOf[c]), Written(f, b.offset, c))
           /\ FreeCells(Allocated(B, b, SizeOf[c])) = FreeCells(B) \ RecordCells(b.offset, c)
           /\ Written(f, b.offset, c) \in Seq(AnyCell) /\ Len(Written(f, b.offset, c)) = Len(f)
<1> DEFINE b == FirstFit(B, SizeOf[c])
           A == Allocated(B, b, SizeOf[c])
<1>1. /\ SizeOf[c] \in Nat /\ SizeOf[c] >= 2 /\ Len(f) \in Nat
      /\ B \subseteq AnyBlock /\ Separate(B) /\ FreeCells(B) \subseteq 0..(Len(f) - 1)
  BY RecordSizes DEF FreeOK
<1>2. b \in B /\ b.size >= SizeOf[c]
  BY <1>1, FirstFitFits
<1> HIDE DEF b
<1>3. b.offset \in Nat
  BY <1>1, <1>2, BlockEnds
<1>4. /\ A \subseteq AnyBlock /\ Separate(A)
      /\ FreeCells(A) = FreeCells(B) \ RecordCells(b.offset, c)
      /\ RecordCells(b.offset, c) \subseteq FreeCells(B)
  BY <1>1, <1>2, AllocatedBlocks DEF RecordCells
<1>5. b.offset + SizeOf[c] <= Len(f)
  <2>1. b.offset + SizeOf[c] - 1 \in RecordCells(b.offset, c)
    BY <1>1, <1>3 DEF RecordCells
  <2>2. b.offset + SizeOf[c] - 1 \in 0..(Len(f) - 1)
    BY <1>1, <1>4, <2>1
  <2>3. QED
    BY <1>1, <1>3, <2>2
<1>6. b.offset <= Len(f)
  BY <1>1, <1>3, <1>5
<1> HIDE DEF A
<1>7. FreeOK(A, f)
  BY <1>4 DEF FreeOK
<1>8. FreeOK(A, Written(f, b.offset, c))
  BY <1>3, <1>4, <1>6, WrittenFree
<1>9. Written(f, b.offset, c) \in Seq(AnyCell) /\ Len(Written(f, b.offset, c)) = Len(f)
  BY <1>1, <1>3, <1>5, <1>6, WrittenFile
<1>10. QED
  BY <1>3, <1>4, <1>5, <1>7, <1>8, <1>9 DEF A, b

\* What AppendRecord does to a tier.
LEMMA AppendedSpace ==
    ASSUME NEW f \in Seq(AnyCell), NEW B, FreeOK(B, f), NEW c \in Contents
    PROVE  /\ FreeOK(B, Written(f, Len(f), c))
           /\ RecordCells(Len(f), c) \cap FreeCells(B) = {}
           /\ Written(f, Len(f), c) \in Seq(AnyCell)
           /\ Len(Written(f, Len(f), c)) = Len(f) + SizeOf[c]
<1>1. SizeOf[c] \in Nat /\ SizeOf[c] >= 2 /\ Len(f) \in Nat /\ Len(f) <= Len(f)
  BY RecordSizes
<1>2. RecordCells(Len(f), c) \cap FreeCells(B) = {}
  <2>1. \A i \in FreeCells(B) : i \in 0..(Len(f) - 1)
    BY DEF FreeOK
  <2>2. \A i \in RecordCells(Len(f), c) : i >= Len(f)
    BY <1>1 DEF RecordCells
  <2>3. QED
    BY <1>1, <2>1, <2>2
<1>3. FreeCells(B) = FreeCells(B) \ RecordCells(Len(f), c)
  BY <1>2
<1>4. B \subseteq AnyBlock /\ Separate(B)
  BY DEF FreeOK
<1>5. FreeOK(B, Written(f, Len(f), c))
  BY <1>1, <1>3, <1>4, WrittenFree
<1>6. Written(f, Len(f), c) \in Seq(AnyCell) /\ Len(Written(f, Len(f), c)) = Len(f) + SizeOf[c]
  BY <1>1, WrittenFile
<1>7. QED
  BY <1>2, <1>5, <1>6

\* What Tombstone does to a tier.
LEMMA TombstonedSpace ==
    ASSUME NEW f \in Seq(AnyCell), NEW B, FreeOK(B, f), NEW o \in Nat, NEW c \in IntactAt(f, o)
    PROVE  /\ FreeOK(AddBlock(B, o, SizeOf[c]), Tombstoned(f, o))
           /\ FreeCells(AddBlock(B, o, SizeOf[c])) = FreeCells(B) \cup RecordCells(o, c)
           /\ AddBlock(B, o, SizeOf[c]) \subseteq AnyBlock
<1> DEFINE g == Tombstoned(f, o)
           A == AddBlock(B, o, SizeOf[c])
           n == Len(f) - 1
<1>1. c \in Contents /\ o + SizeOf[c] <= Len(f)
  BY IntactCells
<1>2. SizeOf[c] \in Nat /\ SizeOf[c] >= 2 /\ Len(f) \in Nat
  BY <1>1, RecordSizes
<1>3. /\ B \subseteq AnyBlock /\ Separate(B) /\ FreeCells(B) \subseteq 0..n
      /\ RecordCells(o, c) \cap FreeCells(B) = {}
  BY DEF FreeOK
<1>4. n \in Nat /\ o + SizeOf[c] <= n + 1 /\ SizeOf[c] \in Nat \ {0}
  BY <1>1, <1>2
<1> HIDE DEF n
<1>5. /\ A \subseteq AnyBlock /\ Separate(A)
      /\ FreeCells(A) = FreeCells(B) \cup RecordCells(o, c)
  <2>1. RecordCells(o, c) = o..(o + SizeOf[c] - 1)
    BY DEF RecordCells
  <2>2. (o..(o + SizeOf[c] - 1)) \cap FreeCells(B) = {}
    BY <1>3, <2>1
  <2>3. /\ A \subseteq AnyBlock /\ Separate(A)
        /\ FreeCells(A) = FreeCells(B) \cup (o..(o + SizeOf[c] - 1))
    BY <1>3, <1>4, <2>2, AddedBlocks
  <2>4. QED
    BY <2>1, <2>3
<1> HIDE DEF A
<1>6. /\ Len(g) = Len(f) /\ IntactAt(g, o) = {}
      /\ \A p \in Nat : p # o => IntactAt(g, p) = IntactAt(f, p)
  BY TombstonedFile
<1> HIDE DEF g
<1>7. FreeCells(A) \subseteq 0..(Len(g) - 1)
  <2>1. RecordCells(o, c) \subseteq 0..(Len(g) - 1)
    BY <1>1, <1>2, <1>6 DEF RecordCells
  <2>2. FreeCells(B) \subseteq 0..(Len(g) - 1)
    BY <1>3, <1>6 DEF n
  <2>3. QED
    BY <1>5, <2>1, <2>2
<1>8. ASSUME NEW p \in Nat, NEW d \in IntactAt(g, p) PROVE RecordCells(p, d) \cap FreeCells(A) = {}
  <2>1. p # o /\ d \in IntactAt(f, p)
    BY <1>6, <1>8
  <2>2. RecordCells(p, d) \cap RecordCells(o, c) = {}
    BY <2>1, RecordsApart
  <2>3. RecordCells(p, d) \cap FreeCells(B) = {}
    BY <2>1 DEF FreeOK
  <2>4. QED
    BY <1>5, <2>2, <2>3
<1>9. FreeOK(A, g)
  BY <1>5, <1>7, <1>8 DEF FreeOK
<1>10. QED
  BY <1>5, <1>9 DEF A, g

\* References keep their type when a holder gets or drops one.
LEMMA RefTypes ==
    ASSUME StoreType, NEW h \in Holders
    PROVE  /\ Drop(h) => ref' \in [Holders -> [id : IDs, of : SUBSET Contents]]
           /\ \A c \in Contents, id \in IDs :
                 ref' = [ref EXCEPT ![h] = [id |-> id, of |-> {c}]]
                   => ref' \in [Holders -> [id : IDs, of : SUBSET Contents]]
<1>1. NoRef \in [id : IDs, of : SUBSET Contents]
  BY ZeroIsAnID DEF NoRef
<1>2. ref \in [Holders -> [id : IDs, of : SUBSET Contents]]
  BY DEF StoreType
<1>3. Drop(h) => ref' \in [Holders -> [id : IDs, of : SUBSET Contents]]
  BY <1>1, <1>2 DEF Drop
<1>4. ASSUME NEW c \in Contents, NEW id \in IDs,
             ref' = [ref EXCEPT ![h] = [id |-> id, of |-> {c}]]
      PROVE  ref' \in [Holders -> [id : IDs, of : SUBSET Contents]]
  <2>1. [id |-> id, of |-> {c}] \in [id : IDs, of : SUBSET Contents]
    OBVIOUS
  <2>2. QED
    BY <1>2, <1>4, <2>1
<1>5. QED
  BY <1>3, <1>4

\* A step that changes at most one tier.
LEMMA TierChange ==
    ASSUME FreeInv, NEW tier \in Tiers, NEW f \in Seq(AnyCell), Len(f) <= MaxFile,
           NEW B, FreeOK(B, f),
           files' = [files EXCEPT ![tier] = f], freeLists' = [freeLists EXCEPT ![tier] = B],
           hashToValueID' \in [Contents -> IDs],
           ref' \in [Holders -> [id : IDs, of : SUBSET Contents]]
    PROVE  FreeInv'
<1>1. B \subseteq AnyBlock
  BY DEF FreeOK
<1>2. files' \in [Tiers -> Seq(AnyCell)] /\ freeLists' \in [Tiers -> SUBSET AnyBlock]
  BY <1>1 DEF FreeInv, StoreType
<1>3. \A t \in Tiers : /\ files'[t] = IF t = tier THEN f ELSE files[t]
                       /\ freeLists'[t] = IF t = tier THEN B ELSE freeLists[t]
  BY DEF FreeInv, StoreType
<1>4. \A t \in Tiers : Len(files'[t]) <= MaxFile
  BY <1>3 DEF FreeInv, StoreType
<1>5. ASSUME NEW t \in Tiers PROVE FreeOK(freeLists[t], files[t])'
  <2>1. FreeOK(freeLists'[t], files'[t])
    BY <1>3 DEF FreeInv
  <2>2. QED
    BY <2>1 DEF FreeOK, IntactAt, CellAt, Cell, FreeCells, Separate, RecordCells, EndOf
<1>6. QED
  BY <1>2, <1>4, <1>5 DEF FreeInv, StoreType

\* A step that changes no file and no free list.
LEMMA NoTierChange ==
    ASSUME FreeInv, UNCHANGED <<files, freeLists>>,
           hashToValueID' \in [Contents -> IDs],
           ref' \in [Holders -> [id : IDs, of : SUBSET Contents]]
    PROVE  FreeInv'
<1>1. ASSUME NEW t \in Tiers PROVE FreeOK(freeLists[t], files[t])'
  <2>1. FreeOK(freeLists'[t], files'[t])
    BY DEF FreeInv
  <2>2. QED
    BY <2>1 DEF FreeOK, IntactAt, CellAt, Cell, FreeCells, Separate, RecordCells, EndOf
<1>2. QED
  BY <1>1 DEF FreeInv, StoreType

\* A content the hash map forgets, and the map rebuildHashMap makes.
LEMMA HashMapTypes ==
    ASSUME StoreType
    PROVE  /\ \A id : Forgotten(id) \in [Contents -> IDs]
           /\ Restart => hashToValueID' \in [Contents -> IDs]
<1>1. \A id : Forgotten(id) \in [Contents -> IDs]
  BY ZeroIsAnID DEF Forgotten, StoreType
<1>2. ASSUME Restart PROVE hashToValueID' \in [Contents -> IDs]
  <2> DEFINE ids(c) == {id \in ScannedIDs : c \in ReadValue(id)}
             best(c) == CHOOSE id \in ids(c) : \A j \in ids(c) : j <= id
  <2>1. Span \in Nat /\ ScanUnit \in Nat /\ ScanUnit > 0 /\ ScanDefault \in Nat
    BY ValueStoreAssumption
  <2>2. Len(files[3]) \in Nat
    BY DEF StoreType, Tiers
  <2>3. MaxValueID \in Nat
    <3> DEFINE len == Len(files[3])
               guess == len \div ScanUnit
    <3>1. len \in Int /\ ScanUnit \in Int
      BY <2>1, <2>2
    <3> HIDE DEF len
    <3>2. guess \in Int
      BY <3>1, <2>1
    <3> HIDE DEF guess
    <3>3. MaxValueID = IF guess > 0 THEN guess ELSE ScanDefault
      BY DEF MaxValueID, guess, len
    <3>4. QED
      BY <2>1, <3>2, <3>3
  <2>4. \A id \in ScannedIDs : id \in Nat /\ id < Span
    BY <2>1, <2>3 DEF ScannedIDs
  <2>5. \A id \in ScannedIDs : id \in IDs
    <3>1. TAKE id \in ScannedIDs
    <3>2. EncodeValueID(0, id) = id /\ 0 \in Tiers
      BY <2>1, <2>4 DEF EncodeValueID, Tiers
    <3>3. QED
      BY <2>4, <3>2, EncodedIDs
  <2>6. ASSUME NEW c \in Contents, ids(c) # {} PROVE best(c) \in IDs
    <3> DEFINE Room == {Span - id : id \in ids(c)}
    <3>1. Room \subseteq Nat /\ Room # {}
      BY <2>1, <2>4, <2>6
    <3>2. PICK m \in Room : \A j \in Room : m <= j
      BY <3>1, SmallestExists
    <3>3. PICK top \in ids(c) : m = Span - top
      BY <3>2
    <3>4. ASSUME NEW j \in ids(c) PROVE j <= top
      <4>1. Span - top <= Span - j
        BY <3>2, <3>3
      <4>2. QED
        BY <2>1, <2>4, <4>1
    <3>5. \E id \in ids(c) : \A j \in ids(c) : j <= id
      BY <3>4
    <3>6. best(c) \in ids(c)
      BY <3>5
    <3>7. QED
      BY <2>5, <3>6
  <2>7. hashToValueID' = [c \in Contents |-> IF ids(c) = {} THEN 0 ELSE best(c)]
    BY <1>2 DEF Restart
  <2> HIDE DEF ids, best
  <2>8. QED
    BY <2>6, <2>7, ZeroIsAnID
<1>3. QED
  BY <1>1, <1>2

\* FreeInv holds at first, and every step but a defragmentation keeps it.
LEMMA FreeInvInductive ==
    /\ Init => FreeInv
    /\ FreeInv /\ [Next]_vars => FreeInv' \/ Defragment \/ DefragmentMisled
<1>1. ASSUME Init PROVE FreeInv
  <2>1. StoreType
    <3>1. NoRef \in [id : IDs, of : SUBSET Contents]
      BY ZeroIsAnID DEF NoRef
    <3>2. <<>> \in Seq(AnyCell) /\ Len(<<>>) <= MaxFile
      BY ValueStoreAssumption
    <3>3. QED
      BY <1>1, <3>1, <3>2, ZeroIsAnID DEF Init, StoreType
  <2>2. ASSUME NEW tier \in Tiers PROVE FreeOK(freeLists[tier], files[tier])
    <3>1. freeLists[tier] = {} /\ files[tier] = <<>>
      BY <1>1 DEF Init
    <3>2. \A o \in Nat : IntactAt(files[tier], o) = {}
      BY <3>1 DEF IntactAt
    <3>3. FreeCells(freeLists[tier]) = {}
      BY <3>1 DEF FreeCells
    <3>4. QED
      BY <3>1, <3>2, <3>3 DEF FreeOK, Separate
  <2>3. QED
    BY <2>1, <2>2 DEF FreeInv
<1>2. ASSUME FreeInv, NEW h \in Holders, NEW c \in Contents, Deduplicate(h, c) PROVE FreeInv'
  <2>1. hashToValueID[c] \in IDs /\ StoreType
    BY <1>2 DEF FreeInv, StoreType
  <2>2. hashToValueID' \in [Contents -> IDs]
    BY <1>2, <2>1 DEF Deduplicate, StoreType
  <2>3. ref' \in [Holders -> [id : IDs, of : SUBSET Contents]]
    BY <1>2, <2>1, RefTypes DEF Deduplicate
  <2>4. QED
    BY <1>2, <2>2, <2>3, NoTierChange DEF Deduplicate
<1>3. ASSUME FreeInv, NEW h \in Holders, NEW c \in Contents, NEW o \in Nat, o < Span,
             Enter(h, c, EncodeValueID(TierOf[c], o))
      PROVE  /\ hashToValueID' \in [Contents -> IDs]
             /\ ref' \in [Holders -> [id : IDs, of : SUBSET Contents]]
  <2>1. EncodeValueID(TierOf[c], o) \in IDs /\ StoreType
    BY <1>3, RecordSizes, EncodedIDs DEF FreeInv
  <2>2. hashToValueID' \in [Contents -> IDs]
    BY <1>3, <2>1 DEF Enter, StoreType
  <2>3. QED
    BY <1>3, <2>1, <2>2, RefTypes DEF Enter
<1>4. ASSUME FreeInv, NEW h \in Holders, NEW c \in Contents, Reuse(h, c) PROVE FreeInv'
  <2> DEFINE tier == TierOf[c]
             f == files[tier]
             B == freeLists[tier]
             b == FirstFit(B, SizeOf[c])
             A == Allocated(B, b, SizeOf[c])
             g == Written(f, b.offset, c)
  <2>1. /\ Fitting(B, SizeOf[c]) # {} /\ Enter(h, c, EncodeValueID(tier, b.offset))
        /\ freeLists' = [freeLists EXCEPT ![tier] = A] /\ files' = [files EXCEPT ![tier] = g]
    BY <1>4 DEF Reuse
  <2>2. tier \in Tiers /\ f \in Seq(AnyCell) /\ FreeOK(B, f) /\ Len(f) <= MaxFile
    BY <1>4, RecordSizes DEF FreeInv, StoreType
  <2>3. /\ b.offset \in Nat /\ b.offset + SizeOf[c] <= Len(f) /\ FreeOK(A, g)
        /\ g \in Seq(AnyCell) /\ Len(g) = Len(f)
    BY <2>1, <2>2, ReusedSpace
  <2>4. b.offset < Span
    <3>1. SizeOf[c] \in Nat /\ MaxFile \in Nat /\ Span \in Nat /\ MaxFile < Span /\ Len(f) \in Nat
      BY <2>2, RecordSizes, ValueStoreAssumption
    <3>2. QED
      BY <2>2, <2>3, <3>1
  <2> HIDE DEF b, A, g, B, f
  <2>5. /\ hashToValueID' \in [Contents -> IDs]
        /\ ref' \in [Holders -> [id : IDs, of : SUBSET Contents]]
    BY <1>3, <1>4, <2>1, <2>3, <2>4
  <2>6. Len(g) <= MaxFile
    BY <2>2, <2>3
  <2>7. QED
    BY <1>4, <2>1, <2>2, <2>3, <2>5, <2>6, TierChange
<1>5. ASSUME FreeInv, NEW h \in Holders, NEW c \in Contents, AppendRecord(h, c) PROVE FreeInv'
  <2> DEFINE tier == TierOf[c]
             f == Padded(tier)
             B == freeLists[tier]
             g == Written(f, Len(f), c)
  <2>1. /\ Enter(h, c, EncodeValueID(tier, Len(f))) /\ Len(f) + SizeOf[c] <= MaxFile
        /\ freeLists' = freeLists /\ files' = [files EXCEPT ![tier] = g]
    BY <1>5 DEF AppendRecord
  <2>2. tier \in Tiers /\ FreeOK(B, files[tier]) /\ StoreType
    BY <1>5, RecordSizes DEF FreeInv
  <2>3. f \in Seq(AnyCell) /\ FreeOK(B, f)
    BY <2>2, PaddedFile
  <2>4. FreeOK(B, g) /\ g \in Seq(AnyCell) /\ Len(g) = Len(f) + SizeOf[c]
    BY <2>3, AppendedSpace
  <2>5. Len(f) \in Nat /\ Len(f) < Span
    <3>1. SizeOf[c] \in Nat /\ MaxFile \in Nat /\ Span \in Nat /\ MaxFile < Span /\ Len(f) \in Nat
      BY <2>3, RecordSizes, ValueStoreAssumption
    <3>2. QED
      BY <2>1, <3>1
  <2>6. freeLists' = [freeLists EXCEPT ![tier] = B]
    BY <2>1, <2>2 DEF StoreType
  <2> HIDE DEF g, f, B
  <2>7. /\ hashToValueID' \in [Contents -> IDs]
        /\ ref' \in [Holders -> [id : IDs, of : SUBSET Contents]]
    BY <1>3, <1>5, <2>1, <2>5
  <2>8. Len(g) <= MaxFile
    BY <2>1, <2>4
  <2>9. QED
    BY <1>5, <2>1, <2>2, <2>4, <2>6, <2>7, <2>8, TierChange
<1>6. ASSUME FreeInv, NEW c \in Contents, WriteFails(c) PROVE FreeInv'
  <2> DEFINE tier == TierOf[c]
             f == files[tier]
             B == freeLists[tier]
             A == Allocated(B, FirstFit(B, SizeOf[c]), SizeOf[c])
  <2>1. /\ hashToValueID' = hashToValueID /\ ref' = ref
        /\ \/ /\ Fitting(B, SizeOf[c]) # {} /\ files' = files
              /\ freeLists' = [freeLists EXCEPT ![tier] = A]
           \/ files' = [files EXCEPT ![tier] = Padded(tier)] /\ freeLists' = freeLists
    BY <1>6 DEF WriteFails
  <2>2. tier \in Tiers /\ FreeOK(B, f) /\ f \in Seq(AnyCell) /\ Len(f) <= MaxFile /\ StoreType
    BY <1>6, RecordSizes DEF FreeInv, StoreType
  <2>3. /\ hashToValueID' \in [Contents -> IDs]
        /\ ref' \in [Holders -> [id : IDs, of : SUBSET Contents]]
    BY <2>1, <2>2 DEF StoreType
  <2>4. /\ files = [files EXCEPT ![tier] = f] /\ freeLists = [freeLists EXCEPT ![tier] = B]
    BY <2>2 DEF StoreType
  <2>5. CASE /\ Fitting(B, SizeOf[c]) # {} /\ files' = files
             /\ freeLists' = [freeLists EXCEPT ![tier] = A]
    <3>1. FreeOK(A, f)
      BY <2>2, <2>5, ReusedSpace
    <3> HIDE DEF A, f, B
    <3>2. QED
      BY <1>6, <2>2, <2>3, <2>4, <2>5, <3>1, TierChange
  <2>6. CASE files' = [files EXCEPT ![tier] = Padded(tier)] /\ freeLists' = freeLists
    <3>1. Padded(tier) \in Seq(AnyCell) /\ Len(Padded(tier)) <= MaxFile /\ FreeOK(B, Padded(tier))
      BY <2>2, PaddedFile
    <3> HIDE DEF A, f, B
    <3>2. QED
      BY <1>6, <2>2, <2>3, <2>4, <2>6, <3>1, TierChange
  <2>7. QED
    BY <2>1, <2>5, <2>6
<1>7. ASSUME FreeInv, NEW h \in Holders, Release(h) \/ TombstoneRefused(h) \/ TombstoneFails(h)
      PROVE  FreeInv'
  <2>1. /\ UNCHANGED <<files, freeLists>> /\ Drop(h)
        /\ hashToValueID' \in {hashToValueID, Forgotten(ref[h].id)}
    BY <1>7 DEF Release, TombstoneRefused, TombstoneFails
  <2>2. StoreType
    BY <1>7 DEF FreeInv
  <2>3. hashToValueID' \in [Contents -> IDs]
    BY <2>1, <2>2, HashMapTypes DEF StoreType
  <2>4. ref' \in [Holders -> [id : IDs, of : SUBSET Contents]]
    BY <2>1, <2>2, RefTypes
  <2>5. QED
    BY <1>7, <2>1, <2>3, <2>4, NoTierChange
<1>8. ASSUME FreeInv, NEW h \in Holders, Tombstone(h) \/ TombstoneUnhashed(h) PROVE FreeInv'
  <2> DEFINE id == ref[h].id
             tier == ExtractTier(id)
             o == ExtractOffset(id)
             f == files[tier]
             B == freeLists[tier]
  <2>0. Freed(h) /\ hashToValueID' \in {hashToValueID, Forgotten(id)}
    BY <1>8 DEF Tombstone, TombstoneUnhashed
  <2>1. Drop(h) /\ files' = [files EXCEPT ![tier] = Tombstoned(f, o)]
    BY <2>0 DEF Freed
  <2>2. PICK c \in ReadValue(id) : freeLists' = [freeLists EXCEPT ![tier] = AddBlock(B, o, SizeOf[c])]
    BY <2>0 DEF Freed
  <2>3. id \in IDs /\ StoreType
    BY <1>8 DEF FreeInv, StoreType
  <2>4. tier \in Tiers /\ o \in Nat
    BY <2>3, IDParts
  <2>5. f \in Seq(AnyCell) /\ Len(f) <= MaxFile /\ FreeOK(B, f) /\ c \in IntactAt(f, o)
    BY <1>8, <2>2, <2>4 DEF FreeInv, StoreType, ReadValue
  <2>6. FreeOK(AddBlock(B, o, SizeOf[c]), Tombstoned(f, o))
    BY <2>4, <2>5, TombstonedSpace
  <2>7. Tombstoned(f, o) \in Seq(AnyCell) /\ Len(Tombstoned(f, o)) = Len(f)
    BY <2>4, <2>5, TombstonedFile
  <2>8. hashToValueID' \in [Contents -> IDs]
    BY <2>0, <2>3, HashMapTypes DEF StoreType
  <2>9. ref' \in [Holders -> [id : IDs, of : SUBSET Contents]]
    BY <2>1, <2>3, RefTypes
  <2>10. Len(Tombstoned(f, o)) <= MaxFile
    BY <2>5, <2>7
  <2> HIDE DEF f, B, o, tier
  <2>11. QED
    BY <1>8, <2>1, <2>2, <2>4, <2>6, <2>7, <2>8, <2>9, <2>10, TierChange
<1>9. ASSUME FreeInv, Restart PROVE FreeInv'
  <2>1. files' = files /\ ref' = ref /\ freeLists' = [tier \in Tiers |-> {}] /\ StoreType
    BY <1>9 DEF Restart, FreeInv
  <2>2. hashToValueID' \in [Contents -> IDs]
    BY <1>9, <2>1, HashMapTypes
  <2>3. StoreType'
    BY <2>1, <2>2 DEF StoreType
  <2>4. ASSUME NEW tier \in Tiers PROVE FreeOK(freeLists[tier], files[tier])'
    <3>1. freeLists'[tier] = {}
      BY <2>1
    <3>2. FreeCells(freeLists'[tier]) = {}
      BY <3>1 DEF FreeCells
    <3>3. FreeOK(freeLists'[tier], files'[tier])
      BY <3>1, <3>2 DEF FreeOK, Separate
    <3>4. QED
      BY <3>3 DEF FreeOK, IntactAt, CellAt, Cell, FreeCells, Separate, RecordCells, EndOf
  <2>5. QED
    BY <2>3, <2>4 DEF FreeInv
<1>10. ASSUME FreeInv, UNCHANGED vars PROVE FreeInv'
  BY <1>10, NoTierChange DEF vars, FreeInv, StoreType
<1>11. QED
  BY <1>1, <1>2, <1>4, <1>5, <1>6, <1>7, <1>8, <1>9, <1>10 DEF Next

\* Upsets are never forgotten.
LEMMA UpsetsStay == [Next]_vars => upsets \subseteq upsets'
<1>1. \A k : Upset(k) => upsets \subseteq upsets'
  BY DEF Upset
<1>2. ASSUME NEW h \in Holders, NEW c \in Contents,
             Deduplicate(h, c) \/ Reuse(h, c) \/ AppendRecord(h, c)
      PROVE  upsets' = upsets
  BY <1>2 DEF Deduplicate, Reuse, AppendRecord
<1>3. ASSUME NEW h \in Holders, Release(h) \/ Tombstone(h) \/ TombstoneRefused(h)
      PROVE  upsets' = upsets
  BY <1>3 DEF Release, Tombstone, TombstoneRefused
<1>4. ASSUME NEW h \in Holders, TombstoneFails(h) \/ TombstoneUnhashed(h)
      PROVE  Upset("fault") \/ Upset("misread")
  BY <1>4 DEF TombstoneFails, TombstoneUnhashed
<1>5. ASSUME NEW c \in Contents, WriteFails(c) PROVE Upset("fault")
  BY <1>5 DEF WriteFails
<1>6. Restart => Upset("restart")
  BY DEF Restart
<1>7. Defragment \/ DefragmentMisled => Upset("defragment") \/ Upset("misled")
  BY DEF Defragment, DefragmentMisled
<1>8. UNCHANGED vars => upsets' = upsets
  BY DEF vars
<1>9. QED
  BY <1>1, <1>2, <1>3, <1>4, <1>5, <1>6, <1>7, <1>8 DEF Next

-----------------------------------------------------------------------------
(* Whole records: what a scan of a file finds, and what writes preserve.   *)

\* The content whose tombstoned record, its body untouched, is at an offset.
TombAt(f, o) ==
    {c \in Contents :
        /\ o + SizeOf[c] <= Len(f)
        /\ f[o + 1] = [mark |-> "tomb", of |-> {c}, at |-> 1]
        /\ \A k \in 2..SizeOf[c] : f[o + k] = Cell(c, k)}

\* Every sentinel of a file begins a whole record.
ValuesWhole(f) == \A o \in Nat : o < Len(f) /\ f[o + 1].mark = "value" => IntactAt(f, o) # {}

TombsWhole(f) == \A o \in Nat : o < Len(f) /\ f[o + 1].mark = "tomb" => TombAt(f, o) # {}

\* No free block begins inside a tombstoned record.
Uncut(B, f) ==
    \A b \in B : \A o \in Nat : \A c \in TombAt(f, o) : b.offset <= o \/ o + SizeOf[c] <= b.offset

\* The cells of a record, marked or not, know their place in it.
LEMMA RecordPlaces ==
    ASSUME NEW f \in Seq(AnyCell), NEW o \in Nat, NEW c \in IntactAt(f, o) \cup TombAt(f, o)
    PROVE  /\ c \in Contents /\ SizeOf[c] \in Nat /\ SizeOf[c] >= 2 /\ o + SizeOf[c] <= Len(f)
           /\ \A i \in RecordCells(o, c) : i \in Nat /\ f[i + 1].at = i - o + 1
<1>1. c \in Contents /\ o + SizeOf[c] <= Len(f)
  BY IntactCells DEF TombAt
<1>2. SizeOf[c] \in Nat /\ SizeOf[c] >= 2
  BY <1>1, RecordSizes
<1>3. ASSUME NEW k \in 1..SizeOf[c] PROVE f[o + k].at = k
  <2>1. Cell(c, k).at = k
    BY DEF Cell
  <2>2. CASE c \in IntactAt(f, o)
    <3>1. f[o + k] = Cell(c, k)
      BY <2>2, IntactCells
    <3>2. QED
      BY <2>1, <3>1
  <2>3. CASE c \in TombAt(f, o) /\ k = 1
    <3>1. f[o + 1] = [mark |-> "tomb", of |-> {c}, at |-> 1]
      BY <2>3 DEF TombAt
    <3>2. QED
      BY <2>3, <3>1
  <2>4. CASE c \in TombAt(f, o) /\ k # 1
    <3>1. k \in 2..SizeOf[c]
      BY <1>2, <2>4
    <3>2. f[o + k] = Cell(c, k)
      BY <2>4, <3>1 DEF TombAt
    <3>3. QED
      BY <2>1, <3>2
  <2>5. QED
    BY <2>2, <2>3, <2>4
<1>4. ASSUME NEW i \in RecordCells(o, c) PROVE i \in Nat /\ f[i + 1].at = i - o + 1
  <2>1. i \in Nat /\ i - o + 1 \in 1..SizeOf[c] /\ o + (i - o + 1) = i + 1
    BY <1>2 DEF RecordCells
  <2>2. f[o + (i - o + 1)].at = i - o + 1
    BY <1>3, <2>1
  <2>3. QED
    BY <2>1, <2>2
<1>5. QED
  BY <1>1, <1>2, <1>4

\* Two records of a file, marked or not, share no cell.
LEMMA MarkedApart ==
    ASSUME NEW f \in Seq(AnyCell), NEW o \in Nat, NEW p \in Nat,
           NEW c \in IntactAt(f, o) \cup TombAt(f, o), NEW d \in IntactAt(f, p) \cup TombAt(f, p),
           NEW i \in RecordCells(o, c), i \in RecordCells(p, d)
    PROVE  o = p
<1>1. i \in Nat /\ f[i + 1].at = i - o + 1
  BY RecordPlaces
<1>2. f[i + 1].at = i - p + 1
  BY RecordPlaces
<1>3. QED
  BY <1>1, <1>2

\* A record is marked or not.
LEMMA TombIsDead ==
    ASSUME NEW f \in Seq(AnyCell), NEW o \in Nat, NEW c \in TombAt(f, o)
    PROVE  IntactAt(f, o) = {} /\ TombAt(f, o) = {c}
<1>1. f[o + 1] = [mark |-> "tomb", of |-> {c}, at |-> 1]
  BY DEF TombAt
<1>2. \A d \in IntactAt(f, o) : FALSE
  <2>1. SUFFICES ASSUME NEW d \in IntactAt(f, o) PROVE FALSE
    OBVIOUS
  <2>2. d \in Contents /\ \A k \in 1..SizeOf[d] : f[o + k] = Cell(d, k)
    BY IntactCells
  <2>3. f[o + 1] = Cell(d, 1)
    BY <2>2, RecordSizes
  <2>4. Cell(d, 1).mark = "value"
    BY DEF Cell
  <2>5. QED
    BY <1>1, <2>3, <2>4
<1>3. \A d \in TombAt(f, o) : d = c
  <2>1. SUFFICES ASSUME NEW d \in TombAt(f, o) PROVE d = c
    OBVIOUS
  <2>2. f[o + 1] = [mark |-> "tomb", of |-> {d}, at |-> 1]
    BY DEF TombAt
  <2>3. f[o + 1].of = {c}
    BY <1>1
  <2>4. f[o + 1].of = {d}
    BY <2>2
  <2>5. QED
    BY <2>3, <2>4
<1>4. QED
  BY <1>2, <1>3

\* A record written over no other one leaves every value whole.
LEMMA WrittenValuesWhole ==
    ASSUME NEW f \in Seq(AnyCell), NEW o \in Nat, o <= Len(f), NEW c \in Contents, ValuesWhole(f),
           \A p \in Nat : \A d \in IntactAt(f, p) : RecordCells(p, d) \cap RecordCells(o, c) = {}
    PROVE  ValuesWhole(Written(f, o, c))
<1> DEFINE g == Written(f, o, c)
<1>1. /\ SizeOf[c] \in Nat /\ Len(f) \in Nat /\ g \in Seq(AnyCell)
      /\ Len(g) = IF o + SizeOf[c] > Len(f) THEN o + SizeOf[c] ELSE Len(f)
      /\ \A i \in 1..Len(g) : g[i] = IF i \in (o + 1)..(o + SizeOf[c])
                                     THEN Cell(c, i - o) ELSE f[i]
  BY WrittenFile, RecordSizes
<1>2. c \in IntactAt(g, o)
  BY WrittenReadsBack
<1>3. \A p \in Nat : \A d \in IntactAt(f, p) : d \in IntactAt(g, p)
  BY WrittenKeepsOthers
<1> HIDE DEF g
<1>4. SUFFICES ASSUME NEW p \in Nat, p < Len(g), g[p + 1].mark = "value" PROVE IntactAt(g, p) # {}
  BY DEF ValuesWhole, g
<1>5. p + 1 \in 1..Len(g)
  BY <1>1, <1>4
<1>6. CASE p + 1 \in (o + 1)..(o + SizeOf[c])
  <2>1. g[p + 1] = Cell(c, p + 1 - o)
    BY <1>1, <1>5, <1>6
  <2>2. Cell(c, p + 1 - o).mark = "value" => p + 1 - o = 1
    BY DEF Cell
  <2>3. p = o
    BY <1>4, <2>1, <2>2
  <2>4. QED
    BY <1>2, <2>3
<1>7. CASE p + 1 \notin (o + 1)..(o + SizeOf[c])
  <2>1. g[p + 1] = f[p + 1] /\ p < Len(f)
    BY <1>1, <1>5, <1>7
  <2>2. IntactAt(f, p) # {}
    BY <1>4, <2>1 DEF ValuesWhole
  <2>3. QED
    BY <1>3, <2>2
<1>8. QED
  BY <1>6, <1>7

\* A record whose front cuts no tombstoned one leaves the others whole: those
\* it does not touch.
LEMMA WrittenTombsWhole ==
    ASSUME NEW f \in Seq(AnyCell), NEW o \in Nat, o <= Len(f), NEW c \in Contents, TombsWhole(f),
           \A p \in Nat : \A d \in TombAt(f, p) : o <= p \/ p + SizeOf[d] <= o
    PROVE  /\ TombsWhole(Written(f, o, c))
           /\ \A p \in Nat : \A d \in TombAt(Written(f, o, c), p) :
                 d \in TombAt(f, p) /\ (o + SizeOf[c] <= p \/ p + SizeOf[d] <= o)
<1> DEFINE g == Written(f, o, c)
<1>1. /\ SizeOf[c] \in Nat /\ SizeOf[c] >= 2 /\ Len(f) \in Nat /\ g \in Seq(AnyCell) /\ Len(g) \in Nat
      /\ Len(g) = IF o + SizeOf[c] > Len(f) THEN o + SizeOf[c] ELSE Len(f)
      /\ \A i \in 1..Len(g) : g[i] = IF i \in (o + 1)..(o + SizeOf[c])
                                     THEN Cell(c, i - o) ELSE f[i]
  BY WrittenFile, RecordSizes
<1> HIDE DEF g
<1>2. ASSUME NEW p \in Nat, p < Len(g), g[p + 1].mark = "tomb"
      PROVE  \E d \in TombAt(f, p) :
                /\ d \in TombAt(g, p)
                /\ o + SizeOf[c] <= p \/ p + SizeOf[d] <= o
  <2>1. p + 1 \in 1..Len(g)
    BY <1>1, <1>2
  <2>2. p + 1 \notin (o + 1)..(o + SizeOf[c])
    <3>1. ASSUME p + 1 \in (o + 1)..(o + SizeOf[c]) PROVE FALSE
      <4>1. g[p + 1] = Cell(c, p + 1 - o)
        BY <1>1, <2>1, <3>1
      <4>2. Cell(c, p + 1 - o).mark # "tomb"
        BY DEF Cell
      <4>3. QED
        BY <1>2, <4>1, <4>2
    <3>2. QED
      BY <3>1
  <2>3. g[p + 1] = f[p + 1] /\ p < Len(f)
    BY <1>1, <2>1, <2>2
  <2>4. TombAt(f, p) # {}
    BY <1>2, <2>3 DEF TombsWhole
  <2>5. PICK d \in TombAt(f, p) : TRUE
    BY <2>4
  <2>6. /\ d \in Contents /\ SizeOf[d] \in Nat /\ SizeOf[d] >= 2 /\ p + SizeOf[d] <= Len(f)
    BY RecordPlaces
  <2>7. o + SizeOf[c] <= p \/ p + SizeOf[d] <= o
    <3>1. o <= p \/ p + SizeOf[d] <= o
      OBVIOUS
    <3>2. QED
      BY <1>1, <2>2, <2>6, <3>1
  <2>8. ASSUME NEW k \in 1..SizeOf[d] PROVE g[p + k] = f[p + k]
    <3>1. p + k \in 1..Len(g) /\ p + k \notin (o + 1)..(o + SizeOf[c])
      BY <1>1, <2>6, <2>7
    <3>2. QED
      BY <1>1, <3>1
  <2>9. d \in TombAt(g, p)
    <3>1. g[p + 1] = [mark |-> "tomb", of |-> {d}, at |-> 1]
      BY <2>3 DEF TombAt
    <3>2. ASSUME NEW k \in 2..SizeOf[d] PROVE g[p + k] = Cell(d, k)
      <4>1. k \in 1..SizeOf[d]
        BY <2>6
      <4>2. f[p + k] = Cell(d, k)
        BY DEF TombAt
      <4>3. QED
        BY <2>8, <4>1, <4>2
    <3>3. p + SizeOf[d] <= Len(g)
      BY <1>1, <2>6
    <3>4. QED
      BY <2>6, <3>1, <3>2, <3>3 DEF TombAt
  <2>10. QED
    BY <2>7, <2>9
<1>3. TombsWhole(g)
  BY <1>2 DEF TombsWhole
<1>4. ASSUME NEW p \in Nat, NEW d \in TombAt(g, p)
      PROVE  d \in TombAt(f, p) /\ (o + SizeOf[c] <= p \/ p + SizeOf[d] <= o)
  <2>1. /\ d \in Contents /\ SizeOf[d] \in Nat /\ SizeOf[d] >= 2 /\ p + SizeOf[d] <= Len(g)
    BY <1>1, RecordPlaces
  <2>2. p < Len(g) /\ g[p + 1].mark = "tomb"
    <3>1. g[p + 1] = [mark |-> "tomb", of |-> {d}, at |-> 1]
      BY <1>4 DEF TombAt
    <3>2. Len(g) \in Nat
      BY <1>1
    <3>3. p < Len(g)
      BY <2>1, <3>2
    <3>4. QED
      BY <3>1, <3>3
  <2>3. PICK e \in TombAt(f, p) : /\ e \in TombAt(g, p)
                                  /\ o + SizeOf[c] <= p \/ p + SizeOf[e] <= o
    BY <1>2, <2>2
  <2>4. e = d
    BY <1>1, <2>3, TombIsDead
  <2>5. QED
    BY <2>3, <2>4
<1>5. QED
  BY <1>3, <1>4 DEF g

\* Reuse leaves every record whole, tombstoned or not: it takes the front of
\* a block, so a tombstone whose body it overwrites is overwritten itself.
LEMMA ReusedWhole ==
    ASSUME NEW f \in Seq(AnyCell), NEW B, FreeOK(B, f), NEW c \in Contents, Fitting(B, SizeOf[c]) # {}
    PROVE  LET b == FirstFit(B, SizeOf[c])
               g == Written(f, b.offset, c)
           IN  /\ ValuesWhole(f) => ValuesWhole(g)
               /\ TombsWhole(f) /\ Uncut(B, f) => TombsWhole(g) /\ Uncut(Allocated(B, b, SizeOf[c]), g)
<1> DEFINE b == FirstFit(B, SizeOf[c])
           A == Allocated(B, b, SizeOf[c])
           g == Written(f, b.offset, c)
<1>1. /\ SizeOf[c] \in Nat /\ SizeOf[c] >= 2 /\ Len(f) \in Nat /\ B \subseteq AnyBlock
  BY RecordSizes DEF FreeOK
<1>2. b \in B /\ b.size >= SizeOf[c]
  BY <1>1, FirstFitFits
<1>3. /\ b.offset \in Nat /\ b.offset + SizeOf[c] <= Len(f)
      /\ RecordCells(b.offset, c) \subseteq FreeCells(B)
  BY ReusedSpace
<1>4. A = IF b.size = SizeOf[c] THEN B \ {b}
          ELSE (B \ {b}) \cup {Block(b.offset + SizeOf[c], b.size - SizeOf[c])}
  BY DEF Allocated
<1> HIDE DEF b
<1>5. b.offset <= Len(f)
  BY <1>1, <1>3
<1>6. ASSUME ValuesWhole(f) PROVE ValuesWhole(g)
  <2>1. \A p \in Nat : \A d \in IntactAt(f, p) : RecordCells(p, d) \cap RecordCells(b.offset, c) = {}
    BY <1>3 DEF FreeOK
  <2>2. QED
    BY <1>3, <1>5, <1>6, <2>1, WrittenValuesWhole
<1>7. ASSUME TombsWhole(f), Uncut(B, f) PROVE TombsWhole(g) /\ Uncut(A, g)
  <2>1. \A p \in Nat : \A d \in TombAt(f, p) : b.offset <= p \/ p + SizeOf[d] <= b.offset
    BY <1>2, <1>7 DEF Uncut
  <2>2. /\ TombsWhole(g)
        /\ \A p \in Nat : \A d \in TombAt(g, p) :
              d \in TombAt(f, p) /\ (b.offset + SizeOf[c] <= p \/ p + SizeOf[d] <= b.offset)
    BY <1>3, <1>5, <1>7, <2>1, WrittenTombsWhole
  <2>3. ASSUME NEW x \in A, NEW p \in Nat, NEW d \in TombAt(g, p)
        PROVE  x.offset <= p \/ p + SizeOf[d] <= x.offset
    <3>1. d \in TombAt(f, p) /\ (b.offset + SizeOf[c] <= p \/ p + SizeOf[d] <= b.offset)
      BY <2>2
    <3>2. SizeOf[d] \in Nat
      BY <3>1, RecordPlaces
    <3> HIDE DEF g
    <3>3. CASE x \in B
      BY <1>7, <3>1, <3>3 DEF Uncut
    <3>4. CASE x \notin B
      <4>1. x = Block(b.offset + SizeOf[c], b.size - SizeOf[c])
        BY <1>4, <3>4
      <4>2. x.offset = b.offset + SizeOf[c]
        BY <4>1 DEF Block
      <4>3. QED
        BY <1>1, <1>3, <3>1, <3>2, <4>2
    <3>5. QED
      BY <3>3, <3>4
  <2>4. QED
    BY <2>2, <2>3 DEF Uncut
<1>8. QED
  BY <1>6, <1>7 DEF b

\* So does AppendRecord.
LEMMA AppendedWhole ==
    ASSUME NEW f \in Seq(AnyCell), NEW B, FreeOK(B, f), NEW c \in Contents
    PROVE  LET g == Written(f, Len(f), c)
           IN  /\ ValuesWhole(f) => ValuesWhole(g)
               /\ TombsWhole(f) /\ Uncut(B, f) => TombsWhole(g) /\ Uncut(B, g)
<1> DEFINE g == Written(f, Len(f), c)
<1>1. SizeOf[c] \in Nat /\ Len(f) \in Nat /\ Len(f) <= Len(f)
  BY RecordSizes
<1>2. ASSUME ValuesWhole(f) PROVE ValuesWhole(g)
  <2>1. ASSUME NEW p \in Nat, NEW d \in IntactAt(f, p)
        PROVE  RecordCells(p, d) \cap RecordCells(Len(f), c) = {}
    <3>1. SizeOf[d] \in Nat /\ p + SizeOf[d] <= Len(f)
      BY RecordPlaces
    <3>2. QED
      BY <1>1, <3>1 DEF RecordCells
  <2>2. QED
    BY <1>1, <1>2, <2>1, WrittenValuesWhole
<1>3. ASSUME TombsWhole(f), Uncut(B, f) PROVE TombsWhole(g) /\ Uncut(B, g)
  <2>1. \A p \in Nat : \A d \in TombAt(f, p) : Len(f) <= p \/ p + SizeOf[d] <= Len(f)
    BY RecordPlaces
  <2>2. TombsWhole(g) /\ \A p \in Nat : \A d \in TombAt(g, p) : d \in TombAt(f, p)
    BY <1>1, <1>3, <2>1, WrittenTombsWhole
  <2>3. QED
    BY <1>3, <2>2 DEF Uncut
<1>4. QED
  BY <1>2, <1>3

\* A coalesced block begins where one of the blocks did.
LEMMA CoalescedStarts ==
    ASSUME NEW B, NEW b \in CoalesceBlocks(B)
    PROVE  \E x \in B : b.offset = x.offset
<1>1. PICK x \in B : b = Block(x.offset, EndOf(LastOfRun(B, x)) - x.offset)
  BY DEF CoalesceBlocks
<1>2. b.offset = x.offset
  BY <1>1 DEF Block
<1>3. QED
  BY <1>2

\* A tombstone leaves every record whole, the one it marks included.
LEMMA TombstonedWhole ==
    ASSUME NEW f \in Seq(AnyCell), NEW B, FreeOK(B, f), NEW o \in Nat, NEW c \in IntactAt(f, o)
    PROVE  LET g == Tombstoned(f, o)
           IN  /\ ValuesWhole(f) => ValuesWhole(g)
               /\ TombsWhole(f) /\ Uncut(B, f) => TombsWhole(g) /\ Uncut(AddBlock(B, o, SizeOf[c]), g)
<1> DEFINE g == Tombstoned(f, o)
           tomb == [mark |-> "tomb", of |-> {c}, at |-> 1]
<1>1. /\ g \in Seq(AnyCell) /\ Len(g) = Len(f) /\ Len(f) \in Nat
      /\ \A i \in 1..Len(f) : i # o + 1 => g[i] = f[i]
      /\ \A p \in Nat : p # o => IntactAt(g, p) = IntactAt(f, p)
  BY TombstonedFile
<1>2. /\ c \in Contents /\ o + SizeOf[c] <= Len(f)
      /\ \A k \in 1..SizeOf[c] : f[o + k] = Cell(c, k)
  BY IntactCells
<1>3. SizeOf[c] \in Nat /\ SizeOf[c] >= 2 /\ o + 1 \in 1..Len(f) /\ f[o + 1] = Cell(c, 1)
  <2>1. SizeOf[c] \in Nat /\ SizeOf[c] >= 2
    BY <1>2, RecordSizes
  <2>2. 1 \in 1..SizeOf[c]
    BY <2>1
  <2>3. QED
    BY <1>1, <1>2, <2>1, <2>2
<1>4. g[o + 1] = tomb
  <2>1. f[o + 1] = [mark |-> "value", of |-> {c}, at |-> 1]
    BY <1>3 DEF Cell
  <2>2. [f[o + 1] EXCEPT !.mark = "tomb"] = tomb
    <3>1. f[o + 1] \in AnyCell
      BY <1>3
    <3>2. [f[o + 1] EXCEPT !.mark = "tomb"] =
             [mark |-> "tomb", of |-> f[o + 1].of, at |-> f[o + 1].at]
      BY <3>1 DEF AnyCell
    <3>3. f[o + 1].of = {c} /\ f[o + 1].at = 1
      BY <2>1
    <3>4. QED
      BY <3>2, <3>3
  <2>3. g = [f EXCEPT ![o + 1] = [f[o + 1] EXCEPT !.mark = "tomb"]]
    BY DEF Tombstoned
  <2> HIDE DEF tomb
  <2>4. QED
    BY <1>3, <2>2, <2>3
<1> HIDE DEF g
<1>5. ASSUME ValuesWhole(f) PROVE ValuesWhole(g)
  <2>1. SUFFICES ASSUME NEW p \in Nat, p < Len(g), g[p + 1].mark = "value" PROVE IntactAt(g, p) # {}
    BY DEF ValuesWhole
  <2>2. p # o
    BY <1>4, <2>1
  <2>3. p + 1 \in 1..Len(f) /\ p + 1 # o + 1
    BY <1>1, <2>1, <2>2
  <2>4. g[p + 1] = f[p + 1] /\ p < Len(f)
    BY <1>1, <2>1, <2>3
  <2>5. QED
    BY <1>1, <1>5, <2>1, <2>2, <2>4 DEF ValuesWhole
<1>6. c \in TombAt(g, o)
  <2>1. ASSUME NEW k \in 2..SizeOf[c] PROVE g[o + k] = Cell(c, k)
    <3>1. o + k \in 1..Len(f) /\ o + k # o + 1 /\ k \in 1..SizeOf[c]
      BY <1>1, <1>2, <1>3
    <3>2. QED
      BY <1>1, <1>2, <3>1
  <2>2. QED
    BY <1>1, <1>2, <1>4, <2>1 DEF TombAt
<1>7. ASSUME NEW p \in Nat, p # o, NEW d \in TombAt(f, p) PROVE d \in TombAt(g, p)
  <2>1. d \in Contents /\ SizeOf[d] \in Nat /\ SizeOf[d] >= 2 /\ p + SizeOf[d] <= Len(f)
    BY <1>7, RecordPlaces
  <2>2. ASSUME NEW k \in 1..SizeOf[d] PROVE g[p + k] = f[p + k]
    <3>1. CASE p + k = o + 1
      <4>1. o \in RecordCells(p, d) /\ o \in RecordCells(o, c)
        BY <1>3, <2>1, <3>1 DEF RecordCells
      <4>2. QED
        BY <1>7, <4>1, MarkedApart
    <3>2. CASE p + k # o + 1
      <4>1. p + k \in 1..Len(f)
        BY <1>1, <2>1
      <4>2. QED
        BY <1>1, <3>2, <4>1
    <3>3. QED
      BY <3>1, <3>2
  <2>3. \A k \in 2..SizeOf[d] : k \in 1..SizeOf[d]
    BY <2>1
  <2>4. 1 \in 1..SizeOf[d]
    BY <2>1
  <2>5. f[p + 1] = [mark |-> "tomb", of |-> {d}, at |-> 1] /\ \A k \in 2..SizeOf[d] : f[p + k] = Cell(d, k)
    BY <1>7 DEF TombAt
  <2>6. g[p + 1] = [mark |-> "tomb", of |-> {d}, at |-> 1]
    BY <2>2, <2>4, <2>5
  <2>7. \A k \in 2..SizeOf[d] : g[p + k] = Cell(d, k)
    BY <2>2, <2>3, <2>5
  <2>8. QED
    BY <1>1, <2>1, <2>6, <2>7 DEF TombAt
<1>8. ASSUME TombsWhole(f), Uncut(B, f) PROVE TombsWhole(g) /\ Uncut(AddBlock(B, o, SizeOf[c]), g)
  <2>1. ASSUME NEW p \in Nat, p < Len(g), g[p + 1].mark = "tomb"
        PROVE  \E d \in TombAt(g, p) : (p = o /\ d = c) \/ d \in TombAt(f, p)
    <3>1. CASE p = o
      BY <1>6, <3>1
    <3>2. CASE p # o
      <4>1. p + 1 \in 1..Len(f) /\ p + 1 # o + 1
        BY <1>1, <2>1, <3>2
      <4>2. g[p + 1] = f[p + 1] /\ p < Len(f)
        BY <1>1, <2>1, <4>1
      <4>3. TombAt(f, p) # {}
        BY <1>8, <2>1, <4>2 DEF TombsWhole
      <4>4. QED
        BY <1>7, <3>2, <4>3
    <3>3. QED
      BY <3>1, <3>2
  <2>2. TombsWhole(g)
    BY <2>1 DEF TombsWhole
  <2>3. ASSUME NEW x \in AddBlock(B, o, SizeOf[c]), NEW p \in Nat, NEW d \in TombAt(g, p)
        PROVE  x.offset <= p \/ p + SizeOf[d] <= x.offset
    <3>1. SizeOf[d] \in Nat /\ SizeOf[d] >= 2 /\ p < Len(g)
      BY <1>1, RecordPlaces
    <3>2. g[p + 1].mark = "tomb"
      BY DEF TombAt
    <3>3. TombAt(g, p) = {d}
      BY <1>1, TombIsDead
    <3>4. (p = o /\ d = c) \/ d \in TombAt(f, p)
      BY <2>1, <3>1, <3>2, <3>3
    <3>5. PICK y \in B \cup {Block(o, SizeOf[c])} : x.offset = y.offset
      BY <2>3, CoalescedStarts DEF AddBlock
    <3>6. CASE y \in B
      <4>1. y.offset \in Nat /\ y.offset \in FreeCells(B)
        BY <3>6, BlockEnds DEF FreeOK
      <4>2. CASE p = o /\ d = c
        <5>1. y.offset \notin RecordCells(o, c)
          BY <4>1 DEF FreeOK
        <5>2. QED
          BY <1>3, <3>5, <4>1, <4>2, <5>1 DEF RecordCells
      <4>3. CASE d \in TombAt(f, p)
        BY <1>8, <3>5, <3>6, <4>3 DEF Uncut
      <4>4. QED
        BY <3>4, <4>2, <4>3
    <3>7. CASE y = Block(o, SizeOf[c])
      <4>1. x.offset = o
        BY <3>5, <3>7 DEF Block
      <4>2. CASE p = o
        BY <4>1, <4>2
      <4>3. CASE p # o
        <5>1. d \in TombAt(f, p)
          BY <3>4, <4>3
        <5>2. ASSUME p < o, o < p + SizeOf[d] PROVE FALSE
          <6>1. o \in RecordCells(p, d) /\ o \in RecordCells(o, c)
            BY <1>3, <3>1, <5>2 DEF RecordCells
          <6>2. QED
            BY <4>3, <5>1, <6>1, MarkedApart
        <5>3. QED
          BY <3>1, <4>1, <5>2
      <4>4. QED
        BY <4>2, <4>3
    <3>8. QED
      BY <3>5, <3>6, <3>7
  <2>4. QED
    BY <2>2, <2>3 DEF Uncut
<1>9. QED
  BY <1>5, <1>8 DEF g

\* Padding an empty file adds no sentinel.
LEMMA PaddedWhole ==
    ASSUME StoreType, NEW tier \in Tiers
    PROVE  LET f == files[tier]
               g == Padded(tier)
           IN  /\ ValuesWhole(f) => ValuesWhole(g)
               /\ TombsWhole(f) => TombsWhole(g)
               /\ \A B : Uncut(B, f) => Uncut(B, g)
<1>1. CASE tier = 0 /\ files[tier] = <<>>
  <2>1. Padded(tier) = <<Pad>>
    BY <1>1 DEF Padded
  <2>2. Pad.mark = "pad" /\ <<Pad>>[1] = Pad /\ Len(<<Pad>>) = 1
    BY DEF Pad
  <2>3. \A o \in Nat : o < 1 => o = 0
    OBVIOUS
  <2>4. \A o \in Nat : o < Len(<<Pad>>) => <<Pad>>[o + 1].mark = "pad"
    BY <2>2, <2>3
  <2>5. ValuesWhole(<<Pad>>) /\ TombsWhole(<<Pad>>)
    BY <2>4 DEF ValuesWhole, TombsWhole
  <2>6. ASSUME NEW o \in Nat, NEW c \in TombAt(<<Pad>>, o) PROVE FALSE
    <3>1. c \in Contents /\ o + SizeOf[c] <= Len(<<Pad>>)
      BY DEF TombAt
    <3>2. SizeOf[c] \in Nat /\ SizeOf[c] >= 2
      BY <3>1, RecordSizes
    <3>3. QED
      BY <2>2, <3>1, <3>2
  <2>7. \A B : Uncut(B, <<Pad>>)
    BY <2>6 DEF Uncut
  <2>8. QED
    BY <2>1, <2>5, <2>7
<1>2. CASE tier # 0 \/ files[tier] # <<>>
  BY <1>2 DEF Padded
<1>3. QED
  BY <1>1, <1>2
-----------------------------------------------------------------------------
(* The scan: it visits the places of records, one after the other.         *)

\* Whoever holds N, and m when it holds all that follow m, holds everything.
LEMMA DownFrom ==
    ASSUME NEW N \in Nat, NEW S, \A m \in 0..N : ((m + 1)..N) \subseteq S => m \in S
    PROVE  0..N \subseteq S
<1> DEFINE Bad == {k \in 0..N : N - k \notin S}
<1>1. SUFFICES ASSUME Bad # {} PROVE FALSE
  <2>1. ASSUME NEW m \in 0..N, m \notin S PROVE N - m \in Bad
    BY <2>1
  <2>2. QED
    BY <2>1
<1>2. PICK k \in Bad : \A j \in Bad : k <= j
  <2>1. Bad \subseteq Nat
    OBVIOUS
  <2>2. QED
    BY <1>1, <2>1, SmallestExists
<1>3. k \in 0..N /\ N - k \notin S /\ N - k \in 0..N
  BY <1>2
<1>4. ASSUME NEW m \in (N - k + 1)..N PROVE m \in S
  <2>1. N - m \in 0..N /\ N - m < k /\ N - (N - m) = m
    BY <1>3
  <2>2. N - m \notin Bad
    <3> HIDE DEF Bad
    <3>1. N - m \in Bad => k <= N - m
      BY <1>2
    <3>2. QED
      BY <1>3, <2>1, <3>1
  <2>3. QED
    BY <2>1, <2>2
<1>5. QED
  BY <1>3, <1>4

\* One step of a scan, given what it visits from later offsets on.
Visit(f, v, o) ==
    IF o < Len(f)
    THEN UNION {{o} \cup (IF o + x.size <= Len(f) THEN v[o + x.size] ELSE {}) :
                  x \in Sentinels(CellAt(f, o))}
    ELSE {}

\* What a scan makes of a cell has a size.
LEMMA SentinelSizes ==
    ASSUME NEW cell \in AnyCell, NEW x \in Sentinels(cell)
    PROVE  x.size \in Nat /\ x.size >= 1
<1>1. cell.of \subseteq Contents
  BY DEF AnyCell
<1>2. CASE cell.mark = "body"
  <2>1. PICK c \in cell.of : x \in Lookalikes[c]
    BY <1>2 DEF Sentinels
  <2>2. x \in Sentinel
    BY <1>1, <2>1, ValueStoreAssumption
  <2>3. \A y \in Sentinel : y.size \in Nat /\ y.size >= 1
    BY DEF Sentinel
  <2>4. QED
    BY <2>2, <2>3
<1>3. CASE cell.mark # "body"
  <2>1. PICK c \in cell.of : x = [at |-> cell.at, mark |-> cell.mark, size |-> ScanSize[c]]
    BY <1>3 DEF Sentinels
  <2>2. x.size = ScanSize[c]
    BY <2>1
  <2>3. \A d \in Contents : ScanSize[d] \in Nat /\ ScanSize[d] >= 1
    BY ValueStoreAssumption
  <2>4. QED
    BY <1>1, <2>2, <2>3
<1>4. QED
  BY <1>2, <1>3

\* A scan only looks ahead.
LEMMA VisitAhead ==
    ASSUME NEW f \in Seq(AnyCell), NEW v, NEW w, NEW o \in 0..Len(f),
           \A p \in (o + 1)..Len(f) : v[p] = w[p]
    PROVE  Visit(f, v, o) = Visit(f, w, o)
<1> DEFINE at(u, x) == {o} \cup (IF o + x.size <= Len(f) THEN u[o + x.size] ELSE {})
           S == Sentinels(CellAt(f, o))
<1>1. CASE o < Len(f)
  <2>1. CellAt(f, o) \in AnyCell /\ Len(f) \in Nat
    BY <1>1 DEF CellAt
  <2>2. ASSUME NEW x \in S PROVE at(v, x) = at(w, x)
    <3>1. x.size \in Nat /\ x.size >= 1
      BY <2>1, SentinelSizes
    <3>2. CASE o + x.size <= Len(f)
      <4>1. o + x.size \in (o + 1)..Len(f)
        BY <2>1, <3>1, <3>2
      <4>2. QED
        BY <4>1
    <3>3. CASE ~ (o + x.size <= Len(f))
      BY <3>3
    <3>4. QED
      BY <3>2, <3>3
  <2> HIDE DEF at, S
  <2>3. {at(v, x) : x \in S} = {at(w, x) : x \in S}
    BY <2>2
  <2>4. UNION {at(v, x) : x \in S} = UNION {at(w, x) : x \in S}
    BY <2>3
  <2>5. QED
    BY <1>1, <2>4 DEF Visit, at, S
<1>2. CASE ~ (o < Len(f))
  BY <1>2 DEF Visit
<1>3. QED
  BY <1>1, <1>2

\* What a scan visits: offsets of the file that look like a sentinel.
Looks(f) == {o \in 0..(Len(f) - 1) : Sentinels(CellAt(f, o)) # {}}

LEMMA VisitWithin ==
    ASSUME NEW f \in Seq(AnyCell), NEW v, NEW o \in 0..Len(f),
           \A p \in (o + 1)..Len(f) : v[p] \subseteq Looks(f)
    PROVE  Visit(f, v, o) \subseteq Looks(f)
<1> DEFINE at(x) == {o} \cup (IF o + x.size <= Len(f) THEN v[o + x.size] ELSE {})
           S == Sentinels(CellAt(f, o))
<1>1. CASE o < Len(f)
  <2>1. CellAt(f, o) \in AnyCell /\ Len(f) \in Nat
    BY <1>1 DEF CellAt
  <2>2. ASSUME NEW x \in S PROVE at(x) \subseteq Looks(f)
    <3>1. x.size \in Nat /\ x.size >= 1
      BY <2>1, SentinelSizes
    <3>2. o \in 0..(Len(f) - 1)
      BY <1>1, <2>1
    <3>3. o \in Looks(f)
      BY <2>2, <3>2 DEF Looks
    <3>4. CASE o + x.size <= Len(f)
      <4>1. o + x.size \in (o + 1)..Len(f)
        BY <2>1, <3>1, <3>4
      <4>2. v[o + x.size] \subseteq Looks(f)
        BY <4>1
      <4>3. QED
        BY <3>3, <3>4, <4>2
    <3>5. CASE ~ (o + x.size <= Len(f))
      BY <3>3, <3>5
    <3>6. QED
      BY <3>4, <3>5
  <2> HIDE DEF at, S
  <2>3. UNION {at(x) : x \in S} \subseteq Looks(f)
    BY <2>2
  <2>4. QED
    BY <1>1, <2>3 DEF Visit, at, S
<1>2. CASE ~ (o < Len(f))
  BY <1>2 DEF Visit
<1>3. QED
  BY <1>1, <1>2

\* The scan of a file is defined: from each offset back to the first.
LEMMA ScanExists ==
    ASSUME NEW f \in Seq(AnyCell)
    PROVE  \E v : v = [o \in 0..Len(f) |-> Visit(f, v, o)]
<1> DEFINE N == Len(f)
           Def(v, m) == \A o \in m..N : v[o] = Visit(f, v, o)
           P(m) == \E v : v = [o \in 0..N |-> v[o]] /\ Def(v, m)
           S == {m \in 0..N : P(m)}
<1>0. N \in Nat
  OBVIOUS
<1>1. ASSUME NEW m \in 0..N, (m + 1)..N \subseteq S PROVE m \in S
  <2>1. PICK v : v = [o \in 0..N |-> v[o]] /\ \A o \in (m + 1)..N : v[o] = Visit(f, v, o)
    <3>1. CASE m = N
      <4> DEFINE e == [o \in 0..N |-> {}]
      <4>1. e = [o \in 0..N |-> e[o]]
        OBVIOUS
      <4>2. \A o \in (m + 1)..N : e[o] = Visit(f, e, o)
        BY <1>0, <3>1
      <4>3. QED
        BY <4>1, <4>2
    <3>2. CASE m # N
      <4>1. m + 1 \in (m + 1)..N
        BY <1>0, <3>2
      <4>2. P(m + 1)
        BY <1>1, <4>1
      <4>3. QED
        BY <4>2
    <3>3. QED
      BY <3>1, <3>2
  <2> DEFINE w == [o \in 0..N |-> IF o = m THEN Visit(f, v, m) ELSE v[o]]
  <2>2. \A o \in 0..N : w[o] = IF o = m THEN Visit(f, v, m) ELSE v[o]
    OBVIOUS
  <2>3. w = [o \in 0..N |-> w[o]]
    OBVIOUS
  <2> HIDE DEF w
  <2>4. ASSUME NEW o \in m..N PROVE w[o] = Visit(f, w, o)
    <3>1. o \in 0..N /\ \A p \in (o + 1)..N : p \in 0..N /\ p # m
      BY <1>0
    <3>2. \A p \in (o + 1)..N : v[p] = w[p]
      BY <2>2, <3>1
    <3>3. Visit(f, v, o) = Visit(f, w, o)
      BY <3>1, <3>2, VisitAhead
    <3>4. CASE o = m
      BY <2>2, <3>1, <3>3, <3>4
    <3>5. CASE o # m
      <4>1. o \in (m + 1)..N
        BY <1>0, <3>5
      <4>2. QED
        BY <2>1, <2>2, <3>1, <3>3, <3>5, <4>1
    <3>6. QED
      BY <3>4, <3>5
  <2>5. P(m)
    BY <2>3, <2>4
  <2>6. QED
    BY <2>5
<1>2. 0 \in S
  <2> HIDE DEF S
  <2>1. 0..N \subseteq S
    BY <1>0, <1>1, DownFrom
  <2>2. QED
    BY <1>0, <2>1
<1>3. PICK v : v = [o \in 0..N |-> v[o]] /\ \A o \in 0..N : v[o] = Visit(f, v, o)
  BY <1>2
<1>4. [o \in 0..N |-> v[o]] = [o \in 0..N |-> Visit(f, v, o)]
  BY <1>3
<1>5. QED
  BY <1>3, <1>4

\* A scan visits offsets of the file where it sees a sentinel.
LEMMA ScanWithin ==
    ASSUME NEW f \in Seq(AnyCell)
    PROVE  ScanFrom(f) \subseteq Looks(f)
<1> DEFINE N == Len(f)
           v == CHOOSE x : x = [o \in 0..N |-> Visit(f, x, o)]
           S == {m \in 0..N : v[m] \subseteq Looks(f)}
<1>0. N \in Nat
  OBVIOUS
<1>1. ScanFrom(f) = v[0]
  BY DEF ScanFrom, Visit
<1>2. v = [o \in 0..N |-> Visit(f, v, o)]
  BY ScanExists
<1> HIDE DEF v
<1>3. ASSUME NEW m \in 0..N, (m + 1)..N \subseteq S PROVE m \in S
  <2>1. \A p \in (m + 1)..N : v[p] \subseteq Looks(f)
    BY <1>3
  <2>2. Visit(f, v, m) \subseteq Looks(f)
    BY <2>1, VisitWithin
  <2>3. v[m] = Visit(f, v, m)
    BY <1>2
  <2>4. QED
    BY <2>2, <2>3
<1>4. 0..N \subseteq S
  <2> HIDE DEF S
  <2>1. QED
    BY <1>0, <1>3, DownFrom
<1>5. 0 \in S
  BY <1>0, <1>4
<1>6. QED
  BY <1>1, <1>5

\* In a file of contents that FreeList reads right, a scan sees the sentinels
\* that are there.
LEMMA PlainSentinel ==
    ASSUME NEW f \in Seq(AnyCell), PlainFile(f), NEW o \in ScanFrom(f)
    PROVE  /\ o \in Nat /\ o < Len(f)
           /\ SentinelAt(f, o).mark = f[o + 1].mark
           /\ SizeAt(f, o) \in {SizeOf[c] : c \in f[o + 1].of}
<1>1. o \in 0..(Len(f) - 1) /\ Sentinels(CellAt(f, o)) # {} /\ Len(f) \in Nat
  BY ScanWithin DEF Looks
<1>2. o \in Nat /\ o < Len(f) /\ o + 1 \in 1..Len(f)
  BY <1>1
<1> DEFINE cell == f[o + 1]
<1>3. cell \in AnyCell /\ cell.of \subseteq PlainContents
  BY <1>2 DEF PlainFile
<1>4. \A c \in cell.of : ScanSize[c] = SizeOf[c] /\ Lookalikes[c] = {}
  BY <1>3 DEF PlainContents
<1>5. PICK x \in Sentinels(cell) : x = SentinelAt(f, o)
  BY <1>1 DEF SentinelAt, CellAt
<1> HIDE DEF cell
<1>6. cell.mark # "body"
  BY <1>4, <1>5 DEF Sentinels
<1>7. PICK c \in cell.of : x = [at |-> cell.at, mark |-> cell.mark, size |-> ScanSize[c]]
  BY <1>5, <1>6 DEF Sentinels
<1>8. x.mark = cell.mark /\ x.size = SizeOf[c]
  BY <1>4, <1>7
<1>9. QED
  BY <1>2, <1>5, <1>7, <1>8 DEF SizeAt, cell

\* The size a scan finds at a record, marked or not.
LEMMA HeaderSize ==
    ASSUME NEW f \in Seq(AnyCell), PlainFile(f), NEW o \in ScanFrom(f),
           NEW c \in IntactAt(f, o) \cup TombAt(f, o)
    PROVE  SizeAt(f, o) = SizeOf[c]
<1>0. o \in Nat /\ SizeAt(f, o) \in {SizeOf[x] : x \in f[o + 1].of}
  BY PlainSentinel
<1>1. f[o + 1].of = {c}
  <2>1. CASE c \in TombAt(f, o)
    <3>1. f[o + 1] = [mark |-> "tomb", of |-> {c}, at |-> 1]
      BY <2>1 DEF TombAt
    <3>2. QED
      BY <3>1
  <2>2. CASE c \in IntactAt(f, o)
    <3>1. c \in Contents /\ \A k \in 1..SizeOf[c] : f[o + k] = Cell(c, k)
      BY <1>0, <2>2, IntactCells
    <3>2. 1 \in 1..SizeOf[c]
      BY <3>1, RecordSizes
    <3>3. f[o + 1] = Cell(c, 1)
      BY <3>1, <3>2
    <3>4. QED
      BY <3>3 DEF Cell
  <2>3. QED
    BY <2>1, <2>2
<1>2. QED
  BY <1>0, <1>1

\* RebuildFromFile of a file of whole records: what it frees is free.
LEMMA RebuiltSpace ==
    ASSUME NEW f \in Seq(AnyCell), PlainFile(f), TombsWhole(f)
    PROVE  FreeOK(RebuildFromFile(f), f) /\ Uncut(RebuildFromFile(f), f)
<1> DEFINE T == TombstonesAt(f)
           D == {Block(o, SizeAt(f, o)) : o \in T}
           C == RebuildFromFile(f)
<1>0. Len(f) \in Nat
  OBVIOUS
<1>1. ASSUME NEW o \in T
      PROVE  o \in Nat /\ \E c \in TombAt(f, o) : SizeAt(f, o) = SizeOf[c]
  <2>1. o \in ScanFrom(f) /\ SentinelAt(f, o).mark = "tomb"
    BY DEF TombstonesAt
  <2>2. o \in Nat /\ o < Len(f) /\ f[o + 1].mark = "tomb"
    BY <2>1, PlainSentinel
  <2>3. TombAt(f, o) # {}
    BY <2>2 DEF TombsWhole
  <2>4. QED
    BY <2>1, <2>2, <2>3, HeaderSize
<1> HIDE DEF T
<1>2. ASSUME NEW b \in D
      PROVE  \E o \in T, c \in Contents :
                /\ c \in TombAt(f, o) /\ o \in Nat /\ b.offset = o /\ b.size = SizeOf[c] /\ EndOf(b) = o + SizeOf[c]
                /\ SizeOf[c] \in Nat /\ SizeOf[c] >= 2 /\ o + SizeOf[c] <= Len(f)
                /\ b = Block(o, SizeOf[c])
  <2>1. PICK o \in T : b = Block(o, SizeAt(f, o))
    BY <1>2
  <2>2. PICK c \in TombAt(f, o) : o \in Nat /\ SizeAt(f, o) = SizeOf[c]
    BY <1>1
  <2>3. c \in Contents /\ SizeOf[c] \in Nat /\ SizeOf[c] >= 2 /\ o + SizeOf[c] <= Len(f)
    BY <2>2, RecordPlaces
  <2>4. b.offset = o /\ b.size = SizeOf[c] /\ EndOf(b) = o + SizeOf[c]
    BY <2>1, <2>2 DEF Block, EndOf
  <2>5. QED
    BY <2>1, <2>2, <2>3, <2>4
<1> HIDE DEF D
<1>3. D \subseteq AnyBlock
  BY <1>2 DEF AnyBlock, Block
<1>4. Disjoint(D)
  <2>1. SUFFICES ASSUME NEW x \in D, NEW y \in D, ~ (EndOf(x) <= y.offset \/ EndOf(y) <= x.offset)
                 PROVE  x = y
    BY DEF Disjoint
  <2>2. PICK o \in T, c \in Contents :
               /\ c \in TombAt(f, o) /\ o \in Nat /\ x.offset = o /\ EndOf(x) = o + SizeOf[c]
               /\ SizeOf[c] \in Nat /\ SizeOf[c] >= 2 /\ x = Block(o, SizeOf[c])
    BY <1>2
  <2>3. PICK p \in T, d \in Contents :
               /\ d \in TombAt(f, p) /\ p \in Nat /\ y.offset = p /\ EndOf(y) = p + SizeOf[d]
               /\ SizeOf[d] \in Nat /\ SizeOf[d] >= 2 /\ y = Block(p, SizeOf[d])
    BY <1>2
  <2>4. \E i \in RecordCells(o, c) : i \in RecordCells(p, d)
    <3>1. CASE o <= p
      <4>1. p \in RecordCells(o, c) /\ p \in RecordCells(p, d)
        BY <2>1, <2>2, <2>3, <3>1 DEF RecordCells
      <4>2. QED
        BY <4>1
    <3>2. CASE p < o
      <4>1. o \in RecordCells(o, c) /\ o \in RecordCells(p, d)
        BY <2>1, <2>2, <2>3, <3>2 DEF RecordCells
      <4>2. QED
        BY <4>1
    <3>3. QED
      BY <2>2, <2>3, <3>1, <3>2
  <2>5. o = p
    BY <2>2, <2>3, <2>4, MarkedApart
  <2>6. TombAt(f, o) = {c}
    BY <2>2, TombIsDead
  <2>7. QED
    BY <2>2, <2>3, <2>5, <2>6
<1>5. ASSUME NEW i \in FreeCells(D)
      PROVE  \E o \in Nat : \E c \in TombAt(f, o) : i \in RecordCells(o, c) /\ i < Len(f) /\ i \in Nat
  <2>1. PICK b \in D : i \in Nat /\ b.offset <= i /\ i < EndOf(b)
    BY <1>5 DEF FreeCells
  <2>2. PICK o \in T, c \in Contents :
               /\ c \in TombAt(f, o) /\ o \in Nat /\ b.offset = o /\ EndOf(b) = o + SizeOf[c]
               /\ SizeOf[c] \in Nat /\ o + SizeOf[c] <= Len(f)
    BY <1>2
  <2>3. i \in RecordCells(o, c) /\ i < Len(f)
    BY <1>0, <2>1, <2>2 DEF RecordCells
  <2>4. QED
    BY <2>1, <2>2, <2>3
<1>6. FreeCells(D) \subseteq 0..(Len(f) - 1)
  BY <1>0, <1>5
<1>7. C = CoalesceBlocks(D)
  BY DEF RebuildFromFile, D, T
<1> HIDE DEF C
<1>8. C \subseteq AnyBlock /\ Separate(C) /\ FreeCells(C) = FreeCells(D)
  <2>1. FreeCells(D) \subseteq 0..Len(f)
    BY <1>0, <1>6
  <2>2. QED
    BY <1>0, <1>3, <1>4, <1>7, <2>1, CoalescedBlocks
<1>9. ASSUME NEW p \in Nat, NEW d \in IntactAt(f, p), NEW i \in RecordCells(p, d), i \in FreeCells(D)
      PROVE  FALSE
  <2>1. PICK o \in Nat : \E c \in TombAt(f, o) : i \in RecordCells(o, c)
    BY <1>5, <1>9
  <2>2. PICK c \in TombAt(f, o) : i \in RecordCells(o, c)
    BY <2>1
  <2>3. o = p
    BY <1>9, <2>2, MarkedApart
  <2>4. IntactAt(f, o) = {}
    BY <2>2, TombIsDead
  <2>5. QED
    BY <1>9, <2>3, <2>4
<1>10. FreeOK(C, f)
  BY <1>6, <1>8, <1>9 DEF FreeOK
<1>11. ASSUME NEW b \in C, NEW p \in Nat, NEW d \in TombAt(f, p)
       PROVE  b.offset <= p \/ p + SizeOf[d] <= b.offset
  <2>1. PICK y \in D : b.offset = y.offset
    BY <1>7, CoalescedStarts
  <2>2. PICK o \in T, c \in Contents :
               c \in TombAt(f, o) /\ o \in Nat /\ y.offset = o /\ SizeOf[c] \in Nat /\ SizeOf[c] >= 2
    BY <1>2
  <2>3. SizeOf[d] \in Nat /\ SizeOf[d] >= 2
    BY RecordPlaces
  <2>4. ASSUME p < o, o < p + SizeOf[d] PROVE FALSE
    <3>1. o \in RecordCells(p, d) /\ o \in RecordCells(o, c)
      BY <2>2, <2>3, <2>4 DEF RecordCells
    <3>2. QED
      BY <2>2, <2>4, <3>1, MarkedApart
  <2>5. QED
    BY <2>1, <2>2, <2>3, <2>4
<1>12. Uncut(C, f)
  BY <1>11 DEF Uncut
<1>13. QED
  BY <1>10, <1>12 DEF C

-----------------------------------------------------------------------------
(* Compaction.                                                             *)

\* How many elements of C are at most i, and the n-th of them.
Place(C, i) == Cardinality({j \in C : j <= i})

Nth(C, n) == CHOOSE i \in C : Place(C, i) = n

\* Places count the elements up: one by one, none left out.
LEMMA Places ==
    ASSUME NEW L \in Nat, NEW C, C \subseteq 1..L
    PROVE  /\ Cardinality(C) \in Nat /\ Cardinality(C) <= L
           /\ Place(C, 0) = 0 /\ Place(C, L) = Cardinality(C)
           /\ \A i \in 0..L : Place(C, i) \in Nat /\ Place(C, i) <= Cardinality(C)
           /\ \A i \in 1..L : Place(C, i) = Place(C, i - 1) + (IF i \in C THEN 1 ELSE 0)
           /\ \A i \in 0..L : \A j \in C : i < j => Place(C, i) < Place(C, j)
<1> DEFINE U(i) == {j \in C : j <= i}
<1>0. \A j \in C : j \in Nat /\ 1 <= j /\ j <= L
  OBVIOUS
<1>1. IsFiniteSet(1..L) /\ Cardinality(1..L) = L
  BY FS_Interval
<1>2. IsFiniteSet(C) /\ Cardinality(C) <= L
  BY <1>1, FS_Subset
<1>3. \A i : IsFiniteSet(U(i)) /\ Cardinality(U(i)) <= Cardinality(C)
  BY <1>2, FS_Subset
<1>4. Cardinality(C) \in Nat /\ \A i : Cardinality(U(i)) \in Nat
  BY <1>2, <1>3, FS_CardinalityType
<1>5. U(0) = {} /\ U(L) = C
  <2>1. \A j \in U(0) : FALSE
    BY <1>0
  <2>2. \A j \in C : j \in U(L)
    BY <1>0
  <2>3. QED
    BY <2>1, <2>2
<1>6. Cardinality(U(0)) = 0
  BY <1>5, FS_EmptySet
<1>7. ASSUME NEW i \in 1..L
      PROVE  Cardinality(U(i)) = Cardinality(U(i - 1)) + (IF i \in C THEN 1 ELSE 0)
  <2>1. CASE i \in C
    <3>1. U(i) = U(i - 1) \cup {i} /\ i \notin U(i - 1)
      <4>1. \A j \in C : j <= i <=> j <= i - 1 \/ j = i
        BY <1>0
      <4>2. \A j \in U(i) : j \in U(i - 1) \cup {i}
        BY <4>1
      <4>3. \A j \in U(i - 1) \cup {i} : j \in U(i)
        BY <2>1, <4>1
      <4>4. i \notin U(i - 1)
        BY <1>0
      <4>5. QED
        BY <4>2, <4>3, <4>4
    <3> HIDE DEF U
    <3>2. Cardinality(U(i - 1) \cup {i}) = Cardinality(U(i - 1)) + 1
      BY <1>3, <3>1, FS_AddElement
    <3>3. QED
      BY <2>1, <3>1, <3>2
  <2>2. CASE i \notin C
    <3>1. U(i) = U(i - 1)
      <4>1. \A j \in C : j <= i <=> j <= i - 1
        BY <1>0, <2>2
      <4>2. QED
        BY <4>1
    <3> HIDE DEF U
    <3>2. QED
      BY <1>4, <2>2, <3>1
  <2>3. QED
    BY <2>1, <2>2
<1>8. ASSUME NEW i \in 0..L, NEW j \in C, i < j PROVE Cardinality(U(i)) < Cardinality(U(j))
  <2>1. U(i) \subseteq U(j - 1) /\ j \in 1..L
    <3>1. \A k \in C : k <= i => k <= j - 1
      BY <1>0, <1>8
    <3>2. QED
      BY <1>0, <3>1
  <2> HIDE DEF U
  <2>2. Cardinality(U(i)) <= Cardinality(U(j - 1))
    BY <1>3, <2>1, FS_Subset
  <2>3. Cardinality(U(j)) = Cardinality(U(j - 1)) + 1
    BY <1>7, <2>1
  <2>4. QED
    BY <1>4, <2>2, <2>3
<1> HIDE DEF U
<1>9. \A i : Place(C, i) = Cardinality(U(i))
  BY DEF Place, U
<1>10. QED
  BY <1>2, <1>3, <1>4, <1>5, <1>6, <1>7, <1>8, <1>9

\* Each place has its element, and each element is the one at its place.
LEMMA NthElements ==
    ASSUME NEW L \in Nat, NEW C, C \subseteq 1..L
    PROVE  /\ \A n \in 1..Cardinality(C) : Nth(C, n) \in C /\ Place(C, Nth(C, n)) = n
           /\ \A i \in C : Place(C, i) \in 1..Cardinality(C) /\ Nth(C, Place(C, i)) = i
<1>1. /\ Cardinality(C) \in Nat /\ Cardinality(C) <= L
      /\ Place(C, 0) = 0 /\ Place(C, L) = Cardinality(C)
      /\ \A i \in 0..L : Place(C, i) \in Nat /\ Place(C, i) <= Cardinality(C)
      /\ \A i \in 1..L : Place(C, i) = Place(C, i - 1) + (IF i \in C THEN 1 ELSE 0)
      /\ \A i \in 0..L : \A j \in C : i < j => Place(C, i) < Place(C, j)
  BY Places
<1>2. ASSUME NEW n \in 1..Cardinality(C) PROVE \E i \in C : Place(C, i) = n
  <2> DEFINE Up == {i \in 0..L : Place(C, i) >= n}
  <2>1. L \in Up
    BY <1>1
  <2>2. PICK i \in Up : \A j \in Up : i <= j
    <3>1. Up \subseteq Nat /\ Up # {}
      BY <2>1
    <3>2. QED
      BY <3>1, SmallestExists
  <2>3. i \in 0..L /\ Place(C, i) >= n
    BY <2>2
  <2>4. i # 0
    BY <1>1, <2>3
  <2>5. i \in 1..L /\ i - 1 \in 0..L
    BY <2>3, <2>4
  <2>6. i - 1 \notin Up
    <3> HIDE DEF Up
    <3>1. i - 1 \in Up => i <= i - 1
      BY <2>2
    <3>2. QED
      BY <2>5, <3>1
  <2>7. Place(C, i - 1) < n
    BY <1>1, <2>5, <2>6
  <2>8. i \in C
    <3>1. ASSUME i \notin C PROVE FALSE
      <4>1. Place(C, i) = Place(C, i - 1) + 0
        BY <1>1, <2>5, <3>1
      <4>2. QED
        BY <1>1, <2>3, <2>5, <2>7, <4>1
    <3>2. QED
      BY <3>1
  <2>9. Place(C, i) = Place(C, i - 1) + 1
    BY <1>1, <2>5, <2>8
  <2>10. Place(C, i) = n
    BY <1>1, <2>3, <2>5, <2>7, <2>9
  <2>11. QED
    BY <2>8, <2>10
<1>3. \A n \in 1..Cardinality(C) : Nth(C, n) \in C /\ Place(C, Nth(C, n)) = n
  BY <1>2 DEF Nth
<1>4. ASSUME NEW i \in C PROVE Place(C, i) \in 1..Cardinality(C) /\ Nth(C, Place(C, i)) = i
  <2>1. i \in 1..L /\ i \in 0..L /\ 0 \in 0..L
    OBVIOUS
  <2>2. Place(C, 0) < Place(C, i)
    BY <1>1, <2>1
  <2>3. Place(C, i) \in 1..Cardinality(C)
    BY <1>1, <2>1, <2>2
  <2> DEFINE j == Nth(C, Place(C, i))
  <2>4. j \in C /\ Place(C, j) = Place(C, i)
    BY <1>3, <2>3
  <2> HIDE DEF j
  <2>5. j \in 0..L
    BY <2>4
  <2>6. ~ (i < j) /\ ~ (j < i)
    BY <1>1, <2>1, <2>4, <2>5
  <2>7. j = i
    BY <2>1, <2>5, <2>6
  <2>8. QED
    BY <2>3, <2>7 DEF j
<1>5. QED
  BY <1>3, <1>4

\* Compaction of a file of whole values: a file of whole values, no longer,
\* and without tombstones.
LEMMA CompactedFile ==
    ASSUME NEW f \in Seq(AnyCell), PlainFile(f), ValuesWhole(f)
    PROVE  LET g == Compacted(f) IN
           /\ g \in Seq(AnyCell) /\ Len(g) <= Len(f)
           /\ ValuesWhole(g) /\ TombsWhole(g) /\ PlainFile(g)
<1> DEFINE live == ValuesAt(f)
           C == {i \in DOMAIN f : \E o \in live : i \in (o + 1)..(o + SizeAt(f, o))}
           g == Compacted(f)
           N == Cardinality(C)
<1>0. Len(f) \in Nat /\ DOMAIN f = 1..Len(f)
  OBVIOUS
<1>1. ASSUME NEW o \in live
      PROVE  o \in Nat /\ \E c \in IntactAt(f, o) : SizeAt(f, o) = SizeOf[c]
  <2>1. o \in ScanFrom(f) /\ SentinelAt(f, o).mark = "value"
    BY DEF ValuesAt
  <2>2. o \in Nat /\ o < Len(f) /\ f[o + 1].mark = "value"
    BY <2>1, PlainSentinel
  <2>3. IntactAt(f, o) # {}
    BY <2>2 DEF ValuesWhole
  <2>4. QED
    BY <2>1, <2>2, <2>3, HeaderSize
<1>2. g = [n \in 1..N |-> f[Nth(C, n)]]
  BY DEF Compacted, Nth, Place
<1> HIDE DEF live, g
<1>3. C \subseteq 1..Len(f)
  BY <1>0
<1>4. /\ N \in Nat /\ N <= Len(f)
      /\ \A i \in 1..Len(f) : Place(C, i) = Place(C, i - 1) + (IF i \in C THEN 1 ELSE 0)
  BY <1>0, <1>3, Places
<1>5. /\ \A n \in 1..N : Nth(C, n) \in C /\ Place(C, Nth(C, n)) = n
      /\ \A i \in C : Place(C, i) \in 1..N /\ Nth(C, Place(C, i)) = i
  BY <1>0, <1>3, NthElements
<1>6. ASSUME NEW i \in C
      PROVE  \E o \in Nat : \E c \in IntactAt(f, o) :
                /\ i - o \in 1..SizeOf[c] /\ f[i] = Cell(c, i - o)
                /\ \A k \in 1..SizeOf[c] : o + k \in C
  <2>1. PICK o \in live : i \in (o + 1)..(o + SizeAt(f, o))
    BY <1>6
  <2>2. PICK c \in IntactAt(f, o) : o \in Nat /\ SizeAt(f, o) = SizeOf[c]
    BY <1>1
  <2>3. /\ c \in Contents /\ o + SizeOf[c] <= Len(f)
        /\ \A k \in 1..SizeOf[c] : f[o + k] = Cell(c, k)
    BY <2>2, IntactCells
  <2>4. SizeOf[c] \in Nat
    BY <2>3, RecordSizes
  <2>5. i - o \in 1..SizeOf[c] /\ o + (i - o) = i
    BY <2>1, <2>2, <2>4
  <2>6. ASSUME NEW k \in 1..SizeOf[c] PROVE o + k \in C
    <3>1. o + k \in 1..Len(f) /\ o + k \in (o + 1)..(o + SizeAt(f, o))
      BY <1>0, <2>2, <2>3, <2>4
    <3>2. QED
      BY <1>0, <3>1
  <2>7. f[i] = Cell(c, i - o)
    BY <2>3, <2>5
  <2>8. QED
    BY <2>2, <2>5, <2>6, <2>7
<1> HIDE DEF C, N
<1>7. \A n \in 1..N : f[Nth(C, n)] \in AnyCell
  <2>1. TAKE n \in 1..N
  <2>2. Nth(C, n) \in 1..Len(f)
    BY <1>3, <1>5
  <2>3. QED
    BY <2>2
<1>8. g \in [1..N -> AnyCell]
  BY <1>2, <1>7
<1>9. g \in Seq(AnyCell) /\ Len(g) = N
  BY <1>4, <1>8
<1>10. ASSUME NEW p \in Nat, p < N
       PROVE  \E o \in Nat : \E c \in IntactAt(f, o) :
                /\ Nth(C, p + 1) - o \in 1..SizeOf[c] /\ g[p + 1] = Cell(c, Nth(C, p + 1) - o)
                /\ \A k \in 1..SizeOf[c] : o + k \in C
  <2>1. p + 1 \in 1..N
    BY <1>4, <1>10
  <2>2. g[p + 1] = f[Nth(C, p + 1)] /\ Nth(C, p + 1) \in C
    BY <1>2, <1>5, <2>1
  <2>3. QED
    BY <1>6, <2>2
<1>11. ASSUME NEW p \in Nat, p < N, g[p + 1].mark = "value" PROVE IntactAt(g, p) # {}
  <2>1. PICK o \in Nat : \E c \in IntactAt(f, o) :
                /\ Nth(C, p + 1) - o \in 1..SizeOf[c] /\ g[p + 1] = Cell(c, Nth(C, p + 1) - o)
                /\ \A k \in 1..SizeOf[c] : o + k \in C
    BY <1>10, <1>11
  <2>2. PICK c \in IntactAt(f, o) :
                /\ Nth(C, p + 1) - o \in 1..SizeOf[c] /\ g[p + 1] = Cell(c, Nth(C, p + 1) - o)
                /\ \A k \in 1..SizeOf[c] : o + k \in C
    BY <2>1
  <2>3. /\ c \in Contents /\ o + SizeOf[c] <= Len(f)
        /\ \A k \in 1..SizeOf[c] : f[o + k] = Cell(c, k)
    BY <2>2, IntactCells
  <2>4. SizeOf[c] \in Nat /\ SizeOf[c] >= 2
    BY <2>3, RecordSizes
  <2>5. p + 1 \in 1..N /\ Nth(C, p + 1) \in C /\ Nth(C, p + 1) \in Nat
    <3>1. p + 1 \in 1..N
      BY <1>4, <1>11
    <3>2. Nth(C, p + 1) \in C
      BY <1>5, <3>1
    <3>3. Nth(C, p + 1) \in 1..Len(f)
      BY <1>3, <3>2
    <3>4. QED
      BY <3>1, <3>2, <3>3
  <2>6. Nth(C, p + 1) = o + 1
    <3>1. Cell(c, Nth(C, p + 1) - o).mark = "value"
      BY <1>11, <2>2
    <3>2. Nth(C, p + 1) - o = 1
      BY <3>1 DEF Cell
    <3>3. QED
      BY <2>5, <3>2
  <2>7. Place(C, o + 1) = p + 1
    BY <1>5, <2>5, <2>6
  <2> DEFINE Off == {k \in 1..SizeOf[c] : Place(C, o + k) # p + k}
  <2>8. Off = {}
    <3>1. SUFFICES ASSUME Off # {} PROVE FALSE
      OBVIOUS
    <3>2. PICK k \in Off : \A j \in Off : k <= j
      <4>1. Off \subseteq Nat
        BY <2>4
      <4>2. QED
        BY <3>1, <4>1, SmallestExists
    <3>3. k \in 1..SizeOf[c] /\ Place(C, o + k) # p + k
      BY <3>2
    <3>4. k # 1
      BY <2>7, <3>3
    <3>5. k - 1 \in 1..SizeOf[c]
      BY <2>4, <3>3, <3>4
    <3>6. k - 1 \notin Off
      <4> HIDE DEF Off
      <4>1. k - 1 \in Off => k <= k - 1
        BY <3>2
      <4>2. QED
        BY <2>4, <3>3, <4>1
    <3>7. Place(C, o + (k - 1)) = p + (k - 1)
      BY <3>5, <3>6
    <3>8. o + k \in C /\ o + k \in 1..Len(f) /\ (o + k) - 1 = o + (k - 1)
      BY <1>3, <2>2, <2>4, <3>3
    <3>9. Place(C, o + k) = Place(C, o + (k - 1)) + 1
      BY <1>4, <3>8
    <3>10. QED
      BY <2>4, <3>3, <3>7, <3>9
  <2>9. ASSUME NEW k \in 1..SizeOf[c] PROVE p + k \in 1..N /\ g[p + k] = Cell(c, k)
    <3>1. Place(C, o + k) = p + k /\ o + k \in C
      BY <2>2, <2>8
    <3>2. p + k \in 1..N /\ Nth(C, p + k) = o + k
      BY <1>5, <3>1
    <3>3. g[p + k] = f[o + k]
      BY <1>2, <3>2
    <3>4. QED
      BY <2>3, <3>2, <3>3
  <2>10. p + SizeOf[c] <= N
    <3>1. SizeOf[c] \in 1..SizeOf[c]
      BY <2>4
    <3>2. p + SizeOf[c] \in 1..N
      BY <2>9, <3>1
    <3>3. QED
      BY <1>4, <3>2
  <2>11. c \in IntactAt(g, p)
    BY <1>9, <2>3, <2>9, <2>10, IntactCells
  <2>12. QED
    BY <2>11
<1>12. ASSUME NEW p \in Nat, p < N PROVE g[p + 1].mark # "tomb"
  <2>1. PICK o \in Nat : \E c \in IntactAt(f, o) : g[p + 1] = Cell(c, Nth(C, p + 1) - o)
    BY <1>10, <1>12
  <2>2. PICK c \in IntactAt(f, o) : g[p + 1] = Cell(c, Nth(C, p + 1) - o)
    BY <2>1
  <2>3. Cell(c, Nth(C, p + 1) - o).mark # "tomb"
    BY DEF Cell
  <2>4. QED
    BY <2>2, <2>3
<1>13. ValuesWhole(g) /\ TombsWhole(g)
  BY <1>9, <1>11, <1>12 DEF ValuesWhole, TombsWhole
<1>14. PlainFile(g)
  <2>1. ASSUME NEW n \in 1..N PROVE g[n].of \subseteq PlainContents
    <3>1. g[n] = f[Nth(C, n)] /\ Nth(C, n) \in 1..Len(f)
      BY <1>2, <1>3, <1>5
    <3>2. QED
      BY <1>0, <3>1 DEF PlainFile
  <2>2. DOMAIN g = 1..N
    BY <1>8
  <2>3. QED
    BY <2>1, <2>2 DEF PlainFile
<1>15. QED
  BY <1>4, <1>9, <1>13, <1>14 DEF g
-----------------------------------------------------------------------------
(* The invariant, through defragmentation.                                 *)

\* Every sentinel begins a whole value or a whole tombstoned record that no
\* free block cuts.
ValuesInv == \A tier \in Tiers : ValuesWhole(files[tier])

TombsInv == \A tier \in Tiers : TombsWhole(files[tier]) /\ Uncut(freeLists[tier], files[tier])

\* What a step that does not defragment may do to a tier: nothing but forget
\* its free list, reuse a block, lose one to a failed write, append, pad, or
\* free a record.
TierStep(tier) ==
    LET f == files[tier]
        B == freeLists[tier]
        g == files'[tier]
        A == freeLists'[tier]
    IN  \/ g = f /\ (A = B \/ A = {})
        \/ \E c \in Contents :
              LET b == FirstFit(B, SizeOf[c])
              IN  /\ Fitting(B, SizeOf[c]) # {}
                  /\ A = Allocated(B, b, SizeOf[c])
                  /\ g = Written(f, b.offset, c) \/ (g = f /\ "fault" \in upsets')
        \/ A = B /\ \E c \in Contents : g = Written(Padded(tier), Len(Padded(tier)), c)
        \/ A = B /\ g = Padded(tier)
        \/ \E o \in Nat : \E c \in IntactAt(f, o) :
              g = Tombstoned(f, o) /\ A = AddBlock(B, o, SizeOf[c])

\* Every step but a defragmentation does one of these to each tier.
LEMMA TierSteps ==
    ASSUME FreeInv, [Next]_vars, ~ Defragment, ~ DefragmentMisled, NEW t \in Tiers
    PROVE  TierStep(t)
<1>1. /\ files \in [Tiers -> Seq(AnyCell)] /\ freeLists \in [Tiers -> SUBSET AnyBlock]
      /\ ref \in [Holders -> [id : IDs, of : SUBSET Contents]]
  BY DEF FreeInv, StoreType
<1>2. ASSUME files' = files, freeLists' = freeLists PROVE TierStep(t)
  BY <1>2 DEF TierStep
<1>3. ASSUME NEW h \in Holders, NEW c \in Contents, Reuse(h, c) PROVE TierStep(t)
  <2> DEFINE tier == TierOf[c]
             b == FirstFit(freeLists[tier], SizeOf[c])
  <2>1. /\ Fitting(freeLists[tier], SizeOf[c]) # {} /\ tier \in Tiers
        /\ freeLists' = [freeLists EXCEPT ![tier] = Allocated(freeLists[tier], b, SizeOf[c])]
        /\ files' = [files EXCEPT ![tier] = Written(files[tier], b.offset, c)]
    BY <1>3, RecordSizes DEF Reuse
  <2>2. CASE t = tier
    <3>1. /\ freeLists'[t] = Allocated(freeLists[t], FirstFit(freeLists[t], SizeOf[c]), SizeOf[c])
          /\ files'[t] = Written(files[t], FirstFit(freeLists[t], SizeOf[c]).offset, c)
          /\ Fitting(freeLists[t], SizeOf[c]) # {}
      BY <1>1, <2>1, <2>2
    <3>2. QED
      BY <3>1 DEF TierStep
  <2>3. CASE t # tier
    BY <1>1, <2>1, <2>3 DEF TierStep
  <2>4. QED
    BY <2>2, <2>3
<1>4. ASSUME NEW h \in Holders, NEW c \in Contents, AppendRecord(h, c) PROVE TierStep(t)
  <2> DEFINE tier == TierOf[c]
  <2>1. /\ freeLists' = freeLists /\ tier \in Tiers
        /\ files' = [files EXCEPT ![tier] = Written(Padded(tier), Len(Padded(tier)), c)]
    BY <1>4, RecordSizes DEF AppendRecord
  <2>2. CASE t = tier
    <3>1. freeLists'[t] = freeLists[t] /\ files'[t] = Written(Padded(t), Len(Padded(t)), c)
      BY <1>1, <2>1, <2>2
    <3>2. QED
      BY <3>1 DEF TierStep
  <2>3. CASE t # tier
    BY <1>1, <2>1, <2>3 DEF TierStep
  <2>4. QED
    BY <2>2, <2>3
<1>5. ASSUME NEW c \in Contents, WriteFails(c) PROVE TierStep(t)
  <2> DEFINE tier == TierOf[c]
             b == FirstFit(freeLists[tier], SizeOf[c])
  <2>1. "fault" \in upsets' /\ tier \in Tiers
    BY <1>5, RecordSizes DEF WriteFails, Upset
  <2>2. \/ /\ Fitting(freeLists[tier], SizeOf[c]) # {} /\ files' = files
           /\ freeLists' = [freeLists EXCEPT ![tier] = Allocated(freeLists[tier], b, SizeOf[c])]
        \/ files' = [files EXCEPT ![tier] = Padded(tier)] /\ freeLists' = freeLists
    BY <1>5 DEF WriteFails
  <2>3. CASE t # tier
    BY <1>1, <2>2, <2>3 DEF TierStep
  <2>4. CASE /\ t = tier /\ Fitting(freeLists[tier], SizeOf[c]) # {} /\ files' = files
             /\ freeLists' = [freeLists EXCEPT ![tier] = Allocated(freeLists[tier], b, SizeOf[c])]
    <3>1. /\ freeLists'[t] = Allocated(freeLists[t], FirstFit(freeLists[t], SizeOf[c]), SizeOf[c])
          /\ files'[t] = files[t] /\ Fitting(freeLists[t], SizeOf[c]) # {}
      BY <1>1, <2>4
    <3>2. QED
      BY <2>1, <3>1 DEF TierStep
  <2>5. CASE t = tier /\ files' = [files EXCEPT ![tier] = Padded(tier)] /\ freeLists' = freeLists
    <3>1. freeLists'[t] = freeLists[t] /\ files'[t] = Padded(t)
      BY <1>1, <2>5
    <3>2. QED
      BY <3>1 DEF TierStep
  <2>6. QED
    BY <2>2, <2>3, <2>4, <2>5
<1>6. ASSUME NEW h \in Holders, Tombstone(h) \/ TombstoneUnhashed(h) PROVE TierStep(t)
  <2> DEFINE id == ref[h].id
             tier == ExtractTier(id)
             o == ExtractOffset(id)
  <2>0. Freed(h)
    BY <1>6 DEF Tombstone, TombstoneUnhashed
  <2>1. files' = [files EXCEPT ![tier] = Tombstoned(files[tier], o)]
    BY <2>0 DEF Freed
  <2>2. PICK c \in ReadValue(id) :
               freeLists' = [freeLists EXCEPT ![tier] = AddBlock(freeLists[tier], o, SizeOf[c])]
    BY <2>0 DEF Freed
  <2>3. id \in IDs
    BY <1>1
  <2>4. tier \in Tiers /\ o \in Nat /\ c \in IntactAt(files[tier], o)
    BY <2>2, <2>3, IDParts DEF ReadValue
  <2> HIDE DEF tier, o
  <2>5. CASE t = tier
    <3>1. /\ files'[t] = Tombstoned(files[t], o) /\ c \in IntactAt(files[t], o)
          /\ freeLists'[t] = AddBlock(freeLists[t], o, SizeOf[c])
      BY <1>1, <2>1, <2>2, <2>4, <2>5
    <3>2. QED
      BY <2>4, <3>1 DEF TierStep
  <2>6. CASE t # tier
    BY <1>1, <2>1, <2>2, <2>6 DEF TierStep
  <2>7. QED
    BY <2>5, <2>6
<1>7. Restart => TierStep(t)
  BY DEF Restart, TierStep
<1>8. ASSUME NEW h \in Holders, NEW c \in Contents, Deduplicate(h, c) PROVE TierStep(t)
  BY <1>2, <1>8 DEF Deduplicate
<1>9. ASSUME NEW h \in Holders, Release(h) \/ TombstoneRefused(h) \/ TombstoneFails(h) PROVE TierStep(t)
  BY <1>2, <1>9 DEF Release, TombstoneRefused, TombstoneFails
<1>10. UNCHANGED vars => TierStep(t)
  BY <1>2 DEF vars
<1>11. QED
  BY <1>3, <1>4, <1>5, <1>6, <1>7, <1>8, <1>9, <1>10 DEF Next

\* Such a step leaves the records of a tier whole, and while no write failed
\* its tombstones uncut.
LEMMA TierKeepsWhole ==
    ASSUME FreeInv, NEW t \in Tiers, TierStep(t)
    PROVE  /\ ValuesWhole(files[t]) => ValuesWhole(files'[t])
           /\ TombsWhole(files[t]) /\ Uncut(freeLists[t], files[t]) /\ "fault" \notin upsets'
                => TombsWhole(files'[t]) /\ Uncut(freeLists'[t], files'[t])
<1> DEFINE f == files[t]
           B == freeLists[t]
           g == files'[t]
           A == freeLists'[t]
           Kept == /\ ValuesWhole(f) => ValuesWhole(g)
                   /\ TombsWhole(f) /\ Uncut(B, f) /\ "fault" \notin upsets'
                        => TombsWhole(g) /\ Uncut(A, g)
<1>1. f \in Seq(AnyCell) /\ FreeOK(B, f) /\ StoreType
  BY DEF FreeInv, StoreType
<1>2. /\ Padded(t) \in Seq(AnyCell) /\ FreeOK(B, Padded(t))
      /\ ValuesWhole(f) => ValuesWhole(Padded(t))
      /\ TombsWhole(f) => TombsWhole(Padded(t))
      /\ Uncut(B, f) => Uncut(B, Padded(t))
  BY <1>1, PaddedFile, PaddedWhole
<1>3. \/ g = f /\ (A = B \/ A = {})
      \/ \E c \in Contents :
            /\ Fitting(B, SizeOf[c]) # {}
            /\ A = Allocated(B, FirstFit(B, SizeOf[c]), SizeOf[c])
            /\ g = Written(f, FirstFit(B, SizeOf[c]).offset, c) \/ (g = f /\ "fault" \in upsets')
      \/ A = B /\ \E c \in Contents : g = Written(Padded(t), Len(Padded(t)), c)
      \/ A = B /\ g = Padded(t)
      \/ \E o \in Nat : \E c \in IntactAt(f, o) :
            g = Tombstoned(f, o) /\ A = AddBlock(B, o, SizeOf[c])
  BY DEF TierStep
<1>4. Uncut({}, f)
  BY DEF Uncut
<1>5. SUFFICES Kept
  OBVIOUS
<1> HIDE DEF f, B, g, A
<1>6. CASE g = f /\ (A = B \/ A = {})
  BY <1>4, <1>6
<1>7. ASSUME NEW c \in Contents, Fitting(B, SizeOf[c]) # {},
             A = Allocated(B, FirstFit(B, SizeOf[c]), SizeOf[c]),
             g = Written(f, FirstFit(B, SizeOf[c]).offset, c) \/ (g = f /\ "fault" \in upsets')
      PROVE  Kept
  <2>1. CASE g = f /\ "fault" \in upsets'
    BY <2>1
  <2>2. CASE g = Written(f, FirstFit(B, SizeOf[c]).offset, c)
    BY <1>1, <1>7, <2>2, ReusedWhole
  <2>3. QED
    BY <1>7, <2>1, <2>2
<1>8. ASSUME A = B, NEW c \in Contents, g = Written(Padded(t), Len(Padded(t)), c) PROVE Kept
  BY <1>2, <1>8, AppendedWhole
<1>9. CASE A = B /\ g = Padded(t)
  BY <1>2, <1>9
<1>10. ASSUME NEW o \in Nat, NEW c \in IntactAt(f, o), g = Tombstoned(f, o), A = AddBlock(B, o, SizeOf[c])
       PROVE  Kept
  BY <1>1, <1>10, TombstonedWhole
<1>11. QED
  BY <1>3, <1>6, <1>7, <1>8, <1>9, <1>10

\* A defragmentation of whole records leaves whole records, and free lists
\* that name only what is free.
LEMMA DefragmentedSpace ==
    ASSUME FreeInv, ValuesInv, TombsInv, Defragment
    PROVE  FreeInv' /\ ValuesInv' /\ TombsInv'
<1> DEFINE g == Compacted(files[3])
           at(c) == HashedAt(g, c)
           best(c) == CHOOSE o \in at(c) : \A x \in at(c) : x <= o
<1>1. /\ StoreType /\ 3 \in Tiers /\ files \in [Tiers -> Seq(AnyCell)]
      /\ \A tier \in Tiers : Len(files[tier]) <= MaxFile
      /\ \A tier \in Tiers : ValuesWhole(files[tier]) /\ TombsWhole(files[tier])
      /\ \A tier \in Tiers : PlainFile(files[tier])
  BY DEF FreeInv, StoreType, Tiers, ValuesInv, TombsInv, Defragment
<1>2. /\ files' = [files EXCEPT ![3] = g] /\ ref' = ref
      /\ freeLists' = [tier \in Tiers |-> RebuildFromFile(files'[tier])]
      /\ hashToValueID' = IF files[3] = <<>> THEN hashToValueID
                          ELSE [c \in Contents |-> IF at(c) = {} THEN 0 ELSE EncodeValueID(3, best(c))]
  BY DEF Defragment, Defragmented
<1>3. /\ g \in Seq(AnyCell) /\ Len(g) <= Len(files[3])
      /\ ValuesWhole(g) /\ TombsWhole(g) /\ PlainFile(g)
  BY <1>1, CompactedFile
<1>4. \A c \in Contents : at(c) \subseteq 0..(Len(g) - 1)
  BY <1>3, ScanWithin DEF Looks, HashedAt
<1>5. Len(g) \in Nat /\ Len(g) <= MaxFile /\ MaxFile \in Nat /\ Span \in Nat /\ MaxFile < Span
  <2>1. Len(g) \in Nat /\ Len(files[3]) \in Nat /\ Len(files[3]) <= MaxFile
    BY <1>1, <1>3
  <2>2. QED
    BY <1>3, <2>1, ValueStoreAssumption
<1> HIDE DEF g
<1>6. ASSUME NEW c \in Contents, at(c) # {} PROVE EncodeValueID(3, best(c)) \in IDs
  <2> DEFINE Room == {Len(g) - o : o \in at(c)}
  <2>1. \A o \in at(c) : o \in Nat /\ o < Len(g)
    BY <1>4, <1>5
  <2>2. Room \subseteq Nat /\ Room # {}
    BY <1>5, <1>6, <2>1
  <2>3. PICK m \in Room : \A j \in Room : m <= j
    BY <2>2, SmallestExists
  <2>4. PICK top \in at(c) : m = Len(g) - top
    BY <2>3
  <2>5. ASSUME NEW x \in at(c) PROVE x <= top
    <3>1. Len(g) - top <= Len(g) - x
      BY <2>3, <2>4
    <3>2. QED
      BY <1>5, <2>1, <3>1
  <2>6. \E o \in at(c) : \A x \in at(c) : x <= o
    BY <2>5
  <2>7. best(c) \in at(c)
    BY <2>6
  <2>8. best(c) \in Nat /\ best(c) < Span
    BY <1>5, <2>1, <2>7
  <2>9. QED
    BY <1>1, <2>8, EncodedIDs
<1>7. hashToValueID' \in [Contents -> IDs]
  <2>1. hashToValueID \in [Contents -> IDs]
    BY <1>1 DEF StoreType
  <2> HIDE DEF at, best
  <2>2. [c \in Contents |-> IF at(c) = {} THEN 0 ELSE EncodeValueID(3, best(c))] \in [Contents -> IDs]
    BY <1>6, ZeroIsAnID
  <2>3. QED
    BY <1>2, <2>1, <2>2
<1>8. ASSUME NEW tier \in Tiers
      PROVE  /\ files'[tier] \in Seq(AnyCell) /\ Len(files'[tier]) <= MaxFile
             /\ ValuesWhole(files'[tier]) /\ TombsWhole(files'[tier]) /\ PlainFile(files'[tier])
  <2>1. CASE tier = 3
    BY <1>1, <1>2, <1>3, <1>5, <2>1
  <2>2. CASE tier # 3
    BY <1>1, <1>2, <2>2
  <2>3. QED
    BY <2>1, <2>2
<1>9. ASSUME NEW tier \in Tiers
      PROVE  FreeOK(freeLists'[tier], files'[tier]) /\ Uncut(freeLists'[tier], files'[tier])
  <2>1. freeLists'[tier] = RebuildFromFile(files'[tier])
    BY <1>2
  <2>2. QED
    BY <1>8, <2>1, RebuiltSpace
<1>10. files' \in [Tiers -> Seq(AnyCell)]
  BY <1>1, <1>2, <1>3
<1>11. freeLists' \in [Tiers -> SUBSET AnyBlock]
  <2>1. \A tier \in Tiers : freeLists'[tier] \in SUBSET AnyBlock
    BY <1>9 DEF FreeOK
  <2>2. QED
    BY <1>2, <2>1
<1>12. StoreType'
  BY <1>1, <1>2, <1>7, <1>8, <1>10, <1>11 DEF StoreType
<1>13. ASSUME NEW tier \in Tiers PROVE FreeOK(freeLists[tier], files[tier])'
  BY <1>9 DEF FreeOK, IntactAt, CellAt, Cell, FreeCells, Separate, RecordCells, EndOf
<1>14. ASSUME NEW tier \in Tiers PROVE ValuesWhole(files[tier])'
  BY <1>8 DEF ValuesWhole, IntactAt, CellAt, Cell
<1>15. ASSUME NEW tier \in Tiers PROVE TombsWhole(files[tier])' /\ Uncut(freeLists[tier], files[tier])'
  BY <1>8, <1>9 DEF TombsWhole, Uncut, TombAt, Cell
<1>16. QED
  BY <1>12, <1>13, <1>14, <1>15 DEF FreeInv, ValuesInv, TombsInv

\* The inductive invariant, until a scan misreads a record: the records of
\* every file are whole and its free list is sound unless a defragmentation
\* met a failed call; and while no call failed no free block cuts a tombstoned
\* record.
SpaceSound ==
    "misled" \notin upsets =>
        /\ ~({"fault", "defragment"} \subseteq upsets) => FreeInv /\ ValuesInv
        /\ "fault" \notin upsets => TombsInv

\* Every step keeps it.
LEMMA SpaceSoundInductive ==
    /\ Init => SpaceSound
    /\ SpaceSound /\ [Next]_vars => SpaceSound'
<1>1. ASSUME Init PROVE SpaceSound
  <2>1. FreeInv
    BY <1>1, FreeInvInductive
  <2>2. \A tier \in Tiers : files[tier] = <<>> /\ freeLists[tier] = {}
    BY <1>1 DEF Init
  <2>3. ValuesWhole(<<>>) /\ TombsWhole(<<>>)
    BY DEF ValuesWhole, TombsWhole
  <2>4. Uncut({}, <<>>)
    BY DEF Uncut
  <2>5. QED
    BY <2>1, <2>2, <2>3, <2>4 DEF SpaceSound, ValuesInv, TombsInv
<1>2. ASSUME SpaceSound, [Next]_vars PROVE SpaceSound'
  <2>0. SUFFICES ASSUME "misled" \notin upsets' PROVE SpaceSound'
    BY DEF SpaceSound
  <2>1. "misled" \notin upsets /\ upsets \subseteq upsets'
    BY <1>2, <2>0, UpsetsStay
  <2>5. ~ DefragmentMisled
    BY <2>0 DEF DefragmentMisled, Upset
  <2>2. CASE Defragment
    <3>1. "defragment" \in upsets' /\ upsets' = upsets \cup {"defragment"}
      BY <2>2 DEF Defragment, Upset
    <3>2. CASE "fault" \in upsets
      BY <3>1, <3>2 DEF SpaceSound
    <3>3. CASE "fault" \notin upsets
      <4>1. FreeInv /\ ValuesInv /\ TombsInv
        BY <1>2, <2>1, <3>3 DEF SpaceSound
      <4>2. FreeInv' /\ ValuesInv' /\ TombsInv'
        BY <2>2, <4>1, DefragmentedSpace
      <4>3. QED
        BY <4>2 DEF SpaceSound
    <3>4. QED
      BY <3>2, <3>3
  <2>3. CASE ~ Defragment
    <3>1. ASSUME ~({"fault", "defragment"} \subseteq upsets') PROVE FreeInv' /\ ValuesInv'
      <4>1. FreeInv /\ ValuesInv
        BY <1>2, <2>1, <3>1 DEF SpaceSound
      <4>2. FreeInv'
        BY <1>2, <2>5, <2>3, <4>1, FreeInvInductive
      <4>3. ASSUME NEW t \in Tiers PROVE ValuesWhole(files[t])'
        <5>1. ValuesWhole(files'[t])
          BY <1>2, <2>5, <2>3, <4>1, TierSteps, TierKeepsWhole DEF ValuesInv
        <5>2. QED
          BY <5>1 DEF ValuesWhole, IntactAt, CellAt, Cell
      <4>4. QED
        BY <4>2, <4>3 DEF ValuesInv
    <3>2. ASSUME "fault" \notin upsets' PROVE TombsInv'
      <4>1. FreeInv /\ TombsInv
        BY <1>2, <2>1, <3>2 DEF SpaceSound
      <4>2. ASSUME NEW t \in Tiers PROVE TombsWhole(files[t])' /\ Uncut(freeLists[t], files[t])'
        <5>1. TombsWhole(files'[t]) /\ Uncut(freeLists'[t], files'[t])
          BY <1>2, <2>5, <2>3, <3>2, <4>1, TierSteps, TierKeepsWhole DEF TombsInv
        <5>2. QED
          BY <5>1 DEF TombsWhole, Uncut, TombAt, Cell
      <4>3. QED
        BY <4>2 DEF TombsInv
    <3>3. QED
      BY <3>1, <3>2 DEF SpaceSound
  <2>4. QED
    BY <2>2, <2>3
<1>3. QED
  BY <1>1, <1>2

\* Unless a call failed and a tier was defragmented as well, or one was
\* defragmented that held a record FreeList misreads (a Money, a Reference or an
\* Unknown, or a byte that looks like a sentinel), a free block is space that no
\* readable record has (AddBlock, AllocateSpace, coalesceBlocks,
\* RebuildFromFile) and adjacent blocks are always merged: over restarts, over
\* failed calls as long as nothing is defragmented, and over any number of
\* defragmentations of other records as long as no call fails.
THEOREM FreeSpaceIsFree == Spec => []FreeListsSound
<1>1. SpaceSound => FreeListsSound
  <2>1. SUFFICES ASSUME FreeInv PROVE FreeSpaceIsDead
    BY DEF SpaceSound, FreeListsSound
  <2>2. SUFFICES ASSUME NEW tier \in Tiers, NEW b \in freeLists[tier]
                 PROVE  /\ b.size > 0 /\ EndOf(b) <= Len(files[tier])
                        /\ Cells(b) \cap LiveCells(tier) = {}
                        /\ \A x \in freeLists[tier] : x = b \/ EndOf(x) < b.offset \/ EndOf(b) < x.offset
    BY DEF FreeSpaceIsDead
  <2> DEFINE f == files[tier]
             B == freeLists[tier]
  <2>3. FreeOK(B, f) /\ f \in Seq(AnyCell)
    BY <2>1 DEF FreeInv, StoreType
  <2>4. B \subseteq AnyBlock /\ Separate(B) /\ FreeCells(B) \subseteq 0..(Len(f) - 1)
    BY <2>3 DEF FreeOK
  <2>5. /\ b.offset \in Nat /\ b.size \in Nat /\ b.size >= 1 /\ EndOf(b) \in Nat
        /\ EndOf(b) = b.offset + b.size /\ EndOf(b) - 1 \in FreeCells(B)
    BY <2>4, BlockEnds
  <2>6. EndOf(b) - 1 \in 0..(Len(f) - 1)
    BY <2>4, <2>5
  <2>7. EndOf(b) <= Len(f) /\ b.size > 0
    BY <2>3, <2>5, <2>6
  <2>8. ASSUME NEW i \in Cells(b), i \in LiveCells(tier) PROVE FALSE
    <3>1. i \in Nat /\ b.offset <= i /\ i < EndOf(b)
      BY <2>5, <2>8 DEF Cells
    <3>2. i \in FreeCells(B)
      BY <3>1 DEF FreeCells
    <3>3. PICK o \in 0..i : \E c \in IntactAt(f, o) : i < o + SizeOf[c]
      BY <2>8 DEF LiveCells
    <3>4. PICK c \in IntactAt(f, o) : i < o + SizeOf[c]
      BY <3>3
    <3>5. o \in Nat /\ o <= i
      BY <3>1, <3>3
    <3>6. c \in Contents
      BY <2>3, <3>4, <3>5, IntactCells
    <3>7. i \in RecordCells(o, c)
      BY <3>1, <3>4, <3>5, <3>6, RecordSizes DEF RecordCells
    <3>8. QED
      BY <2>3, <3>2, <3>4, <3>5, <3>7 DEF FreeOK
  <2>9. \A x \in B : x = b \/ EndOf(x) < b.offset \/ EndOf(b) < x.offset
    BY <2>4 DEF Separate
  <2>10. QED
    BY <2>7, <2>8, <2>9
<1>2. QED
  BY <1>1, SpaceSoundInductive, PTL DEF Spec
-----------------------------------------------------------------------------
(* Held references: the invariant's parts, each of the state it is about.  *)

AnyRef == [id : IDs, of : SUBSET Contents]

\* Offset 0 of tier 0 is padding, and never free.
PadIn(fs, fl) == (fs[0] = <<>> \/ fs[0][1] = Pad) /\ 0 \notin FreeCells(fl[0])

\* The record of content c that an ID names is in the files.
RecordIn(fs, id, c) ==
    \E o \in Nat : o < Span /\ id = EncodeValueID(TierOf[c], o) /\ c \in IntactAt(fs[TierOf[c]], o)

\* What the hash map knows is there.
HashIn(fs, hm) == \A c \in Contents : hm[c] # 0 => RecordIn(fs, hm[c], c)

\* A reference is to the record the hash map knows.
RefsIn(r, hm) ==
    \A h \in Holders : \/ r[h] = NoRef
                       \/ \E c \in Contents : hm[c] # 0 /\ r[h] = [id |-> hm[c], of |-> {c}]

HoldersIn(r, id) == {h \in Holders : r[h].id = id}

CountIn(rc, id) == IF id \in DOMAIN rc THEN rc[id] ELSE 0

\* Every ID has as many references as it is counted to have.
CountsIn(rc, r) ==
    /\ DOMAIN rc \subseteq IDs \ {0}
    /\ \A id \in IDs \ {0} : CountIn(rc, id) = Cardinality(HoldersIn(r, id))

HeldInv ==
    /\ PadIn(files, freeLists)
    /\ HashIn(files, hashToValueID)
    /\ RefsIn(ref, hashToValueID)
    /\ CountsIn(referenceCount, ref)

\* An ID names one record: two contents do not share it.
LEMMA RecordOfID ==
    ASSUME NEW fs \in [Tiers -> Seq(AnyCell)], NEW id, NEW c \in Contents, RecordIn(fs, id, c)
    PROVE  /\ id \in IDs /\ ExtractTier(id) = TierOf[c] /\ ExtractOffset(id) \in Nat
           /\ ExtractOffset(id) < Span /\ id = EncodeValueID(TierOf[c], ExtractOffset(id))
           /\ c \in IntactAt(fs[TierOf[c]], ExtractOffset(id))
           /\ IntactAt(fs[ExtractTier(id)], ExtractOffset(id)) = {c}
<1>1. PICK o \in Nat : o < Span /\ id = EncodeValueID(TierOf[c], o) /\ c \in IntactAt(fs[TierOf[c]], o)
  BY DEF RecordIn
<1>2. TierOf[c] \in Tiers
  BY RecordSizes
<1>3. ExtractTier(id) = TierOf[c] /\ ExtractOffset(id) = o /\ id \in IDs
  BY <1>1, <1>2, ValueIDs, EncodedIDs
<1>4. fs[TierOf[c]] \in Seq(AnyCell)
  BY <1>2
<1>5. IntactAt(fs[TierOf[c]], o) = {c}
  BY <1>1, <1>4, IntactOne
<1>6. QED
  BY <1>1, <1>3, <1>5

\* A set of holders is finite, and its size is a natural number.
LEMMA HoldersFinite ==
    ASSUME NEW r, NEW id
    PROVE  IsFiniteSet(HoldersIn(r, id)) /\ Cardinality(HoldersIn(r, id)) \in Nat
<1>1. IsFiniteSet(Holders) /\ HoldersIn(r, id) \subseteq Holders
  BY ValueStoreAssumption DEF HoldersIn
<1>2. IsFiniteSet(HoldersIn(r, id))
  BY <1>1, FS_Subset
<1>3. QED
  BY <1>2, FS_CardinalityType

\* A holder that had none gets a reference, which is counted.
LEMMA CountedReference ==
    ASSUME NEW rc, NEW r \in [Holders -> AnyRef], CountsIn(rc, r),
           NEW h \in Holders, r[h].id = 0, NEW id \in IDs \ {0}, NEW S \in SUBSET Contents
    PROVE  CountsIn([i \in DOMAIN rc \cup {id} |-> IF i = id THEN CountIn(rc, id) + 1 ELSE rc[i]],
                    [r EXCEPT ![h] = [id |-> id, of |-> S]])
<1> DEFINE new == [id |-> id, of |-> S]
           r2 == [r EXCEPT ![h] = new]
           n == CountIn(rc, id) + 1
           rc2 == [i \in DOMAIN rc \cup {id} |-> IF i = id THEN n ELSE rc[i]]
<1>1. /\ new.id = id /\ r2 = [r EXCEPT ![h] = new]
      /\ rc2 = [i \in DOMAIN rc \cup {id} |-> IF i = id THEN n ELSE rc[i]]
  OBVIOUS
<1> HIDE DEF new, r2, rc2, n
<1>2. \A x \in Holders : r2[x] = IF x = h THEN new ELSE r[x]
  BY <1>1
<1>3. /\ DOMAIN rc2 = DOMAIN rc \cup {id} /\ rc2[id] = n
      /\ \A i \in DOMAIN rc \ {id} : rc2[i] = rc[i]
  BY <1>1
<1>4. HoldersIn(r2, id) = HoldersIn(r, id) \cup {h} /\ h \notin HoldersIn(r, id)
  BY <1>1, <1>2 DEF HoldersIn
<1>5. \A x \in IDs \ {0, id} : HoldersIn(r2, x) = HoldersIn(r, x)
  BY <1>1, <1>2 DEF HoldersIn
<1>6. Cardinality(HoldersIn(r2, id)) = Cardinality(HoldersIn(r, id)) + 1
  <2> DEFINE T == HoldersIn(r, id)
  <2>1. IsFiniteSet(T)
    BY HoldersFinite
  <2> HIDE DEF T
  <2>2. Cardinality(T \cup {h}) = IF h \in T THEN Cardinality(T) ELSE Cardinality(T) + 1
    BY <2>1, FS_AddElement
  <2>3. QED
    BY <1>4, <2>2 DEF T
<1>7. CountIn(rc2, id) = Cardinality(HoldersIn(r2, id))
  <2>1. n = Cardinality(HoldersIn(r, id)) + 1
    BY DEF n, CountsIn
  <2>2. QED
    BY <1>3, <1>6, <2>1 DEF CountIn
<1>8. \A x \in IDs \ {0, id} : CountIn(rc2, x) = CountIn(rc, x)
  BY <1>3 DEF CountIn
<1>9. CountsIn(rc2, r2)
  BY <1>3, <1>5, <1>7, <1>8 DEF CountsIn
<1>10. QED
  BY <1>9 DEF r2, rc2, new, n

\* A holder drops its reference, and it is no longer counted.
LEMMA UncountedReference ==
    ASSUME NEW rc, NEW rc2, NEW r \in [Holders -> AnyRef], CountsIn(rc, r),
           NEW h \in Holders, r[h].id # 0, DOMAIN rc2 \subseteq DOMAIN rc,
           CountIn(rc2, r[h].id) = CountIn(rc, r[h].id) - 1,
           \A i \in IDs \ {0, r[h].id} : CountIn(rc2, i) = CountIn(rc, i)
    PROVE  CountsIn(rc2, [r EXCEPT ![h] = NoRef])
<1> DEFINE id == r[h].id
           r2 == [r EXCEPT ![h] = NoRef]
<1>1. id \in IDs \ {0} /\ NoRef.id = 0
  BY DEF AnyRef, NoRef
<1>2. \A x \in Holders : r2[x] = IF x = h THEN NoRef ELSE r[x]
  OBVIOUS
<1>3. HoldersIn(r2, id) = HoldersIn(r, id) \ {h} /\ h \in HoldersIn(r, id)
  BY <1>1, <1>2 DEF HoldersIn
<1>4. \A x \in IDs \ {0, id} : HoldersIn(r2, x) = HoldersIn(r, x)
  BY <1>1, <1>2 DEF HoldersIn
<1>5. Cardinality(HoldersIn(r2, id)) = Cardinality(HoldersIn(r, id)) - 1
  BY <1>3, HoldersFinite, FS_RemoveElement
<1>6. CountIn(rc2, id) = Cardinality(HoldersIn(r2, id))
  BY <1>1, <1>5 DEF CountsIn
<1> HIDE DEF r2
<1>7. CountsIn(rc2, r2)
  BY <1>1, <1>4, <1>6 DEF CountsIn
<1>8. QED
  BY <1>7 DEF r2

\* An ID that a holder keeps is counted; counted once, it is its alone.
LEMMA HeldIsCounted ==
    ASSUME NEW rc, NEW r \in [Holders -> AnyRef], CountsIn(rc, r), NEW h \in Holders, r[h].id # 0
    PROVE  /\ r[h].id \in DOMAIN rc
           /\ CountIn(rc, r[h].id) = 1 => \A x \in Holders : r[x].id = r[h].id => x = h
           /\ CountIn(rc, r[h].id) # 1 => \E x \in Holders \ {h} : r[x].id = r[h].id
<1> DEFINE id == r[h].id
           S == HoldersIn(r, id)
<1>1. id \in IDs \ {0} /\ h \in S
  BY DEF AnyRef, HoldersIn
<1>2. CountIn(rc, id) = Cardinality(S) /\ IsFiniteSet(S) /\ Cardinality(S) \in Nat
  BY <1>1, HoldersFinite DEF CountsIn
<1>3. Cardinality(S) # 0
  BY <1>1, <1>2, FS_EmptySet
<1>4. id \in DOMAIN rc
  BY <1>2, <1>3 DEF CountIn
<1>5. ASSUME CountIn(rc, id) = 1 PROVE \A x \in Holders : r[x].id = id => x = h
  <2>1. \E y : S = {y}
    BY <1>2, <1>5, FS_Singleton
  <2>2. S = {h}
    BY <1>1, <2>1
  <2>3. QED
    BY <2>2 DEF HoldersIn
<1>6. ASSUME CountIn(rc, id) # 1 PROVE \E x \in Holders \ {h} : r[x].id = id
  <2>1. S # {h}
    BY <1>2, <1>6, FS_Singleton
  <2>2. QED
    BY <1>1, <2>1 DEF HoldersIn
<1>7. QED
  BY <1>4, <1>5, <1>6

\* Which record a reference is to.
LEMMA HeldRecord ==
    ASSUME FreeInv, HeldInv, NEW h \in Holders, ref[h] # NoRef
    PROVE  /\ ref[h].id # 0 /\ ref[h].id \in IDs
           /\ \E c \in Contents : /\ ref[h].of = {c} /\ ref[h].id = hashToValueID[c]
                                  /\ RecordIn(files, ref[h].id, c) /\ ReadValue(ref[h].id) = {c}
<1>1. PICK c \in Contents : hashToValueID[c] # 0 /\ ref[h] = [id |-> hashToValueID[c], of |-> {c}]
  BY DEF HeldInv, RefsIn
<1>2. ref[h].id = hashToValueID[c] /\ ref[h].of = {c}
  BY <1>1
<1>3. files \in [Tiers -> Seq(AnyCell)] /\ RecordIn(files, ref[h].id, c)
  BY <1>1, <1>2 DEF HeldInv, HashIn, FreeInv, StoreType
<1>4. ref[h].id \in IDs /\ ReadValue(ref[h].id) = {c}
  BY <1>3, RecordOfID DEF ReadValue
<1>5. QED
  BY <1>1, <1>2, <1>3, <1>4

\* A new record, written where no record lies, disturbs no held one.
LEMMA WrittenKeepsHeld ==
    ASSUME FreeInv, HeldInv,
           NEW h \in Holders, ref[h] = NoRef, NEW c \in Contents, hashToValueID[c] = 0,
           NEW f \in Seq(AnyCell), \A p \in Nat : IntactAt(f, p) = IntactAt(files[TierOf[c]], p),
           NEW o \in Nat, o <= Len(f), o < Span, TierOf[c] # 0 \/ o # 0,
           \A p \in Nat : \A d \in IntactAt(f, p) : RecordCells(p, d) \cap RecordCells(o, c) = {},
           files' = [files EXCEPT ![TierOf[c]] = Written(f, o, c)],
           Enter(h, c, EncodeValueID(TierOf[c], o))
    PROVE  /\ HashIn(files', hashToValueID') /\ RefsIn(ref', hashToValueID')
           /\ CountsIn(referenceCount', ref')
<1> DEFINE fs == files
           hm == hashToValueID
           r == ref
           rc == referenceCount
<1>0. /\ fs \in [Tiers -> Seq(AnyCell)] /\ hm \in [Contents -> IDs]
      /\ r \in [Holders -> AnyRef] /\ r[h] = NoRef /\ hm[c] = 0
      /\ HashIn(fs, hm) /\ RefsIn(r, hm) /\ CountsIn(rc, r)
      /\ \A p \in Nat : IntactAt(f, p) = IntactAt(fs[TierOf[c]], p)
  BY DEF FreeInv, StoreType, HeldInv, AnyRef
<1> DEFINE tier == TierOf[c]
           id == EncodeValueID(tier, o)
           g == Written(f, o, c)
           fs2 == [fs EXCEPT ![tier] = g]
           hm2 == [hm EXCEPT ![c] = id]
           new == [id |-> id, of |-> {c}]
           r2 == [r EXCEPT ![h] = new]
           rc2 == [i \in DOMAIN rc \cup {id} |-> IF i = id THEN 1 ELSE rc[i]]
<1>11. /\ files' = fs2 /\ hashToValueID' = hm2 /\ ref' = r2 /\ referenceCount' = rc2
  BY DEF Enter, Counted
<1> HIDE DEF fs, hm, r, rc
<1>1. tier \in Tiers /\ SizeOf[c] \in Nat /\ SizeOf[c] >= 2
  BY RecordSizes
<1>2. id \in IDs \ {0}
  BY <1>1, ValueIDs, EncodedIDs
<1>3. c \in IntactAt(g, o)
  BY WrittenReadsBack
<1>4. ASSUME NEW d \in Contents, hm[d] # 0 PROVE hm[d] # id /\ RecordIn(fs2, hm[d], d)
  <2>1. PICK p \in Nat : p < Span /\ hm[d] = EncodeValueID(TierOf[d], p) /\ d \in IntactAt(fs[TierOf[d]], p)
    BY <1>0, <1>4 DEF HashIn, RecordIn
  <2>2. TierOf[d] \in Tiers /\ SizeOf[d] \in Nat /\ SizeOf[d] >= 2
    BY RecordSizes
  <2>3. CASE TierOf[d] # tier
    <3>1. hm[d] # id
      BY <1>1, <2>1, <2>2, <2>3, ValueIDs
    <3>2. fs2[TierOf[d]] = fs[TierOf[d]]
      BY <1>0, <2>2, <2>3
    <3>3. QED
      BY <2>1, <3>1, <3>2 DEF RecordIn
  <2>4. CASE TierOf[d] = tier
    <3>1. d \in IntactAt(f, p)
      BY <1>0, <2>1, <2>4
    <3>2. RecordCells(p, d) \cap RecordCells(o, c) = {}
      BY <3>1
    <3>3. p \in RecordCells(p, d) /\ o \in RecordCells(o, c)
      BY <1>1, <2>2 DEF RecordCells
    <3>4. p # o
      BY <3>2, <3>3
    <3>5. hm[d] # id
      BY <1>1, <2>1, <2>4, <3>4, ValueIDs
    <3>6. d \in IntactAt(g, p)
      BY <3>1, <3>2, WrittenKeepsOthers
    <3>7. fs2[TierOf[d]] = g
      BY <1>0, <1>1, <2>4
    <3>8. QED
      BY <2>1, <3>5, <3>6, <3>7 DEF RecordIn
  <2>5. QED
    BY <2>3, <2>4
<1>5. HashIn(fs2, hm2)
  <2>1. SUFFICES ASSUME NEW d \in Contents, hm2[d] # 0 PROVE RecordIn(fs2, hm2[d], d)
    BY DEF HashIn
  <2>2. CASE d = c
    <3>1. hm2[d] = id /\ fs2[tier] = g
      BY <1>0, <1>1, <2>2
    <3>2. QED
      BY <1>3, <2>2, <3>1 DEF RecordIn
  <2>3. CASE d # c
    <3>1. hm2[d] = hm[d]
      BY <1>0, <2>3
    <3> HIDE DEF fs2, hm2
    <3>2. QED
      BY <1>4, <2>1, <3>1
  <2>4. QED
    BY <2>2, <2>3
<1> HIDE DEF id
<1>6. RefsIn(r2, hm2)
  <2>1. hm2[c] = id /\ \A d \in Contents : hm[d] # 0 => hm2[d] = hm[d]
    BY <1>0
  <2>2. r2[h] = [id |-> hm2[c], of |-> {c}] /\ \A x \in Holders \ {h} : r2[x] = r[x]
    BY <1>0, <2>1
  <2> HIDE DEF hm2, r2
  <2>3. QED
    BY <1>0, <1>2, <2>1, <2>2 DEF RefsIn
<1>7. CountIn(rc, id) = 0
  <2>1. ASSUME NEW x \in Holders PROVE r[x].id # id
    <3>1. CASE r[x] = NoRef
      BY <1>2, <3>1 DEF NoRef
    <3>2. CASE \E d \in Contents : hm[d] # 0 /\ r[x] = [id |-> hm[d], of |-> {d}]
      <4>1. PICK d \in Contents : hm[d] # 0 /\ r[x] = [id |-> hm[d], of |-> {d}]
        BY <3>2
      <4>2. r[x].id = hm[d]
        BY <4>1
      <4>3. QED
        BY <1>4, <4>1, <4>2
    <3>3. QED
      BY <1>0, <3>1, <3>2 DEF RefsIn
  <2>2. HoldersIn(r, id) = {}
    BY <2>1 DEF HoldersIn
  <2>3. Cardinality(HoldersIn(r, id)) = 0
    BY <2>2, FS_EmptySet
  <2>4. QED
    BY <1>0, <1>2, <2>3 DEF CountsIn
<1>8. CountsIn(rc2, r2)
  <2>1. r[h].id = 0 /\ {c} \in SUBSET Contents
    BY <1>0 DEF NoRef
  <2>2. CountsIn([i \in DOMAIN rc \cup {id} |-> IF i = id THEN CountIn(rc, id) + 1 ELSE rc[i]], r2)
    BY <1>0, <1>2, <2>1, CountedReference
  <2>3. CountIn(rc, id) + 1 = 1
    BY <1>7
  <2>4. QED
    BY <2>2, <2>3
<1>9. QED
  BY <1>5, <1>6, <1>8, <1>11

\* The state after a step, part by part.
LEMMA HeldNext ==
    ASSUME PadIn(files', freeLists'), HashIn(files', hashToValueID'),
           RefsIn(ref', hashToValueID'), CountsIn(referenceCount', ref')
    PROVE  HeldInv'
BY DEF HeldInv

\* A holder drops its reference to a record the hash map may then forget: the
\* others keep theirs. The record's offset is all that changes in the files.
LEMMA DroppedKeepsHeld ==
    ASSUME FreeInv, HeldInv, NEW h \in Holders, Drop(h),
           ref[h].id # 0, CountIn(referenceCount, ref[h].id) = 1,
           NEW c \in Contents, hashToValueID[c] = ref[h].id,
           hashToValueID' = [x \in Contents |-> IF x = c THEN 0 ELSE hashToValueID[x]],
           \A t \in Tiers : \A p \in Nat :
              \/ t = ExtractTier(ref[h].id) /\ p = ExtractOffset(ref[h].id)
              \/ IntactAt(files'[t], p) = IntactAt(files[t], p)
    PROVE  HashIn(files', hashToValueID') /\ RefsIn(ref', hashToValueID')
<1> DEFINE fs == files
           fs2 == files'
           hm == hashToValueID
           hm2 == hashToValueID'
           r == ref
           r2 == ref'
           rc == referenceCount
           id == r[h].id
<1>0. /\ fs \in [Tiers -> Seq(AnyCell)] /\ hm \in [Contents -> IDs]
      /\ r \in [Holders -> AnyRef] /\ r[h].id # 0 /\ CountIn(rc, r[h].id) = 1
      /\ HashIn(fs, hm) /\ RefsIn(r, hm) /\ CountsIn(rc, r) /\ hm[c] = id
      /\ hm2 = [x \in Contents |-> IF x = c THEN 0 ELSE hm[x]] /\ r2 = [r EXCEPT ![h] = NoRef]
      /\ \A t \in Tiers : \A p \in Nat :
            \/ t = ExtractTier(id) /\ p = ExtractOffset(id)
            \/ IntactAt(fs2[t], p) = IntactAt(fs[t], p)
  BY DEF FreeInv, StoreType, HeldInv, AnyRef, Drop
<1> HIDE DEF fs, fs2, hm, hm2, r, r2, rc
<1>1. RecordIn(fs, id, c)
  BY <1>0 DEF HashIn
<1>2. IntactAt(fs[ExtractTier(id)], ExtractOffset(id)) = {c}
  BY <1>0, <1>1, RecordOfID
<1>3. ASSUME NEW d \in Contents, hm2[d] # 0 PROVE RecordIn(fs2, hm2[d], d)
  <2>1. d # c /\ hm2[d] = hm[d] /\ hm[d] # 0
    BY <1>0, <1>3
  <2>2. PICK p \in Nat : p < Span /\ hm[d] = EncodeValueID(TierOf[d], p) /\ d \in IntactAt(fs[TierOf[d]], p)
    BY <1>0, <2>1 DEF HashIn, RecordIn
  <2>3. TierOf[d] \in Tiers
    BY RecordSizes
  <2>4. ~ (TierOf[d] = ExtractTier(id) /\ p = ExtractOffset(id))
    BY <1>2, <2>1, <2>2
  <2>5. IntactAt(fs2[TierOf[d]], p) = IntactAt(fs[TierOf[d]], p)
    BY <1>0, <2>3, <2>4
  <2>6. QED
    BY <2>1, <2>2, <2>5 DEF RecordIn
<1>4. ASSUME NEW x \in Holders \ {h}, r[x] # NoRef
      PROVE  \E d \in Contents : hm2[d] # 0 /\ r[x] = [id |-> hm2[d], of |-> {d}]
  <2>1. PICK d \in Contents : hm[d] # 0 /\ r[x] = [id |-> hm[d], of |-> {d}]
    BY <1>0, <1>4 DEF RefsIn
  <2>2. r[x].id = hm[d]
    BY <2>1
  <2>3. r[x].id # id
    BY <1>0, HeldIsCounted
  <2>4. d # c
    BY <1>0, <2>2, <2>3
  <2>5. hm2[d] = hm[d]
    BY <1>0, <2>4
  <2>6. QED
    BY <2>1, <2>5
<1>5. RefsIn(r2, hm2)
  <2>1. r2[h] = NoRef /\ \A x \in Holders \ {h} : r2[x] = r[x]
    BY <1>0
  <2>2. SUFFICES ASSUME NEW x \in Holders
                 PROVE  \/ r2[x] = NoRef
                        \/ \E d \in Contents : hm2[d] # 0 /\ r2[x] = [id |-> hm2[d], of |-> {d}]
    BY DEF RefsIn
  <2>3. CASE x = h \/ r[x] = NoRef
    BY <2>1, <2>3
  <2>4. CASE x # h /\ r[x] # NoRef
    BY <1>4, <2>1, <2>4
  <2>5. QED
    BY <2>3, <2>4
<1>6. HashIn(fs2, hm2)
  BY <1>3 DEF HashIn
<1>7. QED
  BY <1>5, <1>6 DEF fs2, hm2, r2

\* HeldInv holds at first, and every step but a restart and a defragmentation
\* keeps it.
LEMMA HeldInvInductive ==
    /\ Init => HeldInv
    /\ FreeInv /\ HeldInv /\ [Next]_vars /\ upsets' \subseteq {"fault"} => HeldInv'
<1>1. ASSUME Init PROVE HeldInv
  <2>1. PadIn(files, freeLists)
    BY <1>1 DEF Init, PadIn, FreeCells, Tiers
  <2>2. HashIn(files, hashToValueID) /\ RefsIn(ref, hashToValueID)
    BY <1>1 DEF Init, HashIn, RefsIn
  <2>3. ASSUME NEW id \in IDs \ {0} PROVE CountIn(referenceCount, id) = Cardinality(HoldersIn(ref, id))
    <3>1. HoldersIn(ref, id) = {}
      BY <1>1 DEF Init, NoRef, HoldersIn
    <3>2. CountIn(referenceCount, id) = 0
      BY <1>1 DEF Init, CountIn
    <3>3. QED
      BY <3>1, <3>2, FS_EmptySet
  <2>4. CountsIn(referenceCount, ref)
    BY <1>1, <2>3 DEF Init, CountsIn
  <2>5. QED
    BY <2>1, <2>2, <2>4 DEF HeldInv
<1> DEFINE I == FreeInv /\ HeldInv
<1>2. ASSUME I
      PROVE  /\ files \in [Tiers -> Seq(AnyCell)] /\ hashToValueID \in [Contents -> IDs]
             /\ ref \in [Holders -> AnyRef] /\ StoreType /\ 0 \in Tiers
             /\ PadIn(files, freeLists) /\ HashIn(files, hashToValueID)
             /\ RefsIn(ref, hashToValueID) /\ CountsIn(referenceCount, ref)
             /\ \A tier \in Tiers : /\ FreeOK(freeLists[tier], files[tier])
                                    /\ files[tier] \in Seq(AnyCell) /\ Len(files[tier]) <= MaxFile
  BY <1>2 DEF HeldInv, FreeInv, StoreType, AnyRef, Tiers
<1>3. ASSUME I, NEW h \in Holders, NEW c \in Contents, Deduplicate(h, c) PROVE HeldInv'
  <2> DEFINE id == hashToValueID[c]
  <2>1. /\ ref[h] = NoRef /\ id # 0 /\ UNCHANGED <<files, freeLists, hashToValueID>>
        /\ referenceCount' = [i \in DOMAIN referenceCount \cup {id} |->
                                IF i = id THEN CountIn(referenceCount, id) + 1 ELSE referenceCount[i]]
        /\ ref' = [ref EXCEPT ![h] = [id |-> id, of |-> {c}]]
    BY <1>3 DEF Deduplicate, Counted, CountOf, CountIn
  <2>2. id \in IDs \ {0} /\ {c} \in SUBSET Contents /\ ref[h].id = 0
    BY <1>2, <1>3, <2>1 DEF NoRef
  <2>3. CountsIn(referenceCount', ref')
    BY <1>2, <1>3, <2>1, <2>2, CountedReference
  <2>4. RefsIn(ref', hashToValueID')
    <3>1. ref'[h] = [id |-> hashToValueID[c], of |-> {c}] /\ \A x \in Holders \ {h} : ref'[x] = ref[x]
      BY <1>2, <1>3, <2>1
    <3>2. QED
      BY <1>2, <1>3, <2>1, <3>1 DEF RefsIn
  <2>5. QED
    BY <1>2, <1>3, <2>1, <2>3, <2>4, HeldNext
<1>4. ASSUME I, NEW h \in Holders, NEW c \in Contents, Reuse(h, c) PROVE HeldInv'
  <2> DEFINE tier == TierOf[c]
             f == files[tier]
             B == freeLists[tier]
             b == FirstFit(B, SizeOf[c])
             o == b.offset
             A == Allocated(B, b, SizeOf[c])
             g == Written(f, o, c)
             id == EncodeValueID(tier, o)
  <2>1. /\ ref[h] = NoRef /\ hashToValueID[c] = 0 /\ Fitting(B, SizeOf[c]) # {}
        /\ freeLists' = [freeLists EXCEPT ![tier] = A] /\ files' = [files EXCEPT ![tier] = g]
        /\ hashToValueID' = [hashToValueID EXCEPT ![c] = id]
        /\ referenceCount' = [i \in DOMAIN referenceCount \cup {id} |->
                                IF i = id THEN 1 ELSE referenceCount[i]]
        /\ ref' = [ref EXCEPT ![h] = [id |-> id, of |-> {c}]]
    BY <1>4 DEF Reuse, Enter, Counted
  <2>2. tier \in Tiers /\ f \in Seq(AnyCell) /\ FreeOK(B, f) /\ Len(f) <= MaxFile /\ SizeOf[c] \in Nat
        /\ SizeOf[c] >= 2
    BY <1>2, <1>4, RecordSizes
  <2>3. /\ o \in Nat /\ o + SizeOf[c] <= Len(f) /\ RecordCells(o, c) \subseteq FreeCells(B)
        /\ FreeCells(A) = FreeCells(B) \ RecordCells(o, c) /\ Len(g) = Len(f)
    BY <2>1, <2>2, ReusedSpace
  <2> HIDE DEF b, A, B, f
  <2>4. o < Span /\ o <= Len(f) /\ Len(f) \in Nat
    <3>1. MaxFile \in Nat /\ Span \in Nat /\ MaxFile < Span /\ Len(f) \in Nat
      BY <2>2, ValueStoreAssumption
    <3>2. QED
      BY <2>2, <2>3, <3>1
  <2>5. \A p \in Nat : \A d \in IntactAt(f, p) : RecordCells(p, d) \cap RecordCells(o, c) = {}
    BY <2>2, <2>3 DEF FreeOK
  <2>6. tier # 0 \/ o # 0
    <3>1. o \in RecordCells(o, c)
      BY <2>2, <2>3 DEF RecordCells
    <3>2. tier = 0 => o # 0
      BY <1>2, <1>4, <2>3, <3>1 DEF PadIn, B
    <3>3. QED
      BY <3>2
  <2>7. \A p \in Nat : IntactAt(f, p) = IntactAt(files[tier], p)
    BY DEF f
  <2>8. /\ HashIn(files', hashToValueID') /\ RefsIn(ref', hashToValueID')
        /\ CountsIn(referenceCount', ref')
    <3>1. files' = [files EXCEPT ![TierOf[c]] = Written(f, o, c)]
      BY <2>1
    <3>2. Enter(h, c, EncodeValueID(TierOf[c], o))
      BY <2>1 DEF Enter, Counted
    <3>3. o <= Len(f) /\ o < Span /\ ref[h] = NoRef /\ hashToValueID[c] = 0
      BY <2>1, <2>4
    <3> HIDE DEF g, id, o
    <3>4. QED
      BY <1>4, <2>2, <2>3, <2>5, <2>6, <2>7, <3>1, <3>2, <3>3, WrittenKeepsHeld
  <2>9. PadIn(files', freeLists')
    <3>1. CASE tier # 0
      <4>1. files'[0] = files[0] /\ freeLists'[0] = freeLists[0]
        BY <1>2, <1>4, <2>1, <3>1 DEF StoreType
      <4>2. QED
        BY <1>2, <1>4, <4>1 DEF PadIn
    <3>2. CASE tier = 0
      <4>1. files'[0] = g /\ freeLists'[0] = A /\ f = files[0] /\ B = freeLists[0]
        BY <1>2, <1>4, <2>1, <3>2 DEF StoreType, f, B
      <4>2. 1 \in 1..Len(g) /\ 1 \notin (o + 1)..(o + SizeOf[c])
        BY <2>2, <2>3, <2>4, <2>6, <3>2
      <4>3. g[1] = f[1]
        <5>1. \A i \in 1..Len(g) : g[i] = IF i \in (o + 1)..(o + SizeOf[c])
                                          THEN Cell(c, i - o) ELSE f[i]
          BY <2>2, <2>3, <2>4, WrittenFile
        <5>2. QED
          BY <4>2, <5>1
      <4>4. f # <<>>
        BY <2>2, <2>3, <2>4
      <4>5. f[1] = Pad /\ 0 \notin FreeCells(B)
        BY <1>2, <1>4, <4>1, <4>4 DEF PadIn
      <4>6. QED
        BY <2>3, <4>1, <4>3, <4>5 DEF PadIn
    <3>3. QED
      BY <3>1, <3>2
  <2>10. QED
    BY <2>8, <2>9, HeldNext
<1>5. ASSUME I, NEW h \in Holders, NEW c \in Contents, AppendRecord(h, c) PROVE HeldInv'
  <2> DEFINE tier == TierOf[c]
             f == Padded(tier)
             o == Len(f)
             g == Written(f, o, c)
             id == EncodeValueID(tier, o)
  <2>1. /\ ref[h] = NoRef /\ hashToValueID[c] = 0 /\ o + SizeOf[c] <= MaxFile
        /\ freeLists' = freeLists /\ files' = [files EXCEPT ![tier] = g]
        /\ hashToValueID' = [hashToValueID EXCEPT ![c] = id]
        /\ referenceCount' = [i \in DOMAIN referenceCount \cup {id} |->
                                IF i = id THEN 1 ELSE referenceCount[i]]
        /\ ref' = [ref EXCEPT ![h] = [id |-> id, of |-> {c}]]
    BY <1>5 DEF AppendRecord, Enter, Counted
  <2>2. tier \in Tiers /\ SizeOf[c] \in Nat /\ SizeOf[c] >= 2 /\ StoreType
    BY <1>2, <1>5, RecordSizes
  <2>3. /\ f \in Seq(AnyCell) /\ \A p \in Nat : IntactAt(f, p) = IntactAt(files[tier], p)
        /\ tier = 0 => o >= 1
        /\ files[tier] # <<>> => f = files[tier]
        /\ files[tier] = <<>> => f = (IF tier = 0 THEN <<Pad>> ELSE <<>>)
    BY <2>2, PaddedFile
  <2> HIDE DEF f
  <2>4. o \in Nat /\ o <= Len(f) /\ o < Span
    <3>1. MaxFile \in Nat /\ Span \in Nat /\ MaxFile < Span /\ Len(f) \in Nat
      BY <2>3, ValueStoreAssumption
    <3>2. QED
      BY <2>1, <2>2, <3>1
  <2>5. \A p \in Nat : \A d \in IntactAt(f, p) : RecordCells(p, d) \cap RecordCells(o, c) = {}
    <3>1. TAKE p \in Nat
    <3>2. TAKE d \in IntactAt(f, p)
    <3>3. d \in Contents /\ p + SizeOf[d] <= Len(f)
      BY <2>3, IntactCells
    <3>4. SizeOf[d] \in Nat
      BY <3>3, RecordSizes
    <3>5. QED
      BY <2>2, <2>4, <3>3, <3>4 DEF RecordCells
  <2>6. tier # 0 \/ o # 0
    BY <2>3, <2>4
  <2>8. /\ HashIn(files', hashToValueID') /\ RefsIn(ref', hashToValueID')
        /\ CountsIn(referenceCount', ref')
    <3>1. files' = [files EXCEPT ![TierOf[c]] = Written(f, o, c)]
      BY <2>1
    <3>2. Enter(h, c, EncodeValueID(TierOf[c], o))
      BY <2>1 DEF Enter, Counted
    <3>3. o <= Len(f) /\ o < Span /\ ref[h] = NoRef /\ hashToValueID[c] = 0 /\ o \in Nat
      BY <2>1, <2>4
    <3> HIDE DEF g, id, o
    <3>4. QED
      BY <1>5, <2>3, <2>5, <2>6, <3>1, <3>2, <3>3, WrittenKeepsHeld
  <2>9. PadIn(files', freeLists')
    <3>1. CASE tier # 0
      <4>1. files'[0] = files[0]
        BY <1>2, <1>5, <2>1, <3>1 DEF StoreType
      <4>2. QED
        BY <1>2, <1>5, <2>1, <4>1 DEF PadIn
    <3>2. CASE tier = 0
      <4>1. files'[0] = g
        BY <1>2, <1>5, <2>1, <3>2 DEF StoreType
      <4>2. /\ Len(g) = IF o + SizeOf[c] > Len(f) THEN o + SizeOf[c] ELSE Len(f)
            /\ \A i \in 1..Len(g) : g[i] = IF i \in (o + 1)..(o + SizeOf[c])
                                           THEN Cell(c, i - o) ELSE f[i]
        BY <2>3, <2>4, WrittenFile
      <4>3. 1 \in 1..Len(g) /\ 1 \notin (o + 1)..(o + SizeOf[c])
        BY <2>2, <2>3, <2>4, <3>2, <4>2
      <4>4. g[1] = f[1]
        BY <4>2, <4>3
      <4>5. f[1] = Pad
        <5>1. CASE files[0] = <<>>
          BY <2>3, <3>2, <5>1
        <5>2. CASE files[0] # <<>>
          BY <1>2, <1>5, <2>3, <3>2, <5>2 DEF PadIn
        <5>3. QED
          BY <5>1, <5>2
      <4>6. QED
        BY <1>2, <1>5, <2>1, <4>1, <4>4, <4>5 DEF PadIn
    <3>3. QED
      BY <3>1, <3>2
  <2>10. QED
    BY <2>8, <2>9, HeldNext
<1>6. ASSUME I, NEW c \in Contents, WriteFails(c) PROVE HeldInv'
  <2> DEFINE tier == TierOf[c]
             B == freeLists[tier]
             A == Allocated(B, FirstFit(B, SizeOf[c]), SizeOf[c])
  <2>1. /\ hashToValueID' = hashToValueID /\ ref' = ref /\ referenceCount' = referenceCount
        /\ \/ /\ Fitting(B, SizeOf[c]) # {} /\ files' = files
              /\ freeLists' = [freeLists EXCEPT ![tier] = A]
           \/ files' = [files EXCEPT ![tier] = Padded(tier)] /\ freeLists' = freeLists
    BY <1>6 DEF WriteFails
  <2>2. tier \in Tiers /\ FreeOK(B, files[tier]) /\ files[tier] \in Seq(AnyCell) /\ StoreType
    BY <1>2, <1>6, RecordSizes
  <2>3. CASE /\ Fitting(B, SizeOf[c]) # {} /\ files' = files
             /\ freeLists' = [freeLists EXCEPT ![tier] = A]
    <3>1. FreeCells(A) \subseteq FreeCells(B)
      BY <2>2, <2>3, ReusedSpace
    <3>2. FreeCells(freeLists'[0]) \subseteq FreeCells(freeLists[0])
      <4> HIDE DEF A
      <4>1. freeLists'[0] = IF tier = 0 THEN A ELSE freeLists[0]
        BY <1>2, <1>6, <2>3 DEF StoreType
      <4>2. QED
        BY <3>1, <4>1
    <3>3. PadIn(files', freeLists')
      BY <1>2, <1>6, <2>3, <3>2 DEF PadIn
    <3>4. QED
      BY <1>2, <1>6, <2>1, <2>3, <3>3, HeldNext
  <2>4. CASE files' = [files EXCEPT ![tier] = Padded(tier)] /\ freeLists' = freeLists
    <3>1. /\ \A p \in Nat : IntactAt(Padded(tier), p) = IntactAt(files[tier], p)
          /\ files[tier] # <<>> => Padded(tier) = files[tier]
          /\ files[tier] = <<>> => Padded(tier) = (IF tier = 0 THEN <<Pad>> ELSE <<>>)
      BY <2>2, PaddedFile
    <3>2. \A t \in Tiers : files'[t] = IF t = tier THEN Padded(tier) ELSE files[t]
      BY <1>2, <1>6, <2>4
    <3>3. \A t \in Tiers : \A p \in Nat : IntactAt(files'[t], p) = IntactAt(files[t], p)
      BY <3>1, <3>2
    <3>4. HashIn(files', hashToValueID')
      BY <1>2, <1>6, <2>1, <3>3, RecordSizes DEF HashIn, RecordIn
    <3>5. files'[0] = <<>> \/ files'[0][1] = Pad
      <4>1. CASE files[0] = <<>> /\ tier = 0
        <5>1. files'[0] = <<Pad>>
          BY <1>2, <1>6, <3>1, <3>2, <4>1
        <5>2. QED
          BY <5>1
      <4>2. CASE files[0] # <<>> \/ tier # 0
        <5>1. files'[0] = files[0]
          BY <1>2, <1>6, <3>1, <3>2, <4>2
        <5>2. QED
          BY <1>2, <1>6, <5>1 DEF PadIn
      <4>3. QED
        BY <4>1, <4>2
    <3>6. PadIn(files', freeLists')
      BY <1>2, <1>6, <2>4, <3>5 DEF PadIn
    <3>7. QED
      BY <1>2, <1>6, <2>1, <3>4, <3>6, HeldNext
  <2>5. QED
    BY <2>1, <2>3, <2>4
<1>7. ASSUME I, NEW h \in Holders, ref[h] # NoRef
      PROVE  /\ ref[h].id # 0 /\ ref[h].id \in IDs /\ ref[h].id \in DOMAIN referenceCount
             /\ ReadValue(ref[h].id) # {} /\ CountOf(ref[h].id) = CountIn(referenceCount, ref[h].id)
  <2>1. /\ ref[h].id # 0 /\ ref[h].id \in IDs /\ ReadValue(ref[h].id) # {}
    BY <1>7, HeldRecord
  <2>2. ref[h].id \in DOMAIN referenceCount
    BY <1>2, <1>7, <2>1, HeldIsCounted
  <2>3. QED
    BY <2>1, <2>2 DEF CountOf, CountIn
<1>8. ASSUME I, NEW h \in Holders, Release(h) PROVE HeldInv'
  <2> DEFINE id == ref[h].id
  <2>1. /\ UNCHANGED <<files, freeLists, hashToValueID>> /\ ref' = [ref EXCEPT ![h] = NoRef]
        /\ ref[h] # NoRef
        /\ referenceCount' = [i \in DOMAIN referenceCount \cup {id} |->
                                IF i = id THEN CountOf(id) - 1 ELSE referenceCount[i]]
    BY <1>8 DEF Release, Drop, Counted
  <2>2. id # 0 /\ id \in DOMAIN referenceCount /\ CountOf(id) = CountIn(referenceCount, id)
    BY <1>7, <1>8, <2>1
  <2>3. CountsIn(referenceCount', ref')
    <3>1. /\ DOMAIN referenceCount' = DOMAIN referenceCount /\ referenceCount'[id] = CountOf(id) - 1
          /\ \A i \in DOMAIN referenceCount \ {id} : referenceCount'[i] = referenceCount[i]
      BY <2>1, <2>2
    <3>2. /\ CountIn(referenceCount', id) = CountIn(referenceCount, id) - 1
          /\ \A i : i # id => CountIn(referenceCount', i) = CountIn(referenceCount, i)
      BY <2>2, <3>1 DEF CountIn
    <3>3. QED
      BY <1>2, <1>8, <2>1, <2>2, <3>1, <3>2, UncountedReference
  <2>4. RefsIn(ref', hashToValueID')
    <3>1. ref'[h] = NoRef /\ \A x \in Holders \ {h} : ref'[x] = ref[x]
      BY <1>2, <1>8, <2>1
    <3>2. QED
      BY <1>2, <1>8, <2>1, <3>1 DEF RefsIn
  <2>5. QED
    BY <1>2, <1>8, <2>1, <2>3, <2>4, HeldNext
<1>9. ASSUME I, NEW h \in Holders, ref[h] # NoRef, LastReference(ref[h].id),
             referenceCount' = Uncounted(ref[h].id), Drop(h)
      PROVE  CountsIn(referenceCount', ref') /\ CountIn(referenceCount, ref[h].id) = 1
  <2> DEFINE id == ref[h].id
  <2>1. id # 0 /\ id \in DOMAIN referenceCount /\ CountOf(id) = CountIn(referenceCount, id)
    BY <1>7, <1>9
  <2>2. CountIn(referenceCount, id) = 1
    BY <1>9, <2>1 DEF LastReference
  <2>3. referenceCount' = [i \in DOMAIN referenceCount \ {id} |-> referenceCount[i]]
    BY <1>9 DEF Uncounted
  <2>4. /\ DOMAIN referenceCount' \subseteq DOMAIN referenceCount /\ CountIn(referenceCount', id) = 0
        /\ \A i : i # id => CountIn(referenceCount', i) = CountIn(referenceCount, i)
    BY <2>1, <2>3 DEF CountIn
  <2>5. CountIn(referenceCount', id) = CountIn(referenceCount, id) - 1
    BY <2>2, <2>4
  <2>6. CountsIn(referenceCount', ref')
    BY <1>2, <1>9, <2>1, <2>4, <2>5, UncountedReference DEF Drop
  <2>7. QED
    BY <2>2, <2>6
<1>10. ASSUME I, NEW h \in Holders, Tombstone(h) PROVE HeldInv'
  <2> DEFINE id == ref[h].id
             tier == ExtractTier(id)
             o == ExtractOffset(id)
             f == files[tier]
             B == freeLists[tier]
             g == Tombstoned(f, o)
  <2>1. /\ ref[h] # NoRef /\ Drop(h) /\ hashToValueID' = Forgotten(id)
        /\ files' = [files EXCEPT ![tier] = g] /\ LastReference(id)
        /\ referenceCount' = Uncounted(id)
    BY <1>10 DEF Tombstone, Freed
  <2>2. PICK c \in Contents : /\ id = hashToValueID[c] /\ RecordIn(files, id, c)
                              /\ ReadValue(id) = {c}
    BY <1>10, <2>1, HeldRecord
  <2>3. freeLists' = [freeLists EXCEPT ![tier] = AddBlock(B, o, SizeOf[c])]
    BY <1>10, <2>2 DEF Tombstone, Freed
  <2>4. id \in IDs /\ id # 0
    BY <1>7, <1>10, <2>1
  <2>5. tier \in Tiers /\ o \in Nat /\ id = EncodeValueID(tier, o) /\ o < Span
    BY <2>4, IDParts, ValueStoreAssumption
  <2>6. f \in Seq(AnyCell) /\ FreeOK(B, f) /\ c \in IntactAt(f, o)
    BY <1>2, <1>10, <2>2, <2>5 DEF ReadValue
  <2>7. /\ g \in Seq(AnyCell) /\ Len(g) = Len(f)
        /\ \A i \in 1..Len(f) : i # o + 1 => g[i] = f[i]
        /\ \A p \in Nat : p # o => IntactAt(g, p) = IntactAt(f, p)
    BY <2>5, <2>6, TombstonedFile
  <2>8. FreeCells(AddBlock(B, o, SizeOf[c])) = FreeCells(B) \cup RecordCells(o, c)
    BY <2>5, <2>6, TombstonedSpace
  <2>9. CountsIn(referenceCount', ref') /\ CountIn(referenceCount, id) = 1
    BY <1>9, <1>10, <2>1
  <2>10. hashToValueID' = [x \in Contents |-> IF x = c THEN 0 ELSE hashToValueID[x]]
    BY <2>1, <2>2 DEF Forgotten
  <2>11. HashIn(files', hashToValueID') /\ RefsIn(ref', hashToValueID')
    <3> HIDE DEF g, f
    <3>2. \A t \in Tiers : files'[t] = IF t = tier THEN g ELSE files[t]
      BY <1>2, <1>10, <2>1
    <3>3. \A t \in Tiers : \A p \in Nat : \/ t = tier /\ p = o
                                          \/ IntactAt(files'[t], p) = IntactAt(files[t], p)
      BY <2>7, <3>2 DEF f
    <3>4. QED
      BY <1>10, <2>1, <2>2, <2>4, <2>9, <2>10, <3>3, DroppedKeepsHeld
  <2>12. PadIn(files', freeLists')
    <3>1. CASE tier # 0
      <4>1. files'[0] = files[0] /\ freeLists'[0] = freeLists[0]
        BY <1>2, <1>10, <2>1, <2>3, <3>1 DEF StoreType
      <4>2. QED
        BY <1>2, <1>10, <4>1 DEF PadIn
    <3>2. CASE tier = 0
      <4>1. o # 0
        BY <2>4, <2>5, <3>2, ValueIDs
      <4>2. f = files[0] /\ B = freeLists[0]
        BY <3>2
      <4> HIDE DEF f, B, g
      <4>3. files'[0] = g /\ freeLists'[0] = AddBlock(B, o, SizeOf[c])
        BY <1>2, <1>10, <2>1, <2>3, <3>2 DEF StoreType
      <4>4. 0 \notin RecordCells(o, c)
        BY <2>5, <4>1, RecordSizes DEF RecordCells
      <4>5. f # <<>> /\ 1 \in 1..Len(f)
        <5>1. Len(f) \in Nat /\ SizeOf[c] \in Nat /\ SizeOf[c] >= 2 /\ o + SizeOf[c] <= Len(f)
          BY <2>5, <2>6, IntactCells, RecordSizes
        <5>2. QED
          BY <2>5, <5>1
      <4>6. g[1] = f[1]
        BY <2>5, <2>7, <4>1, <4>5
      <4>7. f[1] = Pad /\ 0 \notin FreeCells(B)
        BY <1>2, <1>10, <4>2, <4>5 DEF PadIn
      <4>8. QED
        BY <2>8, <4>3, <4>4, <4>6, <4>7 DEF PadIn
    <3>3. QED
      BY <3>1, <3>2
  <2>13. QED
    BY <2>9, <2>11, <2>12, HeldNext
<1>11. ASSUME I, NEW h \in Holders, TombstoneRefused(h) PROVE FALSE
  BY <1>7, <1>11 DEF TombstoneRefused
<1>12. ASSUME I, NEW h \in Holders, TombstoneFails(h) PROVE HeldInv'
  <2> DEFINE id == ref[h].id
  <2>1. /\ ref[h] # NoRef /\ Drop(h) /\ UNCHANGED <<files, freeLists>> /\ LastReference(id)
        /\ referenceCount' = Uncounted(id)
        /\ hashToValueID' = hashToValueID \/ hashToValueID' = Forgotten(id)
    BY <1>12 DEF TombstoneFails
  <2>2. PICK c \in Contents : id = hashToValueID[c] /\ ReadValue(id) = {c}
    BY <1>12, <2>1, HeldRecord
  <2>3. id # 0
    BY <1>7, <1>12, <2>1
  <2>4. CountsIn(referenceCount', ref') /\ CountIn(referenceCount, id) = 1
    BY <1>9, <1>12, <2>1
  <2>5. PadIn(files', freeLists')
    BY <1>2, <1>12, <2>1
  <2>6. CASE hashToValueID' = hashToValueID
    <3>1. ref'[h] = NoRef /\ \A x \in Holders \ {h} : ref'[x] = ref[x]
      BY <1>2, <1>12, <2>1 DEF Drop
    <3>2. RefsIn(ref', hashToValueID')
      BY <1>2, <1>12, <2>6, <3>1 DEF RefsIn
    <3>3. QED
      BY <1>2, <1>12, <2>1, <2>4, <2>5, <2>6, <3>2, HeldNext
  <2>7. CASE hashToValueID' = Forgotten(id)
    <3>1. hashToValueID' = [x \in Contents |-> IF x = c THEN 0 ELSE hashToValueID[x]]
      BY <2>2, <2>7 DEF Forgotten
    <3>2. \A t \in Tiers : \A p \in Nat : IntactAt(files'[t], p) = IntactAt(files[t], p)
      BY <2>1
    <3>4. HashIn(files', hashToValueID') /\ RefsIn(ref', hashToValueID')
      BY <1>12, <2>1, <2>2, <2>3, <2>4, <3>1, <3>2, DroppedKeepsHeld
    <3>5. QED
      BY <2>4, <2>5, <3>4, HeldNext
  <2>8. QED
    BY <2>1, <2>6, <2>7
<1>13. Restart \/ Defragment \/ DefragmentMisled \/ (\E h \in Holders : TombstoneUnhashed(h))
          => ~ (upsets' \subseteq {"fault"})
  <2>1. Restart \/ Defragment \/ DefragmentMisled \/ (\E h \in Holders : TombstoneUnhashed(h))
          => \E kind \in {"restart", "defragment", "misled", "misread"} : kind \in upsets'
    BY DEF Restart, Defragment, DefragmentMisled, TombstoneUnhashed, Upset
  <2>2. QED
    BY <2>1
<1>14. ASSUME I, UNCHANGED vars PROVE HeldInv'
  BY <1>2, <1>14, HeldNext DEF vars
<1>15. QED
  BY <1>1, <1>3, <1>4, <1>5, <1>6, <1>8, <1>10, <1>11, <1>12, <1>13, <1>14 DEF Next

\* What holds as long as calls fail but nothing restarts or is compacted, and
\* no value is tombstoned unread.
HeldWhileUp == upsets \subseteq {"fault"} => FreeInv /\ HeldInv

\* The references are sound for as long as the store is up.
LEMMA HeldWhileUpInductive ==
    /\ Init => HeldWhileUp
    /\ HeldWhileUp /\ [Next]_vars => HeldWhileUp'
<1>1. Init => HeldWhileUp
  BY FreeInvInductive, HeldInvInductive DEF HeldWhileUp
<1>2. ASSUME HeldWhileUp, [Next]_vars, upsets' \subseteq {"fault"} PROVE FreeInv' /\ HeldInv'
  <2>1. upsets \subseteq {"fault"} /\ "defragment" \notin upsets'
    BY <1>2, UpsetsStay
  <2>2. FreeInv /\ HeldInv
    BY <1>2, <2>1 DEF HeldWhileUp
  <2>3. ~ Defragment /\ ~ DefragmentMisled
    BY <1>2 DEF Defragment, DefragmentMisled, Upset
  <2>4. QED
    BY <1>2, <2>1, <2>2, <2>3, FreeInvInductive, HeldInvInductive
<1>3. QED
  BY <1>1, <1>2 DEF HeldWhileUp

\* A reference reads back the value it was given for until its holder gives
\* it up (writeValue, tombstoneValue), failed file calls in between included,
\* except a failed read of a value that is tombstoned nevertheless: no record is
\* ever written over another one that is held.
THEOREM HeldValuesStay == Spec => []HeldValuesReadBack
<1>1. HeldWhileUp => HeldValuesReadBack
  BY HeldRecord DEF HeldWhileUp, HeldValuesReadBack, HeldReferencesRead
<1>2. QED
  BY <1>1, HeldWhileUpInductive, PTL DEF Spec

\* A record is counted as often as it is held, so that it is tombstoned with
\* its last reference and not before (referenceCount, tombstoneValue), under
\* the same condition.
THEOREM CountsAreExact == Spec => []CountsAreReferences
<1>1. HeldWhileUp => CountsAreReferences
  <2>1. SUFFICES ASSUME FreeInv, HeldInv,
                        NEW id \in DOMAIN referenceCount \cup ({ref[h].id : h \in Holders} \ {0})
                 PROVE  CountOf(id) = Cardinality({h \in Holders : ref[h].id = id})
    BY DEF HeldWhileUp, CountsAreReferences
  <2>2. CountsIn(referenceCount, ref)
    BY <2>1 DEF HeldInv
  <2>3. \A h \in Holders : ref[h].id \in IDs
    BY <2>1 DEF FreeInv, StoreType
  <2>4. id \in IDs \ {0}
    BY <2>2, <2>3 DEF CountsIn
  <2>5. CountOf(id) = CountIn(referenceCount, id)
    BY DEF CountOf, CountIn
  <2>6. QED
    BY <2>2, <2>4, <2>5 DEF CountsIn, HoldersIn
<1>2. QED
  BY <1>1, HeldWhileUpInductive, PTL DEF Spec
-----------------------------------------------------------------------------
(* Every cell is accounted for.                                            *)

\* Cell i of a tier is of the record a reference is to.
Covers(x, tier, i) ==
    \E c \in x.of : \E o \in Nat : /\ o < Span /\ TierOf[c] = tier
                                   /\ x.id = EncodeValueID(tier, o) /\ i \in RecordCells(o, c)

Accounted(fl, r, tier, i) ==
    \/ i \in FreeCells(fl[tier])
    \/ tier = 0 /\ i = 0
    \/ \E h \in Holders : Covers(r[h], tier, i)

SpaceIn(fs, fl, r) ==
    \A tier \in Tiers : \A i \in 0..(Len(fs[tier]) - 1) : Accounted(fl, r, tier, i)

SpaceInv == SpaceIn(files, freeLists, ref)

\* The record a reference covers is the one it is to.
LEMMA CoveredRecord ==
    ASSUME FreeInv, HeldInv, NEW h \in Holders, NEW tier \in Tiers, NEW i, Covers(ref[h], tier, i)
    PROVE  /\ ref[h] # NoRef /\ tier = ExtractTier(ref[h].id)
           /\ \A c : ref[h].of = {c} => i \in RecordCells(ExtractOffset(ref[h].id), c)
<1>1. PICK c \in ref[h].of : \E o \in Nat : /\ o < Span /\ TierOf[c] = tier
                                            /\ ref[h].id = EncodeValueID(tier, o) /\ i \in RecordCells(o, c)
  BY DEF Covers
<1>2. PICK o \in Nat : /\ o < Span /\ TierOf[c] = tier
                       /\ ref[h].id = EncodeValueID(tier, o) /\ i \in RecordCells(o, c)
  BY <1>1
<1>3. ref[h] # NoRef
  BY <1>1 DEF NoRef
<1>4. tier = ExtractTier(ref[h].id) /\ o = ExtractOffset(ref[h].id)
  BY <1>2, ValueIDs
<1>5. QED
  BY <1>1, <1>2, <1>3, <1>4

\* SpaceInv holds at first, and every step in which nothing fails keeps it.
LEMMA SpaceInvInductive ==
    /\ Init => SpaceInv
    /\ FreeInv /\ HeldInv /\ SpaceInv /\ [Next]_vars /\ upsets' = {} => SpaceInv'
<1>1. ASSUME Init PROVE SpaceInv
  <2>1. \A tier \in Tiers : 0..(Len(files[tier]) - 1) = {}
    BY <1>1 DEF Init
  <2>2. QED
    BY <2>1 DEF SpaceInv, SpaceIn
<1> DEFINE I == FreeInv /\ HeldInv /\ SpaceInv
<1>2. ASSUME I
      PROVE  /\ files \in [Tiers -> Seq(AnyCell)] /\ ref \in [Holders -> AnyRef] /\ StoreType
             /\ SpaceIn(files, freeLists, ref)
             /\ \A tier \in Tiers : /\ FreeOK(freeLists[tier], files[tier])
                                    /\ files[tier] \in Seq(AnyCell) /\ Len(files[tier]) \in Nat
  BY <1>2 DEF SpaceInv, FreeInv, StoreType, AnyRef
<1>3. ASSUME SpaceIn(files', freeLists', ref') PROVE SpaceInv'
  BY <1>3 DEF SpaceInv
\* What a holder that gets a reference leaves as it was.
<1>4. ASSUME I, NEW h \in Holders, ref[h] = NoRef, \A x \in Holders \ {h} : ref'[x] = ref[x],
             NEW tier \in Tiers, NEW i \in 0..(Len(files[tier]) - 1)
      PROVE  \/ i \in FreeCells(freeLists[tier]) \/ (tier = 0 /\ i = 0)
             \/ \E x \in Holders : Covers(ref'[x], tier, i)
  <2>1. Accounted(freeLists, ref, tier, i)
    BY <1>2, <1>4 DEF SpaceIn
  <2>2. ASSUME NEW x \in Holders, Covers(ref[x], tier, i) PROVE Covers(ref'[x], tier, i)
    <3>1. x # h
      BY <1>4, <2>2, CoveredRecord
    <3>2. QED
      BY <1>4, <2>2, <3>1
  <2>3. QED
    BY <2>1, <2>2 DEF Accounted
\* The reference a new record's writer gets covers its cells.
<1>5. ASSUME NEW h \in Holders, NEW c \in Contents, NEW o \in Nat, o < Span,
             ref'[h] = [id |-> EncodeValueID(TierOf[c], o), of |-> {c}], NEW i \in RecordCells(o, c)
      PROVE  Covers(ref'[h], TierOf[c], i)
  <2>1. ref'[h].id = EncodeValueID(TierOf[c], o) /\ ref'[h].of = {c}
    BY <1>5
  <2>2. QED
    BY <1>5, <2>1 DEF Covers
<1>6. ASSUME I, NEW h \in Holders, NEW c \in Contents, Deduplicate(h, c) PROVE SpaceInv'
  <2>1. /\ ref[h] = NoRef /\ files' = files /\ freeLists' = freeLists
        /\ \A x \in Holders \ {h} : ref'[x] = ref[x]
    BY <1>2, <1>6 DEF Deduplicate
  <2>2. ASSUME NEW tier \in Tiers, NEW i \in 0..(Len(files[tier]) - 1)
        PROVE  Accounted(freeLists', ref', tier, i)
    BY <1>4, <1>6, <2>1 DEF Accounted
  <2>3. SpaceIn(files', freeLists', ref')
    BY <2>1, <2>2 DEF SpaceIn
  <2>4. QED
    BY <1>3, <2>3
<1>7. ASSUME I, NEW h \in Holders, NEW c \in Contents, Reuse(h, c) PROVE SpaceInv'
  <2> DEFINE tier == TierOf[c]
             f == files[tier]
             B == freeLists[tier]
             b == FirstFit(B, SizeOf[c])
             o == b.offset
             A == Allocated(B, b, SizeOf[c])
             g == Written(f, o, c)
  <2>1. /\ ref[h] = NoRef /\ Fitting(B, SizeOf[c]) # {}
        /\ freeLists' = [freeLists EXCEPT ![tier] = A] /\ files' = [files EXCEPT ![tier] = g]
        /\ ref' = [ref EXCEPT ![h] = [id |-> EncodeValueID(tier, o), of |-> {c}]]
    BY <1>7 DEF Reuse, Enter
  <2>2. tier \in Tiers /\ f \in Seq(AnyCell) /\ FreeOK(B, f) /\ Len(f) <= MaxFile /\ SizeOf[c] \in Nat
    BY <1>2, <1>7, RecordSizes DEF StoreType
  <2>3. /\ o \in Nat /\ o + SizeOf[c] <= Len(f)
        /\ FreeCells(A) = FreeCells(B) \ RecordCells(o, c) /\ Len(g) = Len(f)
    BY <2>1, <2>2, ReusedSpace
  <2> HIDE DEF b, A, o, g
  <2>4. o < Span
    <3>1. MaxFile \in Nat /\ Span \in Nat /\ MaxFile < Span /\ Len(f) \in Nat
      BY <2>2, ValueStoreAssumption
    <3>2. QED
      BY <2>2, <2>3, <3>1
  <2>5. /\ ref'[h] = [id |-> EncodeValueID(TierOf[c], o), of |-> {c}]
        /\ \A x \in Holders \ {h} : ref'[x] = ref[x]
    BY <1>2, <1>7, <2>1
  <2>6. \A t \in Tiers : /\ Len(files'[t]) = Len(files[t])
                         /\ freeLists'[t] = IF t = tier THEN A ELSE freeLists[t]
    BY <1>2, <1>7, <2>1, <2>3 DEF StoreType
  <2>7. ASSUME NEW t \in Tiers, NEW i \in 0..(Len(files[t]) - 1) PROVE Accounted(freeLists', ref', t, i)
    <3>1. \/ i \in FreeCells(freeLists[t]) \/ (t = 0 /\ i = 0)
          \/ \E x \in Holders : Covers(ref'[x], t, i)
      BY <1>4, <1>7, <2>1, <2>5
    <3>2. CASE t = tier /\ i \in RecordCells(o, c)
      BY <1>5, <2>3, <2>4, <2>5, <3>2 DEF Accounted
    <3>3. CASE t # tier \/ i \notin RecordCells(o, c)
      <4>1. i \in FreeCells(freeLists[t]) => i \in FreeCells(freeLists'[t])
        BY <2>3, <2>6, <3>3
      <4>2. QED
        BY <3>1, <4>1 DEF Accounted
    <3>4. QED
      BY <3>2, <3>3
  <2>8. SpaceIn(files', freeLists', ref')
    BY <2>6, <2>7 DEF SpaceIn
  <2>9. QED
    BY <1>3, <2>8
<1>8. ASSUME I, NEW h \in Holders, NEW c \in Contents, AppendRecord(h, c) PROVE SpaceInv'
  <2> DEFINE tier == TierOf[c]
             f == Padded(tier)
             o == Len(f)
             g == Written(f, o, c)
  <2>1. /\ ref[h] = NoRef /\ o + SizeOf[c] <= MaxFile
        /\ freeLists' = freeLists /\ files' = [files EXCEPT ![tier] = g]
        /\ ref' = [ref EXCEPT ![h] = [id |-> EncodeValueID(tier, o), of |-> {c}]]
    BY <1>8 DEF AppendRecord, Enter
  <2>2. tier \in Tiers /\ SizeOf[c] \in Nat /\ SizeOf[c] >= 2 /\ StoreType
        /\ FreeOK(freeLists[tier], files[tier])
    BY <1>2, <1>8, RecordSizes
  <2>3. /\ f \in Seq(AnyCell) /\ FreeOK(freeLists[tier], f)
        /\ files[tier] # <<>> => f = files[tier]
        /\ files[tier] = <<>> => f = (IF tier = 0 THEN <<Pad>> ELSE <<>>)
    BY <2>2, PaddedFile
  <2> HIDE DEF f
  <2>4. o \in Nat /\ o < Span
    <3>1. MaxFile \in Nat /\ Span \in Nat /\ MaxFile < Span /\ Len(f) \in Nat
      BY <2>3, ValueStoreAssumption
    <3>2. QED
      BY <2>1, <2>2, <3>1
  <2>5. Len(g) = o + SizeOf[c]
    BY <2>3, AppendedSpace
  <2>6. /\ ref'[h] = [id |-> EncodeValueID(TierOf[c], o), of |-> {c}]
        /\ \A x \in Holders \ {h} : ref'[x] = ref[x]
    BY <1>2, <1>8, <2>1
  <2> HIDE DEF g, o
  <2>7. \A t \in Tiers : files'[t] = IF t = tier THEN g ELSE files[t]
    BY <1>2, <1>8, <2>1
  <2>8. ASSUME NEW t \in Tiers, NEW i \in 0..(Len(files'[t]) - 1) PROVE Accounted(freeLists', ref', t, i)
    <3>1. CASE i \in 0..(Len(files[t]) - 1)
      BY <1>4, <1>8, <2>1, <2>6, <3>1 DEF Accounted
    <3>2. CASE t = tier /\ i \in RecordCells(o, c)
      BY <1>5, <2>4, <2>6, <3>2 DEF Accounted
    <3>3. CASE t = 0 /\ i = 0
      BY <3>3 DEF Accounted
    <3>4. CASE t = tier
      <4>1. i \in Nat /\ i < o + SizeOf[c]
        BY <2>2, <2>4, <2>5, <2>7, <3>4
      <4>2. CASE i >= o
        <5>1. i \in RecordCells(o, c)
          BY <2>2, <2>4, <4>1, <4>2 DEF RecordCells
        <5>2. QED
          BY <3>2, <3>4, <5>1
      <4>3. CASE i < o /\ files[tier] # <<>>
        <5>1. i \in 0..(Len(files[t]) - 1)
          BY <2>3, <2>4, <3>4, <4>1, <4>3 DEF o
        <5>2. QED
          BY <3>1, <5>1
      <4>4. CASE i < o /\ files[tier] = <<>>
        <5>1. tier # 0 => o = 0
          BY <2>3, <4>4 DEF o
        <5>2. tier = 0 => o = 1
          BY <2>3, <4>4 DEF o
        <5>3. t = 0 /\ i = 0
          BY <2>4, <3>4, <4>1, <4>4, <5>1, <5>2
        <5>4. QED
          BY <3>3, <5>3
      <4>5. QED
        BY <2>4, <4>1, <4>2, <4>3, <4>4
    <3>5. CASE t # tier
      BY <2>7, <2>8, <3>1, <3>5
    <3>6. QED
      BY <3>4, <3>5
  <2>9. SpaceIn(files', freeLists', ref')
    BY <2>8 DEF SpaceIn
  <2>10. QED
    BY <1>3, <2>9
<1>9. ASSUME I, NEW h \in Holders, Release(h) PROVE SpaceInv'
  <2> DEFINE id == ref[h].id
  <2>1. /\ files' = files /\ freeLists' = freeLists /\ ref[h] # NoRef /\ ~LastReference(id)
        /\ \A x \in Holders \ {h} : ref'[x] = ref[x]
    BY <1>2, <1>9 DEF Release, Drop
  <2>2. id # 0
    BY <1>9, <2>1, HeldRecord
  <2>3. CountsIn(referenceCount, ref) /\ CountIn(referenceCount, id) # 1
    BY <1>9, <2>1 DEF HeldInv, LastReference, CountOf, CountIn
  <2>4. PICK y \in Holders \ {h} : ref[y].id = id
    BY <1>2, <1>9, <2>2, <2>3, HeldIsCounted
  <2>5. ref[y] # NoRef
    BY <2>2, <2>4 DEF NoRef
  <2>6. ref[y].of = ref[h].of
    <3>1. ref[y].of = ReadValue(id)
      BY <1>9, <2>4, <2>5, HeldRecord
    <3>2. ref[h].of = ReadValue(id)
      BY <1>9, <2>1, HeldRecord
    <3>3. QED
      BY <3>1, <3>2
  <2>7. ASSUME NEW tier \in Tiers, NEW i \in 0..(Len(files[tier]) - 1)
        PROVE  Accounted(freeLists', ref', tier, i)
    <3>1. Accounted(freeLists, ref, tier, i)
      BY <1>2, <1>9 DEF SpaceIn
    <3>2. ASSUME NEW x \in Holders, Covers(ref[x], tier, i) PROVE \E z \in Holders : Covers(ref'[z], tier, i)
      <4>1. CASE x # h
        BY <2>1, <3>2, <4>1
      <4>2. CASE x = h
        <5>1. Covers(ref[y], tier, i)
          BY <2>4, <2>6, <3>2, <4>2 DEF Covers
        <5>2. QED
          BY <2>1, <5>1
      <4>3. QED
        BY <4>1, <4>2
    <3>3. QED
      BY <2>1, <3>1, <3>2 DEF Accounted
  <2>8. SpaceIn(files', freeLists', ref')
    BY <2>1, <2>7 DEF SpaceIn
  <2>9. QED
    BY <1>3, <2>8
<1>10. ASSUME I, NEW h \in Holders, Tombstone(h) PROVE SpaceInv'
  <2> DEFINE id == ref[h].id
             tier == ExtractTier(id)
             o == ExtractOffset(id)
             f == files[tier]
             B == freeLists[tier]
             g == Tombstoned(f, o)
  <2>1. /\ ref[h] # NoRef /\ files' = [files EXCEPT ![tier] = g]
        /\ \A x \in Holders \ {h} : ref'[x] = ref[x]
    BY <1>2, <1>10 DEF Tombstone, Freed, Drop
  <2>2. PICK c \in Contents : ref[h].of = {c} /\ ReadValue(id) = {c}
    BY <1>10, <2>1, HeldRecord
  <2>3. freeLists' = [freeLists EXCEPT ![tier] = AddBlock(B, o, SizeOf[c])]
    BY <1>10, <2>2 DEF Tombstone, Freed
  <2>4. tier \in Tiers /\ o \in Nat
    <3>1. id \in IDs
      BY <1>10, <2>1, HeldRecord
    <3>2. QED
      BY <3>1, IDParts
  <2>5. f \in Seq(AnyCell) /\ FreeOK(B, f) /\ c \in IntactAt(f, o)
    BY <1>2, <1>10, <2>2, <2>4 DEF ReadValue
  <2>6. Len(g) = Len(f)
    BY <2>4, <2>5, TombstonedFile
  <2>7. FreeCells(AddBlock(B, o, SizeOf[c])) = FreeCells(B) \cup RecordCells(o, c)
    BY <2>4, <2>5, TombstonedSpace
  <2> DEFINE A == AddBlock(B, o, SizeOf[c])
  <2> HIDE DEF g, A
  <2>8. \A t \in Tiers : /\ Len(files'[t]) = Len(files[t])
                         /\ freeLists'[t] = IF t = tier THEN A ELSE freeLists[t]
    BY <1>2, <1>10, <2>1, <2>3, <2>6 DEF StoreType, A
  <2>9. ASSUME NEW t \in Tiers, NEW i \in 0..(Len(files[t]) - 1) PROVE Accounted(freeLists', ref', t, i)
    <3>1. Accounted(freeLists, ref, t, i)
      BY <1>2, <1>10, <2>9 DEF SpaceIn
    <3>2. i \in FreeCells(freeLists[t]) => i \in FreeCells(freeLists'[t])
      BY <2>7, <2>8 DEF A
    <3>3. ASSUME NEW x \in Holders, Covers(ref[x], t, i)
          PROVE  i \in FreeCells(freeLists'[t]) \/ Covers(ref'[x], t, i)
      <4>1. CASE x # h
        BY <2>1, <3>3, <4>1
      <4>2. CASE x = h
        <5>1. t = tier /\ i \in RecordCells(o, c)
          BY <1>10, <2>2, <3>3, <4>2, CoveredRecord
        <5>2. QED
          BY <2>7, <2>8, <5>1 DEF A
      <4>3. QED
        BY <4>1, <4>2
    <3>4. QED
      BY <3>1, <3>2, <3>3 DEF Accounted
  <2>10. SpaceIn(files', freeLists', ref')
    BY <2>8, <2>9 DEF SpaceIn
  <2>11. QED
    BY <1>3, <2>10
<1>11. ASSUME I, NEW h \in Holders, TombstoneRefused(h) PROVE FALSE
  <2>1. ref[h] # NoRef
    BY <1>11 DEF TombstoneRefused
  <2>2. ref[h].id # 0 /\ ReadValue(ref[h].id) # {}
    BY <1>11, <2>1, HeldRecord
  <2>3. ref[h].id \in DOMAIN referenceCount
    BY <1>2, <1>11, <2>2, HeldIsCounted DEF HeldInv
  <2>4. QED
    BY <1>11, <2>2, <2>3 DEF TombstoneRefused
<1>12. ASSUME NEW h \in Holders, TombstoneFails(h) \/ TombstoneUnhashed(h) PROVE upsets' # {}
  BY <1>12 DEF TombstoneFails, TombstoneUnhashed, Upset
<1>13. ASSUME NEW c \in Contents, WriteFails(c) PROVE upsets' # {}
  BY <1>13 DEF WriteFails, Upset
<1>14. Restart \/ Defragment \/ DefragmentMisled => upsets' # {}
  BY DEF Restart, Defragment, DefragmentMisled, Upset
<1>15. ASSUME I, UNCHANGED vars PROVE SpaceInv'
  BY <1>2, <1>3, <1>15 DEF vars
<1>16. QED
  BY <1>1, <1>6, <1>7, <1>8, <1>9, <1>10, <1>11, <1>12, <1>13, <1>14, <1>15 DEF Next

\* Nothing of a file leaks while no operation fails: each cell is padding, of
\* a record that some reference holds, or free (AddBlock, AllocateSpace).
THEOREM NothingLeaks == Spec => []SpaceIsAccounted
<1> DEFINE J == HeldWhileUp /\ (upsets = {} => SpaceInv)
<1>1. Init => J
  BY HeldWhileUpInductive, SpaceInvInductive
<1>2. J /\ [Next]_vars => J'
  <2>1. SUFFICES ASSUME J, [Next]_vars, upsets' = {} PROVE SpaceInv'
    BY HeldWhileUpInductive
  <2>2. upsets = {}
    BY <2>1, UpsetsStay
  <2>3. FreeInv /\ HeldInv /\ SpaceInv
    BY <2>1, <2>2 DEF HeldWhileUp
  <2>4. QED
    BY <2>1, <2>3, SpaceInvInductive
<1>3. J => SpaceIsAccounted
  <2>1. SUFFICES ASSUME FreeInv, HeldInv, SpaceInv PROVE SpaceIsAccounted
    BY DEF HeldWhileUp, SpaceIsAccounted
  <2>2. ASSUME NEW tier \in Tiers
        PROVE  LET held == {h \in Holders : ref[h] # NoRef /\ ExtractTier(ref[h].id) = tier}
                   used == UNION {ExtractOffset(ref[h].id)..
                                    (ExtractOffset(ref[h].id) + SizeOf[CHOOSE c \in ref[h].of : TRUE] - 1) : h \in held}
                   free == UNION {Cells(b) : b \in freeLists[tier]}
               IN  used \cup free \cup (IF tier = 0 /\ files[0] # <<>> THEN {0} ELSE {})
                     = 0..(Len(files[tier]) - 1)
    <3> DEFINE held == {h \in Holders : ref[h] # NoRef /\ ExtractTier(ref[h].id) = tier}
               of(h) == ExtractOffset(ref[h].id)..
                          (ExtractOffset(ref[h].id) + SizeOf[CHOOSE c \in ref[h].of : TRUE] - 1)
               used == UNION {of(h) : h \in held}
               free == UNION {Cells(b) : b \in freeLists[tier]}
               pad == IF tier = 0 /\ files[0] # <<>> THEN {0} ELSE {}
               n == Len(files[tier])
    <3>1. /\ files[tier] \in Seq(AnyCell) /\ n \in Nat /\ FreeOK(freeLists[tier], files[tier])
          /\ files \in [Tiers -> Seq(AnyCell)]
      BY <2>1, <2>2 DEF FreeInv, StoreType
    <3>2. ASSUME NEW h \in held
          PROVE  \E c \in Contents : /\ ref[h].of = {c} /\ of(h) = RecordCells(ExtractOffset(ref[h].id), c)
                                     /\ ExtractOffset(ref[h].id) \in Nat
                                     /\ ExtractOffset(ref[h].id) + SizeOf[c] <= n
      <4>1. h \in Holders /\ ref[h] # NoRef /\ ExtractTier(ref[h].id) = tier
        BY <3>2
      <4>2. PICK c \in Contents : ref[h].of = {c} /\ RecordIn(files, ref[h].id, c)
        BY <2>1, <4>1, HeldRecord
      <4>3. (CHOOSE x \in ref[h].of : TRUE) = c
        BY <4>2
      <4>4. of(h) = RecordCells(ExtractOffset(ref[h].id), c)
        BY <4>3 DEF RecordCells
      <4>5. /\ ExtractOffset(ref[h].id) \in Nat /\ tier = TierOf[c]
            /\ c \in IntactAt(files[tier], ExtractOffset(ref[h].id))
        BY <3>1, <4>1, <4>2, RecordOfID
      <4>6. ExtractOffset(ref[h].id) + SizeOf[c] <= n
        BY <3>1, <4>5, IntactCells
      <4>7. QED
        BY <4>2, <4>4, <4>5, <4>6
    <3>3. ASSUME NEW i \in free PROVE i \in FreeCells(freeLists[tier])
      <4>1. PICK b \in freeLists[tier] : i \in Cells(b)
        BY <3>3
      <4>2. b.offset \in Nat /\ EndOf(b) \in Nat
        BY <3>1, BlockEnds DEF FreeOK
      <4>3. QED
        BY <4>1, <4>2 DEF FreeCells, Cells
    <3>4. ASSUME NEW i \in FreeCells(freeLists[tier]) PROVE i \in free
      <4>1. PICK b \in freeLists[tier] : i \in Nat /\ b.offset <= i /\ i < EndOf(b)
        BY <3>4 DEF FreeCells
      <4>2. b.offset \in Nat /\ EndOf(b) \in Nat
        BY <3>1, BlockEnds DEF FreeOK
      <4>3. i \in Cells(b)
        BY <4>1, <4>2 DEF Cells
      <4>4. QED
        BY <4>3
    <3>5. ASSUME NEW i \in used PROVE i \in 0..(n - 1)
      <4>1. PICK h \in held : i \in of(h)
        BY <3>5
      <4>2. PICK c \in Contents : /\ of(h) = RecordCells(ExtractOffset(ref[h].id), c)
                                  /\ ExtractOffset(ref[h].id) \in Nat
                                  /\ ExtractOffset(ref[h].id) + SizeOf[c] <= n
        BY <3>2, <4>1
      <4>3. i \in RecordCells(ExtractOffset(ref[h].id), c)
        BY <4>1, <4>2
      <4>4. QED
        BY <3>1, <4>2, <4>3, RecordSizes DEF RecordCells
    <3>6. \A i \in pad : i \in 0..(n - 1)
      BY <3>1
    <3>7. ASSUME NEW i \in 0..(n - 1) PROVE i \in used \/ i \in free \/ i \in pad
      <4>1. Accounted(freeLists, ref, tier, i)
        BY <2>1, <2>2, <3>7 DEF SpaceInv, SpaceIn
      <4>2. CASE tier = 0 /\ i = 0
        <5>1. files[0] # <<>>
          BY <3>1, <3>7, <4>2
        <5>2. QED
          BY <4>2, <5>1
      <4>3. ASSUME NEW h \in Holders, Covers(ref[h], tier, i) PROVE i \in used
        <5>1. h \in held
          BY <2>1, <2>2, <4>3, CoveredRecord
        <5>2. PICK c \in Contents : /\ ref[h].of = {c} /\ of(h) = RecordCells(ExtractOffset(ref[h].id), c)
          BY <3>2, <5>1
        <5>3. i \in of(h)
          BY <2>1, <2>2, <4>3, <5>2, CoveredRecord
        <5> HIDE DEF held, of
        <5>4. QED
          BY <5>1, <5>3
      <4>4. QED
        BY <3>4, <4>1, <4>2, <4>3 DEF Accounted
    <3>8. \A i \in free : i \in 0..(n - 1)
      BY <3>1, <3>3 DEF FreeOK
    <3> HIDE DEF used, free, pad, n
    <3>9. used \cup free \cup pad = 0..(n - 1)
      BY <3>5, <3>6, <3>7, <3>8
    <3>10. QED
      BY <3>9 DEF used, free, pad, n
  <2>3. QED
    BY <2>2 DEF SpaceIsAccounted
<1>4. QED
  BY <1>1, <1>2, <1>3, PTL DEF Spec
=============================================================================
