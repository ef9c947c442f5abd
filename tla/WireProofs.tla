----------------------------- MODULE WireProofs -----------------------------
(***************************************************************************)
(* Every message arrives as it was sent (RoundTrip), for every set of      *)
(* field values: first the readers of single fields, then lists, then the  *)
(* loop of the decoders over the fields of one message, then the frame.    *)
(*                                                                         *)
(* The decoders' loops and FlattenSeq are recursive functions.  Each is    *)
(* followed by giving the function of its intermediate results and showing *)
(* with UpTo that the recursion takes exactly these.  A field that comes   *)
(* last is read like one that something follows unless it is an empty      *)
(* string: hence a pair of facts (Reads and ReadsOn, Goes and GoesOn)      *)
(* wherever a field may come last.                                         *)
(***************************************************************************)
EXTENDS Wire, SequenceTheorems, WellFoundedInduction, TLAPS

-----------------------------------------------------------------------------
(* Numbers.                                                                *)

\* A set of numbers that is not empty has a smallest one.
LEMMA LeastNumber ==
    ASSUME NEW S, S \subseteq Nat, S # {}
    PROVE  \E m \in S : \A j \in S : m <= j
<1> DEFINE Below == {ss \in Nat \X Nat : ss[1] < ss[2]}
<1>1. IsWellFoundedOn(Below, Nat)
  BY NatLessThanWellFounded DEF OpToRel
<1> HIDE DEF Below
<1>2. PICK m \in S : \A y \in S : ~ (<<y, m>> \in Below)
  BY <1>1, WFMin
<1>3. \A y \in S : ~ (y < m)
  BY <1>2 DEF Below
<1>4. QED
  BY <1>3

\* Whoever holds 0, and m + 1 with m, holds everything up to N.
LEMMA UpTo ==
    ASSUME NEW N \in Nat, NEW S, 0 \in S, \A m \in 0..N : m \in S /\ m + 1 <= N => m + 1 \in S
    PROVE  0..N \subseteq S
<1> DEFINE Bad == {k \in 0..N : k \notin S}
<1>1. SUFFICES ASSUME Bad # {} PROVE FALSE
  OBVIOUS
<1>2. PICK m \in Bad : \A j \in Bad : m <= j
  <2>1. Bad \subseteq Nat
    OBVIOUS
  <2> HIDE DEF Bad
  <2>2. QED
    BY <1>1, <2>1, LeastNumber
<1>3. m # 0 /\ m \in Nat /\ m <= N
  BY <1>2
<1>4. m - 1 \in 0..N /\ m - 1 \notin Bad
  BY <1>2, <1>3
<1>5. QED
  BY <1>2, <1>3, <1>4

\* A number within the range of its format is its own remainder, and a
\* negative one wraps.
LEMMA Remainders ==
    ASSUME NEW m \in Nat, m > 0
    PROVE  /\ \A x \in 0..(m - 1) : x % m = x
           /\ \A x \in (-m)..(-1) : x % m = x + m
<1>1. ASSUME NEW x \in 0..(m - 1) PROVE x % m = x
  OBVIOUS
<1>2. ASSUME NEW x \in (-m)..(-1) PROVE x % m = x + m
  OBVIOUS
<1>3. QED
  BY <1>1, <1>2

\* The bits of a signed number stand for it, and those of an unsigned one too.
LEMMA SignedBits ==
    ASSUME NEW m \in Nat, m > 0, m % 2 = 0
    PROVE  /\ \A b \in 0..(m - 1) : Signed(b, m) \in Int /\ Bits(Signed(b, m), m) = b /\ Bits(b, m) = b
           /\ \A b \in Nat : Signed(b, m) \in Int /\ Bits(Signed(b, m), m) \in Nat
                             /\ Signed(Bits(Signed(b, m), m), m) = Signed(b, m)
<1> DEFINE h == m \div 2
<1>1. h \in Nat /\ m = h + h
  OBVIOUS
<1> HIDE DEF h
<1>2. ASSUME NEW b \in 0..(m - 1)
      PROVE  /\ Signed(b, m) \in Int /\ Bits(b, m) = b /\ Bits(Signed(b, m), m) = b
             /\ Signed(b, m) = IF b < h THEN b ELSE b - m
  <2>1. b % m = b
    BY Remainders
  <2>2. Signed(b, m) = IF b < h THEN b ELSE b - m
    BY <2>1 DEF Signed, h
  <2>3. CASE b < h
    BY <2>1, <2>2, <2>3 DEF Bits
  <2>4. CASE ~ (b < h)
    <3>1. b - m \in (-m)..(-1)
      BY <1>1
    <3>2. (b - m) % m = (b - m) + m
      BY <3>1, Remainders
    <3>3. QED
      BY <2>1, <2>2, <2>4, <3>1, <3>2 DEF Bits
  <2>5. QED
    BY <2>3, <2>4
<1>3. ASSUME NEW b \in Nat
      PROVE  Signed(b, m) \in Int /\ Bits(Signed(b, m), m) \in Nat /\ Signed(Bits(Signed(b, m), m), m) = Signed(b, m)
  <2> DEFINE c == b % m
  <2>1. c \in 0..(m - 1)
    OBVIOUS
  <2>2. c % m = c
    BY <2>1, Remainders
  <2>3. Signed(b, m) = Signed(c, m)
    BY <2>2 DEF Signed
  <2> HIDE DEF c
  <2>4. QED
    BY <1>2, <2>1, <2>3
<1>4. QED
  BY <1>2, <1>3

-----------------------------------------------------------------------------
(* The loop of the decoders.                                               *)

\* The loop over p comes by acc: so far it has read no more fields than cells.
Reaches(T, Z, p, acc) ==
    \E n \in Nat : \E A :
        /\ A[0] = Read(Z, 1) /\ A[n] = acc
        /\ \A k \in 1..n : A[k] = NextField(T, p, A[k - 1])
        /\ acc.at \in Nat /\ n < acc.at

\* It starts at the first cell.
LEMMA ReachesFirst ==
    ASSUME NEW T, NEW Z, NEW p
    PROVE  Reaches(T, Z, p, Read(Z, 1))
<1> DEFINE A == [k \in {0} |-> Read(Z, 1)]
<1>1. A[0] = Read(Z, 1) /\ (Read(Z, 1)).at = 1
  BY DEF Read
<1>2. 0 \in Nat /\ \A k \in 1..0 : A[k] = NextField(T, p, A[k - 1])
  OBVIOUS
<1>3. \E B : B[0] = Read(Z, 1) /\ \A k \in 1..0 : B[k] = NextField(T, p, B[k - 1])
  <2> HIDE DEF A
  <2>1. QED
    BY <1>1, <1>2
<1>4. PICK B : B[0] = Read(Z, 1) /\ \A k \in 1..0 : B[k] = NextField(T, p, B[k - 1])
  BY <1>3
<1>5. (Read(Z, 1)).at \in Nat /\ 0 < (Read(Z, 1)).at
  BY <1>1
<1>6. QED
  BY <1>4, <1>5 DEF Reaches

\* A field takes it on.
LEMMA ReachesNext ==
    ASSUME NEW T, NEW Z, NEW p, NEW acc, Reaches(T, Z, p, acc), NEW new,
           new = NextField(T, p, acc), new.at \in Nat, new.at > acc.at
    PROVE  Reaches(T, Z, p, new)
<1>0. PICK n \in Nat : \E A : /\ A[0] = Read(Z, 1) /\ A[n] = acc
                              /\ \A k \in 1..n : A[k] = NextField(T, p, A[k - 1])
                              /\ acc.at \in Nat /\ n < acc.at
  BY DEF Reaches
<1>1. PICK A : /\ A[0] = Read(Z, 1) /\ A[n] = acc
               /\ \A k \in 1..n : A[k] = NextField(T, p, A[k - 1])
               /\ acc.at \in Nat /\ n < acc.at
  BY <1>0
<1> DEFINE B == [k \in 0..(n + 1) |-> IF k = n + 1 THEN new ELSE A[k]]
<1>2. B[n + 1] = new /\ \A k \in 0..n : B[k] = A[k]
  OBVIOUS
<1> HIDE DEF B
<1>3. ASSUME NEW k \in 1..(n + 1) PROVE B[k] = NextField(T, p, B[k - 1])
  <2>1. k - 1 \in 0..n /\ B[k - 1] = A[k - 1]
    BY <1>2
  <2>2. CASE k = n + 1
    BY <1>1, <1>2, <2>1, <2>2
  <2>3. CASE k # n + 1
    <3>1. k \in 1..n
      BY <2>3
    <3>2. QED
      BY <1>1, <1>2, <2>1, <3>1
  <2>4. QED
    BY <2>2, <2>3
<1>4. B[0] = Read(Z, 1) /\ n + 1 \in Nat /\ n + 1 < new.at
  BY <1>1, <1>2
<1>5. QED
  BY <1>2, <1>3, <1>4 DEF Reaches

\* When it comes to the end of the payload, that is its result.
LEMMA ReachesEnd ==
    ASSUME NEW T, NEW Z, NEW p \in Seq(Int), NEW v, Reaches(T, Z, p, Read(v, Len(p) + 1))
    PROVE  DecodeTagged(T, Z, p) = Read(v, Len(p) + 1)
<1> DEFINE N == Len(p)
           acc == Read(v, N + 1)
           Val(f, k) == IF k = 0 THEN Read(Z, 1) ELSE NextField(T, p, f[k - 1])
<1>0. N \in Nat
  OBVIOUS
<1>a. PICK n \in Nat : \E A : /\ A[0] = Read(Z, 1) /\ A[n] = acc
                              /\ \A k \in 1..n : A[k] = NextField(T, p, A[k - 1])
                              /\ acc.at \in Nat /\ n < acc.at
  BY DEF Reaches
<1>1. PICK A : /\ A[0] = Read(Z, 1) /\ A[n] = acc
               /\ \A k \in 1..n : A[k] = NextField(T, p, A[k - 1])
               /\ acc.at \in Nat /\ n < acc.at
  BY <1>a
<1>2. n <= N
  BY <1>0, <1>1 DEF Read
<1>3. NextField(T, p, acc) = acc
  BY <1>0 DEF NextField, Read
<1> DEFINE B == [k \in 0..N |-> IF k <= n THEN A[k] ELSE acc]
<1>4. \A k \in 0..N : B[k] = IF k <= n THEN A[k] ELSE acc
  OBVIOUS
<1>5. B = [k \in 0..N |-> B[k]]
  OBVIOUS
<1> HIDE DEF B, acc
<1>6. ASSUME NEW k \in 0..N PROVE B[k] = Val(B, k)
  <2>1. CASE k = 0
    BY <1>1, <1>4, <2>1
  <2>2. CASE k # 0 /\ k <= n
    <3>1. k \in 1..n /\ k - 1 \in 0..N /\ k - 1 <= n
      BY <2>2, <1>0
    <3>2. QED
      BY <1>1, <1>4, <2>2, <3>1
  <2>3. CASE k # 0 /\ ~ (k <= n)
    <3>1. k - 1 \in 0..N /\ k - 1 >= n
      BY <2>3, <1>0
    <3>2. B[k - 1] = acc
      BY <1>1, <1>4, <3>1
    <3>3. B[k] = acc
      BY <1>4, <2>3
    <3>4. QED
      BY <1>3, <2>3, <3>2, <3>3
  <2>4. QED
    BY <2>1, <2>2, <2>3
<1>7. B = [k \in 0..N |-> Val(B, k)]
  <2>1. [k \in 0..N |-> B[k]] = [k \in 0..N |-> Val(B, k)]
    BY <1>6
  <2>2. QED
    BY <1>5, <2>1
<1> DEFINE after == CHOOSE f : f = [k \in 0..N |-> Val(f, k)]
<1>8. after = [k \in 0..N |-> Val(after, k)]
  BY <1>7
<1> HIDE DEF after
<1>9. \A k \in 0..N : after[k] = Val(after, k)
  BY <1>8
<1>10. \A k \in 0..N : after[k] = B[k]
  <2> DEFINE S == {k \in 0..N : after[k] = B[k]}
  <2>1. 0 \in S
    BY <1>0, <1>6, <1>9
  <2>2. ASSUME NEW m \in 0..N, m \in S, m + 1 <= N PROVE m + 1 \in S
    <3>1. m + 1 \in 0..N /\ m + 1 # 0 /\ (m + 1) - 1 = m
      BY <2>2, <1>0
    <3>2. after[m + 1] = NextField(T, p, after[m]) /\ B[m + 1] = NextField(T, p, B[m])
      BY <1>6, <1>9, <3>1
    <3>3. QED
      BY <2>2, <3>1, <3>2
  <2> HIDE DEF S
  <2>3. 0..N \subseteq S
    BY <1>0, <2>1, <2>2, UpTo
  <2>4. QED
    BY <2>3 DEF S
<1>11. after[N] = acc
  BY <1>0, <1>1, <1>2, <1>4, <1>10
<1>12. DecodeTagged(T, Z, p) = after[N]
  BY DEF DecodeTagged, after
<1>13. QED
  BY <1>11, <1>12 DEF acc

\* What is where in two sequences of cells put together.
LEMMA Joined ==
    ASSUME NEW s \in Seq(Int), NEW t \in Seq(Int)
    PROVE  /\ s \o t \in Seq(Int) /\ Len(s \o t) = Len(s) + Len(t)
           /\ Len(s) \in Nat /\ Len(t) \in Nat
           /\ \A j \in 1..Len(s) : (s \o t)[j] = s[j]
           /\ \A j \in 1..Len(t) : (s \o t)[Len(s) + j] = t[j]
<1> DEFINE p == s \o t
<1>1. /\ p \in Seq(Int) /\ Len(p) = Len(s) + Len(t)
      /\ \A i \in 1 .. Len(s) + Len(t) : p[i] = IF i <= Len(s) THEN s[i] ELSE t[i - Len(s)]
  BY ConcatProperties DEF p
<1>2. Len(s) \in Nat /\ Len(t) \in Nat
  OBVIOUS
<1> HIDE DEF p
<1>3. ASSUME NEW j \in 1..Len(s) PROVE p[j] = s[j]
  <2>1. j \in 1 .. Len(s) + Len(t) /\ j <= Len(s)
    BY <1>2
  <2>2. QED
    BY <1>1, <2>1
<1>4. ASSUME NEW j \in 1..Len(t) PROVE p[Len(s) + j] = t[j]
  <2>1. Len(s) + j \in 1 .. Len(s) + Len(t) /\ ~ (Len(s) + j <= Len(s)) /\ (Len(s) + j) - Len(s) = j
    BY <1>2
  <2>2. QED
    BY <1>1, <2>1
<1>5. QED
  BY <1>1, <1>2, <1>3, <1>4 DEF p

\* Positions in the second and in the third of three parts.
LEMMA Positions ==
    ASSUME NEW a \in Nat, NEW b \in Nat, NEW c \in Nat, NEW i \in Int
    PROVE  /\ a < i /\ i <= a + b =>
                /\ i - a \in 1..b /\ i - a \in 1..(b + c) /\ i \in 1..(a + b) /\ i = a + (i - a)
           /\ a + b < i /\ i <= (a + b) + c =>
                /\ i - (a + b) \in 1..c /\ b + (i - (a + b)) \in 1..(b + c)
                /\ i = (a + b) + (i - (a + b)) /\ i = a + (b + (i - (a + b)))
OBVIOUS

\* Three of them in either order.
LEMMA JoinedThrice ==
    ASSUME NEW s \in Seq(Int), NEW t \in Seq(Int), NEW w \in Seq(Int)
    PROVE  (s \o t) \o w = s \o (t \o w)
<1> DEFINE a == s \o t
           b == t \o w
           x == a \o w
           y == s \o b
<1>1. /\ a \in Seq(Int) /\ Len(a) = Len(s) + Len(t) /\ Len(s) \in Nat /\ Len(t) \in Nat
      /\ \A j \in 1..Len(s) : a[j] = s[j]
      /\ \A j \in 1..Len(t) : a[Len(s) + j] = t[j]
  BY Joined
<1>2. /\ b \in Seq(Int) /\ Len(b) = Len(t) + Len(w) /\ Len(w) \in Nat
      /\ \A j \in 1..Len(t) : b[j] = t[j]
      /\ \A j \in 1..Len(w) : b[Len(t) + j] = w[j]
  BY Joined
<1> HIDE DEF a, b
<1>3. /\ x \in Seq(Int) /\ Len(x) = Len(a) + Len(w)
      /\ \A j \in 1..Len(a) : x[j] = a[j]
      /\ \A j \in 1..Len(w) : x[Len(a) + j] = w[j]
  BY <1>1, Joined
<1>4. /\ y \in Seq(Int) /\ Len(y) = Len(s) + Len(b)
      /\ \A j \in 1..Len(s) : y[j] = s[j]
      /\ \A j \in 1..Len(b) : y[Len(s) + j] = b[j]
  BY <1>2, Joined
<1> HIDE DEF x, y
<1> DEFINE ls == Len(s)
           lt == Len(t)
           lw == Len(w)
<1>a. ls \in Nat /\ lt \in Nat /\ lw \in Nat /\ Len(a) = ls + lt /\ Len(b) = lt + lw /\ Len(x) = (ls + lt) + lw
  BY <1>1, <1>2, <1>3
<1>5. ASSUME NEW i \in 1..Len(x) PROVE x[i] = y[i]
  <2> HIDE DEF ls, lt, lw
  <2>a. i \in Int /\ i <= (ls + lt) + lw
    BY <1>a
  <2>1. CASE i <= Len(s)
    <3>1. i \in 1..Len(s) /\ i \in 1..Len(a)
      BY <1>1, <2>1
    <3>2. x[i] = a[i] /\ y[i] = s[i]
      BY <1>3, <1>4, <3>1
    <3>3. a[i] = s[i]
      BY <1>1, <3>1
    <3>4. QED
      BY <3>2, <3>3
  <2>2. CASE Len(s) < i /\ i <= Len(a)
    <3> DEFINE j == i - Len(s)
    <3>1. j \in 1..Len(t) /\ j \in 1..Len(b) /\ i \in 1..Len(a) /\ i = Len(s) + j
      <4>1. ls < i /\ i <= ls + lt
        BY <1>a, <2>2 DEF ls
      <4>2. j = i - ls
        BY DEF ls
      <4> HIDE DEF j
      <4>3. j \in 1..lt /\ j \in 1..(lt + lw) /\ i \in 1..(ls + lt) /\ i = ls + j
        BY <1>a, <2>a, <4>1, <4>2, Positions
      <4>4. QED
        BY <1>a, <4>3 DEF ls, lt
    <3> HIDE DEF j
    <3>2. x[i] = a[i]
      BY <1>3, <3>1
    <3>3. a[i] = t[j]
      BY <1>1, <3>1
    <3>4. y[i] = b[j]
      BY <1>4, <3>1
    <3>5. b[j] = t[j]
      BY <1>2, <3>1
    <3>6. QED
      BY <3>2, <3>3, <3>4, <3>5
  <2>3. CASE Len(a) < i
    <3> DEFINE j == i - Len(a)
    <3>1. j \in 1..Len(w) /\ Len(t) + j \in 1..Len(b) /\ i = Len(a) + j /\ i = Len(s) + (Len(t) + j)
      <4>1. ls + lt < i
        BY <1>a, <2>3
      <4>2. j = i - (ls + lt)
        BY <1>a
      <4> HIDE DEF j
      <4>3. j \in 1..lw /\ lt + j \in 1..(lt + lw) /\ i = (ls + lt) + j /\ i = ls + (lt + j)
        BY <1>a, <2>a, <4>1, <4>2, Positions
      <4>4. QED
        BY <1>a, <4>3 DEF ls, lt, lw
    <3> HIDE DEF j
    <3>2. x[i] = w[j]
      BY <1>3, <3>1
    <3>3. y[i] = b[Len(t) + j]
      BY <1>4, <3>1
    <3>4. b[Len(t) + j] = w[j]
      BY <1>2, <3>1
    <3>5. QED
      BY <3>2, <3>3, <3>4
  <2>4. QED
    BY <1>1, <1>3, <2>1, <2>2, <2>3
<1>6. Len(x) = Len(y)
  BY <1>1, <1>2, <1>3, <1>4
<1>7. x = y
  BY <1>3, <1>4, <1>5, <1>6, SeqEqual
<1>8. QED
  BY <1>7 DEF x, y, a, b

\* A payload: u, a tag, the cells d of its field, and w.
Around(u, tag, d, w) == (u \o (<<tag>> \o d)) \o w

\* What is where in it.
LaidOut(p, u, tag, d, w) ==
    /\ p \in Seq(Int)
    /\ Len(u) \in Nat /\ Len(d) \in Nat /\ Len(w) \in Nat
    /\ Len(p) = Len(u) + 1 + Len(d) + Len(w)
    /\ p[Len(u) + 1] = tag
    /\ \A j \in 1..Len(d) : p[Len(u) + 1 + j] = d[j]
    /\ \A j \in 1..Len(w) : p[Len(u) + 1 + Len(d) + j] = w[j]

\* A tag and its field between u and w are where LaidOut says.
LEMMA FieldCells ==
    ASSUME NEW u \in Seq(Int), NEW tag \in Int, NEW d \in Seq(Int), NEW w \in Seq(Int)
    PROVE  LaidOut(Around(u, tag, d, w), u, tag, d, w)
<1> DEFINE f == <<tag>> \o d
           a == u \o f
           p == a \o w
<1>1. f \in Seq(Int) /\ Len(f) = 1 + Len(d) /\ f[1] = tag /\ \A j \in 1..Len(d) : f[1 + j] = d[j]
  OBVIOUS
<1> HIDE DEF f
<1>2. /\ a \in Seq(Int) /\ Len(a) = Len(u) + Len(f)
      /\ \A j \in 1..Len(f) : a[Len(u) + j] = f[j]
  BY <1>1, Joined
<1> HIDE DEF a
<1>3. /\ p \in Seq(Int) /\ Len(p) = Len(a) + Len(w)
      /\ \A j \in 1..Len(a) : p[j] = a[j]
      /\ \A j \in 1..Len(w) : p[Len(a) + j] = w[j]
  BY <1>2, Joined
<1> HIDE DEF p
<1>4. Len(u) \in Nat /\ Len(d) \in Nat /\ Len(w) \in Nat /\ Len(a) = Len(u) + 1 + Len(d)
  BY <1>1, <1>2
<1>5. ASSUME NEW j \in 1..Len(f) PROVE p[Len(u) + j] = f[j]
  <2>1. Len(u) + j \in 1..Len(a)
    BY <1>1, <1>4
  <2>2. QED
    BY <1>2, <1>3, <2>1
<1>6. p[Len(u) + 1] = tag
  <2>1. 1 \in 1..Len(f)
    BY <1>1, <1>4
  <2>2. QED
    BY <1>1, <1>5, <2>1
<1>7. ASSUME NEW j \in 1..Len(d) PROVE p[Len(u) + 1 + j] = d[j]
  <2>1. 1 + j \in 1..Len(f) /\ Len(u) + (1 + j) = Len(u) + 1 + j
    BY <1>1, <1>4
  <2>2. QED
    BY <1>1, <1>5, <2>1
<1>8. \A j \in 1..Len(w) : p[Len(u) + 1 + Len(d) + j] = w[j]
  BY <1>3, <1>4
<1>9. Around(u, tag, d, w) = p
  BY DEF Around, p, a, f
<1>10. Len(p) = Len(u) + 1 + Len(d) + Len(w)
  BY <1>3, <1>4
<1>11. QED
  BY <1>3, <1>4, <1>6, <1>7, <1>8, <1>9, <1>10 DEF LaidOut

\* The same cells, taken apart behind u and before w.
TakenApart(p, u, d, w, c) ==
    /\ u \o c \in Seq(Int) /\ Len(u \o c) = Len(u) + 1 + Len(d)
    /\ p = (u \o c) \o w /\ p = u \o (c \o w)
    /\ c \o w \in Seq(Int) /\ c \o w # <<>>

\* The cells up to and including the field, and from the field on, make up the
\* payload.
LEMMA FieldParts ==
    ASSUME NEW u \in Seq(Int), NEW tag \in Int, NEW d \in Seq(Int), NEW w \in Seq(Int), NEW c, c = <<tag>> \o d
    PROVE  TakenApart(Around(u, tag, d, w), u, d, w, c)
<1>1. c \in Seq(Int) /\ Len(c) = 1 + Len(d) /\ Len(u) \in Nat /\ Len(d) \in Nat /\ Len(w) \in Nat
  OBVIOUS
<1>2. Around(u, tag, d, w) = (u \o c) \o w
  BY DEF Around
<1>3. u \o c \in Seq(Int) /\ Len(u \o c) = Len(u) + Len(c)
  BY <1>1, Joined
<1>4. c \o w \in Seq(Int) /\ Len(c \o w) = Len(c) + Len(w)
  BY <1>1, Joined
<1>5. (u \o c) \o w = u \o (c \o w)
  BY <1>1, JoinedThrice
<1>6. c \o w # <<>>
  BY <1>1, <1>4
<1>7. Len(u \o c) = Len(u) + 1 + Len(d)
  BY <1>1, <1>3
<1>8. QED
  BY <1>1, <1>2, <1>3, <1>4, <1>5, <1>6, <1>7 DEF TakenApart

\* Whatever follows u, the loop comes to its end with the message r; and, if
\* anything follows.
Goes(T, Z, u, r) ==
    u \in Seq(Int) /\ \A w \in Seq(Int) : Reaches(T, Z, u \o w, Read(r, Len(u) + 1))

GoesOn(T, Z, u, r) ==
    u \in Seq(Int) /\ \A w \in Seq(Int) : w # <<>> => Reaches(T, Z, u \o w, Read(r, Len(u) + 1))

\* Before the first field the message is the zero message.
LEMMA GoesFirst ==
    ASSUME NEW T, NEW Z
    PROVE  Goes(T, Z, <<>>, Z)
<1>1. <<>> \in Seq(Int) /\ Len(<<>>) + 1 = 1
  OBVIOUS
<1>2. QED
  BY <1>1, ReachesFirst DEF Goes

\* What holds whatever follows also holds if something does.
LEMMA GoesBoth ==
    ASSUME NEW T, NEW Z, NEW u, NEW r, Goes(T, Z, u, r)
    PROVE  GoesOn(T, Z, u, r)
BY DEF Goes, GoesOn

\* The whole payload.
LEMMA GoesAll ==
    ASSUME NEW T, NEW Z, NEW u, NEW r, Goes(T, Z, u, r)
    PROVE  DecodeTagged(T, Z, u) = Read(r, Len(u) + 1)
<1>1. u \in Seq(Int) /\ <<>> \in Seq(Int) /\ u \o <<>> = u
  BY DEF Goes
<1>2. Reaches(T, Z, u, Read(r, Len(u) + 1))
  BY <1>1 DEF Goes
<1>3. QED
  BY <1>1, <1>2, ReachesEnd

\* A field that is read with what follows it takes the loop past it.
LEMMA FieldTaken ==
    ASSUME NEW T, NEW Z, NEW u, NEW r, GoesOn(T, Z, u, r),
           NEW tag \in Int, NEW d \in Seq(Int), NEW w \in Seq(Int),
           NEW p, p = Around(u, tag, d, w),
           NEW f, f = IF tag \in DOMAIN T THEN ReadField(T[tag][2], p, Len(u) + 2)
                      ELSE skipField(p, Len(u) + 2, tag),
           f.ok, f.at = Len(u) + 2 + Len(d),
           NEW new, new = IF tag \in DOMAIN T THEN [r EXCEPT ![T[tag][1]] = f.v] ELSE r
    PROVE  Reaches(T, Z, p, Read(new, Len(u) + 2 + Len(d)))
<1> DEFINE i == Len(u) + 1
           acc == Read(r, i)
           nxt == Read(new, i + 1 + Len(d))
<1>1. u \in Seq(Int)
  BY DEF GoesOn
<1>2. /\ p \in Seq(Int) /\ Len(p) = Len(u) + 1 + Len(d) + Len(w) /\ p[i] = tag
      /\ Len(u) \in Nat /\ Len(d) \in Nat /\ Len(w) \in Nat
  <2>1. LaidOut(p, u, tag, d, w)
    BY <1>1, FieldCells
  <2>2. QED
    BY <2>1 DEF LaidOut
<1>3. /\ i \in Nat /\ i + 1 = Len(u) + 2 /\ i + 1 + Len(d) = Len(u) + 2 + Len(d)
  BY <1>2
<1>4. Reaches(T, Z, p, acc)
  <2>1. PICK c : c = <<tag>> \o d
    OBVIOUS
  <2>2. p = u \o (c \o w) /\ c \o w \in Seq(Int) /\ c \o w # <<>>
    <3>1. TakenApart(p, u, d, w, c)
      BY <1>1, <2>1, FieldParts
    <3>2. QED
      BY <3>1 DEF TakenApart
  <2>3. QED
    BY <2>2 DEF GoesOn
<1>5. acc.ok = TRUE /\ acc.at = i /\ acc.v = r
  BY DEF Read
<1>6. nxt.at = i + 1 + Len(d)
  BY DEF Read
<1> HIDE DEF acc
<1>7. NextField(T, p, acc) = nxt
  <2>1. acc.ok /\ acc.at <= Len(p)
    BY <1>2, <1>3, <1>5
  <2>2. NextField(T, p, acc) =
           IF ~f.ok THEN Failed
           ELSE Read(IF tag \in DOMAIN T THEN [r EXCEPT ![T[tag][1]] = f.v] ELSE r, f.at)
    BY <1>2, <1>3, <1>5, <2>1 DEF NextField
  <2>3. QED
    BY <1>3, <2>2
<1> HIDE DEF nxt
<1>8. nxt.at \in Nat /\ nxt.at > acc.at
  BY <1>2, <1>3, <1>5, <1>6
<1>9. Reaches(T, Z, p, nxt)
  BY <1>4, <1>7, <1>8, ReachesNext
<1>10. QED
  BY <1>3, <1>9 DEF nxt

-----------------------------------------------------------------------------
(* Fields: what each encoder writes, its reader reads.                     *)

\* A string is read where its length is, unless it is empty and last.
LEMMA StringRead ==
    ASSUME NEW p \in Seq(Int), NEW i \in Nat, i >= 1, NEW s \in Seq(Nat),
           i + Len(s) <= Len(p), p[i] = Len(s), \A j \in 1..Len(s) : p[i + j] = s[j],
           s # <<>> \/ i + 1 <= Len(p)
    PROVE  readString(p, i) = Read(s, i + 1 + Len(s))
<1> DEFINE n == Len(s)
           b == SubSeq(p, i + 1, i + n)
<1>1. n \in Nat /\ Len(p) \in Nat
  OBVIOUS
<1>2. s # <<>> => n >= 1
  <2>1. n = 0 => s = <<>>
    OBVIOUS
  <2>2. QED
    BY <1>1, <2>1
<1>3. i + 1 <= Len(p) /\ i <= Len(p)
  BY <1>1, <1>2
<1>a. \A j \in 1..n : s[j] \in Nat
  BY ElementOfSeq
<1>4. b = s
  <2>1. \A k \in (i + 1)..(i + n) : p[k] \in Nat
    <3>1. ASSUME NEW k \in (i + 1)..(i + n) PROVE p[k] \in Nat
      <4>1. k - i \in 1..n /\ i + (k - i) = k
        BY <1>1
      <4>2. s[k - i] \in Nat
        BY <1>a, <4>1
      <4>3. QED
        BY <4>1, <4>2
    <3>2. QED
      BY <3>1
  <2>2. i + 1 \in Int /\ i + n \in Int
    BY <1>1
  <2>3. /\ b \in Seq(Nat)
        /\ Len(b) = IF i + 1 <= i + n THEN (i + n) - (i + 1) + 1 ELSE 0
        /\ \A k \in 1 .. (i + n) - (i + 1) + 1 : b[k] = p[(i + 1) + k - 1]
    BY <2>1, <2>2, SubSeqProperties
  <2> HIDE DEF b
  <2>4. Len(b) = n
    BY <1>1, <2>3
  <2>5. ASSUME NEW k \in 1..n PROVE b[k] = s[k]
    <3>1. k \in 1 .. (i + n) - (i + 1) + 1 /\ (i + 1) + k - 1 = i + k
      BY <1>1
    <3>2. QED
      BY <2>3, <3>1
  <2>6. QED
    BY <2>3, <2>4, <2>5, SeqEqual
<1>5. ReadCell(p, i) = Read(n, i + 1)
  BY <1>3 DEF ReadCell
<1>6. ReadBytes(p, i + 1, n) = Read(s, i + 1 + Len(s))
  <2>1. (i + 1) + n - 1 = i + n
    BY <1>1
  <2>2. QED
    BY <1>3, <1>4, <2>1 DEF ReadBytes
<1> HIDE DEF b
<1>7. readString(p, i) = ReadBytes(p, i + 1, n)
  BY <1>5 DEF readString, Read
<1>8. QED
  BY <1>6, <1>7

\* The end of a field: what was shown for every w, or every w but none.
LEMMA FieldEnds ==
    ASSUME NEW T, NEW Z, NEW u \in Seq(Int), NEW tag \in Int, NEW d \in Seq(Int), NEW new, NEW c,
           c = <<tag>> \o d
    PROVE  /\ (\A w \in Seq(Int) : w # <<>> => Reaches(T, Z, Around(u, tag, d, w), Read(new, Len(u) + 2 + Len(d))))
                => GoesOn(T, Z, u \o c, new)
           /\ (\A w \in Seq(Int) : Reaches(T, Z, Around(u, tag, d, w), Read(new, Len(u) + 2 + Len(d))))
                => Goes(T, Z, u \o c, new)
<1>1. <<>> \in Seq(Int) /\ Len(u) \in Nat /\ Len(d) \in Nat
  OBVIOUS
<1>2. \A w \in Seq(Int) : TakenApart(Around(u, tag, d, w), u, d, w, c)
  BY FieldParts
<1>0. u \o c \in Seq(Int) /\ Len(u \o c) = Len(u) + 1 + Len(d)
  BY <1>1, <1>2 DEF TakenApart
<1>3. Len(u \o c) + 1 = Len(u) + 2 + Len(d)
  BY <1>0, <1>1
<1>4. \A w \in Seq(Int) : Around(u, tag, d, w) = (u \o c) \o w
  BY <1>2 DEF TakenApart
<1>5. QED
  BY <1>0, <1>3, <1>4 DEF Goes, GoesOn

\* The cells d are in p, from cell i on.
CellsAt(p, i, d) ==
    /\ p \in Seq(Int) /\ d \in Seq(Int) /\ Len(p) \in Nat /\ Len(d) \in Nat
    /\ i \in Nat /\ i >= 1 /\ i + Len(d) <= Len(p) + 1
    /\ \A j \in 1..Len(d) : p[(i - 1) + j] = d[j]

\* Wherever they are, a reader takes the cells d for the value v and goes past
\* them; and, if anything follows them.
Reads(type, d, v) ==
    \A p, i : CellsAt(p, i, d) => ReadField(type, p, i) = Read(v, i + Len(d))

ReadsOn(type, d, v) ==
    \A p, i : CellsAt(p, i, d) /\ i + Len(d) <= Len(p) => ReadField(type, p, i) = Read(v, i + Len(d))

\* A field that its reader reads takes the loop on.
LEMMA FieldGoes ==
    ASSUME NEW T, NEW Z, NEW u, NEW r, GoesOn(T, Z, u, r),
           NEW tag \in Int, tag \in DOMAIN T, NEW name, NEW type, T[tag] = <<name, type>>,
           NEW d \in Seq(Int), NEW v, NEW c, c = <<tag>> \o d
    PROVE  /\ ReadsOn(type, d, v) => GoesOn(T, Z, u \o c, [r EXCEPT ![name] = v])
           /\ Reads(type, d, v) => Goes(T, Z, u \o c, [r EXCEPT ![name] = v])
<1> DEFINE new == [r EXCEPT ![name] = v]
<1>1. u \in Seq(Int) /\ Len(u) \in Nat /\ Len(d) \in Nat
  BY DEF GoesOn
<1>2. T[tag][1] = name /\ T[tag][2] = type
  OBVIOUS
<1>3. ASSUME NEW w \in Seq(Int), Reads(type, d, v) \/ (ReadsOn(type, d, v) /\ w # <<>>)
      PROVE  Reaches(T, Z, Around(u, tag, d, w), Read(new, Len(u) + 2 + Len(d)))
  <2> DEFINE p == Around(u, tag, d, w)
             i == Len(u) + 2
             f == ReadField(type, p, i)
  <2>1. LaidOut(p, u, tag, d, w)
    BY <1>1, FieldCells
  <2> HIDE DEF p
  <2>2. p \in Seq(Int) /\ Len(p) = Len(u) + 1 + Len(d) + Len(w) /\ Len(w) \in Nat /\ Len(p) \in Nat
    BY <2>1 DEF LaidOut
  <2>3. \A j \in 1..Len(d) : p[Len(u) + 1 + j] = d[j]
    BY <2>1 DEF LaidOut
  <2>4. i \in Nat /\ i >= 1 /\ i - 1 = Len(u) + 1 /\ i + Len(d) <= Len(p) + 1
    BY <1>1, <2>2
  <2>5. CellsAt(p, i, d)
    BY <1>1, <2>2, <2>3, <2>4 DEF CellsAt
  <2>6. w # <<>> => i + Len(d) <= Len(p)
    <3>1. w # <<>> => Len(w) >= 1
      <4>1. Len(w) = 0 => w = <<>>
        OBVIOUS
      <4>2. QED
        BY <2>2, <4>1
    <3>2. QED
      BY <1>1, <2>2, <3>1
  <2>7. f = Read(v, i + Len(d))
    BY <1>3, <2>5, <2>6 DEF Reads, ReadsOn
  <2>8. f.ok /\ f.v = v /\ f.at = Len(u) + 2 + Len(d)
    BY <2>7 DEF Read
  <2>9. f = IF tag \in DOMAIN T THEN ReadField(T[tag][2], p, Len(u) + 2) ELSE skipField(p, Len(u) + 2, tag)
    BY <1>2
  <2>10. new = IF tag \in DOMAIN T THEN [r EXCEPT ![T[tag][1]] = f.v] ELSE r
    BY <1>2, <2>8
  <2> HIDE DEF f, new
  <2>11. Reaches(T, Z, p, Read(new, Len(u) + 2 + Len(d)))
    BY <2>8, <2>9, <2>10, FieldTaken DEF p
  <2>12. QED
    BY <2>11 DEF p
<1> HIDE DEF new
<1>4. ReadsOn(type, d, v) => GoesOn(T, Z, u \o c, new)
  BY <1>1, <1>3, FieldEnds
<1>5. Reads(type, d, v) => Goes(T, Z, u \o c, new)
  BY <1>1, <1>3, FieldEnds
<1>6. QED
  BY <1>4, <1>5 DEF new

\* One cell.
LEMMA OneCell ==
    ASSUME NEW p, NEW i, NEW x \in Int, CellsAt(p, i, <<x>>)
    PROVE  ReadCell(p, i) = Read(x, i + 1) /\ Len(<<x>>) = 1
<1>1. Len(<<x>>) = 1 /\ <<x>>[1] = x
  OBVIOUS
<1>2. i \in Nat /\ Len(p) \in Nat /\ i + 1 <= Len(p) + 1 /\ p[(i - 1) + 1] = <<x>>[1]
  BY <1>1 DEF CellsAt
<1>3. i <= Len(p) /\ (i - 1) + 1 = i
  BY <1>2
<1>4. QED
  BY <1>1, <1>2, <1>3 DEF ReadCell

\* The fields of one cell: a flag, a number of either format, a uint64, a
\* uint64 that went through int64, a number behind a pointer.
LEMMA CellFields ==
    /\ \A b \in BOOLEAN : Reads("bool", <<IF b THEN 1 ELSE 0>>, b)
    /\ \A x \in Ints(M64) : /\ Bits(x, M64) \in Int
                            /\ Reads("int64", <<Bits(x, M64)>>, x) /\ Reads("pointer", <<Bits(x, M64)>>, <<x>>)
    /\ \A x \in Ints(M32) : Bits(x, M32) \in Int /\ Reads("int32", <<Bits(x, M32)>>, x)
    /\ \A x \in Int : Reads("word", <<x>>, x)
    /\ \A x \in Words : /\ Bits(x, M64) = x /\ x \in Int
                        /\ Reads("agent", <<Bits(Signed(x, M64), M64)>>, x) /\ Bits(Signed(x, M64), M64) \in Int
<1>0. /\ M32 \in Nat /\ M64 \in Nat /\ M32 > 0 /\ M64 > 0 /\ M32 % 2 = 0 /\ M64 % 2 = 0
      /\ Words \subseteq 0..(M64 - 1) /\ Words \subseteq Nat
  BY FormatAssumption
<1>1. ASSUME NEW b \in BOOLEAN PROVE Reads("bool", <<IF b THEN 1 ELSE 0>>, b)
  <2> DEFINE x == IF b THEN 1 ELSE 0
  <2>1. x \in Int /\ (x # 0) = b
    OBVIOUS
  <2> HIDE DEF x
  <2>2. ASSUME NEW p, NEW i, CellsAt(p, i, <<x>>) PROVE ReadField("bool", p, i) = Read(b, i + Len(<<x>>))
    <3>1. ReadCell(p, i) = Read(x, i + 1) /\ Len(<<x>>) = 1
      BY <2>1, <2>2, OneCell
    <3>2. readBool(p, i) = Read(x # 0, i + 1)
      BY <3>1 DEF readBool, Read
    <3>3. QED
      BY <2>1, <3>1, <3>2 DEF ReadField
  <2>3. Reads("bool", <<x>>, b)
    BY <2>2 DEF Reads
  <2>4. QED
    BY <2>3 DEF x
<1>2. ASSUME NEW x \in Int PROVE Reads("word", <<x>>, x)
  <2>1. ASSUME NEW p, NEW i, CellsAt(p, i, <<x>>) PROVE ReadField("word", p, i) = Read(x, i + Len(<<x>>))
    <3>1. ReadCell(p, i) = Read(x, i + 1) /\ Len(<<x>>) = 1
      BY <2>1, OneCell
    <3>2. QED
      BY <3>1 DEF ReadField
  <2>2. QED
    BY <2>1 DEF Reads
<1>3. ASSUME NEW m \in {M32, M64}, NEW y \in Words, NEW p, NEW i,
             CellsAt(p, i, <<Bits(Signed(y, m), m)>>)
      PROVE  /\ readSigned(p, i, m) = Read(Signed(y, m), i + 1)
             /\ Len(<<Bits(Signed(y, m), m)>>) = 1
  <2> DEFINE x == Bits(Signed(y, m), m)
  <2>1. x \in Int /\ Signed(x, m) = Signed(y, m)
    BY <1>0, SignedBits
  <2> HIDE DEF x
  <2>2. CellsAt(p, i, <<x>>)
    BY <1>3 DEF x
  <2>3. ReadCell(p, i) = Read(x, i + 1) /\ Len(<<x>>) = 1
    BY <2>1, <2>2, OneCell
  <2>4. readSigned(p, i, m) = Read(Signed(x, m), i + 1)
    BY <2>3 DEF readSigned, Read
  <2>5. QED
    BY <2>1, <2>3, <2>4 DEF x
<1>4. ASSUME NEW y \in Words
      PROVE  /\ Bits(Signed(y, M64), M64) \in Int /\ Bits(Signed(y, M32), M32) \in Int
             /\ Reads("int64", <<Bits(Signed(y, M64), M64)>>, Signed(y, M64))
             /\ Reads("int32", <<Bits(Signed(y, M32), M32)>>, Signed(y, M32))
             /\ Reads("pointer", <<Bits(Signed(y, M64), M64)>>, <<Signed(y, M64)>>)
             /\ Reads("agent", <<Bits(Signed(y, M64), M64)>>, y)
  <2>1. Bits(Signed(y, M64), M64) \in Int /\ Bits(Signed(y, M32), M32) \in Int
    BY <1>0, SignedBits
  <2>2. Bits(Signed(y, M64), M64) = y
    BY <1>0, SignedBits
  <2> DEFINE c == <<Bits(Signed(y, M64), M64)>>
             c32 == <<Bits(Signed(y, M32), M32)>>
  <2>3. ASSUME NEW p, NEW i, CellsAt(p, i, c)
        PROVE  /\ ReadField("int64", p, i) = Read(Signed(y, M64), i + Len(c))
               /\ ReadField("pointer", p, i) = Read(<<Signed(y, M64)>>, i + Len(c))
               /\ ReadField("agent", p, i) = Read(y, i + Len(c))
    <3>1. readSigned(p, i, M64) = Read(Signed(y, M64), i + 1) /\ Len(c) = 1
      BY <1>3, <2>3
    <3>2. readPointer(p, i) = Read(<<Signed(y, M64)>>, i + 1)
      BY <3>1 DEF readPointer, Read
    <3>3. readUnsigned(p, i) = Read(y, i + 1)
      BY <2>2, <3>1 DEF readUnsigned, Read
    <3> HIDE DEF c
    <3>4. QED
      BY <3>1, <3>2, <3>3 DEF ReadField
  <2>4. ASSUME NEW p, NEW i, CellsAt(p, i, c32)
        PROVE  ReadField("int32", p, i) = Read(Signed(y, M32), i + Len(c32))
    <3>1. readSigned(p, i, M32) = Read(Signed(y, M32), i + 1) /\ Len(c32) = 1
      BY <1>3, <2>4
    <3> HIDE DEF c32
    <3>2. QED
      BY <3>1 DEF ReadField
  <2> HIDE DEF c, c32
  <2>5. /\ Reads("int64", c, Signed(y, M64)) /\ Reads("pointer", c, <<Signed(y, M64)>>)
        /\ Reads("agent", c, y) /\ Reads("int32", c32, Signed(y, M32))
    BY <2>3, <2>4 DEF Reads
  <2>6. QED
    BY <2>1, <2>5 DEF c, c32
<1>5. \A x \in Words : Bits(x, M64) = x /\ x \in Int
  BY <1>0, SignedBits
<1>6. QED
  BY <1>1, <1>2, <1>4, <1>5 DEF Ints

\* Cells put together are one after the other.
LEMMA CellsSplit ==
    ASSUME NEW p, NEW i, NEW a \in Seq(Int), NEW b \in Seq(Int), CellsAt(p, i, a \o b)
    PROVE  CellsAt(p, i, a) /\ CellsAt(p, i + Len(a), b)
<1> DEFINE d == a \o b
<1>1. /\ d \in Seq(Int) /\ Len(d) = Len(a) + Len(b) /\ Len(a) \in Nat /\ Len(b) \in Nat
      /\ \A j \in 1..Len(a) : d[j] = a[j]
      /\ \A j \in 1..Len(b) : d[Len(a) + j] = b[j]
  BY Joined
<1>2. CellsAt(p, i, d)
  OBVIOUS
<1> HIDE DEF d
<1>3. /\ p \in Seq(Int) /\ Len(p) \in Nat /\ i \in Nat /\ i >= 1 /\ i + Len(d) <= Len(p) + 1
      /\ \A j \in 1..Len(d) : p[(i - 1) + j] = d[j]
  BY <1>2 DEF CellsAt
<1>4. CellsAt(p, i, a)
  <2>1. \A j \in 1..Len(a) : j \in 1..Len(d)
    BY <1>1
  <2>2. \A j \in 1..Len(a) : p[(i - 1) + j] = a[j]
    BY <1>1, <1>3, <2>1
  <2>3. i + Len(a) <= Len(p) + 1
    BY <1>1, <1>3
  <2>4. QED
    BY <1>1, <1>3, <2>2, <2>3 DEF CellsAt
<1>5. CellsAt(p, i + Len(a), b)
  <2>1. ASSUME NEW j \in 1..Len(b) PROVE p[((i + Len(a)) - 1) + j] = b[j]
    <3>1. Len(a) + j \in 1..Len(d) /\ (i - 1) + (Len(a) + j) = ((i + Len(a)) - 1) + j
      BY <1>1, <1>3
    <3>2. QED
      BY <1>1, <1>3, <3>1
  <2>2. i + Len(a) \in Nat /\ i + Len(a) >= 1 /\ (i + Len(a)) + Len(b) <= Len(p) + 1
    BY <1>1, <1>3
  <2>3. QED
    BY <1>1, <1>3, <2>1, <2>2 DEF CellsAt
<1>6. QED
  BY <1>4, <1>5

\* The cells of a string.
LEMMA StringCells ==
    ASSUME NEW s \in Strings
    PROVE  /\ s \in Seq(Nat) /\ s \in Seq(Int) /\ Len(s) \in Nat
           /\ String(s) \in Seq(Int) /\ Len(String(s)) = Len(s) + 1
<1>1. s \in Seq(Nat)
  BY FormatAssumption
<1>2. s \in Seq(Int) /\ Len(s) \in Nat
  <2>1. Nat \subseteq Int
    OBVIOUS
  <2>2. QED
    BY <1>1, <2>1, SeqMonotonic
<1>3. <<Len(s)>> \in Seq(Int) /\ Len(<<Len(s)>>) = 1
  BY <1>2
<1>4. QED
  BY <1>1, <1>2, <1>3, Joined DEF String

\* A string is read where its cells are, unless it is empty and last.
LEMMA StringReadBack ==
    ASSUME NEW s \in Strings, NEW p, NEW i, CellsAt(p, i, String(s)),
           s # <<>> \/ i + Len(String(s)) <= Len(p)
    PROVE  readString(p, i) = Read(s, i + Len(String(s)))
<1>1. s \in Seq(Nat) /\ s \in Seq(Int) /\ Len(s) \in Nat /\ Len(String(s)) = Len(s) + 1
  BY StringCells
<1> DEFINE a == <<Len(s)>>
<1>2. a \in Seq(Int) /\ Len(a) = 1 /\ a[1] = Len(s)
  BY <1>1
<1>3. String(s) = a \o s
  BY DEF String
<1> HIDE DEF a
<1>4. CellsAt(p, i, a) /\ CellsAt(p, i + Len(a), s)
  BY <1>1, <1>2, <1>3, CellsSplit
<1>5. /\ p \in Seq(Int) /\ i \in Nat /\ i >= 1 /\ Len(p) \in Nat
      /\ p[(i - 1) + 1] = a[1]
  <2>1. 1 \in 1..Len(a)
    BY <1>2
  <2>2. QED
    BY <1>4, <2>1 DEF CellsAt
<1>6. /\ (i + 1) + Len(s) <= Len(p) + 1
      /\ \A j \in 1..Len(s) : p[((i + 1) - 1) + j] = s[j]
  BY <1>2, <1>4 DEF CellsAt
<1>7. /\ i + Len(s) <= Len(p) /\ p[i] = Len(s) /\ \A j \in 1..Len(s) : p[i + j] = s[j]
      /\ s # <<>> \/ i + 1 <= Len(p)
  <2>1. (i - 1) + 1 = i /\ (i + 1) - 1 = i
    BY <1>5
  <2>2. s # <<>> \/ i + 1 <= Len(p)
    BY <1>1, <1>5
  <2>3. QED
    BY <1>1, <1>2, <1>5, <1>6, <2>1, <2>2
<1>8. readString(p, i) = Read(s, i + 1 + Len(s))
  BY <1>1, <1>5, <1>7, StringRead
<1>9. i + 1 + Len(s) = i + Len(String(s))
  BY <1>1, <1>5
<1>10. QED
  BY <1>8, <1>9

\* Strings as fields.
LEMMA StringFields ==
    ASSUME NEW s \in Strings
    PROVE  ReadsOn("string", String(s), s) /\ (s # <<>> => Reads("string", String(s), s))
<1>1. ASSUME NEW p, NEW i, CellsAt(p, i, String(s)), s # <<>> \/ i + Len(String(s)) <= Len(p)
      PROVE  ReadField("string", p, i) = Read(s, i + Len(String(s)))
  <2>1. readString(p, i) = Read(s, i + Len(String(s)))
    BY <1>1, StringReadBack
  <2>2. QED
    BY <2>1 DEF ReadField
<1>2. ReadsOn("string", String(s), s)
  BY <1>1 DEF ReadsOn
<1>3. ASSUME s # <<>> PROVE Reads("string", String(s), s)
  <2>1. \A p, i : CellsAt(p, i, String(s)) => ReadField("string", p, i) = Read(s, i + Len(String(s)))
    BY <1>1, <1>3
  <2>2. QED
    BY <2>1 DEF Reads
<1>4. QED
  BY <1>2, <1>3

\* Values as fields: a type tag and the data.
ValueCells(v) == <<v.typeTag>> \o String(v.data)

\* A value is read back, at the end of a payload only if it has data.
LEMMA ValueFields ==
    ASSUME NEW v \in Values
    PROVE  /\ ValueCells(v) \in Seq(Int) /\ v.data \in Strings
           /\ ReadsOn("value", ValueCells(v), v) /\ (v.data # <<>> => Reads("value", ValueCells(v), v))
<1>1. v.data \in Strings /\ v.typeTag \in Int /\ v = [typeTag |-> v.typeTag, data |-> v.data]
  <2>1. v.data \in Strings /\ v.typeTag \in Tags /\ v = [typeTag |-> v.typeTag, data |-> v.data]
    BY DEF Values
  <2>2. Tags \subseteq Int
    BY FieldAssumption
  <2>3. QED
    BY <2>1, <2>2
<1> DEFINE t == <<v.typeTag>>
           s == String(v.data)
<1>2. t \in Seq(Int) /\ Len(t) = 1
  BY <1>1
<1>3. s \in Seq(Int) /\ Len(s) \in Nat
  <2>1. Len(v.data) \in Nat /\ s \in Seq(Int) /\ Len(s) = Len(v.data) + 1
    BY <1>1, StringCells
  <2> HIDE DEF s
  <2>2. QED
    BY <2>1
<1>4. ValueCells(v) = t \o s
  BY DEF ValueCells
<1>5. ValueCells(v) \in Seq(Int) /\ Len(ValueCells(v)) = 1 + Len(s)
  BY <1>2, <1>3, <1>4, Joined
<1>6. ASSUME NEW p, NEW i, CellsAt(p, i, ValueCells(v)), v.data # <<>> \/ i + Len(ValueCells(v)) <= Len(p)
      PROVE  ReadField("value", p, i) = Read(v, i + Len(ValueCells(v)))
  <2>1. CellsAt(p, i, t) /\ CellsAt(p, i + 1, s)
    <3> HIDE DEF t, s
    <3>1. QED
      BY <1>2, <1>3, <1>4, <1>6, CellsSplit
  <2>2. i \in Nat
    BY <2>1 DEF CellsAt
  <2>3. ReadCell(p, i) = Read(v.typeTag, i + 1)
    BY <1>1, <2>1, OneCell
  <2>4. (i + 1) + Len(s) = i + Len(ValueCells(v))
    <3> HIDE DEF t, s
    <3>1. QED
      BY <1>3, <1>5, <2>2
  <2>5. readString(p, i + 1) = Read(v.data, i + Len(ValueCells(v)))
    <3>1. v.data # <<>> \/ (i + 1) + Len(s) <= Len(p)
      BY <1>6, <2>4
    <3>2. readString(p, i + 1) = Read(v.data, (i + 1) + Len(s))
      BY <1>1, <2>1, <3>1, StringReadBack
    <3>3. QED
      BY <2>4, <3>2
  <2>6. readValue(p, i) = Read(v, i + Len(ValueCells(v)))
    <3>1. /\ (ReadCell(p, i)).ok = TRUE /\ (ReadCell(p, i)).v = v.typeTag /\ (ReadCell(p, i)).at = i + 1
      BY <2>3 DEF Read
    <3>2. /\ (readString(p, i + 1)).ok = TRUE /\ (readString(p, i + 1)).v = v.data
          /\ (readString(p, i + 1)).at = i + Len(ValueCells(v))
      BY <2>5 DEF Read
    <3>3. readValue(p, i) = Read([typeTag |-> v.typeTag, data |-> v.data], i + Len(ValueCells(v)))
      BY <3>1, <3>2 DEF readValue
    <3>4. QED
      BY <1>1, <3>3
  <2>7. QED
    BY <2>6 DEF ReadField
<1>7. ReadsOn("value", ValueCells(v), v)
  BY <1>6 DEF ReadsOn
<1>8. ASSUME v.data # <<>> PROVE Reads("value", ValueCells(v), v)
  <2>1. \A p, i : CellsAt(p, i, ValueCells(v)) => ReadField("value", p, i) = Read(v, i + Len(ValueCells(v)))
    BY <1>6, <1>8
  <2>2. QED
    BY <2>1 DEF Reads
<1>9. QED
  BY <1>1, <1>5, <1>7, <1>8

-----------------------------------------------------------------------------
(* Lists.                                                                  *)

\* F[i] is the first i members of q, one after the other.
Flattens(F, q) ==
    /\ F[0] = <<>> /\ FlattenSeq(q) = F[Len(q)]
    /\ \A i \in 1..Len(q) : F[i] = F[i - 1] \o q[i]
    /\ \A i \in 0..Len(q) : F[i] \in Seq(Int)

\* The recursion of FlattenSeq can be followed up to member m.
FlattenedTo(q, m) ==
    \E f : f = [i \in 1..m |-> IF i = 1 THEN q[i] ELSE f[i - 1] \o q[i]]

\* f[i] is the first i members of q, for a q that is not empty.
Follows(f, q) ==
    /\ FlattenSeq(q) = f[Len(q)] /\ f[1] = q[1]
    /\ \A i \in 2..Len(q) : f[i] = f[i - 1] \o q[i]

\* FlattenSeq puts the members together from the first to the last.
LEMMA FlattenedStepwise ==
    ASSUME NEW q \in Seq(Seq(Int)), Len(q) > 0
    PROVE  \E f : Follows(f, q)
<1> DEFINE n == Len(q)
           Val(f, i) == IF i = 1 THEN q[i] ELSE f[i - 1] \o q[i]
           S == {m \in 0..n : FlattenedTo(q, m)}
<1>0. n \in Nat /\ n > 0
  OBVIOUS
<1>1. 0 \in S
  <2>1. FlattenedTo(q, 0)
    <3> DEFINE f0 == [i \in 1..0 |-> q[i]]
    <3>1. f0 = [i \in 1..0 |-> Val(f0, i)]
      OBVIOUS
    <3> HIDE DEF f0
    <3>2. QED
      BY <3>1 DEF FlattenedTo
  <2>2. QED
    BY <1>0, <2>1
<1>2. ASSUME NEW m \in 0..n, m \in S, m + 1 <= n PROVE m + 1 \in S
  <2>1. PICK f : f = [i \in 1..m |-> Val(f, i)]
    BY <1>2 DEF FlattenedTo
  <2> DEFINE g == [i \in 1..(m + 1) |-> IF i = m + 1 THEN Val(f, i) ELSE f[i]]
  <2>2. \A i \in 1..m : f[i] = Val(f, i)
    BY <2>1
  <2>3. \A i \in 1..(m + 1) : g[i] = IF i = m + 1 THEN Val(f, i) ELSE f[i]
    OBVIOUS
  <2>4. g = [i \in 1..(m + 1) |-> g[i]]
    OBVIOUS
  <2> HIDE DEF g
  <2>5. ASSUME NEW i \in 1..(m + 1) PROVE g[i] = Val(g, i)
    <3>1. CASE i = 1
      BY <2>2, <2>3, <3>1
    <3>2. CASE i # 1
      <4>1. i - 1 \in 1..m /\ i - 1 \in 1..(m + 1) /\ i - 1 # m + 1
        BY <3>2
      <4>2. g[i - 1] = f[i - 1]
        BY <2>3, <4>1
      <4>3. g[i] = Val(f, i)
        <5>1. CASE i = m + 1
          BY <2>3, <5>1
        <5>2. CASE i # m + 1
          <6>1. i \in 1..m
            BY <5>2
          <6>2. QED
            BY <2>2, <2>3, <5>2, <6>1
        <5>3. QED
          BY <5>1, <5>2
      <4>4. QED
        BY <3>2, <4>2, <4>3
    <3>3. QED
      BY <3>1, <3>2
  <2>6. g = [i \in 1..(m + 1) |-> Val(g, i)]
    <3>1. [i \in 1..(m + 1) |-> g[i]] = [i \in 1..(m + 1) |-> Val(g, i)]
      BY <2>5
    <3>2. QED
      BY <2>4, <3>1
  <2>7. FlattenedTo(q, m + 1)
    BY <2>6 DEF FlattenedTo
  <2>8. QED
    BY <1>0, <1>2, <2>7
<1> HIDE DEF S
<1>3. 0..n \subseteq S
  BY <1>0, <1>1, <1>2, UpTo
<1>4. \E f : f = [i \in 1..n |-> Val(f, i)]
  <2>1. FlattenedTo(q, n)
    BY <1>0, <1>3 DEF S
  <2>2. QED
    BY <2>1 DEF FlattenedTo
<1> DEFINE flatten == CHOOSE f : f = [i \in 1..n |-> Val(f, i)]
<1>5. flatten = [i \in 1..n |-> Val(flatten, i)]
  BY <1>4
<1>6. FlattenSeq(q) = flatten[n]
  <2>1. Len(q) # 0
    BY <1>0
  <2>2. QED
    BY <2>1 DEF FlattenSeq, flatten
<1> HIDE DEF flatten
<1>7. \A i \in 1..n : flatten[i] = Val(flatten, i)
  BY <1>5
<1>8. flatten[1] = q[1] /\ \A i \in 2..n : flatten[i] = flatten[i - 1] \o q[i]
  <2>1. 1 \in 1..n /\ \A i \in 2..n : i \in 1..n /\ i # 1
    BY <1>0
  <2> HIDE DEF n
  <2>2. QED
    BY <1>7, <2>1, Zenon
<1>9. Follows(flatten, q)
  BY <1>6, <1>8 DEF Follows
<1>10. QED
  BY <1>9

\* FlattenSeq puts the members of a sequence one after the other.
LEMMA Flattening ==
    ASSUME NEW q \in Seq(Seq(Int))
    PROVE  \E F : Flattens(F, q)
<1> DEFINE n == Len(q)
<1>0. n \in Nat
  OBVIOUS
<1>1. CASE n = 0
  <2> DEFINE F == [i \in 0..0 |-> <<>>]
  <2>1. F[0] = <<>> /\ \A i \in 0..0 : F[i] \in Seq(Int)
    OBVIOUS
  <2>2. q = <<>> /\ FlattenSeq(q) = <<>>
    BY <1>1 DEF FlattenSeq
  <2> HIDE DEF F
  <2>3. Flattens(F, q)
    BY <1>1, <2>1, <2>2 DEF Flattens
  <2>4. QED
    BY <2>3
<1>2. CASE n > 0
  <2>a. PICK f : Follows(f, q)
    BY <1>2, FlattenedStepwise
  <2>1. /\ FlattenSeq(q) = f[n] /\ f[1] = q[1]
        /\ \A i \in 2..n : f[i] = f[i - 1] \o q[i]
    BY <2>a DEF Follows
  <2> DEFINE F == [i \in 0..n |-> IF i = 0 THEN <<>> ELSE f[i]]
  <2>2. \A i \in 0..n : F[i] = IF i = 0 THEN <<>> ELSE f[i]
    OBVIOUS
  <2> HIDE DEF F
  <2>3. F[0] = <<>> /\ F[n] = f[n]
    BY <1>0, <1>2, <2>2
  <2>4. ASSUME NEW i \in 1..n PROVE F[i] = F[i - 1] \o q[i]
    <3>1. CASE i = 1
      <4>1. F[1] = q[1] /\ F[1 - 1] = <<>>
        BY <1>0, <1>2, <2>1, <2>2
      <4>2. q[1] \in Seq(Int)
        BY <1>0, <1>2
      <4>3. <<>> \o q[1] = q[1]
        BY <4>2
      <4>4. QED
        BY <3>1, <4>1, <4>3
    <3>2. CASE i # 1
      <4>1. i \in 2..n /\ i \in 0..n /\ i # 0 /\ i - 1 \in 0..n /\ i - 1 # 0
        BY <3>2, <1>0
      <4>2. F[i] = f[i] /\ F[i - 1] = f[i - 1]
        BY <2>2, <4>1
      <4>3. QED
        BY <2>1, <4>1, <4>2
    <3>3. QED
      BY <3>1, <3>2
  <2>5. \A i \in 0..n : F[i] \in Seq(Int)
    <3> DEFINE S == {i \in 0..n : F[i] \in Seq(Int)}
    <3>1. 0 \in S
      <4>1. <<>> \in Seq(Int)
        OBVIOUS
      <4>2. F[0] \in Seq(Int)
        BY <2>3, <4>1, Zenon
      <4>3. 0 \in 0..n
        BY <1>0
      <4>4. QED
        BY <4>2, <4>3, Zenon
    <3>2. ASSUME NEW m \in 0..n, m \in S, m + 1 <= n PROVE m + 1 \in S
      <4>1. m + 1 \in 1..n /\ (m + 1) - 1 = m /\ m + 1 \in 0..n
        BY <3>2, <1>0
      <4>5. F[m] \in Seq(Int)
        BY <3>2, Zenon
      <4>6. q[m + 1] \in Seq(Int)
        BY <4>1
      <4>7. F[m + 1] = F[m] \o q[m + 1]
        BY <2>4, <4>1
      <4>2. F[m + 1] = F[m] \o q[m + 1] /\ q[m + 1] \in Seq(Int) /\ F[m] \in Seq(Int)
        BY <4>5, <4>6, <4>7
      <4>3. F[m] \o q[m + 1] \in Seq(Int)
        BY <4>2, Joined
      <4>4. QED
        BY <4>1, <4>2, <4>3
    <3> HIDE DEF S
    <3>3. 0..n \subseteq S
      BY <1>0, <3>1, <3>2, UpTo
    <3>4. QED
      BY <3>3 DEF S
  <2>6. Flattens(F, q)
    BY <2>1, <2>3, <2>4, <2>5 DEF Flattens
  <2>7. QED
    BY <2>6
<1>3. QED
  BY <1>0, <1>1, <1>2

\* L[k] cells on, the first k members of a flattened list are behind i.
MembersIn(L, q, p, i) ==
    /\ i \in Nat /\ i >= 1 /\ p \in Seq(Int) /\ Len(p) \in Nat
    /\ L[0] = 0 /\ L[Len(q)] = Len(FlattenSeq(q))
    /\ \A k \in 0..Len(q) : L[k] \in Nat /\ i + L[k] <= Len(p) + 1
    /\ \A k \in 1..Len(q) : /\ Len(q[k]) \in Nat /\ L[k] = L[k - 1] + Len(q[k])
                            /\ CellsAt(p, i + L[k - 1], q[k])

\* In a payload that holds a flattened list, each member is found behind the
\* ones before it.
LEMMA MembersFound ==
    ASSUME NEW q \in Seq(Seq(Int)), NEW p, NEW i, CellsAt(p, i, FlattenSeq(q))
    PROVE  \E L : MembersIn(L, q, p, i)
<1>a. PICK F : Flattens(F, q)
  BY Flattening
<1> DEFINE n == Len(q)
<1>0. n \in Nat
  OBVIOUS
<1>1. /\ F[0] = <<>> /\ FlattenSeq(q) = F[n]
      /\ \A k \in 1..n : F[k] = F[k - 1] \o q[k]
      /\ \A k \in 0..n : F[k] \in Seq(Int)
  BY <1>a DEF Flattens
<1>2. \A k \in 1..n : q[k] \in Seq(Int)
  OBVIOUS
<1> HIDE DEF n
<1>3. ASSUME NEW k \in 1..n, CellsAt(p, i, F[k])
      PROVE  CellsAt(p, i, F[k - 1]) /\ CellsAt(p, i + Len(F[k - 1]), q[k])
  <2>1. k - 1 \in 0..n
    BY <1>0
  <2>2. F[k - 1] \in Seq(Int) /\ q[k] \in Seq(Int) /\ F[k] = F[k - 1] \o q[k]
    BY <1>1, <1>2, <2>1
  <2>3. CellsAt(p, i, F[k - 1] \o q[k])
    BY <1>3, <2>2
  <2>4. QED
    BY <2>2, <2>3, CellsSplit
<1>4. \A k \in 0..n : CellsAt(p, i, F[k])
  <2> DEFINE S == {m \in 0..n : CellsAt(p, i, F[n - m])}
  <2>1. 0 \in S
    <3>1. n - 0 = n /\ 0 \in 0..n
      BY <1>0
    <3>2. CellsAt(p, i, F[n])
      BY <1>1
    <3>3. QED
      BY <3>1, <3>2
  <2>2. ASSUME NEW m \in 0..n, m \in S, m + 1 <= n PROVE m + 1 \in S
    <3>1. n - m \in 1..n /\ (n - m) - 1 = n - (m + 1) /\ m + 1 \in 0..n
      BY <1>0, <2>2
    <3>2. CellsAt(p, i, F[n - m])
      BY <2>2
    <3>3. CellsAt(p, i, F[(n - m) - 1])
      BY <1>3, <3>1, <3>2
    <3>4. QED
      BY <3>1, <3>3
  <2> HIDE DEF S
  <2>3. 0..n \subseteq S
    BY <1>0, <2>1, <2>2, UpTo
  <2>4. ASSUME NEW k \in 0..n PROVE CellsAt(p, i, F[k])
    <3>1. n - k \in 0..n /\ n - (n - k) = k
      BY <1>0
    <3>2. n - k \in S
      BY <2>3, <3>1
    <3>3. CellsAt(p, i, F[n - (n - k)])
      BY <3>2 DEF S
    <3>4. QED
      BY <3>1, <3>3
  <2>5. QED
    BY <2>4
<1>5. \A k \in 0..n : Len(F[k]) \in Nat /\ i + Len(F[k]) <= Len(p) + 1
  BY <1>4 DEF CellsAt
<1>6. i \in Nat /\ i >= 1 /\ p \in Seq(Int) /\ Len(p) \in Nat
  BY DEF CellsAt
<1>7. ASSUME NEW k \in 1..n
      PROVE  /\ Len(q[k]) \in Nat /\ Len(F[k]) = Len(F[k - 1]) + Len(q[k])
             /\ CellsAt(p, i + Len(F[k - 1]), q[k])
  <2>1. k - 1 \in 0..n /\ k \in 0..n
    BY <1>0
  <2>2. F[k - 1] \in Seq(Int) /\ q[k] \in Seq(Int) /\ F[k] = F[k - 1] \o q[k]
    BY <1>1, <1>2, <2>1
  <2>3. Len(F[k - 1] \o q[k]) = Len(F[k - 1]) + Len(q[k]) /\ Len(q[k]) \in Nat
    BY <2>2, Joined
  <2>4. CellsAt(p, i + Len(F[k - 1]), q[k])
    BY <1>3, <1>4, <2>1
  <2>5. QED
    BY <2>2, <2>3, <2>4
<1> DEFINE Long(k) == Len(F[k])
           L == [k \in 0..n |-> Long(k)]
<1>8. \A k \in 0..n : L[k] = Len(F[k])
  <2> HIDE DEF Long
  <2>1. \A k \in 0..n : L[k] = Long(k)
    OBVIOUS
  <2>2. QED
    BY <2>1 DEF Long
<1> HIDE DEF L, Long
<1>9. /\ L[0] = 0 /\ L[n] = Len(FlattenSeq(q))
  <2>1. 0 \in 0..n /\ n \in 0..n /\ Len(<<>>) = 0
    BY <1>0
  <2>2. QED
    BY <1>1, <1>8, <2>1
<1>10. \A k \in 1..n : k \in 0..n /\ k - 1 \in 0..n
  BY <1>0
<1>11. \A k \in 0..n : L[k] \in Nat /\ i + L[k] <= Len(p) + 1
  BY <1>5, <1>8
<1>12. \A k \in 1..n : /\ Len(q[k]) \in Nat /\ L[k] = L[k - 1] + Len(q[k])
                       /\ CellsAt(p, i + L[k - 1], q[k])
  BY <1>7, <1>8, <1>10
<1>13. MembersIn(L, q, p, i)
  BY <1>6, <1>9, <1>11, <1>12 DEF MembersIn, n
<1>14. QED
  BY <1>13

\* The first members of a sequence, one more at a time.
LEMMA PrefixSteps ==
    ASSUME NEW S, NEW s \in Seq(S)
    PROVE  /\ SubSeq(s, 1, 0) = <<>> /\ SubSeq(s, 1, Len(s)) = s
           /\ \A k \in 1..Len(s) : Append(SubSeq(s, 1, k - 1), s[k]) = SubSeq(s, 1, k)
<1>1. SubSeq(s, 1, 0) = <<>> /\ SubSeq(s, 1, Len(s)) = s
  BY SubSeqEmpty, SubSeqFull
<1>2. ASSUME NEW k \in 1..Len(s) PROVE Append(SubSeq(s, 1, k - 1), s[k]) = SubSeq(s, 1, k)
  <2>1. Len(s) \in Nat
    OBVIOUS
  <2> DEFINE a == SubSeq(s, 1, k - 1)
  <2>2. \A j \in 1..(k - 1) : s[j] \in S
    BY <2>1
  <2>3. a \in Seq(S) /\ k - 1 \in Int
    BY <2>1, <2>2, SubSeqProperties
  <2>4. s[k] \in S
    BY <2>1
  <2>5. SubSeq(s, 1, k) = a \o <<s[k]>>
    <3>1. 1 \in 1..Len(s) /\ k \in 1..Len(s)
      BY <2>1
    <3>2. QED
      BY <3>1, SubSeqRecursiveSecond
  <2> HIDE DEF a
  <2>6. Append(a, s[k]) = a \o <<s[k]>>
    BY <2>3, <2>4, AppendIsConcat
  <2>7. QED
    BY <2>5, <2>6 DEF a
<1>3. QED
  BY <1>1, <1>2

\* The loop of readStringSlice over length strings: where B says it stands
\* after each, if each follows from the one before.
LEMMA SliceLoop ==
    ASSUME NEW p, NEW i, NEW length \in Nat, ReadCell(p, i) = Read(length, i + 1),
           NEW B, B[0] = Read(<<>>, i + 1),
           \A k \in 1..length : B[k] = NextString(p, B[k - 1])
    PROVE  readStringSlice(p, i) = B[length]
<1> DEFINE N == (ReadCell(p, i)).v
           at == (ReadCell(p, i)).at
           Val(f, k) == IF k = 0 THEN Read(<<>>, at) ELSE NextString(p, f[k - 1])
           C == [k \in 0..N |-> B[k]]
<1>0. (ReadCell(p, i)).ok = TRUE /\ N = length /\ at = i + 1
  BY DEF Read
<1>a. N \in Nat /\ B[0] = Read(<<>>, at) /\ \A k \in 1..N : B[k] = NextString(p, B[k - 1])
  BY <1>0
<1> HIDE DEF N, at
<1>1. \A k \in 0..N : C[k] = B[k]
  OBVIOUS
<1> HIDE DEF C
<1>2. ASSUME NEW k \in 0..N PROVE C[k] = Val(C, k)
  <2>1. CASE k = 0
    BY <1>a, <1>1, <2>1
  <2>2. CASE k # 0
    <3>1. k \in 1..N /\ k - 1 \in 0..N
      BY <1>a, <2>2
    <3>2. QED
      BY <1>a, <1>1, <2>2, <3>1
  <2>3. QED
    BY <2>1, <2>2
<1>3. C = [k \in 0..N |-> Val(C, k)]
  <2>1. C = [k \in 0..N |-> C[k]]
    BY DEF C
  <2>2. [k \in 0..N |-> C[k]] = [k \in 0..N |-> Val(C, k)]
    BY <1>2
  <2>3. QED
    BY <2>1, <2>2
<1> DEFINE after == CHOOSE f : f = [k \in 0..N |-> Val(f, k)]
<1>4. after = [k \in 0..N |-> Val(after, k)]
  BY <1>3
<1> HIDE DEF after
<1>5. \A k \in 0..N : after[k] = Val(after, k)
  BY <1>4
<1>6. \A k \in 0..N : after[k] = C[k]
  <2> DEFINE S == {k \in 0..N : after[k] = C[k]}
  <2>1. 0 \in S
    BY <1>a, <1>2, <1>5
  <2>2. ASSUME NEW m \in 0..N, m \in S, m + 1 <= N PROVE m + 1 \in S
    <3>1. m + 1 \in 0..N /\ m + 1 # 0 /\ (m + 1) - 1 = m
      BY <1>a, <2>2
    <3>2. after[m + 1] = NextString(p, after[m]) /\ C[m + 1] = NextString(p, C[m])
      BY <1>2, <1>5, <3>1
    <3>3. QED
      BY <2>2, <3>1, <3>2
  <2> HIDE DEF S
  <2>3. 0..N \subseteq S
    BY <1>a, <2>1, <2>2, UpTo
  <2>4. QED
    BY <2>3 DEF S
<1>7. after[N] = B[N]
  BY <1>a, <1>1, <1>6
<1>8. readStringSlice(p, i) = after[N]
  BY <1>0 DEF readStringSlice, after, N, at
<1>9. QED
  BY <1>0, <1>7, <1>8

\* The strings of a slice, and the cells of the field: their number first.
SliceMembers(path) == [i \in DOMAIN path |-> String(path[i])]
SliceCells(path) == <<Len(path)>> \o FlattenSeq(SliceMembers(path))

\* A tag, a cell and the rest.
LEMMA TagApart ==
    ASSUME NEW a \in Int, NEW b \in Int, NEW d \in Seq(Int)
    PROVE  /\ <<a, b>> \o d = <<a>> \o (<<b>> \o d)
           /\ <<b>> \o d \in Seq(Int) /\ Len(<<b>> \o d) = 1 + Len(d) /\ Len(d) \in Nat
<1>0. <<a>> \o <<b>> = <<a, b>>
  <2> DEFINE x == <<a>>
             y == <<b>>
             z == <<a, b>>
             w == x \o y
  <2>1. x \in Seq(Int) /\ y \in Seq(Int) /\ Len(x) = 1 /\ Len(y) = 1 /\ x[1] = a /\ y[1] = b
    OBVIOUS
  <2>2. z \in Seq(Int) /\ Len(z) = 2 /\ z[1] = a /\ z[2] = b
    OBVIOUS
  <2> HIDE DEF x, y, z
  <2>3. /\ w \in Seq(Int) /\ Len(w) = Len(x) + Len(y)
        /\ \A j \in 1..Len(x) : w[j] = x[j]
        /\ \A j \in 1..Len(y) : w[Len(x) + j] = y[j]
    BY <2>1, Joined
  <2> HIDE DEF w
  <2>4. Len(w) = 2 /\ w[1] = a /\ w[2] = b
    <3>1. 1 \in 1..1 /\ 1 + 1 = 2
      OBVIOUS
    <3>2. w[1] = x[1] /\ w[1 + 1] = y[1] /\ Len(w) = 1 + 1
      BY <2>1, <2>3, <3>1
    <3>3. QED
      BY <2>1, <3>1, <3>2
  <2>5. \A j \in 1..Len(w) : w[j] = z[j]
    BY <2>2, <2>4
  <2>6. w = z
    BY <2>2, <2>3, <2>4, <2>5, SeqEqual
  <2>7. QED
    BY <2>6 DEF w, x, y, z
<1>1. <<a>> \in Seq(Int) /\ <<b>> \in Seq(Int) /\ Len(<<b>>) = 1
  OBVIOUS
<1>2. (<<a>> \o <<b>>) \o d = <<a>> \o (<<b>> \o d)
  BY <1>1, JoinedThrice
<1>3. <<b>> \o d \in Seq(Int) /\ Len(<<b>> \o d) = Len(<<b>>) + Len(d) /\ Len(d) \in Nat
  BY <1>1, Joined
<1>4. QED
  BY <1>0, <1>1, <1>2, <1>3

\* The cells encodeStringSlice writes.
LEMMA SliceLaidOut ==
    ASSUME NEW path \in Seq(Strings)
    PROVE  /\ SliceMembers(path) \in Seq(Seq(Int)) /\ Len(SliceMembers(path)) = Len(path)
           /\ \A k \in 1..Len(path) : SliceMembers(path)[k] = String(path[k]) /\ path[k] \in Strings
           /\ FlattenSeq(SliceMembers(path)) \in Seq(Int)
           /\ SliceCells(path) \in Seq(Int)
           /\ Len(SliceCells(path)) = 1 + Len(FlattenSeq(SliceMembers(path)))
           /\ \A tag \in Int : encodeStringSlice(tag, path) = <<tag>> \o SliceCells(path)
<1> DEFINE q == SliceMembers(path)
           f == FlattenSeq(q)
<1>1. Len(path) \in Nat /\ DOMAIN path = 1..Len(path) /\ \A k \in 1..Len(path) : path[k] \in Strings
  OBVIOUS
<1>2. \A k \in 1..Len(path) : String(path[k]) \in Seq(Int)
  BY <1>1, StringCells
<1>3. q \in Seq(Seq(Int)) /\ Len(q) = Len(path) /\ \A k \in 1..Len(path) : q[k] = String(path[k])
  <2>1. q = [k \in 1..Len(path) |-> String(path[k])]
    BY <1>1 DEF SliceMembers
  <2>2. QED
    BY <1>1, <1>2, <2>1
<1> HIDE DEF q
<1>4. f \in Seq(Int)
  <2>1. PICK F : Flattens(F, q)
    BY <1>3, Flattening
  <2>2. Len(q) \in 0..Len(q)
    BY <1>1, <1>3
  <2>3. QED
    BY <2>1, <2>2 DEF Flattens
<1> HIDE DEF f
<1>5. \A tag \in Int : /\ <<tag, Len(path)>> \o f = <<tag>> \o (<<Len(path)>> \o f)
                       /\ <<Len(path)>> \o f \in Seq(Int) /\ Len(<<Len(path)>> \o f) = 1 + Len(f)
  <2>1. Len(path) \in Int
    BY <1>1
  <2>2. QED
    BY <1>4, <2>1, TagApart
<1>6. SliceCells(path) = <<Len(path)>> \o f
  BY DEF SliceCells, q, f
<1>7. \A tag \in Int : encodeStringSlice(tag, path) = <<tag, Len(path)>> \o f
  BY DEF encodeStringSlice, SliceMembers, q, f
<1>8. SliceCells(path) \in Seq(Int) /\ Len(SliceCells(path)) = 1 + Len(f)
  <2>1. 0 \in Int
    OBVIOUS
  <2>2. QED
    BY <1>5, <1>6, <2>1
<1>9. \A tag \in Int : encodeStringSlice(tag, path) = <<tag>> \o SliceCells(path)
  BY <1>5, <1>6, <1>7
<1>10. QED
  BY <1>1, <1>3, <1>4, <1>8, <1>9 DEF q, f

\* A slice is read where its cells are, unless an empty string is last.
LEMMA SliceReadBack ==
    ASSUME NEW path \in Seq(Strings), NEW p, NEW i, CellsAt(p, i, SliceCells(path)),
           path = <<>> \/ Last(path) # <<>> \/ i + Len(SliceCells(path)) <= Len(p)
    PROVE  readStringSlice(p, i) = Read(path, i + Len(SliceCells(path)))
<1> DEFINE n == Len(path)
           q == SliceMembers(path)
           d == FlattenSeq(q)
           c == <<n>>
<1>1. /\ q \in Seq(Seq(Int)) /\ Len(q) = n /\ d \in Seq(Int) /\ Len(SliceCells(path)) = 1 + Len(d)
      /\ \A k \in 1..n : q[k] = String(path[k]) /\ path[k] \in Strings
  BY SliceLaidOut
<1>2. n \in Nat /\ c \in Seq(Int) /\ Len(c) = 1 /\ c = <<n>>
  OBVIOUS
<1>3. SliceCells(path) = c \o d
  BY DEF SliceCells
<1> HIDE DEF q, d, c, n
<1>4. CellsAt(p, i, c) /\ CellsAt(p, i + 1, d)
  <2>1. CellsAt(p, i, c) /\ CellsAt(p, i + Len(c), d)
    BY <1>1, <1>2, <1>3, CellsSplit
  <2>2. QED
    BY <1>2, <2>1
<1>5. i \in Nat /\ Len(p) \in Nat /\ p \in Seq(Int) /\ Len(d) \in Nat
  BY <1>4 DEF CellsAt
<1>6. ReadCell(p, i) = Read(n, i + 1)
  BY <1>2, <1>4, OneCell
<1>7. PICK L : MembersIn(L, q, p, i + 1)
  BY <1>1, <1>4, MembersFound DEF d
<1>9. L[0] = 0 /\ Len(d) = L[n]
  BY <1>1, <1>7 DEF MembersIn, d
<1>b. Len(SliceCells(path)) = 1 + L[n]
  BY <1>1, <1>9
<1>10. /\ \A k \in 0..n : L[k] \in Nat /\ (i + 1) + L[k] <= Len(p) + 1
       /\ \A k \in 1..n : /\ Len(q[k]) \in Nat /\ L[k] = L[k - 1] + Len(q[k])
                          /\ CellsAt(p, (i + 1) + L[k - 1], q[k])
  BY <1>1, <1>7 DEF MembersIn
<1> DEFINE Stands(k) == Read(SubSeq(path, 1, k), (i + 1) + L[k])
           B == [k \in 0..n |-> Stands(k)]
<1>11. \A k \in 0..n : B[k] = Read(SubSeq(path, 1, k), (i + 1) + L[k])
  <2> HIDE DEF Stands
  <2>1. \A k \in 0..n : B[k] = Stands(k)
    OBVIOUS
  <2>2. QED
    BY <2>1 DEF Stands
<1>12. /\ SubSeq(path, 1, 0) = <<>> /\ SubSeq(path, 1, n) = path
       /\ \A k \in 1..n : Append(SubSeq(path, 1, k - 1), path[k]) = SubSeq(path, 1, k)
  BY PrefixSteps DEF n
<1> HIDE DEF B, Stands
<1>13. ASSUME NEW k \in 1..n PROVE B[k] = NextString(p, B[k - 1])
  <2> DEFINE s == path[k]
             at == (i + 1) + L[k - 1]
             x == Len(String(s))
  <2>1. k - 1 \in 0..n /\ k \in 0..n
    BY <1>2
  <2>2. /\ s \in Strings /\ q[k] = String(s) /\ CellsAt(p, at, String(s))
        /\ L[k] = L[k - 1] + Len(String(s)) /\ L[k - 1] \in Nat /\ L[k] \in Nat
        /\ Len(String(s)) \in Nat
    BY <1>1, <1>10, <2>1
  <2> HIDE DEF s
  <2>a. at = (i + 1) + L[k - 1] /\ at \in Nat
    BY <1>5, <2>2
  <2>b. B[k - 1] = Read(SubSeq(path, 1, k - 1), at)
    BY <1>11, <2>1
  <2> HIDE DEF at
  <2>c. at + Len(String(s)) = (i + 1) + L[k]
    <3> HIDE DEF x
    <3> DEFINE here == L[k]
               before == L[k - 1]
    <3>1. here = before + x /\ x \in Nat /\ before \in Nat /\ at = (i + 1) + before
      BY <2>2, <2>a DEF x
    <3> HIDE DEF here, before
    <3>2. at + x = (i + 1) + here
      BY <1>5, <3>1
    <3>3. QED
      BY <3>2 DEF x, here
  <2>3. s # <<>> \/ at + Len(String(s)) <= Len(p)
    <3>1. CASE k = n
      <4>1. path # <<>> /\ Last(path) = s
        <5>1. path = <<>> => n = 0
          BY DEF n
        <5>2. Last(path) = path[n]
          BY DEF Last, n
        <5>3. QED
          BY <1>2, <3>1, <5>1, <5>2 DEF s
      <4>2. at + Len(String(s)) = i + Len(SliceCells(path))
        <5>1. (i + 1) + L[n] = i + Len(SliceCells(path))
          <6>1. L[n] \in Nat /\ i \in Nat
            BY <1>5, <2>2, <3>1
          <6>2. QED
            BY <1>b, <6>1
        <5>2. QED
          BY <2>c, <3>1, <5>1
      <4>3. QED
        BY <4>1, <4>2
    <3>2. CASE k # n
      <4>1. k + 1 \in 1..n /\ (k + 1) - 1 = k /\ k + 1 \in 0..n
        BY <1>2, <3>2
      <4>2. /\ L[k + 1] = L[k] + Len(q[k + 1]) /\ Len(q[k + 1]) \in Nat
            /\ (i + 1) + L[k + 1] <= Len(p) + 1 /\ L[k + 1] \in Nat
        BY <1>10, <4>1
      <4>3. Len(q[k + 1]) >= 1
        <5>1. q[k + 1] = String(path[k + 1]) /\ path[k + 1] \in Strings
          BY <1>1, <4>1
        <5>2. Len(String(path[k + 1])) = Len(path[k + 1]) + 1 /\ Len(path[k + 1]) \in Nat
          BY <5>1, StringCells
        <5>3. QED
          BY <5>1, <5>2
      <4>4. (i + 1) + L[k] <= Len(p)
        <5>1. i \in Nat /\ Len(p) \in Nat /\ L[k] \in Nat
          BY <1>5, <2>2
        <5>2. QED
          BY <4>2, <4>3, <5>1
      <4>5. QED
        BY <2>c, <4>4
    <3>3. QED
      BY <3>1, <3>2
  <2>4. readString(p, at) = Read(s, at + Len(String(s)))
    BY <2>2, <2>3, StringReadBack
  <2> DEFINE pre == SubSeq(path, 1, k - 1)
             end == at + Len(String(s))
  <2>7. B[k] = Read(Append(pre, s), end)
    <3>1. B[k] = Read(SubSeq(path, 1, k), (i + 1) + L[k])
      BY <1>11, <2>1
    <3>2. Append(pre, s) = SubSeq(path, 1, k)
      BY <1>12 DEF s
    <3> HIDE DEF pre
    <3>3. QED
      BY <2>c, <3>1, <3>2
  <2>8. NextString(p, Read(pre, at)) = Read(Append(pre, s), end)
    <3> HIDE DEF pre, end
    <3>1. readString(p, at) = Read(s, end)
      BY <2>4 DEF end
    <3>2. (Read(pre, at)).ok = TRUE /\ (Read(pre, at)).v = pre /\ (Read(pre, at)).at = at
      BY DEF Read
    <3>3. (Read(s, end)).ok = TRUE /\ (Read(s, end)).v = s /\ (Read(s, end)).at = end
      BY DEF Read
    <3>4. QED
      BY <3>1, <3>2, <3>3 DEF NextString
  <2>9. QED
    BY <2>b, <2>7, <2>8
<1>14. B[0] = Read(<<>>, i + 1)
  <2>1. 0 \in 0..n /\ (i + 1) + 0 = i + 1
    BY <1>2, <1>5
  <2>2. QED
    BY <1>9, <1>11, <1>12, <2>1
<1>15. readStringSlice(p, i) = B[n]
  BY <1>2, <1>6, <1>13, <1>14, SliceLoop
<1>16. B[n] = Read(path, i + Len(SliceCells(path)))
  <2>1. n \in 0..n /\ (i + 1) + L[n] = i + Len(SliceCells(path))
    <3>1. L[n] \in Nat /\ i \in Nat /\ n \in 0..n
      BY <1>2, <1>5, <1>10
    <3>2. QED
      BY <1>b, <3>1
  <2>2. QED
    BY <1>11, <1>12, <2>1
<1>17. QED
  BY <1>15, <1>16

\* Slices as fields.
LEMMA SliceFields ==
    ASSUME NEW path \in Seq(Strings)
    PROVE  /\ ReadsOn("slice", SliceCells(path), path)
           /\ (path = <<>> \/ Last(path) # <<>>) => Reads("slice", SliceCells(path), path)
<1>1. ASSUME NEW p, NEW i, CellsAt(p, i, SliceCells(path)),
             path = <<>> \/ Last(path) # <<>> \/ i + Len(SliceCells(path)) <= Len(p)
      PROVE  ReadField("slice", p, i) = Read(path, i + Len(SliceCells(path)))
  <2>1. readStringSlice(p, i) = Read(path, i + Len(SliceCells(path)))
    BY <1>1, SliceReadBack
  <2>2. QED
    BY <2>1 DEF ReadField
<1>2. ReadsOn("slice", SliceCells(path), path)
  BY <1>1 DEF ReadsOn
<1>3. ASSUME path = <<>> \/ Last(path) # <<>> PROVE Reads("slice", SliceCells(path), path)
  <2>1. \A p, i : CellsAt(p, i, SliceCells(path)) => ReadField("slice", p, i) = Read(path, i + Len(SliceCells(path)))
    BY <1>1, <1>3
  <2>2. QED
    BY <2>1 DEF Reads
<1>4. QED
  BY <1>2, <1>3

-----------------------------------------------------------------------------
(* The children of a node.                                                 *)

\* Cells are taken off a payload as they are.
LEMMA CellsTaken ==
    ASSUME NEW p, NEW i, NEW d, CellsAt(p, i, d)
    PROVE  SubSeq(p, i, (i + Len(d)) - 1) = d
<1> DEFINE n == Len(d)
           j == (i + Len(d)) - 1
           b == SubSeq(p, i, j)
<1>1. /\ p \in Seq(Int) /\ d \in Seq(Int) /\ Len(p) \in Nat /\ n \in Nat
      /\ i \in Nat /\ i >= 1 /\ i + n <= Len(p) + 1
      /\ \A k \in 1..n : p[(i - 1) + k] = d[k]
  BY DEF CellsAt
<1>2. j = (i + n) - 1 /\ j \in Int
  BY <1>1
<1> HIDE DEF n, j
<1>3. \A k \in i..j : p[k] \in Int
  <2>1. ASSUME NEW k \in i..j PROVE k \in 1..Len(p)
    BY <1>1, <1>2
  <2>2. QED
    BY <1>1, <2>1
<1>4. /\ b \in Seq(Int) /\ Len(b) = IF i <= j THEN j - i + 1 ELSE 0
      /\ \A k \in 1 .. j - i + 1 : b[k] = p[i + k - 1]
  BY <1>1, <1>2, <1>3, SubSeqProperties
<1> HIDE DEF b
<1>5. Len(b) = n
  BY <1>1, <1>2, <1>4
<1>6. ASSUME NEW k \in 1..n PROVE b[k] = d[k]
  <2>1. k \in 1 .. j - i + 1 /\ i + k - 1 = (i - 1) + k
    BY <1>1, <1>2
  <2>2. QED
    BY <1>1, <1>4, <2>1
<1>7. b = d
  BY <1>1, <1>4, <1>5, <1>6, SeqEqual DEF n
<1>8. QED
  BY <1>7 DEF b, j

\* One child: four words and its name.
Child == [ids : Words \X Words \X Words \X Words, name : Strings]
ChildPart(c) == c.ids \o String(c.name)

\* The cells of one child of a CHILDREN_RESPONSE, five at least.
LEMMA ChildLaidOut ==
    ASSUME NEW c \in Child
    PROVE  /\ c.ids \in Seq(Int) /\ Len(c.ids) = 4 /\ c.name \in Strings
           /\ String(c.name) \in Seq(Int) /\ Len(c.name) \in Nat
           /\ Len(String(c.name)) = Len(c.name) + 1
           /\ ChildPart(c) \in Seq(Int) /\ Len(ChildPart(c)) = 5 + Len(c.name)
           /\ c = [ids |-> c.ids, name |-> c.name]
<1>1. c.ids \in Words \X Words \X Words \X Words /\ c.name \in Strings /\ c = [ids |-> c.ids, name |-> c.name]
  BY DEF Child
<1>2. PICK x \in Words, y \in Words, z \in Words, w \in Words : c.ids = <<x, y, z, w>>
  BY <1>1
<1>3. Words \subseteq Int
  BY FormatAssumption
<1>4. x \in Int /\ y \in Int /\ z \in Int /\ w \in Int
  BY <1>3
<1>5. <<x, y, z, w>> \in Seq(Int) /\ Len(<<x, y, z, w>>) = 4
  BY <1>4
<1>6. c.ids \in Seq(Int) /\ Len(c.ids) = 4
  BY <1>2, <1>5
<1>7. Len(c.name) \in Nat /\ String(c.name) \in Seq(Int) /\ Len(String(c.name)) = Len(c.name) + 1
  BY <1>1, StringCells
<1>8. ChildPart(c) \in Seq(Int) /\ Len(ChildPart(c)) = Len(c.ids) + Len(String(c.name))
  BY <1>6, <1>7, Joined DEF ChildPart
<1>9. Len(ChildPart(c)) = 5 + Len(c.name)
  BY <1>6, <1>7, <1>8
<1>10. QED
  BY <1>1, <1>6, <1>7, <1>8, <1>9

\* A child is read where its cells are.
LEMMA ChildReadBack ==
    ASSUME NEW c \in Child, NEW p, NEW i, CellsAt(p, i, ChildPart(c)), NEW done
    PROVE  NextChild(p, Read(done, i)) = Read(Append(done, c), i + Len(ChildPart(c)))
<1> DEFINE ids == c.ids
           name == c.name
           s == String(name)
           l == <<Len(name)>>
           n == i + 4
<1>1. /\ ids \in Seq(Int) /\ Len(ids) = 4 /\ name \in Strings /\ s \in Seq(Int) /\ Len(name) \in Nat
      /\ Len(s) = Len(name) + 1 /\ Len(ChildPart(c)) = 5 + Len(name)
      /\ c = [ids |-> ids, name |-> name]
  BY ChildLaidOut
<1>2. ChildPart(c) = ids \o s
  BY DEF ChildPart
<1>a. l \in Seq(Int) /\ Len(l) = 1 /\ l[1] = Len(name) /\ name \in Seq(Int)
  BY <1>1, StringCells
<1>b. s = l \o name
  BY DEF String
<1>c. l = <<Len(name)>>
  OBVIOUS
<1> HIDE DEF s, ids, name, l
<1>3. CellsAt(p, i, ids) /\ CellsAt(p, n, s)
  <2>1. CellsAt(p, i, ids) /\ CellsAt(p, i + Len(ids), s)
    BY <1>1, <1>2, CellsSplit
  <2>2. QED
    BY <1>1, <2>1
<1>4. i \in Nat /\ n \in Nat /\ i >= 1 /\ Len(p) \in Nat /\ n = i + 4
  BY <1>3 DEF CellsAt
<1> HIDE DEF n
<1>5. CellsAt(p, n, l) /\ CellsAt(p, n + 1, name)
  <2>1. CellsAt(p, n, l) /\ CellsAt(p, n + Len(l), name)
    BY <1>1, <1>3, <1>a, <1>b, CellsSplit
  <2>2. QED
    BY <1>a, <2>1
<1>6. p[n] = Len(name)
  <2>1. p[(n - 1) + 1] = l[1]
    <3>1. 1 \in 1..Len(l)
      BY <1>a
    <3>2. QED
      BY <1>5, <3>1 DEF CellsAt
  <2>2. (n - 1) + 1 = n
    BY <1>4
  <2>3. QED
    BY <1>a, <2>1, <2>2
<1>7. (n + 1) + Len(name) <= Len(p) + 1
  BY <1>5 DEF CellsAt
<1>8. n <= Len(p) /\ n + p[n] <= Len(p)
  BY <1>1, <1>4, <1>6, <1>7
<1>9. SubSeq(p, i, n - 1) = ids
  <2>1. (i + Len(ids)) - 1 = n - 1
    BY <1>1, <1>4
  <2>2. SubSeq(p, i, (i + Len(ids)) - 1) = ids
    BY <1>3, CellsTaken
  <2>3. QED
    BY <2>1, <2>2
<1>10. SubSeq(p, n + 1, n + p[n]) = name
  <2>1. ((n + 1) + Len(name)) - 1 = n + p[n]
    BY <1>1, <1>4, <1>6
  <2>2. SubSeq(p, n + 1, ((n + 1) + Len(name)) - 1) = name
    BY <1>5, CellsTaken
  <2>3. QED
    BY <2>1, <2>2
<1>11. n + p[n] + 1 = i + Len(ChildPart(c))
  BY <1>1, <1>4, <1>6
<1>12. (Read(done, i)).ok = TRUE /\ (Read(done, i)).v = done /\ (Read(done, i)).at = i
  BY DEF Read
<1>13. NextChild(p, Read(done, i)) =
         Read(Append(done, [ids |-> SubSeq(p, i, n - 1), name |-> SubSeq(p, n + 1, n + p[n])]), n + p[n] + 1)
  <2>1. ~ (n > Len(p)) /\ ~ (n + p[n] > Len(p))
    BY <1>4, <1>6, <1>8, <1>1
  <2>2. QED
    BY <1>4, <1>12, <2>1 DEF NextChild
<1>14. QED
  BY <1>1, <1>9, <1>10, <1>11, <1>13

\* The last cells of a payload are where they are.
LEMMA CellsBehind ==
    ASSUME NEW a \in Seq(Int), NEW d \in Seq(Int)
    PROVE  /\ CellsAt(a \o d, Len(a) + 1, d) /\ Len(a \o d) = Len(a) + Len(d)
           /\ \A j \in 1..Len(a) : (a \o d)[j] = a[j]
<1> DEFINE p == a \o d
<1>1. /\ p \in Seq(Int) /\ Len(p) = Len(a) + Len(d) /\ Len(a) \in Nat /\ Len(d) \in Nat
      /\ \A j \in 1..Len(a) : p[j] = a[j]
      /\ \A j \in 1..Len(d) : p[Len(a) + j] = d[j]
  BY Joined
<1> HIDE DEF p
<1>2. /\ (Len(a) + 1) - 1 = Len(a) /\ Len(a) + 1 \in Nat /\ Len(a) + 1 >= 1
      /\ (Len(a) + 1) + Len(d) <= Len(p) + 1 /\ Len(p) \in Nat
  BY <1>1
<1>3. CellsAt(p, Len(a) + 1, d)
  BY <1>1, <1>2 DEF CellsAt
<1>4. QED
  BY <1>1, <1>3 DEF p

\* A message of one field, by its name.
LEMMA NamedField ==
    ASSUME NEW v, NEW i
    PROVE  /\ Named("path", Read(v, i)) = Read([path |-> v], i)
           /\ Named("value", Read(v, i)) = Read([value |-> v], i)
           /\ Named("children", Read(v, i)) = Read([children |-> v], i)
<1>1. ASSUME NEW name \in {"path", "value", "children"}, NEW f, NEW g, g = [x \in {name} |-> v],
             \/ name = "path" /\ f = [path |-> v]
             \/ name = "value" /\ f = [value |-> v]
             \/ name = "children" /\ f = [children |-> v]
      PROVE  f = g
  <2>1. f = [x \in DOMAIN f |-> f[x]] /\ DOMAIN f = {name} /\ f[name] = v
    <3>1. CASE name = "path"
      BY <1>1, <3>1
    <3>2. CASE name = "value"
      BY <1>1, <3>2
    <3>3. CASE name = "children"
      BY <1>1, <3>3
    <3>4. QED
      BY <3>1, <3>2, <3>3
  <2>2. g = [x \in DOMAIN g |-> g[x]] /\ DOMAIN g = {name} /\ g[name] = v
    BY <1>1
  <2>3. QED
    BY <2>1, <2>2
<1>2. \A name : Named(name, Read(v, i)) = Read([x \in {name} |-> v], i)
  BY DEF Named, Read
<1>3. /\ [x \in {"path"} |-> v] = [path |-> v]
      /\ [x \in {"value"} |-> v] = [value |-> v]
      /\ [x \in {"children"} |-> v] = [children |-> v]
  BY <1>1
<1>4. QED
  BY <1>2, <1>3

\* The loop of DecodeChildrenResponse.
LEMMA ChildLoop ==
    ASSUME NEW p, Len(p) >= 2, Len(p) \in Nat, p[1] = 1, p[2] \in Nat, p[2] * 5 <= Len(p) - 2,
           NEW B, B[0] = Read(<<>>, 3),
           \A k \in 1..p[2] : B[k] = NextChild(p, B[k - 1])
    PROVE  DecodeChildrenResponse(p) = Named("children", B[p[2]])
<1> DEFINE N == p[2]
           Val(f, k) == IF k = 0 THEN Read(<<>>, 3) ELSE NextChild(p, f[k - 1])
           C == [k \in 0..N |-> B[k]]
<1>a. N \in Nat /\ \A k \in 1..N : B[k] = NextChild(p, B[k - 1])
  OBVIOUS
<1> HIDE DEF N
<1>1. \A k \in 0..N : C[k] = B[k]
  OBVIOUS
<1> HIDE DEF C
<1>2. ASSUME NEW k \in 0..N PROVE C[k] = Val(C, k)
  <2>1. CASE k = 0
    BY <1>a, <1>1, <2>1
  <2>2. CASE k # 0
    <3>1. k \in 1..N /\ k - 1 \in 0..N
      BY <1>a, <2>2
    <3>2. QED
      BY <1>a, <1>1, <2>2, <3>1
  <2>3. QED
    BY <2>1, <2>2
<1>3. C = [k \in 0..N |-> Val(C, k)]
  <2>1. C = [k \in 0..N |-> C[k]]
    BY DEF C
  <2>2. [k \in 0..N |-> C[k]] = [k \in 0..N |-> Val(C, k)]
    BY <1>2
  <2>3. QED
    BY <2>1, <2>2
<1> DEFINE after == CHOOSE f : f = [k \in 0..N |-> Val(f, k)]
<1>4. after = [k \in 0..N |-> Val(after, k)]
  BY <1>3
<1> HIDE DEF after
<1>5. \A k \in 0..N : after[k] = Val(after, k)
  BY <1>4
<1>6. \A k \in 0..N : after[k] = C[k]
  <2> DEFINE S == {k \in 0..N : after[k] = C[k]}
  <2>1. 0 \in S
    BY <1>a, <1>2, <1>5
  <2>2. ASSUME NEW m \in 0..N, m \in S, m + 1 <= N PROVE m + 1 \in S
    <3>1. m + 1 \in 0..N /\ m + 1 # 0 /\ (m + 1) - 1 = m
      BY <1>a, <2>2
    <3>2. after[m + 1] = NextChild(p, after[m]) /\ C[m + 1] = NextChild(p, C[m])
      BY <1>2, <1>5, <3>1
    <3>3. QED
      BY <2>2, <3>1, <3>2
  <2> HIDE DEF S
  <2>3. 0..N \subseteq S
    BY <1>a, <2>1, <2>2, UpTo
  <2>4. QED
    BY <2>3 DEF S
<1>7. after[N] = B[N]
  BY <1>a, <1>1, <1>6
<1>8. DecodeChildrenResponse(p) = Named("children", after[N])
  <2>1. ~ (Len(p) < 2) /\ ~ (p[1] # 1 \/ p[2] * ChildCells > Len(p) - 2)
    BY DEF ChildCells
  <2>2. QED
    BY <2>1 DEF DecodeChildrenResponse, after, N
<1>9. QED
  BY <1>7, <1>8 DEF N

\* The members of the flattened list of children.
ChildMembers(l) == [i \in DOMAIN l |-> l[i].ids \o String(l[i].name)]

\* The cells of all children, one after the other.
LEMMA ChildrenLaidOut ==
    ASSUME NEW l \in Seq(Child)
    PROVE  /\ Len(l) \in Nat /\ ChildMembers(l) \in Seq(Seq(Int)) /\ Len(ChildMembers(l)) = Len(l)
           /\ \A k \in 1..Len(l) : ChildMembers(l)[k] = ChildPart(l[k]) /\ l[k] \in Child
           /\ FlattenSeq(ChildMembers(l)) \in Seq(Int)
<1> DEFINE q == ChildMembers(l)
<1>1. Len(l) \in Nat /\ DOMAIN l = 1..Len(l) /\ \A k \in 1..Len(l) : l[k] \in Child
  OBVIOUS
<1>2. \A k \in 1..Len(l) : ChildPart(l[k]) \in Seq(Int)
  BY <1>1, ChildLaidOut
<1>3. q \in Seq(Seq(Int)) /\ Len(q) = Len(l) /\ \A k \in 1..Len(l) : q[k] = ChildPart(l[k])
  <2>1. q = [k \in 1..Len(l) |-> ChildPart(l[k])]
    BY <1>1 DEF ChildMembers, ChildPart
  <2>2. QED
    BY <1>1, <1>2, <2>1
<1> HIDE DEF q
<1>4. FlattenSeq(q) \in Seq(Int)
  <2>1. PICK F : Flattens(F, q)
    BY <1>3, Flattening
  <2>2. Len(q) \in 0..Len(q)
    BY <1>1, <1>3
  <2>3. QED
    BY <2>1, <2>2 DEF Flattens
<1>5. QED
  BY <1>1, <1>3, <1>4 DEF q

\* The children are read back, whatever they are called.
LEMMA ChildrenReadBack ==
    ASSUME NEW l \in Seq(Child), NEW m, m = [children |-> l]
    PROVE  LET p == EncodeChildrenResponse(m)
           IN  p \in Seq(Int) /\ DecodeChildrenResponse(p) = Read(m, Len(p) + 1)
<1> DEFINE n == Len(l)
           q == ChildMembers(l)
           d == FlattenSeq(q)
           a == <<1, n>>
           p == a \o d
<1>1. /\ n \in Nat /\ q \in Seq(Seq(Int)) /\ Len(q) = n /\ d \in Seq(Int)
      /\ \A k \in 1..n : q[k] = ChildPart(l[k]) /\ l[k] \in Child
  BY ChildrenLaidOut
<1>2. EncodeChildrenResponse(m) = p
  BY DEF EncodeChildrenResponse, ChildMembers
<1> HIDE DEF q
<1>3. a \in Seq(Int) /\ Len(a) = 2 /\ a[1] = 1 /\ a[2] = n
  BY <1>1
<1> HIDE DEF d, a, n
<1>4. CellsAt(p, 3, d) /\ Len(p) = 2 + Len(d) /\ p[1] = 1 /\ p[2] = n
  <2>1. /\ CellsAt(p, Len(a) + 1, d) /\ Len(p) = Len(a) + Len(d)
        /\ \A j \in 1..Len(a) : p[j] = a[j]
    BY <1>1, <1>3, CellsBehind
  <2>2. Len(a) + 1 = 3 /\ 1 \in 1..Len(a) /\ 2 \in 1..Len(a)
    BY <1>3
  <2> HIDE DEF p
  <2>3. QED
    BY <1>3, <2>1, <2>2
<1> HIDE DEF p
<1>5. p \in Seq(Int) /\ Len(p) \in Nat /\ Len(d) \in Nat
  BY <1>4 DEF CellsAt
<1>6. PICK L : MembersIn(L, q, p, 3)
  BY <1>1, <1>4, MembersFound DEF d
<1>7. /\ L[0] = 0 /\ L[n] = Len(d)
      /\ \A k \in 0..n : L[k] \in Nat
      /\ \A k \in 1..n : L[k] = L[k - 1] + Len(q[k]) /\ CellsAt(p, 3 + L[k - 1], q[k])
  BY <1>1, <1>6 DEF MembersIn, d
<1>8. \A k \in 0..n : k * 5 <= L[k]
  <2> DEFINE S == {k \in 0..n : k * 5 <= L[k]}
  <2>1. 0 \in S
    BY <1>1, <1>7
  <2>2. ASSUME NEW k \in 0..n, k \in S, k + 1 <= n PROVE k + 1 \in S
    <3>1. k + 1 \in 1..n /\ (k + 1) - 1 = k /\ k + 1 \in 0..n
      BY <1>1, <2>2
    <3>2. L[k + 1] = L[k] + Len(q[k + 1]) /\ q[k + 1] = ChildPart(l[k + 1]) /\ l[k + 1] \in Child /\ L[k] \in Nat
      BY <1>1, <1>7, <3>1
    <3>3. Len(q[k + 1]) \in Nat /\ Len(q[k + 1]) >= 5
      <4>1. Len(ChildPart(l[k + 1])) = 5 + Len(l[k + 1].name) /\ Len(l[k + 1].name) \in Nat
        BY <3>2, ChildLaidOut
      <4>2. QED
        BY <3>2, <4>1
    <3>4. k * 5 <= L[k]
      BY <2>2
    <3>5. (k + 1) * 5 <= L[k + 1]
      BY <3>1, <3>2, <3>3, <3>4
    <3>6. QED
      BY <3>1, <3>5
  <2> HIDE DEF S
  <2>3. 0..n \subseteq S
    BY <1>1, <2>1, <2>2, UpTo
  <2>4. QED
    BY <2>3 DEF S
<1> DEFINE Stands(k) == Read(SubSeq(l, 1, k), 3 + L[k])
           B == [k \in 0..n |-> Stands(k)]
<1>11. \A k \in 0..n : B[k] = Read(SubSeq(l, 1, k), 3 + L[k])
  <2> HIDE DEF Stands
  <2>1. \A k \in 0..n : B[k] = Stands(k)
    OBVIOUS
  <2>2. QED
    BY <2>1 DEF Stands
<1>12. /\ SubSeq(l, 1, 0) = <<>> /\ SubSeq(l, 1, n) = l
       /\ \A k \in 1..n : Append(SubSeq(l, 1, k - 1), l[k]) = SubSeq(l, 1, k)
  BY PrefixSteps DEF n
<1> HIDE DEF B, Stands
<1>13. ASSUME NEW k \in 1..n PROVE B[k] = NextChild(p, B[k - 1])
  <2> DEFINE pre == SubSeq(l, 1, k - 1)
             at == 3 + L[k - 1]
  <2>1. k - 1 \in 0..n /\ k \in 0..n
    BY <1>1
  <2>2. /\ l[k] \in Child /\ CellsAt(p, at, ChildPart(l[k])) /\ L[k - 1] \in Nat /\ L[k] \in Nat
        /\ L[k] = L[k - 1] + Len(ChildPart(l[k]))
    BY <1>1, <1>7, <2>1
  <2>3. B[k - 1] = Read(pre, at)
    BY <1>11, <2>1
  <2>4. NextChild(p, Read(pre, at)) = Read(Append(pre, l[k]), at + Len(ChildPart(l[k])))
    BY <2>2, ChildReadBack
  <2>5. at + Len(ChildPart(l[k])) = 3 + L[k]
    <3> DEFINE x == Len(ChildPart(l[k]))
    <3>1. L[k] = L[k - 1] + x /\ x \in Nat
      BY <2>2, ChildLaidOut
    <3> HIDE DEF x
    <3>2. at + x = 3 + L[k]
      BY <2>2, <3>1
    <3>3. QED
      BY <3>2 DEF x
  <2>6. Append(pre, l[k]) = SubSeq(l, 1, k)
    BY <1>12
  <2> HIDE DEF pre, at
  <2>7. B[k] = Read(Append(pre, l[k]), at + Len(ChildPart(l[k])))
    BY <1>11, <2>1, <2>5, <2>6
  <2>8. QED
    BY <2>3, <2>4, <2>7
<1>14. B[0] = Read(<<>>, 3)
  <2>1. 0 \in 0..n /\ 3 + 0 = 3
    BY <1>1
  <2>2. QED
    BY <1>7, <1>11, <1>12, <2>1
<1>15. Len(p) >= 2 /\ p[2] * 5 <= Len(p) - 2
  <2>1. n \in 0..n
    BY <1>1
  <2>2. n * 5 <= Len(d)
    BY <1>7, <1>8, <2>1
  <2>3. QED
    BY <1>4, <1>5, <2>2
<1>16. DecodeChildrenResponse(p) = Named("children", B[p[2]])
  BY <1>1, <1>4, <1>5, <1>13, <1>14, <1>15, ChildLoop
<1>17. B[p[2]] = Read(l, Len(p) + 1)
  <2>1. n \in 0..n /\ 3 + L[n] = Len(p) + 1
    BY <1>1, <1>4, <1>5, <1>7
  <2>2. QED
    BY <1>4, <1>11, <1>12, <2>1
<1>18. DecodeChildrenResponse(p) = Read(m, Len(p) + 1)
  BY <1>16, <1>17, NamedField
<1>19. QED
  BY <1>2, <1>5, <1>18

-----------------------------------------------------------------------------
(* Messages, field by field.                                               *)

\* u2 is u and then c; a message has nothing before its first field.
Then(u, c, u2) == u2 = u \o c \/ (u = <<>> /\ u2 = c)

\* A field of the table T.
Entry(T, tag, name, type) == tag \in DOMAIN T /\ tag \in Int /\ T[tag] = <<name, type>>

\* A message with one field set.
Sets(r, name, v, new) == new = [r EXCEPT ![name] = v]

\* A tag and a field of one cell.
LEMMA TwoCells ==
    ASSUME NEW a \in Int, NEW b \in Int
    PROVE  <<a, b>> = <<a>> \o <<b>> /\ <<b>> \in Seq(Int)
<1>1. <<>> \in Seq(Int)
  OBVIOUS
<1>2. <<b>> \o <<>> = <<b>> /\ <<b>> \in Seq(Int)
  OBVIOUS
<1>3. <<a, b>> \o <<>> = <<a, b>>
  OBVIOUS
<1>4. <<a, b>> \o <<>> = <<a>> \o (<<b>> \o <<>>)
  BY <1>1, TagApart
<1>5. QED
  BY <1>2, <1>3, <1>4

\* FieldGoes, from the first field on.
LEMMA FieldStep ==
    ASSUME NEW T, NEW Z, NEW u, NEW r, GoesOn(T, Z, u, r),
           NEW tag, NEW name, NEW type, Entry(T, tag, name, type),
           NEW d \in Seq(Int), NEW v, NEW c, c = <<tag>> \o d, NEW u2, Then(u, c, u2)
    PROVE  /\ ReadsOn(type, d, v) => GoesOn(T, Z, u2, [r EXCEPT ![name] = v])
           /\ Reads(type, d, v) => Goes(T, Z, u2, [r EXCEPT ![name] = v]) /\ GoesOn(T, Z, u2, [r EXCEPT ![name] = v])
<1>1. tag \in Int /\ tag \in DOMAIN T /\ T[tag] = <<name, type>>
  BY DEF Entry
<1>2. /\ ReadsOn(type, d, v) => GoesOn(T, Z, u \o c, [r EXCEPT ![name] = v])
      /\ Reads(type, d, v) => Goes(T, Z, u \o c, [r EXCEPT ![name] = v])
  BY <1>1, FieldGoes
<1>3. u2 = u \o c
  <2>1. c \in Seq(Int)
    BY <1>1
  <2>2. <<>> \o c = c
    BY <2>1
  <2>3. QED
    BY <2>2 DEF Then
<1>4. QED
  BY <1>2, <1>3, GoesBoth

\* One step for each encoder of a field, with the reader of each type.
LEMMA BoolStep ==
    ASSUME NEW T, NEW Z, NEW u, NEW r, GoesOn(T, Z, u, r), NEW tag, NEW name, Entry(T, tag, name, "bool"),
           NEW b \in BOOLEAN, NEW u2, Then(u, encodeBool(tag, b), u2), NEW new, Sets(r, name, b, new)
    PROVE  Goes(T, Z, u2, new) /\ GoesOn(T, Z, u2, new)
<1> DEFINE x == IF b THEN 1 ELSE 0
<1>1. x \in Int /\ tag \in Int
  BY DEF Entry
<1>2. Reads("bool", <<x>>, b)
  BY CellFields
<1>3. encodeBool(tag, b) = <<tag, x>>
  BY DEF encodeBool
<1> HIDE DEF x
<1>4. <<tag, x>> = <<tag>> \o <<x>> /\ <<x>> \in Seq(Int)
  BY <1>1, TwoCells
<1>5. QED
  BY <1>2, <1>3, <1>4, FieldStep DEF Sets

\* The same for a field written by encodeInt64.
LEMMA Int64Step ==
    ASSUME NEW T, NEW Z, NEW u, NEW r, GoesOn(T, Z, u, r), NEW tag, NEW name, Entry(T, tag, name, "int64"),
           NEW x \in Ints(M64), NEW u2, Then(u, encodeInt64(tag, x), u2), NEW new, Sets(r, name, x, new)
    PROVE  Goes(T, Z, u2, new) /\ GoesOn(T, Z, u2, new)
<1> DEFINE y == Bits(x, M64)
<1>1. y \in Int /\ tag \in Int /\ Reads("int64", <<y>>, x)
  BY CellFields DEF Entry
<1>2. encodeInt64(tag, x) = <<tag, y>>
  BY DEF encodeInt64
<1> HIDE DEF y
<1>3. <<tag, y>> = <<tag>> \o <<y>> /\ <<y>> \in Seq(Int)
  BY <1>1, TwoCells
<1>4. QED
  BY <1>1, <1>2, <1>3, FieldStep DEF Sets

\* The same for a time that is present (foundedAt).
LEMMA PointerStep ==
    ASSUME NEW T, NEW Z, NEW u, NEW r, GoesOn(T, Z, u, r), NEW tag, NEW name, Entry(T, tag, name, "pointer"),
           NEW x \in Ints(M64), NEW u2, Then(u, encodeInt64(tag, x), u2), NEW new, Sets(r, name, <<x>>, new)
    PROVE  Goes(T, Z, u2, new) /\ GoesOn(T, Z, u2, new)
<1> DEFINE y == Bits(x, M64)
<1>1. y \in Int /\ tag \in Int /\ Reads("pointer", <<y>>, <<x>>)
  BY CellFields DEF Entry
<1>2. encodeInt64(tag, x) = <<tag, y>>
  BY DEF encodeInt64
<1> HIDE DEF y
<1>3. <<tag, y>> = <<tag>> \o <<y>> /\ <<y>> \in Seq(Int)
  BY <1>1, TwoCells
<1>4. QED
  BY <1>1, <1>2, <1>3, FieldStep DEF Sets

\* The same for an agent ID, which travels as a signed number.
LEMMA AgentStep ==
    ASSUME NEW T, NEW Z, NEW u, NEW r, GoesOn(T, Z, u, r), NEW tag, NEW name, Entry(T, tag, name, "agent"),
           NEW x \in Words, NEW u2, Then(u, encodeInt64(tag, Signed(x, M64)), u2), NEW new, Sets(r, name, x, new)
    PROVE  Goes(T, Z, u2, new) /\ GoesOn(T, Z, u2, new)
<1> DEFINE y == Bits(Signed(x, M64), M64)
<1>1. y \in Int /\ tag \in Int /\ Reads("agent", <<y>>, x)
  BY CellFields DEF Entry
<1>2. encodeInt64(tag, Signed(x, M64)) = <<tag, y>>
  BY DEF encodeInt64
<1> HIDE DEF y
<1>3. <<tag, y>> = <<tag>> \o <<y>> /\ <<y>> \in Seq(Int)
  BY <1>1, TwoCells
<1>4. QED
  BY <1>1, <1>2, <1>3, FieldStep DEF Sets

\* The same for a field written by encodeInt32.
LEMMA Int32Step ==
    ASSUME NEW T, NEW Z, NEW u, NEW r, GoesOn(T, Z, u, r), NEW tag, NEW name, Entry(T, tag, name, "int32"),
           NEW x \in Ints(M32), NEW u2, Then(u, encodeInt32(tag, x), u2), NEW new, Sets(r, name, x, new)
    PROVE  Goes(T, Z, u2, new) /\ GoesOn(T, Z, u2, new)
<1> DEFINE y == Bits(x, M32)
<1>1. y \in Int /\ tag \in Int /\ Reads("int32", <<y>>, x)
  BY CellFields DEF Entry
<1>2. encodeInt32(tag, x) = <<tag, y>>
  BY DEF encodeInt32
<1> HIDE DEF y
<1>3. <<tag, y>> = <<tag>> \o <<y>> /\ <<y>> \in Seq(Int)
  BY <1>1, TwoCells
<1>4. QED
  BY <1>1, <1>2, <1>3, FieldStep DEF Sets

\* A uint64, and a uint32.
LEMMA WordStep ==
    ASSUME NEW T, NEW Z, NEW u, NEW r, GoesOn(T, Z, u, r), NEW tag, NEW name, Entry(T, tag, name, "word"),
           NEW x, NEW u2,
           \/ x \in Words /\ Then(u, encodeUint64(tag, x), u2)
           \/ x \in Codes /\ Then(u, encodeUint32(tag, x), u2), NEW new, Sets(r, name, x, new)
    PROVE  Goes(T, Z, u2, new) /\ GoesOn(T, Z, u2, new)
<1>1. /\ tag \in Int /\ x \in Int
      /\ x \in Words => encodeUint64(tag, x) = <<tag, x>>
      /\ x \in Codes => encodeUint32(tag, x) = <<tag, x>>
  <2>1. tag \in Int
    BY DEF Entry
  <2>2. ASSUME x \in Words PROVE x \in Int /\ encodeUint64(tag, x) = <<tag, x>>
    BY <2>2, CellFields DEF encodeUint64
  <2>3. ASSUME x \in Codes PROVE x \in Int /\ encodeUint32(tag, x) = <<tag, x>>
    <3>1. M32 \in Nat /\ M32 > 0 /\ x \in 0..(M32 - 1)
      BY <2>3, FormatAssumption, FieldAssumption
    <3>2. x % M32 = x
      BY <3>1, Remainders
    <3>3. QED
      BY <3>1, <3>2 DEF encodeUint32, Bits
  <2>4. QED
    BY <2>1, <2>2, <2>3
<1>2. Then(u, <<tag, x>>, u2)
  BY <1>1
<1>3. Reads("word", <<x>>, x)
  BY <1>1, CellFields
<1>4. <<tag, x>> = <<tag>> \o <<x>> /\ <<x>> \in Seq(Int)
  BY <1>1, TwoCells
<1>5. QED
  BY <1>2, <1>3, <1>4, FieldStep DEF Sets

\* The same for a string: an empty one only if something follows it.
LEMMA StringStep ==
    ASSUME NEW T, NEW Z, NEW u, NEW r, GoesOn(T, Z, u, r), NEW tag, NEW name, Entry(T, tag, name, "string"),
           NEW s \in Strings, NEW u2, Then(u, encodeString(tag, s), u2), NEW new, Sets(r, name, s, new)
    PROVE  /\ GoesOn(T, Z, u2, new)
           /\ s # E => Goes(T, Z, u2, new)
<1> DEFINE d == String(s)
<1>1. d \in Seq(Int)
  BY StringCells
<1>2. ReadsOn("string", d, s) /\ (s # <<>> => Reads("string", d, s))
  BY StringFields
<1>3. encodeString(tag, s) = <<tag>> \o d
  BY DEF encodeString
<1> HIDE DEF d
<1>4. QED
  BY <1>1, <1>2, <1>3, FieldStep DEF E, Sets

\* The cells encodeValue writes.
LEMMA ValueLaidOut ==
    ASSUME NEW tag \in Int, NEW v \in Values
    PROVE  encodeValue(tag, v) = <<tag>> \o ValueCells(v)
<1>1. v.typeTag \in Int
  <2>1. v.typeTag \in Tags /\ Tags \subseteq Int
    BY FieldAssumption DEF Values
  <2>2. QED
    BY <2>1
<1>2. String(v.data) \in Seq(Int)
  BY StringCells, ValueFields
<1>3. <<tag, v.typeTag>> \o String(v.data) = <<tag>> \o (<<v.typeTag>> \o String(v.data))
  BY <1>1, <1>2, TagApart
<1>4. QED
  BY <1>3 DEF encodeValue, ValueCells

\* The same for a value: one without data only if something follows it.
LEMMA ValueStep ==
    ASSUME NEW T, NEW Z, NEW u, NEW r, GoesOn(T, Z, u, r), NEW tag, NEW name, Entry(T, tag, name, "value"),
           NEW v \in Values, NEW u2, Then(u, encodeValue(tag, v), u2), NEW new, Sets(r, name, v, new)
    PROVE  /\ GoesOn(T, Z, u2, new)
           /\ v.data # E => Goes(T, Z, u2, new)
<1> DEFINE d == ValueCells(v)
<1>1. d \in Seq(Int) /\ v.data \in Strings /\ tag \in Int
  BY ValueFields DEF Entry
<1>2. ReadsOn("value", d, v) /\ (v.data # <<>> => Reads("value", d, v))
  BY ValueFields
<1>3. encodeValue(tag, v) = <<tag>> \o d
  BY <1>1, ValueLaidOut
<1> HIDE DEF d
<1>4. QED
  BY <1>1, <1>2, <1>3, FieldStep DEF E, Sets

\* The same for a path: one whose last name is empty only if something follows.
LEMMA SliceStep ==
    ASSUME NEW T, NEW Z, NEW u, NEW r, GoesOn(T, Z, u, r), NEW tag, NEW name, Entry(T, tag, name, "slice"),
           NEW path \in Paths, NEW u2, Then(u, encodeStringSlice(tag, path), u2), NEW new, Sets(r, name, path, new)
    PROVE  /\ GoesOn(T, Z, u2, new)
           /\ (path = <<>> \/ Last(path) # E) => Goes(T, Z, u2, new)
<1> DEFINE d == SliceCells(path)
<1>0. path \in Seq(Strings) /\ tag \in Int
  BY FieldAssumption DEF Entry
<1>1. d \in Seq(Int) /\ encodeStringSlice(tag, path) = <<tag>> \o d
  BY <1>0, SliceLaidOut
<1>2. /\ ReadsOn("slice", d, path)
      /\ (path = <<>> \/ Last(path) # <<>>) => Reads("slice", d, path)
  BY <1>0, SliceFields
<1> HIDE DEF d
<1>4. QED
  BY <1>1, <1>2, FieldStep DEF E, Sets

\* A string that is written only if there is one.
ThenIfAny(u, tag, s, u2) == u2 = u \o Optional(s # <<>>, encodeString(tag, s))
Unset(r, name) == r = [x \in DOMAIN r |-> r[x]] /\ name \in DOMAIN r /\ r[name] = E

\* The same for a string that is left out when it is empty: the decoder then
\* has the empty string from the zero message.
LEMMA OptionalStep ==
    ASSUME NEW T, NEW Z, NEW u, NEW r, GoesOn(T, Z, u, r),
           NEW tag, NEW name, Entry(T, tag, name, "string"),
           NEW s \in Strings, NEW u2, ThenIfAny(u, tag, s, u2),
           NEW new, Sets(r, name, s, new), Unset(r, name)
    PROVE  /\ GoesOn(T, Z, u2, new)
           /\ Goes(T, Z, u, r) \/ s # E => Goes(T, Z, u2, new)
<1>0. u \in Seq(Int) /\ u \o <<>> = u
  BY DEF GoesOn
<1>1. CASE s = E
  <2>1. u2 = u
    BY <1>0, <1>1 DEF ThenIfAny, Optional, E
  <2>2. new = r
    BY <1>1 DEF Sets, Unset
  <2>3. QED
    BY <1>1, <2>1, <2>2
<1>2. CASE s # E
  <2>1. Then(u, encodeString(tag, s), u2)
    BY <1>2 DEF ThenIfAny, Optional, E, Then
  <2>2. GoesOn(T, Z, u2, new) /\ Goes(T, Z, u2, new)
    BY <1>2, <2>1, StringStep
  <2>3. QED
    BY <2>2
<1>3. QED
  BY <1>1, <1>2

\* A payload that its decoder takes for the message m.
Arrives(p, f, m) == p \in Seq(Int) /\ f.ok = TRUE /\ f.v = m

\* A decoder that has come to the end of the payload with r gives back r.
LEMMA WholeMessage ==
    ASSUME NEW T, NEW Z, NEW u, NEW r, Goes(T, Z, u, r)
    PROVE  Arrives(u, DecodeTagged(T, Z, u), r)
<1>1. DecodeTagged(T, Z, u) = Read(r, Len(u) + 1)
  BY GoesAll
<1>2. u \in Seq(Int)
  BY DEF Goes
<1>3. QED
  BY <1>1, <1>2 DEF Arrives, Read

\* DecodeReadAt gives back what EncodeReadAt was given.
LEMMA ReadAtReadBack ==
    ASSUME NEW m \in [path : Paths, timestamp : Ints(M64)]
    PROVE  Arrives(EncodeReadAt(m), DecodeReadAt(EncodeReadAt(m)), m)
<1> DEFINE T == << <<"path", "slice">>, <<"timestamp", "int64">> >>
           Z == [path |-> <<>>, timestamp |-> 0]
           r1 == [Z EXCEPT !["path"] = m.path]
           r2 == [r1 EXCEPT !["timestamp"] = m.timestamp]
           u1 == encodeStringSlice(1, m.path)
           u2 == u1 \o encodeInt64(2, m.timestamp)
<1>1. m.path \in Paths /\ m.timestamp \in Ints(M64)
  OBVIOUS
<1>2. r2 = m
  OBVIOUS
<1>3. Entry(T, 1, "path", "slice") /\ Entry(T, 2, "timestamp", "int64")
  BY DEF Entry
<1>4. Sets(Z, "path", m.path, r1) /\ Sets(r1, "timestamp", m.timestamp, r2)
  BY DEF Sets
<1>5. Then(<<>>, encodeStringSlice(1, m.path), u1) /\ Then(u1, encodeInt64(2, m.timestamp), u2)
  BY DEF Then
<1>6. EncodeReadAt(m) = u2 /\ DecodeReadAt(u2) = DecodeTagged(T, Z, u2)
  BY DEF EncodeReadAt, DecodeReadAt
<1> HIDE DEF T, Z, r1, r2, u1, u2
<1>7. GoesOn(T, Z, <<>>, Z)
  BY GoesFirst, GoesBoth
<1>8. GoesOn(T, Z, u1, r1)
  BY <1>1, <1>3, <1>4, <1>5, <1>7, SliceStep
<1>9. Goes(T, Z, u2, r2)
  BY <1>1, <1>3, <1>4, <1>5, <1>8, Int64Step
<1>10. Arrives(u2, DecodeTagged(T, Z, u2), r2)
  BY <1>9, WholeMessage
<1>11. QED
  BY <1>2, <1>6, <1>10

\* DecodeWrite gives back what EncodeWrite was given.
LEMMA WriteReadBack ==
    ASSUME NEW m \in [path : Paths, value : Values, author : Words]
    PROVE  Arrives(EncodeWrite(m), DecodeWrite(EncodeWrite(m)), m)
<1> DEFINE T == << <<"path", "slice">>, <<"value", "value">>, <<"author", "word">> >>
           Z == [path |-> <<>>, value |-> V, author |-> 0]
           r1 == [Z EXCEPT !["path"] = m.path]
           r2 == [r1 EXCEPT !["value"] = m.value]
           r3 == [r2 EXCEPT !["author"] = m.author]
           u1 == encodeStringSlice(1, m.path)
           u2 == u1 \o encodeValue(2, m.value)
           u3 == u2 \o encodeUint64(3, m.author)
<1>1. m.path \in Paths /\ m.value \in Values /\ m.author \in Words
  OBVIOUS
<1>2. r3 = m
  OBVIOUS
<1>3. Entry(T, 1, "path", "slice") /\ Entry(T, 2, "value", "value") /\ Entry(T, 3, "author", "word")
  BY DEF Entry
<1>4. Sets(Z, "path", m.path, r1) /\ Sets(r1, "value", m.value, r2) /\ Sets(r2, "author", m.author, r3)
  BY DEF Sets
<1>5. Then(<<>>, encodeStringSlice(1, m.path), u1) /\ Then(u1, encodeValue(2, m.value), u2) /\ Then(u2, encodeUint64(3, m.author), u3)
  BY DEF Then
<1>6. EncodeWrite(m) = u3 /\ DecodeWrite(u3) = DecodeTagged(T, Z, u3)
  BY DEF EncodeWrite, DecodeWrite
<1> HIDE DEF T, Z, r1, r2, r3, u1, u2, u3
<1>7. GoesOn(T, Z, <<>>, Z)
  BY GoesFirst, GoesBoth
<1>8. GoesOn(T, Z, u1, r1)
  BY <1>1, <1>3, <1>4, <1>5, <1>7, SliceStep
<1>9. GoesOn(T, Z, u2, r2)
  BY <1>1, <1>3, <1>4, <1>5, <1>8, ValueStep
<1>10. Goes(T, Z, u3, r3)
  BY <1>1, <1>3, <1>4, <1>5, <1>9, WordStep
<1>11. Arrives(u3, DecodeTagged(T, Z, u3), r3)
  BY <1>10, WholeMessage
<1>12. QED
  BY <1>2, <1>6, <1>11

\* DecodeWriteAck gives back what EncodeWriteAck was given.
LEMMA WriteAckReadBack ==
    ASSUME NEW m \in [success : BOOLEAN, error : Strings]
    PROVE  Arrives(EncodeWriteAck(m), DecodeWriteAck(EncodeWriteAck(m)), m)
<1> DEFINE T == << <<"success", "bool">>, <<"error", "string">> >>
           Z == [success |-> FALSE, error |-> E]
           r1 == [Z EXCEPT !["success"] = m.success]
           r2 == [r1 EXCEPT !["error"] = m.error]
           u1 == encodeBool(1, m.success)
           u2 == u1 \o Optional(m.error # <<>>, encodeString(2, m.error))
<1>1. m.success \in BOOLEAN /\ m.error \in Strings
  OBVIOUS
<1>2. r2 = m
  OBVIOUS
<1>a. Unset(r1, "error")
  BY DEF Unset
<1>3. Entry(T, 1, "success", "bool") /\ Entry(T, 2, "error", "string")
  BY DEF Entry
<1>4. Sets(Z, "success", m.success, r1) /\ Sets(r1, "error", m.error, r2)
  BY DEF Sets
<1>5. Then(<<>>, encodeBool(1, m.success), u1) /\ ThenIfAny(u1, 2, m.error, u2)
  BY DEF Then, ThenIfAny
<1>6. EncodeWriteAck(m) = u2 /\ DecodeWriteAck(u2) = DecodeTagged(T, Z, u2)
  BY DEF EncodeWriteAck, DecodeWriteAck
<1> HIDE DEF T, Z, r1, r2, u1, u2
<1>7. GoesOn(T, Z, <<>>, Z)
  BY GoesFirst, GoesBoth
<1>8. Goes(T, Z, u1, r1) /\ GoesOn(T, Z, u1, r1)
  BY <1>1, <1>3, <1>4, <1>5, <1>7, BoolStep
<1>9. Goes(T, Z, u2, r2)
  BY <1>1, <1>a, <1>3, <1>4, <1>5, <1>8, OptionalStep
<1>10. Arrives(u2, DecodeTagged(T, Z, u2), r2)
  BY <1>9, WholeMessage
<1>11. QED
  BY <1>2, <1>6, <1>10

\* DecodeStopAck gives back what EncodeStopAck was given.
LEMMA StopAckReadBack ==
    ASSUME NEW m \in [success : BOOLEAN, error : Strings]
    PROVE  Arrives(EncodeStopAck(m), DecodeStopAck(EncodeStopAck(m)), m)
<1> DEFINE T == << <<"success", "bool">>, <<"error", "string">> >>
           Z == [success |-> FALSE, error |-> E]
           r1 == [Z EXCEPT !["success"] = m.success]
           r2 == [r1 EXCEPT !["error"] = m.error]
           u1 == encodeBool(1, m.success)
           u2 == u1 \o Optional(m.error # <<>>, encodeString(2, m.error))
<1>1. m.success \in BOOLEAN /\ m.error \in Strings
  OBVIOUS
<1>2. r2 = m
  OBVIOUS
<1>a. Unset(r1, "error")
  BY DEF Unset
<1>3. Entry(T, 1, "success", "bool") /\ Entry(T, 2, "error", "string")
  BY DEF Entry
<1>4. Sets(Z, "success", m.success, r1) /\ Sets(r1, "error", m.error, r2)
  BY DEF Sets
<1>5. Then(<<>>, encodeBool(1, m.success), u1) /\ ThenIfAny(u1, 2, m.error, u2)
  BY DEF Then, ThenIfAny
<1>6. EncodeStopAck(m) = u2 /\ DecodeStopAck(u2) = DecodeTagged(T, Z, u2)
  BY DEF EncodeStopAck, DecodeStopAck
<1> HIDE DEF T, Z, r1, r2, u1, u2
<1>7. GoesOn(T, Z, <<>>, Z)
  BY GoesFirst, GoesBoth
<1>8. Goes(T, Z, u1, r1) /\ GoesOn(T, Z, u1, r1)
  BY <1>1, <1>3, <1>4, <1>5, <1>7, BoolStep
<1>9. Goes(T, Z, u2, r2)
  BY <1>1, <1>a, <1>3, <1>4, <1>5, <1>8, OptionalStep
<1>10. Arrives(u2, DecodeTagged(T, Z, u2), r2)
  BY <1>9, WholeMessage
<1>11. QED
  BY <1>2, <1>6, <1>10

\* DecodePurge gives back what EncodePurge was given.
LEMMA PurgeReadBack ==
    ASSUME NEW m \in [path : Paths, from : Ints(M64), to : Ints(M64), author : Words]
    PROVE  Arrives(EncodePurge(m), DecodePurge(EncodePurge(m)), m)
<1> DEFINE T == << <<"path", "slice">>, <<"from", "int64">>, <<"to", "int64">>, <<"author", "word">> >>
           Z == [path |-> <<>>, from |-> 0, to |-> 0, author |-> 0]
           r1 == [Z EXCEPT !["path"] = m.path]
           r2 == [r1 EXCEPT !["from"] = m.from]
           r3 == [r2 EXCEPT !["to"] = m.to]
           r4 == [r3 EXCEPT !["author"] = m.author]
           u1 == encodeStringSlice(1, m.path)
           u2 == u1 \o encodeInt64(2, m.from)
           u3 == u2 \o encodeInt64(3, m.to)
           u4 == u3 \o encodeUint64(4, m.author)
<1>1. m.path \in Paths /\ m.from \in Ints(M64) /\ m.to \in Ints(M64) /\ m.author \in Words
  OBVIOUS
<1>2. r4 = m
  OBVIOUS
<1>3. Entry(T, 1, "path", "slice") /\ Entry(T, 2, "from", "int64") /\ Entry(T, 3, "to", "int64") /\ Entry(T, 4, "author", "word")
  BY DEF Entry
<1>4. Sets(Z, "path", m.path, r1) /\ Sets(r1, "from", m.from, r2) /\ Sets(r2, "to", m.to, r3) /\ Sets(r3, "author", m.author, r4)
  BY DEF Sets
<1>5. Then(<<>>, encodeStringSlice(1, m.path), u1) /\ Then(u1, encodeInt64(2, m.from), u2) /\ Then(u2, encodeInt64(3, m.to), u3) /\ Then(u3, encodeUint64(4, m.author), u4)
  BY DEF Then
<1>6. EncodePurge(m) = u4 /\ DecodePurge(u4) = DecodeTagged(T, Z, u4)
  BY DEF EncodePurge, DecodePurge
<1> HIDE DEF T, Z, r1, r2, r3, r4, u1, u2, u3, u4
<1>7. GoesOn(T, Z, <<>>, Z)
  BY GoesFirst, GoesBoth
<1>8. GoesOn(T, Z, u1, r1)
  BY <1>1, <1>3, <1>4, <1>5, <1>7, SliceStep
<1>9. GoesOn(T, Z, u2, r2)
  BY <1>1, <1>3, <1>4, <1>5, <1>8, Int64Step
<1>10. GoesOn(T, Z, u3, r3)
  BY <1>1, <1>3, <1>4, <1>5, <1>9, Int64Step
<1>11. Goes(T, Z, u4, r4)
  BY <1>1, <1>3, <1>4, <1>5, <1>10, WordStep
<1>12. Arrives(u4, DecodeTagged(T, Z, u4), r4)
  BY <1>11, WholeMessage
<1>13. QED
  BY <1>2, <1>6, <1>12

\* DecodeStatusResponse gives back what EncodeStatusResponse was given.
LEMMA StatusResponseReadBack ==
    ASSUME NEW m \in [uptime : Ints(M64), nodeIdentity : Strings, localSocket : Strings, networkPort : Ints(M32), connections : Ints(M32), dataSize : Ints(M64)]
    PROVE  Arrives(EncodeStatusResponse(m), DecodeStatusResponse(EncodeStatusResponse(m)), m)
<1> DEFINE T == << <<"uptime", "int64">>, <<"nodeIdentity", "string">>, <<"localSocket", "string">>, <<"networkPort", "int32">>, <<"connections", "int32">>, <<"dataSize", "int64">> >>
           Z == [uptime |-> 0, nodeIdentity |-> E, localSocket |-> E, networkPort |-> 0, connections |-> 0, dataSize |-> 0]
           r1 == [Z EXCEPT !["uptime"] = m.uptime]
           r2 == [r1 EXCEPT !["nodeIdentity"] = m.nodeIdentity]
           r3 == [r2 EXCEPT !["localSocket"] = m.localSocket]
           r4 == [r3 EXCEPT !["networkPort"] = m.networkPort]
           r5 == [r4 EXCEPT !["connections"] = m.connections]
           r6 == [r5 EXCEPT !["dataSize"] = m.dataSize]
           u1 == encodeInt64(1, m.uptime)
           u2 == u1 \o encodeString(2, m.nodeIdentity)
           u3 == u2 \o encodeString(3, m.localSocket)
           u4 == u3 \o encodeInt32(4, m.networkPort)
           u5 == u4 \o encodeInt32(5, m.connections)
           u6 == u5 \o encodeInt64(6, m.dataSize)
<1>1. m.uptime \in Ints(M64) /\ m.nodeIdentity \in Strings /\ m.localSocket \in Strings /\ m.networkPort \in Ints(M32) /\ m.connections \in Ints(M32) /\ m.dataSize \in Ints(M64)
  OBVIOUS
<1>2. r6 = m
  OBVIOUS
<1>3. Entry(T, 1, "uptime", "int64") /\ Entry(T, 2, "nodeIdentity", "string") /\ Entry(T, 3, "localSocket", "string") /\ Entry(T, 4, "networkPort", "int32") /\ Entry(T, 5, "connections", "int32") /\ Entry(T, 6, "dataSize", "int64")
  BY DEF Entry
<1>4. Sets(Z, "uptime", m.uptime, r1) /\ Sets(r1, "nodeIdentity", m.nodeIdentity, r2) /\ Sets(r2, "localSocket", m.localSocket, r3) /\ Sets(r3, "networkPort", m.networkPort, r4) /\ Sets(r4, "connections", m.connections, r5) /\ Sets(r5, "dataSize", m.dataSize, r6)
  BY DEF Sets
<1>5. Then(<<>>, encodeInt64(1, m.uptime), u1) /\ Then(u1, encodeString(2, m.nodeIdentity), u2) /\ Then(u2, encodeString(3, m.localSocket), u3) /\ Then(u3, encodeInt32(4, m.networkPort), u4) /\ Then(u4, encodeInt32(5, m.connections), u5) /\ Then(u5, encodeInt64(6, m.dataSize), u6)
  BY DEF Then
<1>6. EncodeStatusResponse(m) = u6 /\ DecodeStatusResponse(u6) = DecodeTagged(T, Z, u6)
  BY DEF EncodeStatusResponse, DecodeStatusResponse
<1> HIDE DEF T, Z, r1, r2, r3, r4, r5, r6, u1, u2, u3, u4, u5, u6
<1>7. GoesOn(T, Z, <<>>, Z)
  BY GoesFirst, GoesBoth
<1>8. GoesOn(T, Z, u1, r1)
  BY <1>1, <1>3, <1>4, <1>5, <1>7, Int64Step
<1>9. GoesOn(T, Z, u2, r2)
  BY <1>1, <1>3, <1>4, <1>5, <1>8, StringStep
<1>10. GoesOn(T, Z, u3, r3)
  BY <1>1, <1>3, <1>4, <1>5, <1>9, StringStep
<1>11. GoesOn(T, Z, u4, r4)
  BY <1>1, <1>3, <1>4, <1>5, <1>10, Int32Step
<1>12. GoesOn(T, Z, u5, r5)
  BY <1>1, <1>3, <1>4, <1>5, <1>11, Int32Step
<1>13. Goes(T, Z, u6, r6)
  BY <1>1, <1>3, <1>4, <1>5, <1>12, Int64Step
<1>14. Arrives(u6, DecodeTagged(T, Z, u6), r6)
  BY <1>13, WholeMessage
<1>15. QED
  BY <1>2, <1>6, <1>14

\* DecodeWhoAmIResponse gives back what EncodeWhoAmIResponse was given,
\* unless the payload ends in an empty string.
LEMMA WhoAmIResponseReadBack ==
    ASSUME NEW m \in [agentID : Words, identity : Strings],
           m.identity # E
    PROVE  Arrives(EncodeWhoAmIResponse(m), DecodeWhoAmIResponse(EncodeWhoAmIResponse(m)), m)
<1> DEFINE T == << <<"agentID", "agent">>, <<"identity", "string">> >>
           Z == [agentID |-> 0, identity |-> E]
           r1 == [Z EXCEPT !["agentID"] = m.agentID]
           r2 == [r1 EXCEPT !["identity"] = m.identity]
           u1 == encodeInt64(1, Signed(m.agentID, M64))
           u2 == u1 \o encodeString(2, m.identity)
<1>1. m.agentID \in Words /\ m.identity \in Strings
  OBVIOUS
<1>2. r2 = m
  OBVIOUS
<1>3. Entry(T, 1, "agentID", "agent") /\ Entry(T, 2, "identity", "string")
  BY DEF Entry
<1>4. Sets(Z, "agentID", m.agentID, r1) /\ Sets(r1, "identity", m.identity, r2)
  BY DEF Sets
<1>5. Then(<<>>, encodeInt64(1, Signed(m.agentID, M64)), u1) /\ Then(u1, encodeString(2, m.identity), u2)
  BY DEF Then
<1>6. EncodeWhoAmIResponse(m) = u2 /\ DecodeWhoAmIResponse(u2) = DecodeTagged(T, Z, u2)
  BY DEF EncodeWhoAmIResponse, DecodeWhoAmIResponse
<1> HIDE DEF T, Z, r1, r2, u1, u2
<1>7. GoesOn(T, Z, <<>>, Z)
  BY GoesFirst, GoesBoth
<1>8. GoesOn(T, Z, u1, r1)
  BY <1>1, <1>3, <1>4, <1>5, <1>7, AgentStep
<1>9. Goes(T, Z, u2, r2)
  BY <1>1, <1>3, <1>4, <1>5, <1>8, StringStep
<1>10. Arrives(u2, DecodeTagged(T, Z, u2), r2)
  BY <1>9, WholeMessage
<1>11. QED
  BY <1>2, <1>6, <1>10

\* DecodeAuthInit gives back what EncodeAuthInit was given,
\* unless the payload ends in an empty string.
LEMMA AuthInitReadBack ==
    ASSUME NEW m \in [identity : Strings],
           m.identity # E
    PROVE  Arrives(EncodeAuthInit(m), DecodeAuthInit(EncodeAuthInit(m)), m)
<1> DEFINE T == << <<"identity", "string">> >>
           Z == [identity |-> E]
           r1 == [Z EXCEPT !["identity"] = m.identity]
           u1 == encodeString(1, m.identity)
<1>1. m.identity \in Strings
  OBVIOUS
<1>2. r1 = m
  OBVIOUS
<1>3. Entry(T, 1, "identity", "string")
  BY DEF Entry
<1>4. Sets(Z, "identity", m.identity, r1)
  BY DEF Sets
<1>5. Then(<<>>, encodeString(1, m.identity), u1)
  BY DEF Then
<1>6. EncodeAuthInit(m) = u1 /\ DecodeAuthInit(u1) = DecodeTagged(T, Z, u1)
  BY DEF EncodeAuthInit, DecodeAuthInit
<1> HIDE DEF T, Z, r1, u1
<1>7. GoesOn(T, Z, <<>>, Z)
  BY GoesFirst, GoesBoth
<1>8. Goes(T, Z, u1, r1)
  BY <1>1, <1>3, <1>4, <1>5, <1>7, StringStep
<1>9. Arrives(u1, DecodeTagged(T, Z, u1), r1)
  BY <1>8, WholeMessage
<1>10. QED
  BY <1>2, <1>6, <1>9

\* DecodeAuthChallenge gives back what EncodeAuthChallenge was given,
\* unless the payload ends in an empty string.
LEMMA AuthChallengeReadBack ==
    ASSUME NEW m \in [challenge : Strings],
           m.challenge # E
    PROVE  Arrives(EncodeAuthChallenge(m), DecodeAuthChallenge(EncodeAuthChallenge(m)), m)
<1> DEFINE T == << <<"challenge", "string">> >>
           Z == [challenge |-> E]
           r1 == [Z EXCEPT !["challenge"] = m.challenge]
           u1 == encodeString(1, m.challenge)
<1>1. m.challenge \in Strings
  OBVIOUS
<1>2. r1 = m
  OBVIOUS
<1>3. Entry(T, 1, "challenge", "string")
  BY DEF Entry
<1>4. Sets(Z, "challenge", m.challenge, r1)
  BY DEF Sets
<1>5. Then(<<>>, encodeString(1, m.challenge), u1)
  BY DEF Then
<1>6. EncodeAuthChallenge(m) = u1 /\ DecodeAuthChallenge(u1) = DecodeTagged(T, Z, u1)
  BY DEF EncodeAuthChallenge, DecodeAuthChallenge
<1> HIDE DEF T, Z, r1, u1
<1>7. GoesOn(T, Z, <<>>, Z)
  BY GoesFirst, GoesBoth
<1>8. Goes(T, Z, u1, r1)
  BY <1>1, <1>3, <1>4, <1>5, <1>7, StringStep
<1>9. Arrives(u1, DecodeTagged(T, Z, u1), r1)
  BY <1>8, WholeMessage
<1>10. QED
  BY <1>2, <1>6, <1>9

\* DecodeAuthResponse gives back what EncodeAuthResponse was given,
\* unless the payload ends in an empty string.
LEMMA AuthResponseReadBack ==
    ASSUME NEW m \in [response : Strings],
           m.response # E
    PROVE  Arrives(EncodeAuthResponse(m), DecodeAuthResponse(EncodeAuthResponse(m)), m)
<1> DEFINE T == << <<"response", "string">> >>
           Z == [response |-> E]
           r1 == [Z EXCEPT !["response"] = m.response]
           u1 == encodeString(1, m.response)
<1>1. m.response \in Strings
  OBVIOUS
<1>2. r1 = m
  OBVIOUS
<1>3. Entry(T, 1, "response", "string")
  BY DEF Entry
<1>4. Sets(Z, "response", m.response, r1)
  BY DEF Sets
<1>5. Then(<<>>, encodeString(1, m.response), u1)
  BY DEF Then
<1>6. EncodeAuthResponse(m) = u1 /\ DecodeAuthResponse(u1) = DecodeTagged(T, Z, u1)
  BY DEF EncodeAuthResponse, DecodeAuthResponse
<1> HIDE DEF T, Z, r1, u1
<1>7. GoesOn(T, Z, <<>>, Z)
  BY GoesFirst, GoesBoth
<1>8. Goes(T, Z, u1, r1)
  BY <1>1, <1>3, <1>4, <1>5, <1>7, StringStep
<1>9. Arrives(u1, DecodeTagged(T, Z, u1), r1)
  BY <1>8, WholeMessage
<1>10. QED
  BY <1>2, <1>6, <1>9

\* DecodeCreateMesh gives back what EncodeCreateMesh was given,
\* unless the payload ends in an empty string.
LEMMA CreateMeshReadBack ==
    ASSUME NEW m \in [name : Strings],
           m.name # E
    PROVE  Arrives(EncodeCreateMesh(m), DecodeCreateMesh(EncodeCreateMesh(m)), m)
<1> DEFINE T == << <<"name", "string">> >>
           Z == [name |-> E]
           r1 == [Z EXCEPT !["name"] = m.name]
           u1 == encodeString(1, m.name)
<1>1. m.name \in Strings
  OBVIOUS
<1>2. r1 = m
  OBVIOUS
<1>3. Entry(T, 1, "name", "string")
  BY DEF Entry
<1>4. Sets(Z, "name", m.name, r1)
  BY DEF Sets
<1>5. Then(<<>>, encodeString(1, m.name), u1)
  BY DEF Then
<1>6. EncodeCreateMesh(m) = u1 /\ DecodeCreateMesh(u1) = DecodeTagged(T, Z, u1)
  BY DEF EncodeCreateMesh, DecodeCreateMesh
<1> HIDE DEF T, Z, r1, u1
<1>7. GoesOn(T, Z, <<>>, Z)
  BY GoesFirst, GoesBoth
<1>8. Goes(T, Z, u1, r1)
  BY <1>1, <1>3, <1>4, <1>5, <1>7, StringStep
<1>9. Arrives(u1, DecodeTagged(T, Z, u1), r1)
  BY <1>8, WholeMessage
<1>10. QED
  BY <1>2, <1>6, <1>9

\* DecodeExecute gives back what EncodeExecute was given,
\* unless the payload ends in an empty string.
LEMMA ExecuteReadBack ==
    ASSUME NEW m \in [code : Strings],
           m.code # E
    PROVE  Arrives(EncodeExecute(m), DecodeExecute(EncodeExecute(m)), m)
<1> DEFINE T == << <<"code", "string">> >>
           Z == [code |-> E]
           r1 == [Z EXCEPT !["code"] = m.code]
           u1 == encodeString(1, m.code)
<1>1. m.code \in Strings
  OBVIOUS
<1>2. r1 = m
  OBVIOUS
<1>3. Entry(T, 1, "code", "string")
  BY DEF Entry
<1>4. Sets(Z, "code", m.code, r1)
  BY DEF Sets
<1>5. Then(<<>>, encodeString(1, m.code), u1)
  BY DEF Then
<1>6. EncodeExecute(m) = u1 /\ DecodeExecute(u1) = DecodeTagged(T, Z, u1)
  BY DEF EncodeExecute, DecodeExecute
<1> HIDE DEF T, Z, r1, u1
<1>7. GoesOn(T, Z, <<>>, Z)
  BY GoesFirst, GoesBoth
<1>8. Goes(T, Z, u1, r1)
  BY <1>1, <1>3, <1>4, <1>5, <1>7, StringStep
<1>9. Arrives(u1, DecodeTagged(T, Z, u1), r1)
  BY <1>8, WholeMessage
<1>10. QED
  BY <1>2, <1>6, <1>9

\* DecodeAuthResult gives back what EncodeAuthResult was given.
LEMMA AuthResultReadBack ==
    ASSUME NEW m \in [success : BOOLEAN, agentID : Words, identity : Strings, error : Strings]
    PROVE  Arrives(EncodeAuthResult(m), DecodeAuthResult(EncodeAuthResult(m)), m)
<1> DEFINE T == << <<"success", "bool">>, <<"agentID", "agent">>, <<"identity", "string">>, <<"error", "string">> >>
           Z == [success |-> FALSE, agentID |-> 0, identity |-> E, error |-> E]
           r1 == [Z EXCEPT !["success"] = m.success]
           r2 == [r1 EXCEPT !["agentID"] = m.agentID]
           r3 == [r2 EXCEPT !["identity"] = m.identity]
           r4 == [r3 EXCEPT !["error"] = m.error]
           u1 == encodeBool(1, m.success)
           u2 == u1 \o encodeInt64(2, Signed(m.agentID, M64))
           u3 == u2 \o Optional(m.identity # <<>>, encodeString(3, m.identity))
           u4 == u3 \o Optional(m.error # <<>>, encodeString(4, m.error))
<1>1. m.success \in BOOLEAN /\ m.agentID \in Words /\ m.identity \in Strings /\ m.error \in Strings
  OBVIOUS
<1>2. r4 = m
  OBVIOUS
<1>a. Unset(r2, "identity") /\ Unset(r3, "error")
  BY DEF Unset
<1>3. Entry(T, 1, "success", "bool") /\ Entry(T, 2, "agentID", "agent") /\ Entry(T, 3, "identity", "string") /\ Entry(T, 4, "error", "string")
  BY DEF Entry
<1>4. Sets(Z, "success", m.success, r1) /\ Sets(r1, "agentID", m.agentID, r2) /\ Sets(r2, "identity", m.identity, r3) /\ Sets(r3, "error", m.error, r4)
  BY DEF Sets
<1>5. Then(<<>>, encodeBool(1, m.success), u1) /\ Then(u1, encodeInt64(2, Signed(m.agentID, M64)), u2) /\ ThenIfAny(u2, 3, m.identity, u3) /\ ThenIfAny(u3, 4, m.error, u4)
  BY DEF Then, ThenIfAny
<1>6. EncodeAuthResult(m) = u4 /\ DecodeAuthResult(u4) = DecodeTagged(T, Z, u4)
  BY DEF EncodeAuthResult, DecodeAuthResult
<1> HIDE DEF T, Z, r1, r2, r3, r4, u1, u2, u3, u4
<1>7. GoesOn(T, Z, <<>>, Z)
  BY GoesFirst, GoesBoth
<1>8. GoesOn(T, Z, u1, r1)
  BY <1>1, <1>3, <1>4, <1>5, <1>7, BoolStep
<1>9. Goes(T, Z, u2, r2) /\ GoesOn(T, Z, u2, r2)
  BY <1>1, <1>3, <1>4, <1>5, <1>8, AgentStep
<1>10. Goes(T, Z, u3, r3) /\ GoesOn(T, Z, u3, r3)
  BY <1>1, <1>a, <1>3, <1>4, <1>5, <1>9, OptionalStep
<1>11. Goes(T, Z, u4, r4)
  BY <1>1, <1>a, <1>3, <1>4, <1>5, <1>10, OptionalStep
<1>12. Arrives(u4, DecodeTagged(T, Z, u4), r4)
  BY <1>11, WholeMessage
<1>13. QED
  BY <1>2, <1>6, <1>12

\* DecodeRegister gives back what EncodeRegister was given,
\* unless the payload ends in an empty string.
LEMMA RegisterReadBack ==
    ASSUME NEW m \in [identity : Strings, publicKey : Strings, token : Strings],
           m.token # E
    PROVE  Arrives(EncodeRegister(m), DecodeRegister(EncodeRegister(m)), m)
<1> DEFINE T == << <<"identity", "string">>, <<"publicKey", "string">>, <<"token", "string">> >>
           Z == [identity |-> E, publicKey |-> E, token |-> E]
           r1 == [Z EXCEPT !["identity"] = m.identity]
           r2 == [r1 EXCEPT !["publicKey"] = m.publicKey]
           r3 == [r2 EXCEPT !["token"] = m.token]
           u1 == encodeString(1, m.identity)
           u2 == u1 \o encodeString(2, m.publicKey)
           u3 == u2 \o encodeString(3, m.token)
<1>1. m.identity \in Strings /\ m.publicKey \in Strings /\ m.token \in Strings
  OBVIOUS
<1>2. r3 = m
  OBVIOUS
<1>3. Entry(T, 1, "identity", "string") /\ Entry(T, 2, "publicKey", "string") /\ Entry(T, 3, "token", "string")
  BY DEF Entry
<1>4. Sets(Z, "identity", m.identity, r1) /\ Sets(r1, "publicKey", m.publicKey, r2) /\ Sets(r2, "token", m.token, r3)
  BY DEF Sets
<1>5. Then(<<>>, encodeString(1, m.identity), u1) /\ Then(u1, encodeString(2, m.publicKey), u2) /\ Then(u2, encodeString(3, m.token), u3)
  BY DEF Then
<1>6. EncodeRegister(m) = u3 /\ DecodeRegister(u3) = DecodeTagged(T, Z, u3)
  BY DEF EncodeRegister, DecodeRegister
<1> HIDE DEF T, Z, r1, r2, r3, u1, u2, u3
<1>7. GoesOn(T, Z, <<>>, Z)
  BY GoesFirst, GoesBoth
<1>8. GoesOn(T, Z, u1, r1)
  BY <1>1, <1>3, <1>4, <1>5, <1>7, StringStep
<1>9. GoesOn(T, Z, u2, r2)
  BY <1>1, <1>3, <1>4, <1>5, <1>8, StringStep
<1>10. Goes(T, Z, u3, r3)
  BY <1>1, <1>3, <1>4, <1>5, <1>9, StringStep
<1>11. Arrives(u3, DecodeTagged(T, Z, u3), r3)
  BY <1>10, WholeMessage
<1>12. QED
  BY <1>2, <1>6, <1>11

\* DecodeRegisterResult gives back what EncodeRegisterResult was given.
LEMMA RegisterResultReadBack ==
    ASSUME NEW m \in [success : BOOLEAN, agentID : Words, error : Strings]
    PROVE  Arrives(EncodeRegisterResult(m), DecodeRegisterResult(EncodeRegisterResult(m)), m)
<1> DEFINE T == << <<"success", "bool">>, <<"agentID", "agent">>, <<"error", "string">> >>
           Z == [success |-> FALSE, agentID |-> 0, error |-> E]
           r1 == [Z EXCEPT !["success"] = m.success]
           r2 == [r1 EXCEPT !["agentID"] = m.agentID]
           r3 == [r2 EXCEPT !["error"] = m.error]
           u1 == encodeBool(1, m.success)
           u2 == u1 \o encodeInt64(2, Signed(m.agentID, M64))
           u3 == u2 \o Optional(m.error # <<>>, encodeString(3, m.error))
<1>1. m.success \in BOOLEAN /\ m.agentID \in Words /\ m.error \in Strings
  OBVIOUS
<1>2. r3 = m
  OBVIOUS
<1>a. Unset(r2, "error")
  BY DEF Unset
<1>3. Entry(T, 1, "success", "bool") /\ Entry(T, 2, "agentID", "agent") /\ Entry(T, 3, "error", "string")
  BY DEF Entry
<1>4. Sets(Z, "success", m.success, r1) /\ Sets(r1, "agentID", m.agentID, r2) /\ Sets(r2, "error", m.error, r3)
  BY DEF Sets
<1>5. Then(<<>>, encodeBool(1, m.success), u1) /\ Then(u1, encodeInt64(2, Signed(m.agentID, M64)), u2) /\ ThenIfAny(u2, 3, m.error, u3)
  BY DEF Then, ThenIfAny
<1>6. EncodeRegisterResult(m) = u3 /\ DecodeRegisterResult(u3) = DecodeTagged(T, Z, u3)
  BY DEF EncodeRegisterResult, DecodeRegisterResult
<1> HIDE DEF T, Z, r1, r2, r3, u1, u2, u3
<1>7. GoesOn(T, Z, <<>>, Z)
  BY GoesFirst, GoesBoth
<1>8. GoesOn(T, Z, u1, r1)
  BY <1>1, <1>3, <1>4, <1>5, <1>7, BoolStep
<1>9. Goes(T, Z, u2, r2) /\ GoesOn(T, Z, u2, r2)
  BY <1>1, <1>3, <1>4, <1>5, <1>8, AgentStep
<1>10. Goes(T, Z, u3, r3)
  BY <1>1, <1>a, <1>3, <1>4, <1>5, <1>9, OptionalStep
<1>11. Arrives(u3, DecodeTagged(T, Z, u3), r3)
  BY <1>10, WholeMessage
<1>12. QED
  BY <1>2, <1>6, <1>11

\* DecodeInviteCreateResult gives back what EncodeInviteCreateResult was given.
LEMMA InviteCreateResultReadBack ==
    ASSUME NEW m \in [success : BOOLEAN, token : Strings, error : Strings]
    PROVE  Arrives(EncodeInviteCreateResult(m), DecodeInviteCreateResult(EncodeInviteCreateResult(m)), m)
<1> DEFINE T == << <<"success", "bool">>, <<"token", "string">>, <<"error", "string">> >>
           Z == [success |-> FALSE, token |-> E, error |-> E]
           r1 == [Z EXCEPT !["success"] = m.success]
           r2 == [r1 EXCEPT !["token"] = m.token]
           r3 == [r2 EXCEPT !["error"] = m.error]
           u1 == encodeBool(1, m.success)
           u2 == u1 \o Optional(m.token # <<>>, encodeString(2, m.token))
           u3 == u2 \o Optional(m.error # <<>>, encodeString(3, m.error))
<1>1. m.success \in BOOLEAN /\ m.token \in Strings /\ m.error \in Strings
  OBVIOUS
<1>2. r3 = m
  OBVIOUS
<1>a. Unset(r1, "token") /\ Unset(r2, "error")
  BY DEF Unset
<1>3. Entry(T, 1, "success", "bool") /\ Entry(T, 2, "token", "string") /\ Entry(T, 3, "error", "string")
  BY DEF Entry
<1>4. Sets(Z, "success", m.success, r1) /\ Sets(r1, "token", m.token, r2) /\ Sets(r2, "error", m.error, r3)
  BY DEF Sets
<1>5. Then(<<>>, encodeBool(1, m.success), u1) /\ ThenIfAny(u1, 2, m.token, u2) /\ ThenIfAny(u2, 3, m.error, u3)
  BY DEF Then, ThenIfAny
<1>6. EncodeInviteCreateResult(m) = u3 /\ DecodeInviteCreateResult(u3) = DecodeTagged(T, Z, u3)
  BY DEF EncodeInviteCreateResult, DecodeInviteCreateResult
<1> HIDE DEF T, Z, r1, r2, r3, u1, u2, u3
<1>7. GoesOn(T, Z, <<>>, Z)
  BY GoesFirst, GoesBoth
<1>8. Goes(T, Z, u1, r1) /\ GoesOn(T, Z, u1, r1)
  BY <1>1, <1>3, <1>4, <1>5, <1>7, BoolStep
<1>9. Goes(T, Z, u2, r2) /\ GoesOn(T, Z, u2, r2)
  BY <1>1, <1>a, <1>3, <1>4, <1>5, <1>8, OptionalStep
<1>10. Goes(T, Z, u3, r3)
  BY <1>1, <1>a, <1>3, <1>4, <1>5, <1>9, OptionalStep
<1>11. Arrives(u3, DecodeTagged(T, Z, u3), r3)
  BY <1>10, WholeMessage
<1>12. QED
  BY <1>2, <1>6, <1>11

\* DecodeCompactAck gives back what EncodeCompactAck was given.
LEMMA CompactAckReadBack ==
    ASSUME NEW m \in [success : BOOLEAN, error : Strings, spaceReclaimed : Ints(M64)]
    PROVE  Arrives(EncodeCompactAck(m), DecodeCompactAck(EncodeCompactAck(m)), m)
<1> DEFINE T == << <<"success", "bool">>, <<"error", "string">>, <<"spaceReclaimed", "int64">> >>
           Z == [success |-> FALSE, error |-> E, spaceReclaimed |-> 0]
           r1 == [Z EXCEPT !["success"] = m.success]
           r2 == [r1 EXCEPT !["error"] = m.error]
           r3 == [r2 EXCEPT !["spaceReclaimed"] = m.spaceReclaimed]
           u1 == encodeBool(1, m.success)
           u2 == u1 \o Optional(m.error # <<>>, encodeString(2, m.error))
           u3 == u2 \o encodeInt64(3, m.spaceReclaimed)
<1>1. m.success \in BOOLEAN /\ m.error \in Strings /\ m.spaceReclaimed \in Ints(M64)
  OBVIOUS
<1>2. r3 = m
  OBVIOUS
<1>a. Unset(r1, "error")
  BY DEF Unset
<1>3. Entry(T, 1, "success", "bool") /\ Entry(T, 2, "error", "string") /\ Entry(T, 3, "spaceReclaimed", "int64")
  BY DEF Entry
<1>4. Sets(Z, "success", m.success, r1) /\ Sets(r1, "error", m.error, r2) /\ Sets(r2, "spaceReclaimed", m.spaceReclaimed, r3)
  BY DEF Sets
<1>5. Then(<<>>, encodeBool(1, m.success), u1) /\ ThenIfAny(u1, 2, m.error, u2) /\ Then(u2, encodeInt64(3, m.spaceReclaimed), u3)
  BY DEF Then, ThenIfAny
<1>6. EncodeCompactAck(m) = u3 /\ DecodeCompactAck(u3) = DecodeTagged(T, Z, u3)
  BY DEF EncodeCompactAck, DecodeCompactAck
<1> HIDE DEF T, Z, r1, r2, r3, u1, u2, u3
<1>7. GoesOn(T, Z, <<>>, Z)
  BY GoesFirst, GoesBoth
<1>8. GoesOn(T, Z, u1, r1)
  BY <1>1, <1>3, <1>4, <1>5, <1>7, BoolStep
<1>9. GoesOn(T, Z, u2, r2)
  BY <1>1, <1>a, <1>3, <1>4, <1>5, <1>8, OptionalStep
<1>10. Goes(T, Z, u3, r3)
  BY <1>1, <1>3, <1>4, <1>5, <1>9, Int64Step
<1>11. Arrives(u3, DecodeTagged(T, Z, u3), r3)
  BY <1>10, WholeMessage
<1>12. QED
  BY <1>2, <1>6, <1>11

\* DecodeError gives back what EncodeError was given,
\* unless the payload ends in an empty string.
LEMMA ErrorReadBack ==
    ASSUME NEW m \in [code : Codes, message : Strings],
           m.message # E
    PROVE  Arrives(EncodeError(m), DecodeError(EncodeError(m)), m)
<1> DEFINE T == << <<"code", "word">>, <<"message", "string">> >>
           Z == [code |-> 0, message |-> E]
           r1 == [Z EXCEPT !["code"] = m.code]
           r2 == [r1 EXCEPT !["message"] = m.message]
           u1 == encodeUint32(1, m.code)
           u2 == u1 \o encodeString(2, m.message)
<1>1. m.code \in Codes /\ m.message \in Strings
  OBVIOUS
<1>2. r2 = m
  OBVIOUS
<1>3. Entry(T, 1, "code", "word") /\ Entry(T, 2, "message", "string")
  BY DEF Entry
<1>4. Sets(Z, "code", m.code, r1) /\ Sets(r1, "message", m.message, r2)
  BY DEF Sets
<1>5. Then(<<>>, encodeUint32(1, m.code), u1) /\ Then(u1, encodeString(2, m.message), u2)
  BY DEF Then
<1>6. EncodeError(m) = u2 /\ DecodeError(u2) = DecodeTagged(T, Z, u2)
  BY DEF EncodeError, DecodeError
<1> HIDE DEF T, Z, r1, r2, u1, u2
<1>7. GoesOn(T, Z, <<>>, Z)
  BY GoesFirst, GoesBoth
<1>8. GoesOn(T, Z, u1, r1)
  BY <1>1, <1>3, <1>4, <1>5, <1>7, WordStep
<1>9. Goes(T, Z, u2, r2)
  BY <1>1, <1>3, <1>4, <1>5, <1>8, StringStep
<1>10. Arrives(u2, DecodeTagged(T, Z, u2), r2)
  BY <1>9, WholeMessage
<1>11. QED
  BY <1>2, <1>6, <1>10

\* DecodeCreateMeshAck gives back what EncodeCreateMeshAck was given.
LEMMA CreateMeshAckReadBack ==
    ASSUME NEW m \in [success : BOOLEAN, message : Strings, meshName : Strings, nodeID : Strings, isFounder : BOOLEAN]
    PROVE  Arrives(EncodeCreateMeshAck(m), DecodeCreateMeshAck(EncodeCreateMeshAck(m)), m)
<1> DEFINE T == << <<"success", "bool">>, <<"message", "string">>, <<"meshName", "string">>, <<"nodeID", "string">>, <<"isFounder", "bool">> >>
           Z == [success |-> FALSE, message |-> E, meshName |-> E, nodeID |-> E, isFounder |-> FALSE]
           r1 == [Z EXCEPT !["success"] = m.success]
           r2 == [r1 EXCEPT !["message"] = m.message]
           r3 == [r2 EXCEPT !["meshName"] = m.meshName]
           r4 == [r3 EXCEPT !["nodeID"] = m.nodeID]
           r5 == [r4 EXCEPT !["isFounder"] = m.isFounder]
           u1 == encodeBool(1, m.success)
           u2 == u1 \o encodeString(2, m.message)
           u3 == u2 \o Optional(m.meshName # <<>>, encodeString(3, m.meshName))
           u4 == u3 \o Optional(m.nodeID # <<>>, encodeString(4, m.nodeID))
           u5 == u4 \o encodeBool(5, m.isFounder)
<1>1. m.success \in BOOLEAN /\ m.message \in Strings /\ m.meshName \in Strings /\ m.nodeID \in Strings /\ m.isFounder \in BOOLEAN
  OBVIOUS
<1>2. r5 = m
  OBVIOUS
<1>a. Unset(r2, "meshName") /\ Unset(r3, "nodeID")
  BY DEF Unset
<1>3. Entry(T, 1, "success", "bool") /\ Entry(T, 2, "message", "string") /\ Entry(T, 3, "meshName", "string") /\ Entry(T, 4, "nodeID", "string") /\ Entry(T, 5, "isFounder", "bool")
  BY DEF Entry
<1>4. Sets(Z, "success", m.success, r1) /\ Sets(r1, "message", m.message, r2) /\ Sets(r2, "meshName", m.meshName, r3) /\ Sets(r3, "nodeID", m.nodeID, r4) /\ Sets(r4, "isFounder", m.isFounder, r5)
  BY DEF Sets
<1>5. Then(<<>>, encodeBool(1, m.success), u1) /\ Then(u1, encodeString(2, m.message), u2) /\ ThenIfAny(u2, 3, m.meshName, u3) /\ ThenIfAny(u3, 4, m.nodeID, u4) /\ Then(u4, encodeBool(5, m.isFounder), u5)
  BY DEF Then, ThenIfAny
<1>6. EncodeCreateMeshAck(m) = u5 /\ DecodeCreateMeshAck(u5) = DecodeTagged(T, Z, u5)
  BY DEF EncodeCreateMeshAck, DecodeCreateMeshAck
<1> HIDE DEF T, Z, r1, r2, r3, r4, r5, u1, u2, u3, u4, u5
<1>7. GoesOn(T, Z, <<>>, Z)
  BY GoesFirst, GoesBoth
<1>8. GoesOn(T, Z, u1, r1)
  BY <1>1, <1>3, <1>4, <1>5, <1>7, BoolStep
<1>9. GoesOn(T, Z, u2, r2)
  BY <1>1, <1>3, <1>4, <1>5, <1>8, StringStep
<1>10. GoesOn(T, Z, u3, r3)
  BY <1>1, <1>a, <1>3, <1>4, <1>5, <1>9, OptionalStep
<1>11. GoesOn(T, Z, u4, r4)
  BY <1>1, <1>a, <1>3, <1>4, <1>5, <1>10, OptionalStep
<1>12. Goes(T, Z, u5, r5)
  BY <1>1, <1>3, <1>4, <1>5, <1>11, BoolStep
<1>13. Arrives(u5, DecodeTagged(T, Z, u5), r5)
  BY <1>12, WholeMessage
<1>14. QED
  BY <1>2, <1>6, <1>13

\* DecodeDiscoverMeshResponse gives back what EncodeDiscoverMeshResponse was given.
LEMMA DiscoverMeshResponseReadBack ==
    ASSUME NEW m \in [meshName : Strings, founderIdentity : Strings, memberCount : Ints(M32), zoneCount : Ints(M32), requiresAuth : BOOLEAN, foundedAt : Ints(M64)]
    PROVE  Arrives(EncodeDiscoverMeshResponse(m), DecodeDiscoverMeshResponse(EncodeDiscoverMeshResponse(m)), m)
<1> DEFINE T == << <<"meshName", "string">>, <<"founderIdentity", "string">>, <<"memberCount", "int32">>, <<"zoneCount", "int32">>, <<"requiresAuth", "bool">>, <<"foundedAt", "int64">> >>
           Z == [meshName |-> E, founderIdentity |-> E, memberCount |-> 0, zoneCount |-> 0, requiresAuth |-> FALSE, foundedAt |-> 0]
           r1 == [Z EXCEPT !["meshName"] = m.meshName]
           r2 == [r1 EXCEPT !["founderIdentity"] = m.founderIdentity]
           r3 == [r2 EXCEPT !["memberCount"] = m.memberCount]
           r4 == [r3 EXCEPT !["zoneCount"] = m.zoneCount]
           r5 == [r4 EXCEPT !["requiresAuth"] = m.requiresAuth]
           r6 == [r5 EXCEPT !["foundedAt"] = m.foundedAt]
           u1 == encodeString(1, m.meshName)
           u2 == u1 \o encodeString(2, m.founderIdentity)
           u3 == u2 \o encodeInt32(3, m.memberCount)
           u4 == u3 \o encodeInt32(4, m.zoneCount)
           u5 == u4 \o encodeBool(5, m.requiresAuth)
           u6 == u5 \o encodeInt64(6, m.foundedAt)
<1>1. m.meshName \in Strings /\ m.founderIdentity \in Strings /\ m.memberCount \in Ints(M32) /\ m.zoneCount \in Ints(M32) /\ m.requiresAuth \in BOOLEAN /\ m.foundedAt \in Ints(M64)
  OBVIOUS
<1>2. r6 = m
  OBVIOUS
<1>3. Entry(T, 1, "meshName", "string") /\ Entry(T, 2, "founderIdentity", "string") /\ Entry(T, 3, "memberCount", "int32") /\ Entry(T, 4, "zoneCount", "int32") /\ Entry(T, 5, "requiresAuth", "bool") /\ Entry(T, 6, "foundedAt", "int64")
  BY DEF Entry
<1>4. Sets(Z, "meshName", m.meshName, r1) /\ Sets(r1, "founderIdentity", m.founderIdentity, r2) /\ Sets(r2, "memberCount", m.memberCount, r3) /\ Sets(r3, "zoneCount", m.zoneCount, r4) /\ Sets(r4, "requiresAuth", m.requiresAuth, r5) /\ Sets(r5, "foundedAt", m.foundedAt, r6)
  BY DEF Sets
<1>5. Then(<<>>, encodeString(1, m.meshName), u1) /\ Then(u1, encodeString(2, m.founderIdentity), u2) /\ Then(u2, encodeInt32(3, m.memberCount), u3) /\ Then(u3, encodeInt32(4, m.zoneCount), u4) /\ Then(u4, encodeBool(5, m.requiresAuth), u5) /\ Then(u5, encodeInt64(6, m.foundedAt), u6)
  BY DEF Then
<1>6. EncodeDiscoverMeshResponse(m) = u6 /\ DecodeDiscoverMeshResponse(u6) = DecodeTagged(T, Z, u6)
  BY DEF EncodeDiscoverMeshResponse, DecodeDiscoverMeshResponse
<1> HIDE DEF T, Z, r1, r2, r3, r4, r5, r6, u1, u2, u3, u4, u5, u6
<1>7. GoesOn(T, Z, <<>>, Z)
  BY GoesFirst, GoesBoth
<1>8. GoesOn(T, Z, u1, r1)
  BY <1>1, <1>3, <1>4, <1>5, <1>7, StringStep
<1>9. GoesOn(T, Z, u2, r2)
  BY <1>1, <1>3, <1>4, <1>5, <1>8, StringStep
<1>10. GoesOn(T, Z, u3, r3)
  BY <1>1, <1>3, <1>4, <1>5, <1>9, Int32Step
<1>11. GoesOn(T, Z, u4, r4)
  BY <1>1, <1>3, <1>4, <1>5, <1>10, Int32Step
<1>12. GoesOn(T, Z, u5, r5)
  BY <1>1, <1>3, <1>4, <1>5, <1>11, BoolStep
<1>13. Goes(T, Z, u6, r6)
  BY <1>1, <1>3, <1>4, <1>5, <1>12, Int64Step
<1>14. Arrives(u6, DecodeTagged(T, Z, u6), r6)
  BY <1>13, WholeMessage
<1>15. QED
  BY <1>2, <1>6, <1>14

\* DecodeJoinMesh gives back what EncodeJoinMesh was given,
\* unless the payload ends in an empty string.
LEMMA JoinMeshReadBack ==
    ASSUME NEW m \in [nodeIdentity : Strings, meshName : Strings],
           m.meshName # E
    PROVE  Arrives(EncodeJoinMesh(m), DecodeJoinMesh(EncodeJoinMesh(m)), m)
<1> DEFINE T == << <<"nodeIdentity", "string">>, <<"meshName", "string">> >>
           Z == [nodeIdentity |-> E, meshName |-> E]
           r1 == [Z EXCEPT !["nodeIdentity"] = m.nodeIdentity]
           r2 == [r1 EXCEPT !["meshName"] = m.meshName]
           u1 == encodeString(1, m.nodeIdentity)
           u2 == u1 \o encodeString(2, m.meshName)
<1>1. m.nodeIdentity \in Strings /\ m.meshName \in Strings
  OBVIOUS
<1>2. r2 = m
  OBVIOUS
<1>3. Entry(T, 1, "nodeIdentity", "string") /\ Entry(T, 2, "meshName", "string")
  BY DEF Entry
<1>4. Sets(Z, "nodeIdentity", m.nodeIdentity, r1) /\ Sets(r1, "meshName", m.meshName, r2)
  BY DEF Sets
<1>5. Then(<<>>, encodeString(1, m.nodeIdentity), u1) /\ Then(u1, encodeString(2, m.meshName), u2)
  BY DEF Then
<1>6. EncodeJoinMesh(m) = u2 /\ DecodeJoinMesh(u2) = DecodeTagged(T, Z, u2)
  BY DEF EncodeJoinMesh, DecodeJoinMesh
<1> HIDE DEF T, Z, r1, r2, u1, u2
<1>7. GoesOn(T, Z, <<>>, Z)
  BY GoesFirst, GoesBoth
<1>8. GoesOn(T, Z, u1, r1)
  BY <1>1, <1>3, <1>4, <1>5, <1>7, StringStep
<1>9. Goes(T, Z, u2, r2)
  BY <1>1, <1>3, <1>4, <1>5, <1>8, StringStep
<1>10. Arrives(u2, DecodeTagged(T, Z, u2), r2)
  BY <1>9, WholeMessage
<1>11. QED
  BY <1>2, <1>6, <1>10

\* DecodeJoinMeshAck gives back what EncodeJoinMeshAck was given.
LEMMA JoinMeshAckReadBack ==
    ASSUME NEW m \in [success : BOOLEAN, message : Strings, assignedZone : Strings, memberCount : Ints(M32)]
    PROVE  Arrives(EncodeJoinMeshAck(m), DecodeJoinMeshAck(EncodeJoinMeshAck(m)), m)
<1> DEFINE T == << <<"success", "bool">>, <<"message", "string">>, <<"assignedZone", "string">>, <<"memberCount", "int32">> >>
           Z == [success |-> FALSE, message |-> E, assignedZone |-> E, memberCount |-> 0]
           r1 == [Z EXCEPT !["success"] = m.success]
           r2 == [r1 EXCEPT !["message"] = m.message]
           r3 == [r2 EXCEPT !["assignedZone"] = m.assignedZone]
           r4 == [r3 EXCEPT !["memberCount"] = m.memberCount]
           u1 == encodeBool(1, m.success)
           u2 == u1 \o encodeString(2, m.message)
           u3 == u2 \o Optional(m.assignedZone # <<>>, encodeString(3, m.assignedZone))
           u4 == u3 \o encodeInt32(4, m.memberCount)
<1>1. m.success \in BOOLEAN /\ m.message \in Strings /\ m.assignedZone \in Strings /\ m.memberCount \in Ints(M32)
  OBVIOUS
<1>2. r4 = m
  OBVIOUS
<1>a. Unset(r2, "assignedZone")
  BY DEF Unset
<1>3. Entry(T, 1, "success", "bool") /\ Entry(T, 2, "message", "string") /\ Entry(T, 3, "assignedZone", "string") /\ Entry(T, 4, "memberCount", "int32")
  BY DEF Entry
<1>4. Sets(Z, "success", m.success, r1) /\ Sets(r1, "message", m.message, r2) /\ Sets(r2, "assignedZone", m.assignedZone, r3) /\ Sets(r3, "memberCount", m.memberCount, r4)
  BY DEF Sets
<1>5. Then(<<>>, encodeBool(1, m.success), u1) /\ Then(u1, encodeString(2, m.message), u2) /\ ThenIfAny(u2, 3, m.assignedZone, u3) /\ Then(u3, encodeInt32(4, m.memberCount), u4)
  BY DEF Then, ThenIfAny
<1>6. EncodeJoinMeshAck(m) = u4 /\ DecodeJoinMeshAck(u4) = DecodeTagged(T, Z, u4)
  BY DEF EncodeJoinMeshAck, DecodeJoinMeshAck
<1> HIDE DEF T, Z, r1, r2, r3, r4, u1, u2, u3, u4
<1>7. GoesOn(T, Z, <<>>, Z)
  BY GoesFirst, GoesBoth
<1>8. GoesOn(T, Z, u1, r1)
  BY <1>1, <1>3, <1>4, <1>5, <1>7, BoolStep
<1>9. GoesOn(T, Z, u2, r2)
  BY <1>1, <1>3, <1>4, <1>5, <1>8, StringStep
<1>10. GoesOn(T, Z, u3, r3)
  BY <1>1, <1>a, <1>3, <1>4, <1>5, <1>9, OptionalStep
<1>11. Goes(T, Z, u4, r4)
  BY <1>1, <1>3, <1>4, <1>5, <1>10, Int32Step
<1>12. Arrives(u4, DecodeTagged(T, Z, u4), r4)
  BY <1>11, WholeMessage
<1>13. QED
  BY <1>2, <1>6, <1>12

\* DecodeCreateBridge gives back what EncodeCreateBridge was given,
\* unless the payload ends in an empty string.
LEMMA CreateBridgeReadBack ==
    ASSUME NEW m \in [targetAddress : Strings, nodeIdentity : Strings],
           m.nodeIdentity # E
    PROVE  Arrives(EncodeCreateBridge(m), DecodeCreateBridge(EncodeCreateBridge(m)), m)
<1> DEFINE T == << <<"targetAddress", "string">>, <<"nodeIdentity", "string">> >>
           Z == [targetAddress |-> E, nodeIdentity |-> E]
           r1 == [Z EXCEPT !["targetAddress"] = m.targetAddress]
           r2 == [r1 EXCEPT !["nodeIdentity"] = m.nodeIdentity]
           u1 == encodeString(1, m.targetAddress)
           u2 == u1 \o encodeString(2, m.nodeIdentity)
<1>1. m.targetAddress \in Strings /\ m.nodeIdentity \in Strings
  OBVIOUS
<1>2. r2 = m
  OBVIOUS
<1>3. Entry(T, 1, "targetAddress", "string") /\ Entry(T, 2, "nodeIdentity", "string")
  BY DEF Entry
<1>4. Sets(Z, "targetAddress", m.targetAddress, r1) /\ Sets(r1, "nodeIdentity", m.nodeIdentity, r2)
  BY DEF Sets
<1>5. Then(<<>>, encodeString(1, m.targetAddress), u1) /\ Then(u1, encodeString(2, m.nodeIdentity), u2)
  BY DEF Then
<1>6. EncodeCreateBridge(m) = u2 /\ DecodeCreateBridge(u2) = DecodeTagged(T, Z, u2)
  BY DEF EncodeCreateBridge, DecodeCreateBridge
<1> HIDE DEF T, Z, r1, r2, u1, u2
<1>7. GoesOn(T, Z, <<>>, Z)
  BY GoesFirst, GoesBoth
<1>8. GoesOn(T, Z, u1, r1)
  BY <1>1, <1>3, <1>4, <1>5, <1>7, StringStep
<1>9. Goes(T, Z, u2, r2)
  BY <1>1, <1>3, <1>4, <1>5, <1>8, StringStep
<1>10. Arrives(u2, DecodeTagged(T, Z, u2), r2)
  BY <1>9, WholeMessage
<1>11. QED
  BY <1>2, <1>6, <1>10

\* DecodeExtract gives back what EncodeExtract was given,
\* unless the payload ends in an empty string.
LEMMA ExtractReadBack ==
    ASSUME NEW m \in [path : Paths],
           m.path = <<>> \/ Last(m.path) # E
    PROVE  Arrives(EncodeExtract(m), DecodeExtract(EncodeExtract(m)), m)
<1> DEFINE T == << <<"path", "slice">> >>
           Z == [path |-> <<>>]
           r1 == [Z EXCEPT !["path"] = m.path]
           u1 == encodeStringSlice(1, m.path)
<1>1. m.path \in Paths
  OBVIOUS
<1>2. r1 = m
  OBVIOUS
<1>3. Entry(T, 1, "path", "slice")
  BY DEF Entry
<1>4. Sets(Z, "path", m.path, r1)
  BY DEF Sets
<1>5. Then(<<>>, encodeStringSlice(1, m.path), u1)
  BY DEF Then
<1>6. EncodeExtract(m) = u1 /\ DecodeExtract(u1) = DecodeTagged(T, Z, u1)
  BY DEF EncodeExtract, DecodeExtract
<1> HIDE DEF T, Z, r1, u1
<1>7. GoesOn(T, Z, <<>>, Z)
  BY GoesFirst, GoesBoth
<1>8. Goes(T, Z, u1, r1)
  BY <1>1, <1>3, <1>4, <1>5, <1>7, SliceStep
<1>9. Arrives(u1, DecodeTagged(T, Z, u1), r1)
  BY <1>8, WholeMessage
<1>10. QED
  BY <1>2, <1>6, <1>9

\* A message of one field.
LEMMA OneFieldReadBack ==
    ASSUME NEW type, NEW d \in Seq(Int), NEW v, Reads(type, d, v), NEW p, p = << 1 >> \o d
    PROVE  p \in Seq(Int) /\ decodeOne(type, p) = Read(v, 2 + Len(d))
<1> DEFINE a == <<1>>
<1>1. a \in Seq(Int) /\ Len(a) = 1 /\ a[1] = 1
  OBVIOUS
<1>2. p = a \o d
  OBVIOUS
<1> HIDE DEF a
<1>3. CellsAt(p, Len(a) + 1, d) /\ \A j \in 1..Len(a) : p[j] = a[j]
  BY <1>1, <1>2, CellsBehind
<1>4. 1 + 1 = 2 /\ 1 \in 1..1
  OBVIOUS
<1>5. CellsAt(p, 2, d) /\ p[1] = 1
  BY <1>1, <1>3, <1>4
<1>6. p \in Seq(Int) /\ Len(p) = 1 + Len(d) /\ Len(d) \in Nat
  BY <1>1, <1>2, Joined
<1>7. p # <<>>
  BY <1>6
<1>8. ReadField(type, p, 2) = Read(v, 2 + Len(d))
  BY <1>5 DEF Reads
<1>9. QED
  BY <1>5, <1>6, <1>7, <1>8 DEF decodeOne

\* DecodeRead and DecodeChildren give back the path unless its last name is empty.
LEMMA ReadReadBack ==
    ASSUME NEW m \in [path : Paths], m.path = <<>> \/ Last(m.path) # E
    PROVE  /\ Arrives(EncodeRead(m), DecodeRead(EncodeRead(m)), m)
           /\ Arrives(EncodeChildren(m), DecodeChildren(EncodeChildren(m)), m)
<1> DEFINE d == SliceCells(m.path)
           p == encodeStringSlice(1, m.path)
<1>1. m.path \in Seq(Strings) /\ m = [path |-> m.path]
  <2>1. m.path \in Paths /\ m = [path |-> m.path]
    OBVIOUS
  <2>2. QED
    BY <2>1, FieldAssumption
<1>2. d \in Seq(Int) /\ p = <<1>> \o d
  BY <1>1, SliceLaidOut
<1>3. Reads("slice", d, m.path)
  BY <1>1, SliceFields DEF E
<1> HIDE DEF d, p
<1>4. p \in Seq(Int) /\ decodeOne("slice", p) = Read(m.path, 2 + Len(d))
  BY <1>2, <1>3, OneFieldReadBack
<1>5. Named("path", decodeOne("slice", p)) = Read(m, 2 + Len(d))
  <2> DEFINE f == decodeOne("slice", p)
             v == m.path
             at == 2 + Len(d)
  <2>1. f = Read(v, at)
    BY <1>4
  <2> HIDE DEF f, v, at
  <2>2. Named("path", f) = Read([path |-> v], at)
    BY <2>1, NamedField
  <2>3. QED
    BY <1>1, <2>2 DEF f, v, at
<1>6. /\ EncodeRead(m) = p /\ DecodeRead(p) = Named("path", decodeOne("slice", p))
      /\ EncodeChildren(m) = p /\ DecodeChildren(p) = Named("path", decodeOne("slice", p))
  BY DEF EncodeRead, DecodeRead, EncodeChildren, DecodeChildren, p
<1>7. QED
  BY <1>4, <1>5, <1>6 DEF Arrives, Read

\* DecodeReadResponse and DecodeReadAtResponse give back every value with data.
LEMMA ReadResponseReadBack ==
    ASSUME NEW m \in [value : Values], m.value.data # E
    PROVE  /\ Arrives(EncodeReadResponse(m), DecodeReadResponse(EncodeReadResponse(m)), m)
           /\ Arrives(EncodeReadAtResponse(m), DecodeReadAtResponse(EncodeReadAtResponse(m)), m)
<1> DEFINE v == m.value
           d == ValueCells(v)
           p == encodeValue(1, v)
<1>1. v \in Values /\ m = [value |-> v]
  OBVIOUS
<1>a. v.data # E
  OBVIOUS
<1> HIDE DEF v
<1>2. d \in Seq(Int) /\ v.data \in Strings /\ Reads("value", d, v)
  BY <1>1, <1>a, ValueFields DEF E
<1>3. p = <<1>> \o d
  <2>1. \A tag \in Int : encodeValue(tag, v) = <<tag>> \o d
    BY <1>1, ValueLaidOut
  <2>2. 1 \in Int
    OBVIOUS
  <2>3. QED
    BY <2>1, <2>2
<1> HIDE DEF d, p
<1>4. p \in Seq(Int) /\ decodeOne("value", p) = Read(v, 2 + Len(d))
  BY <1>2, <1>3, OneFieldReadBack
<1>5. Named("value", decodeOne("value", p)) = Read(m, 2 + Len(d))
  <2> DEFINE f == decodeOne("value", p)
             at == 2 + Len(d)
  <2>1. f = Read(v, at)
    BY <1>4
  <2> HIDE DEF f, at
  <2>2. Named("value", f) = Read([value |-> v], at)
    BY <2>1, NamedField
  <2>3. QED
    BY <1>1, <2>2 DEF f, at
<1>6. /\ EncodeReadResponse(m) = p /\ DecodeReadResponse(p) = Named("value", decodeOne("value", p))
      /\ EncodeReadAtResponse(m) = p /\ DecodeReadAtResponse(p) = Named("value", decodeOne("value", p))
  BY DEF EncodeReadResponse, DecodeReadResponse, EncodeReadAtResponse, DecodeReadAtResponse, p, v
<1>7. QED
  BY <1>4, <1>5, <1>6 DEF Arrives, Read

\* DecodeChildrenResponse gives back every list of children.
LEMMA ChildrenResponseReadBack ==
    ASSUME NEW m \in [children : ChildLists]
    PROVE  Arrives(EncodeChildrenResponse(m), DecodeChildrenResponse(EncodeChildrenResponse(m)), m)
<1>1. m.children \in ChildLists /\ m = [children |-> m.children]
  OBVIOUS
<1>2. m.children \in Seq(Child)
  BY <1>1, FieldAssumption DEF Child
<1>3. /\ EncodeChildrenResponse(m) \in Seq(Int)
      /\ DecodeChildrenResponse(EncodeChildrenResponse(m)) = Read(m, Len(EncodeChildrenResponse(m)) + 1)
  BY <1>1, <1>2, ChildrenReadBack
<1>4. QED
  BY <1>3 DEF Arrives, Read

\* A MESH_STATUS has no fields.
LEMMA MeshStatusReadBack ==
    ASSUME NEW m \in [none : {E}]
    PROVE  Arrives(EncodeMeshStatus(m), DecodeMeshStatus(EncodeMeshStatus(m)), m)
<1> DEFINE Z == [none |-> E]
<1>1. m = Z
  OBVIOUS
<1>2. EncodeMeshStatus(m) = <<>> /\ DecodeMeshStatus(<<>>) = DecodeTagged(<<>>, Z, <<>>)
  BY DEF EncodeMeshStatus, DecodeMeshStatus
<1> HIDE DEF Z
<1>3. Goes(<<>>, Z, <<>>, Z)
  BY GoesFirst
<1>4. Arrives(<<>>, DecodeTagged(<<>>, Z, <<>>), Z)
  BY <1>3, WholeMessage
<1>5. QED
  BY <1>1, <1>2, <1>4

\* The error of a PURGE_ACK is skipped.
LEMMA SkippedString ==
    ASSUME NEW T, NEW Z, NEW u, NEW r, GoesOn(T, Z, u, r), NEW tag \in 1..16, tag \notin DOMAIN T,
           NEW s \in Strings, NEW u2, u2 = u \o encodeString(tag, s)
    PROVE  Goes(T, Z, u2, r)
<1> DEFINE d == String(s)
           n == Len(s)
<1>1. d \in Seq(Int) /\ Len(d) = n + 1 /\ n \in Nat /\ s \in Seq(Int) /\ tag \in Int
  BY StringCells
<1>2. u \in Seq(Int) /\ Len(u) \in Nat
  BY DEF GoesOn
<1>3. u2 = u \o (<<tag>> \o d)
  BY DEF encodeString
<1>4. d = <<n>> \o s
  BY DEF String
<1> HIDE DEF d, n
<1>5. ASSUME NEW w \in Seq(Int)
      PROVE  Reaches(T, Z, Around(u, tag, d, w), Read(r, Len(u) + 2 + Len(d)))
  <2> DEFINE p == Around(u, tag, d, w)
             i == Len(u) + 2
             f == skipField(p, i, tag)
  <2>1. LaidOut(p, u, tag, d, w)
    BY <1>1, <1>2, FieldCells
  <2> HIDE DEF p
  <2>2. p \in Seq(Int) /\ Len(p) = Len(u) + 1 + Len(d) + Len(w) /\ Len(w) \in Nat /\ Len(p) \in Nat
    BY <2>1 DEF LaidOut
  <2>3. \A j \in 1..Len(d) : p[Len(u) + 1 + j] = d[j]
    BY <2>1 DEF LaidOut
  <2>4. d[1] = n /\ 1 \in 1..Len(d)
    <3>1. 1 \in 1..Len(<<n>>) /\ <<n>>[1] = n /\ <<n>> \in Seq(Int)
      BY <1>1
    <3>2. (<<n>> \o s)[1] = <<n>>[1]
      BY <1>1, <3>1, Joined
    <3>3. QED
      BY <1>1, <1>4, <3>1, <3>2
  <2>5. p[i] = n
    <3>1. Len(u) + 1 + 1 = i
      BY <1>2
    <3>2. QED
      BY <2>3, <2>4, <3>1
  <2>6. i \in Nat /\ i <= Len(p) /\ ~ (n > Len(p) - i) /\ (i + 1) + n = Len(u) + 2 + Len(d)
    BY <1>1, <1>2, <2>2
  <2>7. ReadCell(p, i) = Read(n, i + 1)
    BY <2>5, <2>6 DEF ReadCell
  <2> HIDE DEF i
  <2>8. f = Read(tag, (i + 1) + n)
    <3>1. (ReadCell(p, i)).ok = TRUE /\ (ReadCell(p, i)).v = n /\ (ReadCell(p, i)).at = i + 1
      BY <2>7 DEF Read
    <3>2. QED
      BY <2>6, <3>1 DEF skipField
  <2> HIDE DEF f
  <2>9. f.ok /\ f.at = Len(u) + 2 + Len(d)
    BY <2>6, <2>8 DEF Read
  <2>10. /\ f = IF tag \in DOMAIN T THEN ReadField(T[tag][2], p, Len(u) + 2) ELSE skipField(p, Len(u) + 2, tag)
         /\ r = IF tag \in DOMAIN T THEN [r EXCEPT ![T[tag][1]] = f.v] ELSE r
    BY DEF f, i
  <2>11. p = Around(u, tag, d, w)
    BY DEF p
  <2>12. Reaches(T, Z, p, Read(r, Len(u) + 2 + Len(d)))
    BY <1>1, <2>9, <2>10, <2>11, FieldTaken
  <2>13. QED
    BY <2>11, <2>12
<1>6. QED
  BY <1>1, <1>2, <1>3, <1>5, FieldEnds

\* DecodePurgeAck gives back whether the purge succeeded, without the error.
LEMMA PurgeAckReadBack ==
    ASSUME NEW m \in [success : BOOLEAN, error : Strings]
    PROVE  Arrives(EncodePurgeAck(m), DecodePurgeAck(EncodePurgeAck(m)), [m EXCEPT !.error = E])
<1> DEFINE T == << <<"success", "bool">> >>
           Z == [success |-> FALSE, error |-> E]
           r1 == [Z EXCEPT !["success"] = m.success]
           u1 == encodeBool(1, m.success)
           u2 == u1 \o Optional(m.error # <<>>, encodeString(2, m.error))
<1>1. m.success \in BOOLEAN /\ m.error \in Strings
  OBVIOUS
<1>2. r1 = [m EXCEPT !.error = E]
  OBVIOUS
<1>3. Entry(T, 1, "success", "bool") /\ 2 \notin DOMAIN T /\ 2 \in 1..16
  BY DEF Entry
<1>4. Sets(Z, "success", m.success, r1)
  BY DEF Sets
<1>5. Then(<<>>, encodeBool(1, m.success), u1) /\ ThenIfAny(u1, 2, m.error, u2)
  BY DEF Then, ThenIfAny
<1>6. EncodePurgeAck(m) = u2 /\ DecodePurgeAck(u2) = DecodeTagged(T, Z, u2)
  BY DEF EncodePurgeAck, DecodePurgeAck
<1> HIDE DEF T, Z, r1, u1, u2
<1>7. GoesOn(T, Z, <<>>, Z)
  BY GoesFirst, GoesBoth
<1>8. Goes(T, Z, u1, r1) /\ GoesOn(T, Z, u1, r1)
  BY <1>1, <1>3, <1>4, <1>5, <1>7, BoolStep
<1>9. Goes(T, Z, u2, r1)
  <2>1. CASE m.error = E
    <3>1. u1 \in Seq(Int) /\ u1 \o <<>> = u1
      BY <1>8 DEF Goes
    <3>2. u2 = u1
      BY <1>5, <2>1, <3>1 DEF ThenIfAny, Optional, E
    <3>3. QED
      BY <1>8, <3>2
  <2>2. CASE m.error # E
    <3>1. u2 = u1 \o encodeString(2, m.error)
      BY <1>5, <2>2 DEF ThenIfAny, Optional, E
    <3>2. QED
      BY <1>1, <1>3, <1>8, <3>1, SkippedString
  <2>3. QED
    BY <2>1, <2>2
<1>10. Arrives(u2, DecodeTagged(T, Z, u2), r1)
  BY <1>9, WholeMessage
<1>11. QED
  BY <1>2, <1>6, <1>10

\* DecodeMeshStatusResponse gives back what EncodeMeshStatusResponse was given.
LEMMA MeshStatusResponseReadBack ==
    ASSUME NEW m \in [meshName : Strings, status : Strings, isFounder : BOOLEAN,
                      nodeIdentity : Strings, memberCount : Ints(M32), zoneCount : Ints(M32),
                      foundedAt : {<<>>} \cup { <<t>> : t \in Ints(M64) }]
    PROVE  Arrives(EncodeMeshStatusResponse(m), DecodeMeshStatusResponse(EncodeMeshStatusResponse(m)), m)
<1> DEFINE T == << <<"meshName", "string">>, <<"status", "string">>, <<"isFounder", "bool">>,
                   <<"nodeIdentity", "string">>, <<"memberCount", "int32">>, <<"zoneCount", "int32">>,
                   <<"foundedAt", "pointer">> >>
           Z == [meshName |-> E, status |-> E, isFounder |-> FALSE, nodeIdentity |-> E,
                 memberCount |-> 0, zoneCount |-> 0, foundedAt |-> <<>>]
           r1 == [Z EXCEPT !["meshName"] = m.meshName]
           r2 == [r1 EXCEPT !["status"] = m.status]
           r3 == [r2 EXCEPT !["isFounder"] = m.isFounder]
           r4 == [r3 EXCEPT !["nodeIdentity"] = m.nodeIdentity]
           r5 == [r4 EXCEPT !["memberCount"] = m.memberCount]
           r6 == [r5 EXCEPT !["zoneCount"] = m.zoneCount]
           r7 == [r6 EXCEPT !["foundedAt"] = m.foundedAt]
           u1 == encodeString(1, m.meshName)
           u2 == u1 \o encodeString(2, m.status)
           u3 == u2 \o encodeBool(3, m.isFounder)
           u4 == u3 \o encodeString(4, m.nodeIdentity)
           u5 == u4 \o encodeInt32(5, m.memberCount)
           u6 == u5 \o encodeInt32(6, m.zoneCount)
           u7 == u6 \o Optional(m.foundedAt # <<>>, encodeInt64(7, m.foundedAt[1]))
<1>1. /\ m.meshName \in Strings /\ m.status \in Strings /\ m.isFounder \in BOOLEAN /\ m.nodeIdentity \in Strings
      /\ m.memberCount \in Ints(M32) /\ m.zoneCount \in Ints(M32)
      /\ m.foundedAt \in {<<>>} \cup { <<t>> : t \in Ints(M64) }
  OBVIOUS
<1>2. r7 = m
  OBVIOUS
<1>a. m.foundedAt = <<>> => r6 = m
  OBVIOUS
<1>3. /\ Entry(T, 1, "meshName", "string") /\ Entry(T, 2, "status", "string") /\ Entry(T, 3, "isFounder", "bool")
      /\ Entry(T, 4, "nodeIdentity", "string") /\ Entry(T, 5, "memberCount", "int32")
      /\ Entry(T, 6, "zoneCount", "int32") /\ Entry(T, 7, "foundedAt", "pointer")
  BY DEF Entry
<1>4. /\ Sets(Z, "meshName", m.meshName, r1) /\ Sets(r1, "status", m.status, r2)
      /\ Sets(r2, "isFounder", m.isFounder, r3) /\ Sets(r3, "nodeIdentity", m.nodeIdentity, r4)
      /\ Sets(r4, "memberCount", m.memberCount, r5) /\ Sets(r5, "zoneCount", m.zoneCount, r6)
      /\ Sets(r6, "foundedAt", m.foundedAt, r7)
  BY DEF Sets
<1>5. /\ Then(<<>>, encodeString(1, m.meshName), u1) /\ Then(u1, encodeString(2, m.status), u2)
      /\ Then(u2, encodeBool(3, m.isFounder), u3) /\ Then(u3, encodeString(4, m.nodeIdentity), u4)
      /\ Then(u4, encodeInt32(5, m.memberCount), u5) /\ Then(u5, encodeInt32(6, m.zoneCount), u6)
  BY DEF Then
<1>b. u7 = u6 \o Optional(m.foundedAt # <<>>, encodeInt64(7, m.foundedAt[1]))
  OBVIOUS
<1>6. /\ EncodeMeshStatusResponse(m) = u7
      /\ DecodeMeshStatusResponse(u7) = DecodeTagged(T, Z, u7)
  BY DEF EncodeMeshStatusResponse, DecodeMeshStatusResponse
<1> HIDE DEF T, Z, r1, r2, r3, r4, r5, r6, r7, u1, u2, u3, u4, u5, u6, u7
<1>7. GoesOn(T, Z, <<>>, Z)
  BY GoesFirst, GoesBoth
<1>8. GoesOn(T, Z, u1, r1)
  BY <1>1, <1>3, <1>4, <1>5, <1>7, StringStep
<1>9. GoesOn(T, Z, u2, r2)
  BY <1>1, <1>3, <1>4, <1>5, <1>8, StringStep
<1>10. GoesOn(T, Z, u3, r3)
  BY <1>1, <1>3, <1>4, <1>5, <1>9, BoolStep
<1>11. GoesOn(T, Z, u4, r4)
  BY <1>1, <1>3, <1>4, <1>5, <1>10, StringStep
<1>12. GoesOn(T, Z, u5, r5)
  BY <1>1, <1>3, <1>4, <1>5, <1>11, Int32Step
<1>13. Goes(T, Z, u6, r6) /\ GoesOn(T, Z, u6, r6)
  BY <1>1, <1>3, <1>4, <1>5, <1>12, Int32Step
<1>14. Goes(T, Z, u7, m)
  <2>1. CASE m.foundedAt = <<>>
    <3>1. u6 \in Seq(Int) /\ u6 \o <<>> = u6
      BY <1>13 DEF Goes
    <3>2. u7 = u6
      BY <1>b, <2>1, <3>1 DEF Optional
    <3>3. QED
      BY <1>13, <1>a, <2>1, <3>2
  <2>2. CASE m.foundedAt # <<>>
    <3>1. PICK t \in Ints(M64) : m.foundedAt = <<t>>
      BY <1>1, <2>2
    <3>2. m.foundedAt[1] = t
      BY <3>1
    <3>3. Then(u6, encodeInt64(7, t), u7)
      BY <1>b, <2>2, <3>2 DEF Optional, Then
    <3>4. Sets(r6, "foundedAt", <<t>>, r7)
      BY <1>4, <3>1
    <3>5. Goes(T, Z, u7, r7)
      BY <1>3, <1>13, <3>3, <3>4, PointerStep
    <3>6. QED
      BY <1>2, <3>5
  <2>3. QED
    BY <2>1, <2>2
<1>15. Arrives(u7, DecodeTagged(T, Z, u7), m)
  BY <1>14, WholeMessage
<1>16. QED
  BY <1>6, <1>15

\* DecodeCreateBridgeAck gives back what EncodeCreateBridgeAck was given; the
\* message comes last if the three optional strings are empty.
LEMMA CreateBridgeAckReadBack ==
    ASSUME NEW m \in [success : BOOLEAN, message : Strings, targetMeshName : Strings,
                      bridgeIdentity : Strings, bridgeStatus : Strings],
           m.message # E \/ m.targetMeshName # E \/ m.bridgeIdentity # E \/ m.bridgeStatus # E
    PROVE  Arrives(EncodeCreateBridgeAck(m), DecodeCreateBridgeAck(EncodeCreateBridgeAck(m)), m)
<1> DEFINE T == << <<"success", "bool">>, <<"message", "string">>, <<"targetMeshName", "string">>,
                   <<"bridgeIdentity", "string">>, <<"bridgeStatus", "string">> >>
           Z == [success |-> FALSE, message |-> E, targetMeshName |-> E, bridgeIdentity |-> E, bridgeStatus |-> E]
           r1 == [Z EXCEPT !["success"] = m.success]
           r2 == [r1 EXCEPT !["message"] = m.message]
           r3 == [r2 EXCEPT !["targetMeshName"] = m.targetMeshName]
           r4 == [r3 EXCEPT !["bridgeIdentity"] = m.bridgeIdentity]
           r5 == [r4 EXCEPT !["bridgeStatus"] = m.bridgeStatus]
           u1 == encodeBool(1, m.success)
           u2 == u1 \o encodeString(2, m.message)
           u3 == u2 \o Optional(m.targetMeshName # <<>>, encodeString(3, m.targetMeshName))
           u4 == u3 \o Optional(m.bridgeIdentity # <<>>, encodeString(4, m.bridgeIdentity))
           u5 == u4 \o Optional(m.bridgeStatus # <<>>, encodeString(5, m.bridgeStatus))
<1>1. /\ m.success \in BOOLEAN /\ m.message \in Strings /\ m.targetMeshName \in Strings
      /\ m.bridgeIdentity \in Strings /\ m.bridgeStatus \in Strings
  OBVIOUS
<1>2. r5 = m
  OBVIOUS
<1>a. Unset(r2, "targetMeshName") /\ Unset(r3, "bridgeIdentity") /\ Unset(r4, "bridgeStatus")
  BY DEF Unset
<1>3. /\ Entry(T, 1, "success", "bool") /\ Entry(T, 2, "message", "string") /\ Entry(T, 3, "targetMeshName", "string")
      /\ Entry(T, 4, "bridgeIdentity", "string") /\ Entry(T, 5, "bridgeStatus", "string")
  BY DEF Entry
<1>4. /\ Sets(Z, "success", m.success, r1) /\ Sets(r1, "message", m.message, r2)
      /\ Sets(r2, "targetMeshName", m.targetMeshName, r3) /\ Sets(r3, "bridgeIdentity", m.bridgeIdentity, r4)
      /\ Sets(r4, "bridgeStatus", m.bridgeStatus, r5)
  BY DEF Sets
<1>5. /\ Then(<<>>, encodeBool(1, m.success), u1) /\ Then(u1, encodeString(2, m.message), u2)
      /\ ThenIfAny(u2, 3, m.targetMeshName, u3) /\ ThenIfAny(u3, 4, m.bridgeIdentity, u4)
      /\ ThenIfAny(u4, 5, m.bridgeStatus, u5)
  BY DEF Then, ThenIfAny
<1>6. EncodeCreateBridgeAck(m) = u5 /\ DecodeCreateBridgeAck(u5) = DecodeTagged(T, Z, u5)
  BY DEF EncodeCreateBridgeAck, DecodeCreateBridgeAck
<1> HIDE DEF T, Z, r1, r2, r3, r4, r5, u1, u2, u3, u4, u5
<1>7. GoesOn(T, Z, <<>>, Z)
  BY GoesFirst, GoesBoth
<1>8. GoesOn(T, Z, u1, r1)
  BY <1>1, <1>3, <1>4, <1>5, <1>7, BoolStep
<1>9. GoesOn(T, Z, u2, r2) /\ (m.message # E => Goes(T, Z, u2, r2))
  BY <1>1, <1>3, <1>4, <1>5, <1>8, StringStep
<1>10. GoesOn(T, Z, u3, r3) /\ (Goes(T, Z, u2, r2) \/ m.targetMeshName # E => Goes(T, Z, u3, r3))
  BY <1>1, <1>3, <1>4, <1>5, <1>9, <1>a, OptionalStep
<1>11. GoesOn(T, Z, u4, r4) /\ (Goes(T, Z, u3, r3) \/ m.bridgeIdentity # E => Goes(T, Z, u4, r4))
  BY <1>1, <1>3, <1>4, <1>5, <1>10, <1>a, OptionalStep
<1>12. Goes(T, Z, u4, r4) \/ m.bridgeStatus # E => Goes(T, Z, u5, r5)
  BY <1>1, <1>3, <1>4, <1>5, <1>11, <1>a, OptionalStep
<1>13. Goes(T, Z, u5, r5)
  BY <1>9, <1>10, <1>11, <1>12
<1>14. Arrives(u5, DecodeTagged(T, Z, u5), r5)
  BY <1>13, WholeMessage
<1>15. QED
  BY <1>2, <1>6, <1>14

\* DecodeExtractResponse gives back what EncodeExtractResponse was given,
\* unless the payload ends in an empty string.
LEMMA ExtractResponseReadBack ==
    ASSUME NEW m \in [success : {TRUE}, script : Strings, error : {E}]
                       \cup [success : {FALSE}, script : {E}, error : Strings],
           (IF m.success THEN m.script ELSE m.error) # E
    PROVE  Arrives(EncodeExtractResponse(m), DecodeExtractResponse(EncodeExtractResponse(m)), m)
<1> DEFINE T == << <<"success", "bool">>, <<"script", "string">>, <<"error", "string">> >>
           Z == [success |-> FALSE, script |-> E, error |-> E]
           r1 == [Z EXCEPT !["success"] = m.success]
           r2 == [r1 EXCEPT !["script"] = m.script]
           r3 == [r1 EXCEPT !["error"] = m.error]
           u1 == encodeBool(1, m.success)
           u2 == u1 \o (IF m.success THEN encodeString(2, m.script) ELSE encodeString(3, m.error))
<1>1. m.success \in BOOLEAN
  OBVIOUS
<1>2. /\ m.success => r2 = m /\ m.script \in Strings /\ m.script # E
      /\ ~m.success => r3 = m /\ m.error \in Strings /\ m.error # E
  <2>1. CASE m \in [success : {TRUE}, script : Strings, error : {E}]
    BY <2>1
  <2>2. CASE m \in [success : {FALSE}, script : {E}, error : Strings]
    BY <2>2
  <2>3. QED
    BY <2>1, <2>2
<1>3. Entry(T, 1, "success", "bool") /\ Entry(T, 2, "script", "string") /\ Entry(T, 3, "error", "string")
  BY DEF Entry
<1>4. Sets(Z, "success", m.success, r1) /\ Sets(r1, "script", m.script, r2) /\ Sets(r1, "error", m.error, r3)
  BY DEF Sets
<1>5. /\ Then(<<>>, encodeBool(1, m.success), u1)
      /\ m.success => Then(u1, encodeString(2, m.script), u2)
      /\ ~m.success => Then(u1, encodeString(3, m.error), u2)
  BY DEF Then
<1>6. EncodeExtractResponse(m) = u2 /\ DecodeExtractResponse(u2) = DecodeTagged(T, Z, u2)
  BY DEF EncodeExtractResponse, DecodeExtractResponse
<1> HIDE DEF T, Z, r1, r2, r3, u1, u2
<1>7. GoesOn(T, Z, <<>>, Z)
  BY GoesFirst, GoesBoth
<1>8. GoesOn(T, Z, u1, r1)
  BY <1>1, <1>3, <1>4, <1>5, <1>7, BoolStep
<1>9. Goes(T, Z, u2, m)
  <2>1. CASE m.success
    <3>1. m.script \in Strings /\ m.script # E /\ Then(u1, encodeString(2, m.script), u2) /\ r2 = m
      BY <1>2, <1>5, <2>1
    <3>2. QED
      BY <1>3, <1>4, <1>8, <3>1, StringStep
  <2>2. CASE ~m.success
    <3>1. m.error \in Strings /\ m.error # E /\ Then(u1, encodeString(3, m.error), u2) /\ r3 = m
      BY <1>2, <1>5, <2>2
    <3>2. QED
      BY <1>3, <1>4, <1>8, <3>1, StringStep
  <2>3. QED
    BY <2>1, <2>2
<1>10. Arrives(u2, DecodeTagged(T, Z, u2), m)
  BY <1>9, WholeMessage
<1>11. QED
  BY <1>6, <1>10

\* DecodeExecuteResponse gives back what EncodeExecuteResponse was given,
\* unless the payload ends in an empty string.
LEMMA ExecuteResponseReadBack ==
    ASSUME NEW m \in [success : {TRUE}, result : Values, error : {E}]
                       \cup [success : {FALSE}, result : {V}, error : Strings],
           m.success /\ m.result # V => m.result.data # E
    PROVE  Arrives(EncodeExecuteResponse(m), DecodeExecuteResponse(EncodeExecuteResponse(m)), m)
<1> DEFINE T == << <<"success", "bool">>, <<"result", "value">>, <<"error", "string">> >>
           Z == [success |-> FALSE, result |-> V, error |-> E]
           r1 == [Z EXCEPT !["success"] = m.success]
           r2 == [r1 EXCEPT !["result"] = m.result]
           r3 == [r1 EXCEPT !["error"] = m.error]
           u1 == encodeBool(1, m.success)
           u2 == u1 \o Optional(m.success /\ (m.result.data # <<>> \/ m.result.typeTag # 0), encodeValue(2, m.result))
           u3 == u2 \o Optional(~m.success /\ m.error # <<>>, encodeString(3, m.error))
<1>1. m.success \in BOOLEAN
  OBVIOUS
<1>2. /\ m.success => r2 = m /\ m.result \in Values /\ m.error = E
      /\ ~m.success => r3 = m /\ m.error \in Strings /\ m.result = V
      /\ m.result = V /\ m.error = E => r1 = m
  <2>1. r1 = [success |-> m.success, result |-> V, error |-> E]
    OBVIOUS
  <2>2. /\ m = [success |-> m.success, result |-> m.result, error |-> m.error]
        /\ m.success => m.result \in Values /\ m.error = E
        /\ ~m.success => m.error \in Strings /\ m.result = V
    <3>1. CASE m \in [success : {TRUE}, result : Values, error : {E}]
      BY <3>1
    <3>2. CASE m \in [success : {FALSE}, result : {V}, error : Strings]
      BY <3>2
    <3>3. QED
      BY <3>1, <3>2
  <2>3. m.result = V /\ m.error = E => r1 = m
    <3> HIDE DEF r1
    <3>1. QED
      BY <2>1, <2>2
  <2>4. m.success => r2 = m
    <3>1. r2 = [success |-> m.success, result |-> m.result, error |-> E]
      OBVIOUS
    <3> HIDE DEF r2, r1
    <3>2. QED
      BY <2>2, <3>1
  <2>5. ~m.success => r3 = m
    <3>1. r3 = [success |-> m.success, result |-> V, error |-> m.error]
      OBVIOUS
    <3> HIDE DEF r3, r1
    <3>2. QED
      BY <2>2, <3>1
  <2>6. QED
    BY <2>2, <2>3, <2>4, <2>5
<1>3. Entry(T, 1, "success", "bool") /\ Entry(T, 2, "result", "value") /\ Entry(T, 3, "error", "string")
  BY DEF Entry
<1>4. Sets(Z, "success", m.success, r1) /\ Sets(r1, "result", m.result, r2) /\ Sets(r1, "error", m.error, r3)
  BY DEF Sets
<1>5. Then(<<>>, encodeBool(1, m.success), u1)
  BY DEF Then
<1>6. EncodeExecuteResponse(m) = u3 /\ DecodeExecuteResponse(u3) = DecodeTagged(T, Z, u3)
  BY DEF EncodeExecuteResponse, DecodeExecuteResponse
<1>a. /\ m.success /\ (m.result.data # <<>> \/ m.result.typeTag # 0) => u2 = u1 \o encodeValue(2, m.result)
      /\ ~ (m.success /\ (m.result.data # <<>> \/ m.result.typeTag # 0)) => u2 = u1 \o <<>>
      /\ ~m.success /\ m.error # <<>> => u3 = u2 \o encodeString(3, m.error)
      /\ ~ (~m.success /\ m.error # <<>>) => u3 = u2 \o <<>>
  BY DEF Optional
<1> HIDE DEF T, Z, r1, r2, r3, u1, u2, u3
<1>7. GoesOn(T, Z, <<>>, Z)
  BY GoesFirst, GoesBoth
<1>8. Goes(T, Z, u1, r1) /\ GoesOn(T, Z, u1, r1)
  BY <1>1, <1>3, <1>4, <1>5, <1>7, BoolStep
<1>b. u1 \o <<>> = u1
  <2>1. u1 \in Seq(Int)
    BY <1>8 DEF Goes
  <2>2. QED
    BY <2>1
<1>9. Goes(T, Z, u3, m)
  <2>1. CASE m.success /\ m.result = V
    <3>1. m.result.data = <<>> /\ m.result.typeTag = 0
      BY <2>1 DEF V
    <3>2. u2 = u1 /\ u3 = u1
      BY <1>a, <1>b, <2>1, <3>1
    <3>3. r1 = m
      BY <1>2, <2>1
    <3>4. QED
      BY <1>8, <3>2, <3>3
  <2>2. CASE m.success /\ m.result # V
    <3>1. m.result \in Values /\ m.result.data # E /\ r2 = m
      BY <1>2, <2>2
    <3>2. u2 = u1 \o encodeValue(2, m.result)
      BY <1>a, <2>2, <3>1 DEF E
    <3>3. Then(u1, encodeValue(2, m.result), u2)
      BY <3>2 DEF Then
    <3>4. Goes(T, Z, u2, m)
      BY <1>3, <1>4, <1>8, <3>1, <3>3, ValueStep
    <3>5. u2 \in Seq(Int)
      BY <3>4 DEF Goes
    <3>6. u3 = u2
      BY <1>a, <2>2, <3>5
    <3>7. QED
      BY <3>4, <3>6
  <2>3. CASE ~m.success /\ m.error = E
    <3>1. u2 = u1 /\ u3 = u1
      BY <1>a, <1>b, <2>3 DEF E
    <3>2. r1 = m
      BY <1>2, <2>3
    <3>3. QED
      BY <1>8, <3>1, <3>2
  <2>4. CASE ~m.success /\ m.error # E
    <3>1. m.error \in Strings /\ r3 = m
      BY <1>2, <2>4
    <3>2. u2 = u1 /\ u3 = u1 \o encodeString(3, m.error)
      BY <1>a, <1>b, <2>4 DEF E
    <3>3. Then(u1, encodeString(3, m.error), u3)
      BY <3>2 DEF Then
    <3>4. QED
      BY <1>3, <1>4, <1>8, <2>4, <3>1, <3>3, StringStep
  <2>5. QED
    BY <2>1, <2>2, <2>3, <2>4
<1>10. Arrives(u3, DecodeTagged(T, Z, u3), m)
  BY <1>9, WholeMessage
<1>11. QED
  BY <1>6, <1>10

\* Every decoder gives back what its encoder was given, the error of a PURGE_ACK
\* excepted, unless the payload ends in an empty string.
LEMMA EveryMessage ==
    ASSUME NEW k \in Kinds, NEW m \in Messages(k), E \notin LastString(k, m)
    PROVE  Arrives(Encoded(k, m), Decoded(k, Encoded(k, m)), Kept(k, m))
<1>1. CASE k = "READ"
  <2>1. m \in [path : Paths]
    BY <1>1 DEF Messages
  <2>2. Encoded(k, m) = EncodeRead(m) /\ (\A p : Decoded(k, p) = DecodeRead(p)) /\ Kept(k, m) = m
    BY <1>1 DEF Encoded, Decoded, Kept
  <2>3. m.path = <<>> \/ Last(m.path) # E
    BY <1>1 DEF LastString
  <2>4. QED
    BY <2>1, <2>2, <2>3, ReadReadBack
<1>2. CASE k = "CHILDREN"
  <2>1. m \in [path : Paths]
    BY <1>2 DEF Messages
  <2>2. Encoded(k, m) = EncodeChildren(m) /\ (\A p : Decoded(k, p) = DecodeChildren(p)) /\ Kept(k, m) = m
    BY <1>2 DEF Encoded, Decoded, Kept
  <2>3. m.path = <<>> \/ Last(m.path) # E
    BY <1>2 DEF LastString
  <2>4. QED
    BY <2>1, <2>2, <2>3, ReadReadBack
<1>3. CASE k = "EXTRACT"
  <2>1. m \in [path : Paths]
    BY <1>3 DEF Messages
  <2>2. Encoded(k, m) = EncodeExtract(m) /\ (\A p : Decoded(k, p) = DecodeExtract(p)) /\ Kept(k, m) = m
    BY <1>3 DEF Encoded, Decoded, Kept
  <2>3. m.path = <<>> \/ Last(m.path) # E
    BY <1>3 DEF LastString
  <2>4. QED
    BY <2>1, <2>2, <2>3, ExtractReadBack
<1>4. CASE k = "READ_RESPONSE"
  <2>1. m \in [value : Values]
    BY <1>4 DEF Messages
  <2>2. Encoded(k, m) = EncodeReadResponse(m) /\ (\A p : Decoded(k, p) = DecodeReadResponse(p)) /\ Kept(k, m) = m
    BY <1>4 DEF Encoded, Decoded, Kept
  <2>3. m.value.data # E
    BY <1>4 DEF LastString
  <2>4. QED
    BY <2>1, <2>2, <2>3, ReadResponseReadBack
<1>5. CASE k = "READ_AT_RESPONSE"
  <2>1. m \in [value : Values]
    BY <1>5 DEF Messages
  <2>2. Encoded(k, m) = EncodeReadAtResponse(m) /\ (\A p : Decoded(k, p) = DecodeReadAtResponse(p)) /\ Kept(k, m) = m
    BY <1>5 DEF Encoded, Decoded, Kept
  <2>3. m.value.data # E
    BY <1>5 DEF LastString
  <2>4. QED
    BY <2>1, <2>2, <2>3, ReadResponseReadBack
<1>6. CASE k = "READ_AT"
  <2>1. m \in [path : Paths, timestamp : Ints(M64)]
    BY <1>6 DEF Messages
  <2>2. Encoded(k, m) = EncodeReadAt(m) /\ (\A p : Decoded(k, p) = DecodeReadAt(p)) /\ Kept(k, m) = m
    BY <1>6 DEF Encoded, Decoded, Kept
  <2>3. QED
    BY <2>1, <2>2, ReadAtReadBack
<1>7. CASE k = "CHILDREN_RESPONSE"
  <2>1. m \in [children : ChildLists]
    BY <1>7 DEF Messages
  <2>2. Encoded(k, m) = EncodeChildrenResponse(m) /\ (\A p : Decoded(k, p) = DecodeChildrenResponse(p)) /\ Kept(k, m) = m
    BY <1>7 DEF Encoded, Decoded, Kept
  <2>3. QED
    BY <2>1, <2>2, ChildrenResponseReadBack
<1>8. CASE k = "WRITE"
  <2>1. m \in [path : Paths, value : Values, author : Words]
    BY <1>8 DEF Messages
  <2>2. Encoded(k, m) = EncodeWrite(m) /\ (\A p : Decoded(k, p) = DecodeWrite(p)) /\ Kept(k, m) = m
    BY <1>8 DEF Encoded, Decoded, Kept
  <2>3. QED
    BY <2>1, <2>2, WriteReadBack
<1>9. CASE k = "WRITE_ACK"
  <2>1. m \in [success : BOOLEAN, error : Strings]
    BY <1>9 DEF Messages
  <2>2. Encoded(k, m) = EncodeWriteAck(m) /\ (\A p : Decoded(k, p) = DecodeWriteAck(p)) /\ Kept(k, m) = m
    BY <1>9 DEF Encoded, Decoded, Kept
  <2>3. QED
    BY <2>1, <2>2, WriteAckReadBack
<1>10. CASE k = "PURGE_ACK"
  <2>1. m \in [success : BOOLEAN, error : Strings]
    BY <1>10 DEF Messages
  <2>2. Encoded(k, m) = EncodePurgeAck(m) /\ (\A p : Decoded(k, p) = DecodePurgeAck(p)) /\ Kept(k, m) = [m EXCEPT !.error = E]
    BY <1>10 DEF Encoded, Decoded, Kept
  <2>3. QED
    BY <2>1, <2>2, PurgeAckReadBack
<1>11. CASE k = "STOP_ACK"
  <2>1. m \in [success : BOOLEAN, error : Strings]
    BY <1>11 DEF Messages
  <2>2. Encoded(k, m) = EncodeStopAck(m) /\ (\A p : Decoded(k, p) = DecodeStopAck(p)) /\ Kept(k, m) = m
    BY <1>11 DEF Encoded, Decoded, Kept
  <2>3. QED
    BY <2>1, <2>2, StopAckReadBack
<1>12. CASE k = "PURGE"
  <2>1. m \in [path : Paths, from : Ints(M64), to : Ints(M64), author : Words]
    BY <1>12 DEF Messages
  <2>2. Encoded(k, m) = EncodePurge(m) /\ (\A p : Decoded(k, p) = DecodePurge(p)) /\ Kept(k, m) = m
    BY <1>12 DEF Encoded, Decoded, Kept
  <2>3. QED
    BY <2>1, <2>2, PurgeReadBack
<1>13. CASE k = "STATUS_RESPONSE"
  <2>1. m \in [uptime : Ints(M64), nodeIdentity : Strings, localSocket : Strings, networkPort : Ints(M32), connections : Ints(M32), dataSize : Ints(M64)]
    BY <1>13 DEF Messages
  <2>2. Encoded(k, m) = EncodeStatusResponse(m) /\ (\A p : Decoded(k, p) = DecodeStatusResponse(p)) /\ Kept(k, m) = m
    BY <1>13 DEF Encoded, Decoded, Kept
  <2>3. QED
    BY <2>1, <2>2, StatusResponseReadBack
<1>14. CASE k = "WHOAMI_RESPONSE"
  <2>1. m \in [agentID : Words, identity : Strings]
    BY <1>14 DEF Messages
  <2>2. Encoded(k, m) = EncodeWhoAmIResponse(m) /\ (\A p : Decoded(k, p) = DecodeWhoAmIResponse(p)) /\ Kept(k, m) = m
    BY <1>14 DEF Encoded, Decoded, Kept
  <2>3. m.identity # E
    BY <1>14 DEF LastString
  <2>4. QED
    BY <2>1, <2>2, <2>3, WhoAmIResponseReadBack
<1>15. CASE k = "AUTH_INIT"
  <2>1. m \in [identity : Strings]
    BY <1>15 DEF Messages
  <2>2. Encoded(k, m) = EncodeAuthInit(m) /\ (\A p : Decoded(k, p) = DecodeAuthInit(p)) /\ Kept(k, m) = m
    BY <1>15 DEF Encoded, Decoded, Kept
  <2>3. m.identity # E
    BY <1>15 DEF LastString
  <2>4. QED
    BY <2>1, <2>2, <2>3, AuthInitReadBack
<1>16. CASE k = "AUTH_CHALLENGE"
  <2>1. m \in [challenge : Strings]
    BY <1>16 DEF Messages
  <2>2. Encoded(k, m) = EncodeAuthChallenge(m) /\ (\A p : Decoded(k, p) = DecodeAuthChallenge(p)) /\ Kept(k, m) = m
    BY <1>16 DEF Encoded, Decoded, Kept
  <2>3. m.challenge # E
    BY <1>16 DEF LastString
  <2>4. QED
    BY <2>1, <2>2, <2>3, AuthChallengeReadBack
<1>17. CASE k = "AUTH_RESPONSE"
  <2>1. m \in [response : Strings]
    BY <1>17 DEF Messages
  <2>2. Encoded(k, m) = EncodeAuthResponse(m) /\ (\A p : Decoded(k, p) = DecodeAuthResponse(p)) /\ Kept(k, m) = m
    BY <1>17 DEF Encoded, Decoded, Kept
  <2>3. m.response # E
    BY <1>17 DEF LastString
  <2>4. QED
    BY <2>1, <2>2, <2>3, AuthResponseReadBack
<1>18. CASE k = "AUTH_RESULT"
  <2>1. m \in [success : BOOLEAN, agentID : Words, identity : Strings, error : Strings]
    BY <1>18 DEF Messages
  <2>2. Encoded(k, m) = EncodeAuthResult(m) /\ (\A p : Decoded(k, p) = DecodeAuthResult(p)) /\ Kept(k, m) = m
    BY <1>18 DEF Encoded, Decoded, Kept
  <2>3. QED
    BY <2>1, <2>2, AuthResultReadBack
<1>19. CASE k = "REGISTER"
  <2>1. m \in [identity : Strings, publicKey : Strings, token : Strings]
    BY <1>19 DEF Messages
  <2>2. Encoded(k, m) = EncodeRegister(m) /\ (\A p : Decoded(k, p) = DecodeRegister(p)) /\ Kept(k, m) = m
    BY <1>19 DEF Encoded, Decoded, Kept
  <2>3. m.token # E
    BY <1>19 DEF LastString
  <2>4. QED
    BY <2>1, <2>2, <2>3, RegisterReadBack
<1>20. CASE k = "REGISTER_RESULT"
  <2>1. m \in [success : BOOLEAN, agentID : Words, error : Strings]
    BY <1>20 DEF Messages
  <2>2. Encoded(k, m) = EncodeRegisterResult(m) /\ (\A p : Decoded(k, p) = DecodeRegisterResult(p)) /\ Kept(k, m) = m
    BY <1>20 DEF Encoded, Decoded, Kept
  <2>3. QED
    BY <2>1, <2>2, RegisterResultReadBack
<1>21. CASE k = "INVITE_CREATE_RESULT"
  <2>1. m \in [success : BOOLEAN, token : Strings, error : Strings]
    BY <1>21 DEF Messages
  <2>2. Encoded(k, m) = EncodeInviteCreateResult(m) /\ (\A p : Decoded(k, p) = DecodeInviteCreateResult(p)) /\ Kept(k, m) = m
    BY <1>21 DEF Encoded, Decoded, Kept
  <2>3. QED
    BY <2>1, <2>2, InviteCreateResultReadBack
<1>22. CASE k = "COMPACT_ACK"
  <2>1. m \in [success : BOOLEAN, error : Strings, spaceReclaimed : Ints(M64)]
    BY <1>22 DEF Messages
  <2>2. Encoded(k, m) = EncodeCompactAck(m) /\ (\A p : Decoded(k, p) = DecodeCompactAck(p)) /\ Kept(k, m) = m
    BY <1>22 DEF Encoded, Decoded, Kept
  <2>3. QED
    BY <2>1, <2>2, CompactAckReadBack
<1>23. CASE k = "ERROR"
  <2>1. m \in [code : Codes, message : Strings]
    BY <1>23 DEF Messages
  <2>2. Encoded(k, m) = EncodeError(m) /\ (\A p : Decoded(k, p) = DecodeError(p)) /\ Kept(k, m) = m
    BY <1>23 DEF Encoded, Decoded, Kept
  <2>3. m.message # E
    BY <1>23 DEF LastString
  <2>4. QED
    BY <2>1, <2>2, <2>3, ErrorReadBack
<1>24. CASE k = "CREATE_MESH"
  <2>1. m \in [name : Strings]
    BY <1>24 DEF Messages
  <2>2. Encoded(k, m) = EncodeCreateMesh(m) /\ (\A p : Decoded(k, p) = DecodeCreateMesh(p)) /\ Kept(k, m) = m
    BY <1>24 DEF Encoded, Decoded, Kept
  <2>3. m.name # E
    BY <1>24 DEF LastString
  <2>4. QED
    BY <2>1, <2>2, <2>3, CreateMeshReadBack
<1>25. CASE k = "CREATE_MESH_ACK"
  <2>1. m \in [success : BOOLEAN, message : Strings, meshName : Strings, nodeID : Strings, isFounder : BOOLEAN]
    BY <1>25 DEF Messages
  <2>2. Encoded(k, m) = EncodeCreateMeshAck(m) /\ (\A p : Decoded(k, p) = DecodeCreateMeshAck(p)) /\ Kept(k, m) = m
    BY <1>25 DEF Encoded, Decoded, Kept
  <2>3. QED
    BY <2>1, <2>2, CreateMeshAckReadBack
<1>26. CASE k = "MESH_STATUS"
  <2>1. m \in [none : {E}]
    BY <1>26 DEF Messages
  <2>2. Encoded(k, m) = EncodeMeshStatus(m) /\ (\A p : Decoded(k, p) = DecodeMeshStatus(p)) /\ Kept(k, m) = m
    BY <1>26 DEF Encoded, Decoded, Kept
  <2>3. QED
    BY <2>1, <2>2, MeshStatusReadBack
<1>27. CASE k = "MESH_STATUS_RESPONSE"
  <2>1. m \in [meshName : Strings, status : Strings, isFounder : BOOLEAN, nodeIdentity : Strings, memberCount : Ints(M32), zoneCount : Ints(M32), foundedAt : {<<>>} \cup { <<t>> : t \in Ints(M64) }]
    BY <1>27 DEF Messages
  <2>2. Encoded(k, m) = EncodeMeshStatusResponse(m) /\ (\A p : Decoded(k, p) = DecodeMeshStatusResponse(p)) /\ Kept(k, m) = m
    BY <1>27 DEF Encoded, Decoded, Kept
  <2>3. QED
    BY <2>1, <2>2, MeshStatusResponseReadBack
<1>28. CASE k = "DISCOVER_MESH_RESPONSE"
  <2>1. m \in [meshName : Strings, founderIdentity : Strings, memberCount : Ints(M32), zoneCount : Ints(M32), requiresAuth : BOOLEAN, foundedAt : Ints(M64)]
    BY <1>28 DEF Messages
  <2>2. Encoded(k, m) = EncodeDiscoverMeshResponse(m) /\ (\A p : Decoded(k, p) = DecodeDiscoverMeshResponse(p)) /\ Kept(k, m) = m
    BY <1>28 DEF Encoded, Decoded, Kept
  <2>3. QED
    BY <2>1, <2>2, DiscoverMeshResponseReadBack
<1>29. CASE k = "JOIN_MESH"
  <2>1. m \in [nodeIdentity : Strings, meshName : Strings]
    BY <1>29 DEF Messages
  <2>2. Encoded(k, m) = EncodeJoinMesh(m) /\ (\A p : Decoded(k, p) = DecodeJoinMesh(p)) /\ Kept(k, m) = m
    BY <1>29 DEF Encoded, Decoded, Kept
  <2>3. m.meshName # E
    BY <1>29 DEF LastString
  <2>4. QED
    BY <2>1, <2>2, <2>3, JoinMeshReadBack
<1>30. CASE k = "JOIN_MESH_ACK"
  <2>1. m \in [success : BOOLEAN, message : Strings, assignedZone : Strings, memberCount : Ints(M32)]
    BY <1>30 DEF Messages
  <2>2. Encoded(k, m) = EncodeJoinMeshAck(m) /\ (\A p : Decoded(k, p) = DecodeJoinMeshAck(p)) /\ Kept(k, m) = m
    BY <1>30 DEF Encoded, Decoded, Kept
  <2>3. QED
    BY <2>1, <2>2, JoinMeshAckReadBack
<1>31. CASE k = "CREATE_BRIDGE"
  <2>1. m \in [targetAddress : Strings, nodeIdentity : Strings]
    BY <1>31 DEF Messages
  <2>2. Encoded(k, m) = EncodeCreateBridge(m) /\ (\A p : Decoded(k, p) = DecodeCreateBridge(p)) /\ Kept(k, m) = m
    BY <1>31 DEF Encoded, Decoded, Kept
  <2>3. m.nodeIdentity # E
    BY <1>31 DEF LastString
  <2>4. QED
    BY <2>1, <2>2, <2>3, CreateBridgeReadBack
<1>32. CASE k = "CREATE_BRIDGE_ACK"
  <2>1. m \in [success : BOOLEAN, message : Strings, targetMeshName : Strings, bridgeIdentity : Strings, bridgeStatus : Strings]
    BY <1>32 DEF Messages
  <2>2. Encoded(k, m) = EncodeCreateBridgeAck(m) /\ (\A p : Decoded(k, p) = DecodeCreateBridgeAck(p)) /\ Kept(k, m) = m
    BY <1>32 DEF Encoded, Decoded, Kept
  <2>3. m.message # E \/ m.targetMeshName # E \/ m.bridgeIdentity # E \/ m.bridgeStatus # E
    BY <1>32 DEF LastString
  <2>4. QED
    BY <2>1, <2>2, <2>3, CreateBridgeAckReadBack
<1>33. CASE k = "EXECUTE"
  <2>1. m \in [code : Strings]
    BY <1>33 DEF Messages
  <2>2. Encoded(k, m) = EncodeExecute(m) /\ (\A p : Decoded(k, p) = DecodeExecute(p)) /\ Kept(k, m) = m
    BY <1>33 DEF Encoded, Decoded, Kept
  <2>3. m.code # E
    BY <1>33 DEF LastString
  <2>4. QED
    BY <2>1, <2>2, <2>3, ExecuteReadBack
<1>34. CASE k = "EXECUTE_RESPONSE"
  <2>1. m \in [success : {TRUE}, result : Values, error : {E}] \cup [success : {FALSE}, result : {V}, error : Strings]
    BY <1>34 DEF Messages
  <2>2. Encoded(k, m) = EncodeExecuteResponse(m) /\ (\A p : Decoded(k, p) = DecodeExecuteResponse(p)) /\ Kept(k, m) = m
    BY <1>34 DEF Encoded, Decoded, Kept
  <2>3. m.success /\ m.result # V => m.result.data # E
    BY <1>34 DEF LastString
  <2>4. QED
    BY <2>1, <2>2, <2>3, ExecuteResponseReadBack
<1>35. CASE k = "EXTRACT_RESPONSE"
  <2>1. m \in [success : {TRUE}, script : Strings, error : {E}] \cup [success : {FALSE}, script : {E}, error : Strings]
    BY <1>35 DEF Messages
  <2>2. Encoded(k, m) = EncodeExtractResponse(m) /\ (\A p : Decoded(k, p) = DecodeExtractResponse(p)) /\ Kept(k, m) = m
    BY <1>35 DEF Encoded, Decoded, Kept
  <2>3. (IF m.success THEN m.script ELSE m.error) # E
    BY <1>35 DEF LastString
  <2>4. QED
    BY <2>1, <2>2, <2>3, ExtractResponseReadBack
<1>36. QED
  BY <1>1, <1>2, <1>3, <1>4, <1>5, <1>6, <1>7, <1>8, <1>9, <1>10, <1>11, <1>12, <1>13, <1>14, <1>15, <1>16, <1>17, <1>18, <1>19, <1>20, <1>21, <1>22, <1>23, <1>24, <1>25, <1>26, <1>27, <1>28, <1>29, <1>30, <1>31, <1>32, <1>33, <1>34, <1>35 DEF Kinds

-----------------------------------------------------------------------------
(* Frames.                                                                 *)

\* The same for cells of any kind.
LEMMA JoinedOf ==
    ASSUME NEW S, NEW s \in Seq(S), NEW t \in Seq(S)
    PROVE  /\ s \o t \in Seq(S) /\ Len(s \o t) = Len(s) + Len(t)
           /\ \A i \in 1..(Len(s) + Len(t)) :
                  (s \o t)[i] = IF i <= Len(s) THEN s[i] ELSE t[i - Len(s)]
BY ConcatProperties

\* A frame: its header h, its payload and its checksum.
LEMMA FrameRead ==
    ASSUME NEW type, NEW s, NEW p \in Seq(Int), NEW rest, NEW f, NEW S,
           f = EncodeMessage(CreateMessage(type, s, p)),
           S = Int \cup {type, s, Checksum(p)} \cup {Checksum(<<>>)}, rest \in Seq(S)
    PROVE  /\ f \in Seq(S) /\ Len(f) = Len(p) + 5 /\ Len(p) \in Nat
           /\ ReadFrame(f \o rest) = Read([type |-> type, sequence |-> s, payload |-> p], Len(f) + 1)
<1> DEFINE n == Len(p)
           h == <<1, type, s, n>>
           a == h \o p
           c == <<Checksum(p)>>
           d == a \o c
<1>1. n \in Nat
  OBVIOUS
<1>2. f = d
  BY DEF EncodeMessage, CreateMessage, Version
<1>3. h \in Seq(S) /\ Len(h) = 4 /\ h[1] = 1 /\ h[2] = type /\ h[3] = s /\ h[4] = n
  <2>1. 1 \in S /\ type \in S /\ s \in S /\ n \in S
    BY <1>1
  <2> HIDE DEF n
  <2>2. QED
    BY <2>1
<1>4. p \in Seq(S)
  <2>1. Int \subseteq S
    OBVIOUS
  <2>2. QED
    BY <2>1, SeqMonotonic
<1>5. c \in Seq(S) /\ Len(c) = 1 /\ c[1] = Checksum(p)
  <2>1. Checksum(p) \in S
    OBVIOUS
  <2>2. QED
    BY <2>1
<1> HIDE DEF h, c, n
<1>6. /\ a \in Seq(S) /\ Len(a) = 4 + n
      /\ \A j \in 1..4 : a[j] = h[j]
      /\ \A j \in 1..n : a[4 + j] = p[j]
  <2>1. /\ a \in Seq(S) /\ Len(a) = Len(h) + Len(p)
        /\ \A i \in 1..(Len(h) + Len(p)) : a[i] = IF i <= Len(h) THEN h[i] ELSE p[i - Len(h)]
    <3>1. h \in Seq(S) /\ p \in Seq(S)
      BY <1>3, <1>4
    <3>2. QED
      BY <3>1, JoinedOf, Zenon
  <2> HIDE DEF a
  <2>2. ASSUME NEW j \in 1..n PROVE a[4 + j] = p[j]
    <3>1. 4 + j \in 1..(4 + n) /\ ~ (4 + j <= 4) /\ (4 + j) - 4 = j
      BY <1>1
    <3>2. QED
      BY <1>3, <2>1, <3>1 DEF n
  <2>3. ASSUME NEW j \in 1..4 PROVE a[j] = h[j]
    <3>1. j \in 1..(4 + n) /\ j <= 4
      BY <1>1
    <3>2. QED
      BY <1>3, <2>1, <3>1 DEF n
  <2>4. Len(a) = 4 + n
    BY <1>3, <2>1 DEF n
  <2>5. QED
    BY <2>1, <2>2, <2>3, <2>4
<1> HIDE DEF a
<1>7. /\ d \in Seq(S) /\ Len(d) = 5 + n /\ d[5 + n] = Checksum(p)
      /\ \A j \in 1..(4 + n) : d[j] = a[j]
  <2>1. /\ d \in Seq(S) /\ Len(d) = Len(a) + Len(c)
        /\ \A i \in 1..(Len(a) + Len(c)) : d[i] = IF i <= Len(a) THEN a[i] ELSE c[i - Len(a)]
    BY <1>5, <1>6, ConcatProperties
  <2> HIDE DEF d
  <2>2. Len(d) = 5 + n
    BY <1>1, <1>5, <1>6, <2>1
  <2>3. \A i \in 1..(5 + n) : d[i] = IF i <= 4 + n THEN a[i] ELSE c[i - (4 + n)]
    <3>1. Len(a) + Len(c) = 5 + n /\ Len(a) = 4 + n
      BY <1>1, <1>5, <1>6
    <3>2. QED
      BY <2>1, <3>1
  <2>4. d[5 + n] = Checksum(p)
    <3>1. 5 + n \in 1..(5 + n) /\ ~ (5 + n <= 4 + n) /\ (5 + n) - (4 + n) = 1
      BY <1>1
    <3>2. QED
      BY <1>5, <2>3, <3>1
  <2>5. \A j \in 1..(4 + n) : j \in 1..(5 + n) /\ j <= 4 + n
    BY <1>1
  <2>6. QED
    BY <2>1, <2>2, <2>3, <2>4, <2>5
<1> HIDE DEF d
<1>8. d[1] = 1 /\ d[2] = type /\ d[3] = s /\ d[4] = n
  <2>1. \A j \in 1..4 : j \in 1..(4 + n)
    BY <1>1
  <2>2. \A j \in 1..4 : d[j] = h[j]
    BY <1>6, <1>7, <2>1
  <2>3. QED
    BY <1>3, <2>2
<1>9. SubSeq(d, 5, 4 + n) = p
  <2> DEFINE b == SubSeq(d, 5, 4 + n)
  <2>1. ASSUME NEW j \in 1..n PROVE d[4 + j] = p[j]
    <3>1. 4 + j \in 1..(4 + n)
      BY <1>1
    <3>2. QED
      BY <1>6, <1>7, <3>1
  <2>2. \A j \in 5..(4 + n) : d[j] \in S
    <3>1. \A j \in 5..(4 + n) : j \in 1..Len(d)
      BY <1>1, <1>7
    <3>2. QED
      BY <1>7, <3>1
  <2>3. 5 \in Int /\ 4 + n \in Int
    BY <1>1
  <2>4. /\ b \in Seq(S) /\ Len(b) = IF 5 <= 4 + n THEN (4 + n) - 5 + 1 ELSE 0
        /\ \A j \in 1 .. (4 + n) - 5 + 1 : b[j] = d[5 + j - 1]
    BY <2>2, <2>3, SubSeqProperties
  <2> HIDE DEF b
  <2>5. Len(b) = n
    BY <1>1, <2>4
  <2>6. ASSUME NEW j \in 1..n PROVE b[j] = p[j]
    <3>1. j \in 1 .. (4 + n) - 5 + 1 /\ 5 + j - 1 = 4 + j
      BY <1>1
    <3>2. QED
      BY <2>1, <2>4, <3>1
  <2>7. b = p
    BY <1>4, <2>4, <2>5, <2>6, SeqEqual DEF n
  <2>8. QED
    BY <2>7 DEF b
<1> DEFINE v == [type |-> type, sequence |-> s, payload |-> p]
<1>10. DecodeMessage(d) = Read(v, Len(d) + 1)
  <2>1. Len(d) - 1 = 4 + n /\ ~ (Len(d) < 5) /\ 4 + n + 1 = Len(d)
    BY <1>1, <1>7
  <2>2. d[Len(d)] = Checksum(p)
    BY <1>7
  <2> HIDE DEF v
  <2>3. DecodeMessage(d) = Read([type |-> d[2], sequence |-> d[3], payload |-> p], Len(d) + 1)
    <3>1. d[1] = Version /\ HeaderCells = 4 /\ HeaderCells + d[4] + 1 = Len(d)
      BY <1>8, <2>1 DEF Version, HeaderCells
    <3>2. SubSeq(d, HeaderCells + 1, Len(d) - 1) = p
      BY <1>9, <2>1 DEF HeaderCells
    <3>3. ~ (Len(d) < HeaderCells + 1)
      BY <2>1 DEF HeaderCells
    <3> QED
      BY <2>2, <3>1, <3>2, <3>3 DEF DecodeMessage
  <2>4. QED
    BY <1>8, <2>3 DEF v
<1> DEFINE w == d \o rest
<1>11. /\ w \in Seq(S) /\ Len(w) = Len(d) + Len(rest) /\ Len(rest) \in Nat /\ Len(d) \in Nat
       /\ \A j \in 1..Len(d) : w[j] = d[j]
  <2>1. /\ w \in Seq(S) /\ Len(w) = Len(d) + Len(rest)
        /\ \A i \in 1..(Len(d) + Len(rest)) : w[i] = IF i <= Len(d) THEN d[i] ELSE rest[i - Len(d)]
    BY <1>7, ConcatProperties
  <2> HIDE DEF w
  <2>2. Len(rest) \in Nat /\ Len(d) \in Nat
    BY <1>7
  <2>3. \A j \in 1..Len(d) : j \in 1..(Len(d) + Len(rest)) /\ j <= Len(d)
    BY <2>2
  <2>4. QED
    BY <2>1, <2>2, <2>3
<1>12. w[4] = n
  <2>1. 4 \in 1..Len(d)
    BY <1>1, <1>7
  <2>2. QED
    BY <1>8, <1>11, <2>1
<1>13. SubSeq(w, 1, Len(d)) = d
  <2>1. 1 \in 1..Len(d) /\ Len(d) \in 1..Len(d)
    BY <1>1, <1>7
  <2>2. SubSeq(w, 1, Len(d)) = SubSeq(d, 1, Len(d))
    BY <1>7, <2>1, SubSeqOfConcat1
  <2>3. SubSeq(d, 1, Len(d)) = d
    BY <1>7, SubSeqFull
  <2>4. QED
    BY <2>2, <2>3
<1> HIDE DEF w, v
<1>14. ReadFrame(w) = DecodeMessage(d)
  <2>1. ~ (Len(w) < 4) /\ 4 + w[4] + 1 = Len(d) /\ ~ (Len(w) < Len(d))
    BY <1>1, <1>7, <1>11, <1>12
  <2>2. QED
    BY <1>13, <2>1 DEF ReadFrame, HeaderCells
<1>15. Len(d) = Len(p) + 5 /\ Len(p) \in Nat
  BY <1>1, <1>7 DEF n
<1>16. QED
  BY <1>2, <1>7, <1>10, <1>14, <1>15 DEF w, v

\* What follows the frame is left on the stream.
LEMMA FrameLeft ==
    ASSUME NEW S, NEW f \in Seq(S), NEW rest \in Seq(S), rest # <<>>
    PROVE  SubSeq(f \o rest, Len(f) + 1, Len(f \o rest)) = rest
<1> DEFINE a == Len(f)
           b == Len(rest)
<1>1. a \in Nat /\ b \in Nat /\ b > 0
  <2>1. b = 0 => rest = <<>>
    OBVIOUS
  <2>2. a \in Nat /\ b \in Nat
    OBVIOUS
  <2>3. QED
    BY <2>1, <2>2
<1>2. Len(f \o rest) = a + b
  BY ConcatProperties
<1>3. a + 1 \in (a + 1)..(a + b) /\ a + b \in (a + 1)..(a + b)
  BY <1>1
<1>4. SubSeq(f \o rest, a + 1, a + b) = SubSeq(rest, (a + 1) - a, (a + b) - a)
  BY <1>3, SubSeqOfConcat2
<1>5. (a + 1) - a = 1 /\ (a + b) - a = b
  BY <1>1
<1>6. SubSeq(rest, 1, b) = rest
  BY SubSeqFull
<1>7. QED
  BY <1>2, <1>4, <1>5, <1>6

\* No two kinds have the same code.
LEMMA CodesDiffer ==
    ASSUME NEW k \in Kinds, NEW x \in Kinds, TypeCode(x) = TypeCode(k)
    PROVE  x = k
BY DEF Kinds, TypeCode

\* The frame that follows is one of four header cells and a checksum.
LEMMA NextFrameCells ==
    ASSUME NEW S, Int \subseteq S, Checksum(<<>>) \in S
    PROVE  NextFrame \in Seq(S) /\ NextFrame # <<>>
<1> DEFINE e == <<>>
           n == Len(e)
           h == <<1, 40, 0, n>>
           b == h \o e
           c == <<Checksum(e)>>
<1>1. NextFrame = EncodeMessage(CreateMessage(40, 0, e))
  <2>1. TypeCode("MESH_STATUS") = 40
    BY DEF TypeCode
  <2>2. Encoded("MESH_STATUS", [none |-> E]) = EncodeMeshStatus([none |-> E])
    BY DEF Encoded
  <2>3. EncodeMeshStatus([none |-> E]) = <<>>
    BY DEF EncodeMeshStatus
  <2>4. QED
    BY <2>1, <2>2, <2>3 DEF NextFrame, Frame
<1>2. NextFrame = b \o c
  BY <1>1 DEF EncodeMessage, CreateMessage, Version
<1>3. e \in Seq(S) /\ Len(e) \in Nat
  OBVIOUS
<1>4. h \in Seq(S)
  <2>1. n \in Nat
    BY <1>3
  <2> HIDE DEF n
  <2>2. 1 \in S /\ 40 \in S /\ 0 \in S /\ n \in S
    BY <2>1
  <2>3. QED
    BY <2>2
<1>5. c \in Seq(S) /\ Len(c) = 1
  OBVIOUS
<1> HIDE DEF e, n, h, c
<1>6. b \in Seq(S)
  BY <1>3, <1>4, JoinedOf
<1> HIDE DEF b
<1>7. b \o c \in Seq(S) /\ Len(b \o c) = Len(b) + Len(c)
  BY <1>5, <1>6, JoinedOf
<1>8. Len(b \o c) # 0
  <2>1. Len(b) \in Nat
    BY <1>6
  <2>2. QED
    BY <1>5, <1>7, <2>1
<1>9. QED
  BY <1>2, <1>7, <1>8

\* The receiver makes of a frame that arrived as it was sent the message that
\* was sent, and leaves the stream at the next frame.
LEMMA WholeFrame ==
    ASSUME NEW k \in Kinds, NEW m \in Messages(k), E \notin LastString(k, m),
           NEW s \in Sequences32
    PROVE  Received(Frame(k, m, s) \o NextFrame) =
               [ok |-> TRUE, kind |-> k, msg |-> Kept(k, m), sequence |-> s, rest |-> NextFrame]
<1> DEFINE p  == Encoded(k, m)
           t  == TypeCode(k)
           fr == Frame(k, m, s)
           S  == Int \cup {t, s, Checksum(p)} \cup {Checksum(<<>>)}
           st == fr \o NextFrame
           v  == [type |-> t, sequence |-> s, payload |-> p]
           g  == Decoded(k, p)
<1>1. p \in Seq(Int) /\ g.ok = TRUE /\ g.v = Kept(k, m)
  BY EveryMessage DEF Arrives
<1>2. fr = EncodeMessage(CreateMessage(t, s, p))
  BY DEF Frame
<1>3. Int \subseteq S /\ Checksum(<<>>) \in S
  OBVIOUS
<1>4. S = Int \cup {t, s, Checksum(p)} \cup {Checksum(<<>>)}
  OBVIOUS
<1> HIDE DEF p, t, fr, S, g
<1>5. NextFrame \in Seq(S) /\ NextFrame # <<>>
  BY <1>3, NextFrameCells
<1>6. /\ fr \in Seq(S)
      /\ ReadFrame(st) = Read(v, Len(fr) + 1)
  BY <1>1, <1>2, <1>4, <1>5, FrameRead
<1>7. SubSeq(st, Len(fr) + 1, Len(st)) = NextFrame
  BY <1>5, <1>6, FrameLeft
<1> HIDE DEF st, v
<1> DEFINE f == ReadFrame(st)
           K == { x \in Kinds : TypeCode(x) = f.v.type }
           y == CHOOSE x \in K : TRUE
<1>8. f.ok = TRUE /\ f.v = v /\ f.at = Len(fr) + 1
  BY <1>6 DEF Read
<1>9. v.type = t /\ v.sequence = s /\ v.payload = p
  BY DEF v
<1> HIDE DEF f
<1>10. K = {k}
  <2>1. f.v.type = TypeCode(k)
    BY <1>8, <1>9 DEF t
  <2>2. QED
    BY <2>1, CodesDiffer
<1> HIDE DEF K
<1>11. K # {} /\ y = k
  BY <1>10
<1> HIDE DEF y
<1>12. Decoded(y, f.v.payload) = g
  BY <1>8, <1>9, <1>11 DEF g, p
<1>13. SubSeq(st, f.at, Len(st)) = NextFrame
  BY <1>7, <1>8
<1> DEFINE r == [ok |-> TRUE, kind |-> y, msg |-> g.v, sequence |-> f.v.sequence,
                 rest |-> SubSeq(st, f.at, Len(st))]
<1>14. Received(st) = r
  BY <1>1, <1>8, <1>11, <1>12 DEF Received, f, K, y
<1>15. r = [ok |-> TRUE, kind |-> k, msg |-> Kept(k, m), sequence |-> s, rest |-> NextFrame]
  BY <1>1, <1>8, <1>9, <1>11, <1>13
<1>16. QED
  BY <1>14, <1>15 DEF st, fr

\* The state of the exchange that makes RoundTrip inductive: the message is
\* one whose last string is not empty, and an undamaged stream holds its
\* frame and the next.
Exchange ==
    /\ kind \in Kinds /\ msg \in Messages(kind) /\ E \notin LastString(kind, msg)
    /\ sequence \in Sequences32
    /\ damage = "none" => stream = Frame(kind, msg, sequence) \o NextFrame
    /\ RoundTrip

\* Spec implies []RoundTrip for every set of paths, strings, numbers, children
\* and codes: whatever message of the 35 kinds the service or a client sends,
\* its receiver decodes the same message (DecodePurgeAck leaves out the error),
\* under the same sequence number, and the next frame is still whole.  AnyTail
\* leaves out the messages that end in an empty string, which readString refuses
\* (see NothingTravels).
THEOREM MessagesArrive ==
    ASSUME AnyTail = FALSE
    PROVE  Spec => []RoundTrip
<1>1. Init => Exchange
  BY DEF Init, Exchange, RoundTrip
<1>2. Exchange /\ [Next]_vars => Exchange'
  <2> SUFFICES ASSUME Exchange, [Next]_vars PROVE Exchange'
    OBVIOUS
  <2>1. CASE Cut
    <3>1. damage' = "frame" /\ UNCHANGED <<kind, msg, sequence, got>>
      BY <2>1 DEF Cut
    <3>2. QED
      BY <3>1 DEF Exchange, RoundTrip
  <2>2. CASE Alter
    <3>1. damage' # "none" /\ UNCHANGED <<kind, msg, sequence, got>>
      BY <2>2 DEF Alter
    <3>2. QED
      BY <3>1 DEF Exchange, RoundTrip
  <2>3. CASE Receive
    <3>1. got' = Received(stream) /\ UNCHANGED <<kind, msg, sequence, stream, damage>>
      BY <2>3 DEF Receive
    <3>2. ASSUME damage' = "none"
          PROVE  got' = [ok |-> TRUE, kind |-> kind, msg |-> Kept(kind, msg),
                         sequence |-> sequence, rest |-> NextFrame]
      <4>1. stream = Frame(kind, msg, sequence) \o NextFrame
        BY <3>1, <3>2 DEF Exchange
      <4>2. QED
        BY <3>1, <4>1, WholeFrame DEF Exchange
    <3>3. RoundTrip'
      BY <3>1, <3>2 DEF RoundTrip
    <3>4. QED
      BY <3>1, <3>3 DEF Exchange
  <2>4. CASE UNCHANGED vars
    BY <2>4 DEF Exchange, RoundTrip, vars
  <2>5. QED
    BY <2>1, <2>2, <2>3, <2>4 DEF Next
<1>3. Exchange => RoundTrip
  BY DEF Exchange
<1>4. QED
  BY <1>1, <1>2, <1>3, PTL DEF Spec
=============================================================================
