------------------------------- MODULE Values ------------------------------
(***************************************************************************)
(* The values of MBL and what the operators make of them                   *)
(* (internal/types/coerce.go, compare.go).  A value is a tuple whose first *)
(* component names its type.  Numbers are integers; a text is the sequence *)
(* of its pieces, a digit being a piece; a time is an instant and the size *)
(* of the window its precision leaves open.                                *)
(***************************************************************************)
EXTENDS Integers, Sequences, FiniteSets, TLC

CONSTANT Collation  \* the pieces texts are compared by, in the order of their bytes

NumV(n) == <<"num", n>>
TextV(pieces) == <<"text", pieces>>
BoolV(b) == <<"bool", b>>
TimeV(at, size) == <<"time", at, size>>
MoneyV(n, currency) == <<"money", n, currency>>
ListV(q) == <<"list", q>>
RecV(f) == <<"rec", f>>
Unk(reason) == <<"unknown", reason>>
Nothing == <<"nothing">>

Type(v) == v[1]
IsUnknown(v) == Type(v) = "unknown"

Digits == <<"0", "1", "2", "3", "4", "5", "6", "7", "8", "9">>
Digit(w) == CHOOSE n \in 0 .. 9 : Digits[n + 1] = w
IsDigit(w) == \E n \in 1 .. 10 : Digits[n] = w

----------------------------------------------------------------------------
(* Coercion *)

\* The number a text of digits is written as.
RECURSIVE ParseFloat(_)
ParseFloat(pieces) ==
  IF pieces = <<>> THEN 0
  ELSE 10 * ParseFloat(SubSeq(pieces, 1, Len(pieces) - 1)) + Digit(pieces[Len(pieces)])

IsNumeral(pieces) == pieces # <<>> /\ \A k \in DOMAIN pieces : IsDigit(pieces[k])

CoerceToNumber(v) ==
  CASE Type(v) = "num" -> v
    [] Type(v) = "text" /\ IsNumeral(v[2]) -> NumV(ParseFloat(v[2]))
    [] Type(v) \in {"money", "time"} -> NumV(v[2])
    [] OTHER -> Unk("cannot coerce to number")

RECURSIVE FormatFloat(_)
FormatFloat(n) ==
  IF n < 0 THEN <<"-">> \o FormatFloat(0 - n)
  ELSE IF n < 10 THEN <<Digits[n + 1]>>
  ELSE FormatFloat(n \div 10) \o <<Digits[(n % 10) + 1]>>

\* Every value has a text; an Unknown's is its reason.
RECURSIVE CoerceToText(_)
RECURSIVE JoinTexts(_, _)
JoinTexts(vs, sep) ==
  IF vs = <<>> THEN <<>>
  ELSE CoerceToText(vs[1])
       \o (IF Len(vs) = 1 THEN <<>> ELSE sep \o JoinTexts(Tail(vs), sep))

CoerceToText(v) ==
  CASE Type(v) = "text" -> v[2]
    [] Type(v) = "num" -> FormatFloat(v[2])
    [] Type(v) = "money" -> FormatFloat(v[2]) \o <<v[3]>>
    [] Type(v) = "time" -> FormatFloat(v[2])
    [] Type(v) = "nothing" -> <<>>
    [] Type(v) = "unknown" -> <<"Unknown: ", v[2]>>
    [] Type(v) = "list" -> <<"[">> \o JoinTexts(v[2], <<", ">>) \o <<"]">>
    [] OTHER -> <<Type(v)>>

----------------------------------------------------------------------------
(* Operators *)

\* An Unknown operand is the result; so is one that is not a number.
Numeric(l, r, op(_, _)) ==
  LET a == CoerceToNumber(l)
      b == CoerceToNumber(r)
  IN IF IsUnknown(l) THEN l
     ELSE IF IsUnknown(r) THEN r
     ELSE IF IsUnknown(a) THEN a
     ELSE IF IsUnknown(b) THEN b ELSE op(a[2], b[2])

Add(l, r) == Numeric(l, r, LAMBDA a, b : NumV(a + b))
Subtract(l, r) == Numeric(l, r, LAMBDA a, b : NumV(a - b))
Multiply(l, r) == Numeric(l, r, LAMBDA a, b : NumV(a * b))
Power(l, r) ==
  Numeric(l, r, LAMBDA a, b : IF a = 0 /\ b < 0 THEN Unk("out of range") ELSE NumV(a ^ b))
Divide(l, r) ==
  Numeric(l, r, LAMBDA a, b : IF b = 0 THEN Unk("division by zero") ELSE NumV(a \div b))
Modulo(l, r) ==
  Numeric(l, r, LAMBDA a, b : IF b = 0 THEN Unk("modulo by zero") ELSE NumV(a % b))
Concatenate(l, r) == TextV(CoerceToText(l) \o CoerceToText(r))

isTruthy(v) ==
  CASE Type(v) = "num" -> v[2] # 0
    [] Type(v) \in {"text", "list"} -> v[2] # <<>>
    [] Type(v) = "rec" -> DOMAIN v[2] # {}
    [] Type(v) = "bool" -> v[2]
    [] Type(v) \in {"nothing", "unknown"} -> FALSE
    [] OTHER -> TRUE

----------------------------------------------------------------------------
(* Comparison.  The fields of a record are visited in any order, so what a *)
(* comparison answers is a set of outcomes.                                *)

Lt == -1
Eq == 0
Gt == 1
Invalid == 2

Sign(a, b) == IF a < b THEN Lt ELSE IF a > b THEN Gt ELSE Eq
Swap(o) == IF o = Invalid THEN o ELSE 0 - o

\* The window a time covers at its precision.
getTimeRange(t) == (t[2] - (t[2] % t[3])) .. (t[2] - (t[2] % t[3]) + t[3] - 1)

\* The more precise time against the window of the other.
Within(fine, coarse) ==
  LET w == getTimeRange(coarse) IN
  IF fine[2] \in w THEN Eq ELSE IF \A x \in w : fine[2] < x THEN Lt ELSE Gt

\* The result is not turned round when the operands were.
MutantCompareTimes(l, r) ==
  IF l[3] = r[3] THEN Sign(l[2], r[2])
  ELSE IF l[3] < r[3] THEN Within(l, r) ELSE Within(r, l)

compareTimes(l, r) ==
  IF l[3] = r[3] THEN Sign(l[2], r[2])
  ELSE IF l[3] < r[3] THEN Within(l, r) ELSE Swap(Within(r, l))

timeEquals(l, r) ==
  IF l[3] = r[3] THEN l[2] = r[2]
  ELSE IF l[3] < r[3] THEN l[2] \in getTimeRange(r) ELSE r[2] \in getTimeRange(l)

Place(piece) == CHOOSE k \in DOMAIN Collation : Collation[k] = piece

\* By the first piece that differs, then by length.  No piece of the collation
\* begins another.
compareTexts(p, q) ==
  LET shared == {k \in DOMAIN p : k \in DOMAIN q /\ p[k] # q[k]}
      first == CHOOSE k \in shared : \A j \in shared : k =< j
  IN IF shared = {} THEN Sign(Len(p), Len(q))
     ELSE Sign(Place(p[first]), Place(q[first]))

compareUnknowns(l, r) == IF l = r THEN Eq ELSE Sign(Place(l[2]), Place(r[2]))

RECURSIVE Compare(_, _)

\* The first pair that is not equal decides, then the lengths.
compareLists(p, q) ==
  LET n == IF Len(p) < Len(q) THEN Len(p) ELSE Len(q)
      reach(k) == \A j \in 1 .. k - 1 : Eq \in Compare(p[j], q[j])
  IN UNION {Compare(p[k], q[k]) \ {Eq} : k \in {j \in 1 .. n : reach(j)}}
     \cup (IF reach(n + 1) THEN {Sign(Len(p), Len(q))} ELSE {})

\* The first field visited that is not equal decides.
compareRecords(f, g) ==
  LET of(k) == IF k \in DOMAIN g THEN Compare(f[k], g[k]) ELSE {Invalid}
      sizes == Sign(Cardinality(DOMAIN f), Cardinality(DOMAIN g))
  IN IF sizes # Eq THEN {sizes}
     ELSE (UNION {of(k) \ {Eq} : k \in DOMAIN f})
          \cup (IF \A k \in DOMAIN f : Eq \in of(k) THEN {Eq} ELSE {})

Compare(l, r) ==
  IF Type(l) # Type(r) THEN {Invalid}
  ELSE CASE Type(l) = "num" -> {Sign(l[2], r[2])}
         [] Type(l) = "text" -> {compareTexts(l[2], r[2])}
         [] Type(l) = "time" -> {compareTimes(l, r)}
         [] Type(l) = "money" -> {IF l[3] = r[3] THEN Sign(l[2], r[2]) ELSE Invalid}
         [] Type(l) = "bool" -> {Sign(IF l[2] THEN 1 ELSE 0, IF r[2] THEN 1 ELSE 0)}
         [] Type(l) = "nothing" -> {Eq}
         [] Type(l) = "unknown" -> {compareUnknowns(l, r)}
         [] Type(l) = "list" -> compareLists(l[2], r[2])
         [] Type(l) = "rec" -> compareRecords(l[2], r[2])
         [] OTHER -> {Invalid}

\* Equality has its own rule for times.
Equal(l, r) ==
  IF Type(l) = "time" /\ Type(r) = "time" THEN timeEquals(l, r)
  ELSE Compare(l, r) = {Eq}

Less(l, r) == Compare(l, r) = {Lt}
Greater(l, r) == Compare(l, r) = {Gt}
LessEqual(l, r) == Compare(l, r) \subseteq {Lt, Eq}
GreaterEqual(l, r) == Compare(l, r) \subseteq {Gt, Eq}

----------------------------------------------------------------------------
(* What a comparison must be *)

RECURSIVE HasRecord(_)
HasRecord(v) ==
  \/ Type(v) = "rec"
  \/ Type(v) = "list" /\ \E k \in DOMAIN v[2] : HasRecord(v[2][k])

HasOneOutcome(l, r) == Cardinality(Compare(l, r)) = 1

\* Turning the operands of a comparison round turns its outcomes round; it
\* answers equal exactly when ?= does, and then never anything else, whichever
\* field of a record is visited first; and without records there is one outcome.
OrderIsConsistent(l, r) ==
  /\ Compare(r, l) = {Swap(o) : o \in Compare(l, r)}
  /\ Equal(l, r) <=> Eq \in Compare(l, r)
  /\ Eq \in Compare(l, r) => Compare(l, r) = {Eq}
  /\ ~ HasRecord(l) /\ ~ HasRecord(r) => HasOneOutcome(l, r)

=============================================================================
