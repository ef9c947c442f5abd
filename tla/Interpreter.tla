---------------------------- MODULE Interpreter ----------------------------
(***************************************************************************)
(* The evaluator of MBL (internal/mbl/interpreter/interpreter.go).  An      *)
(* evaluation takes a node and the session s and answers the value and the  *)
(* session after it.  Writes are staged in the commit buffer and reach the  *)
(* tree when the program ends, or in the middle of a long loop.  Libraries  *)
(* that reach outside (files, network, shell, random) are not modelled.     *)
(***************************************************************************)
EXTENDS Syntax, Values

CONSTANTS BufferLimit,     \* DefaultCommitBufferLimit
          MaxCallDepth,
          MaxIterations,   \* of a while loop
          MaxElements,     \* maxForLoopElements
          FlushEvery,      \* iterations between two looks at the buffer
          FlushAbove,      \* staged writes above which a loop flushes
          MaxRecordNodes

Me == <<"world", "agent", "me">>

Missing == <<"missing">>     \* no such variable, no such path
Broken == <<"broken">>       \* stored bytes that no longer decode
Break == <<"break">>         \* breakSignal
Return(v) == <<"return", v>> \* returnSignal

R(v, s) == [v |-> v, s |-> s]

\* An Unknown ends the evaluation of its expression.
Then(r, next(_, _)) == IF IsUnknown(r.v) THEN r ELSE next(r.v, r.s)

\* The eval functions call each other: Eval is all of them in one.
RECURSIVE Eval(_, _, _)
Value(n, s) == Eval("expression", n, s)
Run(n, s) == Eval("statement", n, s)
RunAll(body, s) == Eval("block", body, s)
Parts(parts, s) == Eval("parts", parts, s)

----------------------------------------------------------------------------
(* Sessions.  A path slice knows its array and its capacity: an append that *)
(* fits writes into the array every other slice of it shares.               *)

NoPath == [parts |-> <<>>, arr |-> 0, cap |-> 0]
Copied(parts) == [parts |-> parts, arr |-> 0, cap |-> Len(parts)]

NewScope(parent) == [local |-> <<>>, parent |-> parent]

New(tree, room, reversed) ==
  [scopes |-> <<NewScope(0)>>, cur |-> 1, path |-> NoPath, raw |-> <<>>,
   buf |-> <<>>, changed |-> {}, quietDepth |-> 0, callDepth |-> 0,
   procedures |-> <<>>, watchers |-> <<>>, references |-> <<>>,
   tree |-> tree, room |-> room, reversed |-> reversed,
   arrays |-> 0, flushed |-> FALSE, abandoned |-> FALSE]

Child(s, parent) ==
  [s EXCEPT !.scopes = Append(@, NewScope(parent)), !.cur = Len(s.scopes) + 1]

RECURSIVE Holder(_, _, _)
Holder(s, k, name) ==
  IF k = 0 \/ name \in DOMAIN s.scopes[k].local THEN k
  ELSE Holder(s, s.scopes[k].parent, name)

Get(s, name) ==
  LET k == Holder(s, s.cur, name)
  IN IF k = 0 THEN Missing ELSE s.scopes[k].local[name]

SetIn(s, k, name, v) == [s EXCEPT !.scopes[k].local = (name :> v) @@ @]
Set(s, name, v) == SetIn(s, s.cur, name, v)

\* A variable is updated where it is, or made in the current scope.
Update(s, name, v) ==
  LET k == Holder(s, s.cur, name) IN SetIn(s, IF k = 0 THEN s.cur ELSE k, name, v)

RECURSIVE SetAll(_, _, _)
SetAll(s, names, vs) ==
  IF names = <<>> THEN s ELSE SetAll(Set(s, names[1], vs[1]), Tail(names), Tail(vs))

Without(f, k) == [x \in DOMAIN f \ {k} |-> f[x]]

\* append(slice, names...): what another slice of the array has behind the end
\* of this one is overwritten.
GoAppend(s, slice, names) ==
  LET n == Len(slice.parts)
      need == n + Len(names)
      parts == slice.parts \o names
      over(w) == IF w.arr # slice.arr THEN w
                 ELSE [w EXCEPT !.path = [k \in DOMAIN w.path |->
                         IF k > n /\ k =< need THEN names[k - n] ELSE w.path[k]]]
  IN IF need =< slice.cap
     THEN [slice |-> [slice EXCEPT !.parts = parts],
           s |-> [s EXCEPT !.buf = [k \in DOMAIN s.buf |-> over(s.buf[k])]]]
     ELSE [slice |-> [parts |-> parts, arr |-> s.arrays + 1,
                      cap |-> IF need > 2 * slice.cap THEN need ELSE 2 * slice.cap],
           s |-> [s EXCEPT !.arrays = @ + 1]]

----------------------------------------------------------------------------
(* The commit buffer *)

\* What the storage can hold: a procedure, a watcher or a field with its
\* modifier has no serialized form.
Plain == {"num", "text", "bool", "time", "money", "list", "rec", "unknown",
          "nothing", "reference"}

RECURSIVE Decodes(_)
Decodes(v) ==
  /\ Type(v) \in Plain
  /\ Type(v) = "list" => \A k \in DOMAIN v[2] : Decodes(v[2][k])
  /\ Type(v) = "rec" => \A k \in DOMAIN v[2] : Decodes(v[2][k])

\* A record leaves out what it cannot hold but counts it, so it does not
\* decode afterwards.
storageToMBL(v) == IF v = Missing \/ Decodes(v) THEN v ELSE Broken

\* The depth is not looked at: only the assignment's own modifier makes quiet.
MutantStageWrite(s, slice, v, quiet) ==
  IF Type(v) \notin Plain THEN R(Unk("failed to convert"), s)
  ELSE IF Len(s.buf) >= BufferLimit THEN R(Unk("commit buffer exceeded"), s)
  ELSE R(Nothing, [s EXCEPT !.buf = Append(@,
         [path |-> slice.parts, arr |-> slice.arr, was |-> slice.parts,
          value |-> v, quiet |-> quiet])])

stageWriteQuietly(s, slice, v, quiet) ==
  IF Type(v) \notin Plain THEN R(Unk("failed to convert"), s)
  ELSE IF Len(s.buf) >= BufferLimit THEN R(Unk("commit buffer exceeded"), s)
  ELSE R(Nothing, [s EXCEPT !.buf = Append(@,
         [path |-> slice.parts, arr |-> slice.arr, was |-> slice.parts,
          value |-> v, quiet |-> quiet \/ s.quietDepth > 0])])

RECURSIVE StageAll(_, _)
StageAll(s, ws) ==
  IF ws = <<>> THEN R(Nothing, s)
  ELSE Then(stageWriteQuietly(s, Copied(ws[1].path), ws[1].value, ws[1].quiet),
            LAMBDA v, t : StageAll(t, Tail(ws)))

\* The last staged write to the path.
getStagedWrite(s, path) ==
  LET at == {k \in DOMAIN s.buf : s.buf[k].path = path} IN
  IF at = {} THEN Missing
  ELSE storageToMBL(s.buf[CHOOSE k \in at : \A j \in at : j =< k].value)

Read(s, path) ==
  IF path \in DOMAIN s.tree THEN storageToMBL(s.tree[path]) ELSE Missing

\* A write fails when the storage has no room left; what came before it stays.
writeReportingChange(s, w) ==
  LET changes == w.path \notin DOMAIN s.tree \/ s.tree[w.path] # w.value IN
  [s EXCEPT !.tree = (w.path :> w.value) @@ @,
            !.room = IF changes THEN @ - 1 ELSE @,
            !.changed = IF changes /\ ~ w.quiet THEN @ \cup {w.path} ELSE @]

discardBuffer(s) == [s EXCEPT !.buf = <<>>]

\* The staged writes are applied from the last to the first.
RECURSIVE MutantFlushBuffer(_)
MutantFlushBuffer(s) ==
  IF s.buf = <<>> THEN R(Nothing, s)
  ELSE IF s.room = 0 THEN R(Unk("write failed"), discardBuffer(s))
  ELSE LET n == Len(s.buf) IN
       MutantFlushBuffer([writeReportingChange(s, s.buf[n])
                            EXCEPT !.buf = SubSeq(@, 1, n - 1)])

RECURSIVE flushBuffer(_)
flushBuffer(s) ==
  IF s.buf = <<>> THEN R(Nothing, s)
  ELSE IF s.room = 0 THEN R(Unk("write failed"), discardBuffer(s))
  ELSE flushBuffer([writeReportingChange(s, s.buf[1]) EXCEPT !.buf = Tail(@)])

\* In a loop the buffer is written out before the program has ended.
LoopFlush(s, k) ==
  IF k % FlushEvery = 0 /\ Len(s.buf) > FlushAbove
  THEN flushBuffer([s EXCEPT !.flushed = TRUE])
  ELSE R(Nothing, s)

SystemReasons ==
  {"commit buffer exceeded", "commit failed", "failed to read path",
   "failed to write path", "storage error", "parse error", "interpreter error",
   "unknown function", "undefined_function", "unsupported statement type",
   "unsupported expression type"}

shouldRollback(v) == v[2] \in SystemReasons

----------------------------------------------------------------------------
(* Values *)

RECURSIVE Glue(_)
Glue(pieces) == IF pieces = <<>> THEN "" ELSE pieces[1] \o Glue(Tail(pieces))
Text(word) == TextV(IF word = "" THEN <<>> ELSE <<word>>)

Number(l) == NumV(CHOOSE n \in 0 .. 99 : ToString(n) = l)

\* A key: a text, a number or a boolean.
IsKey(v) == Type(v) \in {"text", "num", "bool"}
keyToString(v) ==
  IF Type(v) = "bool" THEN ToString(v[2]) ELSE Glue(CoerceToText(v))

convertToMBLType(v) == IF Type(v) \in Plain THEN v ELSE Text(Type(v))

isNumeric(v) == Type(v) \in {"num", "money"}
negate(v) ==
  IF isNumeric(v) THEN [v EXCEPT ![2] = 0 - @] ELSE Unk("cannot negate")

RECURSIVE deepCopyValue(_)
deepCopyValue(v) ==
  CASE Type(v) = "rec" -> RecV([k \in DOMAIN v[2] |-> deepCopyValue(v[2][k])])
    [] Type(v) = "list" -> ListV([k \in DOMAIN v[2] |-> deepCopyValue(v[2][k])])
    [] OTHER -> v

\* The fields of a record in the order a loop visits them.
FieldOrder(s, f) ==
  LET q == SetToSeq(DOMAIN f) IN IF s.reversed THEN Reverse(q) ELSE q

\* Inside a handler, unknown is the reason that was caught.
evalUnknownLiteral(n, s) ==
  LET caught == Get(s, "__caught_unknown") IN
  IF n[2] = "unknown" /\ caught # Missing
  THEN IF IsUnknown(caught) THEN Text(caught[2]) ELSE caught
  ELSE Unk(n[2])

\* nothing is a word no case knows; a modifier that stands alone is a text.
evalLiteral(n) ==
  CASE n[2] = "NUMBER" -> Number(n[3])
    [] n[2] = "TEXT" -> Text(n[3])
    [] n[2] \in {"true", "false"} -> BoolV(n[2] = "true")
    [] n[2] = "nothing" -> Unk("unknown literal")
    [] n[2] = "empty" -> Text("")
    [] OTHER -> Text(n[3])

----------------------------------------------------------------------------
(* Paths *)

resolvePath(parts) ==
  IF parts = <<>> \/ parts[1] = "world" THEN parts
  ELSE IF parts[1] = "my"
  THEN IF Len(parts) > 1 /\ parts[2] = "computer" THEN parts ELSE Me \o Tail(parts)
  ELSE Me \o parts

RECURSIVE resolvePathExpressionParts(_, _, _)
resolvePathExpressionParts(parts, dyn, s) ==
  IF dyn = <<>> THEN R(<<"parts", parts>>, s)
  ELSE Then(Value(dyn[1][2], s), LAMBDA v, t :
         IF ~ IsKey(v) THEN R(Unk("key-selector"), t)
         ELSE resolvePathExpressionParts([parts EXCEPT ![dyn[1][1]] = keyToString(v)],
                                         Tail(dyn), t))

checkCascadeAtPath(s, path) ==
  IF Read(s, Append(path, "@cascade")) = Text("true") /\ Read(s, path) # Broken
  THEN Read(s, path) ELSE Missing

resolveCascade(s, name) ==
  LET at == [k \in 1 .. 3 |-> checkCascadeAtPath(s,
               Append(<<<<"world", "org">>, <<"world", "config">>, <<"world">>>>[k], name))]
      found == {k \in 1 .. 3 : at[k] # Missing}
  IN IF found = {} THEN Missing
     ELSE at[CHOOSE k \in found : \A j \in found : k =< j]

\* References are known to the outermost scope only.
resolveReference(s, ref) ==
  IF s.scopes[s.cur].parent # 0 \/ ref[2] \notin DOMAIN s.references
  THEN Unk("reference")
  ELSE LET path == s.references[ref[2]]
           staged == getStagedWrite(s, path)
           v == IF staged \in {Missing, Broken} THEN Read(s, path) ELSE staged
       IN IF v \in {Missing, Broken} THEN Unk("could not read target path") ELSE v

RECURSIVE accessRecordFields(_, _, _)
accessRecordFields(s, v, names) ==
  IF names = <<>> THEN v
  ELSE IF Type(v) # "rec" THEN Unk("cannot access field")
  ELSE IF names[1] \notin DOMAIN v[2] THEN Unk("field not found")
  ELSE LET f == v[2][names[1]]
       IN accessRecordFields(s, IF Type(f) = "reference" THEN resolveReference(s, f) ELSE f,
                             Tail(names))

EmptyRec(v) == Type(v) = "rec" /\ DOMAIN v[2] = {}

Children(s, path) ==
  {p[Len(path) + 1] : p \in {q \in DOMAIN s.tree :
     Len(q) > Len(path) /\ SubSeq(q, 1, Len(path)) = path}}

\* A child's own value, staged or stored, if it has one.
ChildValue(s, path) ==
  LET staged == getStagedWrite(s, path)
      stored == Read(s, path)
  IN IF staged \notin {Missing, Broken} THEN staged
     ELSE IF stored \notin {Missing, Broken} /\ ~ EmptyRec(stored) THEN stored
     ELSE Missing

Found(f) == LET d == {k \in DOMAIN f : f[k] # Missing} IN [k \in d |-> f[k]]

RECURSIVE readStoredRecord(_, _)
readStoredRecord(s, path) ==
  LET of(c) == LET v == ChildValue(s, Append(path, c)) IN
               IF v = Missing THEN readStoredRecord(s, Append(path, c)) ELSE v
      f == Found([c \in Children(s, path) |-> of(c)])
  IN IF DOMAIN f = {} THEN Missing ELSE RecV(f)

\* The nodes such a read visits.
RECURSIVE NodesRead(_, _)
NodesRead(s, path) ==
  LET below == {Append(path, c) : c \in Children(s, path)} IN
  below \cup UNION {NodesRead(s, p) : p \in {q \in below : ChildValue(s, q) = Missing}}

TemplateFields == {"name", "rate", "balance", "internal", "value", "data", "type"}
MetaNames == {"@heritability", "@default", "@cascade"}
MetaKey(name, m) == name \o "." \o m

\* A template is read field by field, from a fixed list.
reconstructTemplateRecord(s, path) ==
  LET names == TemplateFields \cup {MetaKey(x, m) : x \in TemplateFields, m \in MetaNames}
      of(x) == LET staged == getStagedWrite(s, Append(path, x))
                   v == IF staged = Missing THEN Read(s, Append(path, x)) ELSE staged
               IN IF v = Broken THEN Missing ELSE v
      f == Found([x \in names |-> of(x)])
  IN IF DOMAIN f = {} THEN Missing ELSE RecV(f)

reconstructRecord(s, path) ==
  IF Len(path) >= 3 /\ path[Len(path)] = "template" THEN reconstructTemplateRecord(s, path)
  ELSE IF Cardinality(NodesRead(s, path)) > MaxRecordNodes THEN Unk("read limit")
  ELSE readStoredRecord(s, path)

StoredOr(stored, record) ==
  IF stored = Missing THEN IF record = Missing THEN Unk("failed to read path") ELSE record
  ELSE IF EmptyRec(stored) /\ record # Missing THEN record ELSE stored

\* A staged value is answered as it is; a stored one may be a record whose
\* fields are paths of their own.
ReadPath(s, path) ==
  LET staged == getStagedWrite(s, path)
      stored == Read(s, path)
  IN IF staged # Missing
     THEN IF staged = Broken THEN Unk("failed to convert") ELSE staged
     ELSE IF stored = Broken THEN Unk("failed to convert")
     ELSE StoredOr(stored, reconstructRecord(s, path))

\* A single name: a variable, then the current scope's path, then a cascaded
\* value, then the agent's own path.
evalName(name, s) ==
  LET local == Get(s, name)
      a == GoAppend(s, s.path, <<name>>)
      staged == getStagedWrite(a.s, a.slice.parts)
      stored == Read(a.s, a.slice.parts)
      scoped == IF staged \in {Missing, Broken} THEN stored ELSE staged
      t == IF s.path = NoPath THEN s ELSE a.s
      cascade == resolveCascade(t, name)
  IN IF name = "unknown" THEN R(Unk("unknown"), s)
     ELSE IF name \in {"run", "new"} THEN R(Unk("requires an argument"), s)
     ELSE IF local # Missing THEN R(local, s)
     ELSE IF s.path # NoPath /\ scoped \notin {Missing, Broken} THEN R(scoped, t)
     ELSE IF cascade # Missing THEN R(cascade, t)
     ELSE R(ReadPath(t, resolvePath(<<name>>)), t)

evalParts(parts, s) ==
  IF parts = <<>> THEN R(Unk("empty path"), s)
  ELSE IF Len(parts) = 1 THEN evalName(parts[1], s)
  ELSE IF Get(s, parts[1]) # Missing
  THEN R(accessRecordFields(s, Get(s, parts[1]), Tail(parts)), s)
  ELSE R(ReadPath(s, resolvePath(parts)), s)

evalPath(n, s) ==
  Then(resolvePathExpressionParts(n[2], n[3], s), LAMBDA v, t : Parts(v[2], t))

----------------------------------------------------------------------------
(* Operators *)

evalDefiniteEquality(l, r) ==
  IF IsUnknown(r)
  THEN BoolV(IsUnknown(l) /\ (r[2] \in {"", "unknown"} \/ l[2] = r[2]))
  ELSE BoolV(~ IsUnknown(l) /\ Equal(l, r))

Operate(op, l, r) ==
  CASE op = "?=" -> evalDefiniteEquality(l, r)
    [] op = "&" -> Concatenate(l, r)
    [] IsUnknown(l) /\ op \notin {"?=", "&"} -> l
    [] IsUnknown(r) /\ ~ IsUnknown(l) /\ op \notin {"?=", "&"} -> r
    [] OTHER ->
         CASE op = "+" -> Add(l, r)
           [] op = "-" -> Subtract(l, r)
           [] op = "*" -> Multiply(l, r)
           [] op = "/" -> Divide(l, r)
           [] op = "%" -> Modulo(l, r)
           [] op = "^" -> Power(l, r)
           [] op = ">" -> BoolV(Greater(l, r))
           [] op = "<" -> BoolV(Less(l, r))
           [] op = ">=" -> BoolV(GreaterEqual(l, r))
           [] op = "<=" -> BoolV(LessEqual(l, r))
           [] op = "and" -> BoolV(isTruthy(l) /\ isTruthy(r))
           [] op = "or" -> BoolV(isTruthy(l) \/ isTruthy(r))
           [] OTHER -> Unk("unsupported binary operator")

\* Both operands are evaluated, whatever the first is.
evalBinaryExpression(n, s) ==
  LET l == Value(n[3], s)
      r == Value(n[4], l.s)
  IN R(Operate(n[2], l.v, r.v), r.s)

evalUnaryExpression(n, s) ==
  Then(Value(n[3], s), LAMBDA v, t :
    R(CASE n[2] = "-" -> negate(v)
        [] n[2] = "+" -> IF isNumeric(v) THEN v ELSE Unk("unary plus")
        [] n[2] = "not" -> BoolV(~ isTruthy(v)), t))

\* Values in turn; the first Unknown is the answer.
RECURSIVE EvalAll(_, _, _)
EvalAll(ns, s, acc) ==
  IF ns = <<>> THEN R(<<"args", acc>>, s)
  ELSE Then(Value(ns[1], s), LAMBDA v, t : EvalAll(Tail(ns), t, Append(acc, v)))

----------------------------------------------------------------------------
(* Collections *)

evalListExpression(n, s) ==
  Then(EvalAll(n[2], s, <<>>), LAMBDA v, t : R(ListV(v[2]), t))

\* A key that is a path is its own text.
FieldKey(k, s) ==
  IF k[1] = "path" THEN R(Text(FoldLeft(LAMBDA a, b : a \o "." \o b, k[2][1], Tail(k[2]))), s)
  ELSE Then(Value(k, s), LAMBDA v, t : R(Text(Glue(CoerceToText(v))), t))

\* A field with a modifier keeps it next to its value.
RECURSIVE FieldsFrom(_, _, _)
FieldsFrom(fields, s, acc) ==
  IF fields = <<>> THEN R(RecV(acc), s)
  ELSE Then(FieldKey(fields[1][1], s), LAMBDA key, t :
         Then(Value(fields[1][3], t), LAMBDA v, u :
           FieldsFrom(Tail(fields), u,
             (Glue(key[2]) :> IF fields[1][2] = "" THEN convertToMBLType(v)
                              ELSE <<"meta", v, fields[1][2]>>) @@ acc)))

evalRecordExpression(n, s) == FieldsFrom(n[2], s, <<>>)

\* The filters of one element, in a scope of its own.
RECURSIVE Matches(_, _)
Matches(filters, s) ==
  IF filters = <<>> THEN R(BoolV(TRUE), s)
  ELSE Then(Value(filters[1], s), LAMBDA v, t :
         IF isTruthy(v) THEN Matches(Tail(filters), t) ELSE R(BoolV(FALSE), t))

RECURSIVE filterList(_, _, _, _)
filterList(vs, filters, s, acc) ==
  IF vs = <<>> THEN R(ListV(acc), s)
  ELSE LET m == Matches(filters, Set(Child(s, s.cur), "item", vs[1]))
           back == [m.s EXCEPT !.cur = s.cur]
       IN IF IsUnknown(m.v) THEN R(m.v, back)
          ELSE filterList(Tail(vs), filters, back, IF m.v[2] THEN Append(acc, vs[1]) ELSE acc)

RECURSIVE filterRecord(_, _, _, _, _)
filterRecord(f, keys, filters, s, acc) ==
  IF keys = <<>> THEN R(RecV([k \in acc |-> f[k]]), s)
  ELSE LET v == f[keys[1]]
           in == Set(Set(Child(s, s.cur), "field", v), "key", Text(keys[1]))
           m == Matches(filters, IF Type(v) # "rec" THEN in
                  ELSE [in EXCEPT !.scopes[in.cur].local = v[2] @@ @])
           back == [m.s EXCEPT !.cur = s.cur]
       IN IF IsUnknown(m.v) THEN R(m.v, back)
          ELSE filterRecord(f, Tail(keys), filters, back,
                            IF m.v[2] THEN acc \cup {keys[1]} ELSE acc)

\* A single filter that is no condition selects a key.
IsKeySelector(filters) ==
  /\ Len(filters) = 1
  /\ \/ filters[1][1] = "path"
     \/ filters[1][1] = "lit" /\ filters[1][2] \in {"TEXT", "NUMBER"}
     \/ filters[1][1] = "bin" /\ filters[1][2] \in {"&", "+", "-", "*", "/"}

IsIndex(filters) ==
  Len(filters) = 1 /\ filters[1][1] = "lit" /\ filters[1][2] = "NUMBER"

tryIndexLookup(q, filter) ==
  LET k == Number(filter[3])[2] IN
  IF k >= Len(q) THEN Unk("list index out of bounds") ELSE q[k + 1]

evalBracketFilter(n, s) ==
  LET base == Value(n[2], s)
      filtered ==
        CASE IsUnknown(base.v) -> base
          [] Type(base.v) = "list" ->
               IF IsIndex(n[3]) THEN R(tryIndexLookup(base.v[2], n[3][1]), base.s)
               ELSE filterList(base.v[2], n[3], base.s, <<>>)
          [] Type(base.v) = "rec" ->
               filterRecord(base.v[2], FieldOrder(base.s, base.v[2]), n[3], base.s, {})
          [] OTHER -> R(Unk("cannot apply bracket filter"), base.s)
  IN IF n[2][1] = "path" /\ Type(base.v) # "list" /\ IsKeySelector(n[3])
     THEN Then(Value(n[3][1], base.s), LAMBDA v, t :
            IF ~ IsKey(v) THEN R(Unk("key-selector"), t)
            ELSE Parts(Append(n[2][2], keyToString(v)), t))
     ELSE filtered

\* From a path whose own value is no record, the fields are read one by one.
projectFromStoragePath(s, path, names) ==
  LET of(x) == LET staged == getStagedWrite(s, Append(path, x))
                   stored == Read(s, Append(path, x))
               IN IF staged \notin {Missing, Broken, Nothing} THEN staged
                  ELSE IF stored \notin {Missing, Broken, Nothing} THEN stored
                  ELSE Unk("not_found")
      f == [x \in Range(names) |-> of(x)]
  IN IF \A x \in DOMAIN f : f[x] = Unk("not_found") THEN Missing ELSE RecV(f)

evalProjectionExpression(n, s) ==
  Then(Value(n[2], s), LAMBDA v, t :
    LET project == IF n[2][1] = "path"
                   THEN projectFromStoragePath(t, resolvePath(n[2][2]), n[3]) ELSE Missing
    IN R(IF Type(v) = "rec"
         THEN RecV([x \in Range(n[3]) |->
                IF x \in DOMAIN v[2] THEN convertToMBLType(v[2][x]) ELSE Unk("not_found")])
         ELSE IF project = Missing THEN Unk("cannot project") ELSE project, t))

\* The list without its elements from the a-th to the b-th, counted from 0.
DropRange(q, a, b) == SubSeq(q, 1, a) \o SubSeq(q, b + 2, Len(q))

DropFirst(q, v) ==
  LET at == {k \in DOMAIN q : Equal(q[k], v)} IN
  IF at = {} THEN q ELSE RemoveAt(q, CHOOSE k \in at : \A j \in at : k =< j)

\* One number is a position, unless the element there is that number.
evalCollectionRemove(q, args) ==
  LET k == args[1][2] IN
  IF Len(args) = 1
  THEN IF Type(args[1]) = "num" /\ k >= 0 /\ k < Len(q) /\ q[k + 1] # args[1]
       THEN ListV(DropRange(q, k, k)) ELSE ListV(DropFirst(q, args[1]))
  ELSE IF Len(args) # 2 THEN Unk("remove accepts 1 or 2 arguments")
  ELSE IF Type(args[1]) # "num" \/ Type(args[2]) # "num" THEN Unk("remove range")
  ELSE IF ~ (0 =< k /\ k =< args[2][2] /\ args[2][2] < Len(q)) THEN Unk("invalid range")
  ELSE ListV(DropRange(q, k, args[2][2]))

Collect(method, obj, args) ==
  CASE method = "count" ->
         CASE Type(obj) = "list" -> NumV(Len(obj[2]))
           [] Type(obj) = "rec" -> NumV(Cardinality(DOMAIN obj[2]))
           [] OTHER -> Unk("cannot count")
    [] method # "count" /\ Type(obj) # "list" -> Unk("only works on lists")
    [] method = "combine" /\ Type(obj) = "list" ->
         IF Type(args[1]) # "text" THEN Unk("separator")
         ELSE TextV(JoinTexts(obj[2], args[1][2]))
    [] method = "remove" /\ Type(obj) = "list" -> evalCollectionRemove(obj[2], args)
    [] method = "append" /\ Type(obj) = "list" -> ListV(Append(obj[2], args[1]))
    [] method = "prepend" /\ Type(obj) = "list" -> ListV(<<args[1]>> \o obj[2])

\* The number of arguments is looked at after the object is evaluated, and
\* before they are.
evalCollectionOperationExpression(n, s) ==
  Then(Value(n[2], s), LAMBDA obj, t :
    IF n[3] = "count" THEN R(Collect("count", obj, <<>>), t)
    ELSE IF n[4] = <<>> \/ (n[3] # "remove" /\ Len(n[4]) # 1)
    THEN R(Unk("wrong number of arguments"), t)
    ELSE Then(EvalAll(n[4], t, <<>>), LAMBDA a, u : R(Collect(n[3], obj, a[2]), u)))

----------------------------------------------------------------------------
(* Templates *)

\* The value a field has apart from its modifier, and the modifier that rules.
FieldValue(v) == IF Type(v) = "meta" THEN v[2] ELSE v
FieldRule(v, modifier) == IF Type(v) = "meta" THEN v[3] ELSE modifier

\* reset replaces what is there; copy and link do not.
applyInheritanceWithModifiers(target, source, modifier) ==
  LET rule(k) == FieldRule(source[k], modifier)
      taken == {k \in DOMAIN source : rule(k) = "reset"
                  \/ (rule(k) \in {"copy", "link"} /\ k \notin DOMAIN target)}
  IN [k \in DOMAIN target \cup taken |->
        IF k \in taken THEN deepCopyValue(FieldValue(source[k])) ELSE target[k]]

RECURSIVE InheritAll(_, _, _, _)
InheritAll(sources, modifier, s, fields) ==
  IF sources = <<>> THEN R(RecV(fields), s)
  ELSE LET src == sources[1]
           named == src[1] = "name"
           r == IF named THEN R(Get(s, src[2]), s) ELSE evalRecordExpression(src, s)
       IN IF IsUnknown(r.v) /\ ~ named THEN r
          ELSE IF Type(r.v) # "rec" THEN R(Unk("template source"), r.s)
          ELSE InheritAll(Tail(sources), modifier, r.s,
                          applyInheritanceWithModifiers(fields, r.v[2], modifier))

evalInstantiationStatement(n, s) ==
  Then(InheritAll(n[4], IF n[3] = "" THEN "copy" ELSE n[3], s, [_type |-> Text(n[2])]),
    LAMBDA v, t :
      IF n[5] = <<>> THEN R(v, t)
      ELSE Then(evalRecordExpression(n[5][1], t), LAMBDA w, u : R(RecV(w[2] @@ v[2]), u)))

\* A rule is looked for in a field whose name ends in it.
getHeritabilityRule(f, name) ==
  LET k == MetaKey(name, "@heritability") IN
  IF k \in DOMAIN f /\ Type(f[k]) = "text" THEN Glue(f[k][2]) ELSE "copy"

IsMeta(f, name) ==
  name \in MetaNames \cup {MetaKey(x, m) : x \in DOMAIN f \cup TemplateFields, m \in MetaNames}

\* A linked field is noted in the scope's reference map, which only the
\* outermost scope has.
evalNewFunction(args, s) ==
  IF Len(args) # 1 THEN R(Unk("new() expects exactly one argument"), s)
  ELSE IF args[1][1] # "path" THEN R(Unk("new() argument must be a path"), s)
  ELSE LET t == Value(args[1], s)
           f == t.v[2]
           rule(k) == getHeritabilityRule(f, k)
           default(k) == MetaKey(k, "@default")
           kept == {k \in DOMAIN f : ~ IsMeta(f, k) /\ rule(k) # "exclude"
                      /\ (rule(k) = "reset" => default(k) \in DOMAIN f)}
           links == {k \in kept : rule(k) = "link"}
           target(k) == Append(args[1][2], k)
           value(k) == CASE rule(k) = "link" -> <<"reference", target(k)>>
                         [] rule(k) = "reset" -> f[default(k)]
                         [] OTHER -> deepCopyValue(f[k])
       IN IF Type(t.v) # "rec" THEN R(Unk("new() can only instantiate records"), t.s)
          ELSE IF links # {} /\ s.scopes[s.cur].parent # 0
          THEN R(Unk("panic: assignment to entry in nil map"), t.s)
          ELSE R(RecV([k \in kept |-> value(k)]),
                 [t.s EXCEPT !.references =
                    [p \in {target(k) : k \in links} |-> resolvePath(p)] @@ @])

----------------------------------------------------------------------------
(* Procedures and watchers *)

\* A procedure keeps the scope and the scope path it was defined in.
Procedure(params, body, s) == <<"proc", params, body, s.cur, s.raw, s.path.parts>>

bindingPathForProcedure(s, name) ==
  IF s.raw = <<>> THEN <<"my", name>> ELSE Append(s.raw, name)

bindProcedureAtPath(s, parts, p) ==
  LET t == [s EXCEPT !.procedures = (parts :> p) @@ @]
  IN R(p, IF Len(parts) = 1 THEN Set(t, parts[1], p) ELSE t)

evalProcedureStatement(n, s) ==
  LET p == Procedure(n[3], n[4], s)
      b == bindProcedureAtPath(s, bindingPathForProcedure(s, n[2]), p)
  IN R(p, Set(b.s, n[2], p))

\* The depth is not given back when the body ends in an Unknown.
MutantCall(p, args, s) ==
  LET in == Child([s EXCEPT !.callDepth = @ + 1, !.raw = p[5],
                            !.path = IF p[6] = <<>> THEN NoPath ELSE Copied(p[6])], p[4])
      r == RunAll(p[3], SetAll(in, p[2], args))
      back == [r.s EXCEPT !.cur = s.cur, !.raw = s.raw, !.path = s.path,
                          !.callDepth = IF IsUnknown(r.v) THEN @ ELSE s.callDepth]
  IN IF Len(args) # Len(p[2]) THEN R(Unk("wrong number of arguments"), s)
     ELSE IF s.callDepth >= MaxCallDepth THEN R(Unk("call depth exceeded"), s)
     ELSE R(IF Type(r.v) = "return" THEN r.v[2] ELSE r.v, back)

\* The body runs in a child of the scope of the definition; a break is handed
\* to the caller.
Call(p, args, s) ==
  LET in == Child([s EXCEPT !.callDepth = @ + 1, !.raw = p[5],
                            !.path = IF p[6] = <<>> THEN NoPath ELSE Copied(p[6])], p[4])
      r == RunAll(p[3], SetAll(in, p[2], args))
      back == [r.s EXCEPT !.cur = s.cur, !.raw = s.raw, !.path = s.path,
                          !.callDepth = s.callDepth]
  IN IF Len(args) # Len(p[2]) THEN R(Unk("wrong number of arguments"), s)
     ELSE IF s.callDepth >= MaxCallDepth THEN R(Unk("call depth exceeded"), s)
     ELSE R(IF Type(r.v) = "return" THEN r.v[2] ELSE r.v, back)

\* What a watcher may watch: a path, or a filtered path.
watchPathParts(e) ==
  IF e[1] = "path" THEN e[2]
  ELSE IF e[1] = "filter" /\ e[2][1] = "path" THEN e[2][2] ELSE <<>>

\* The body is handed to the engine as text.
Watcher(append, paths, binding, body) ==
  <<"watcher", append, [k \in DOMAIN paths |-> resolvePath(watchPathParts(paths[k]))],
    binding, bodyToMBLCode(body), body>>

bindingPathFor(s, names) ==
  IF s.path = NoPath THEN resolvePath(<<"my">> \o names) ELSE s.path.parts \o names

bindWatcherAtPath(s, path, w) == R(w, [s EXCEPT !.watchers = (path :> w) @@ @])

Watchable(paths) == \A k \in DOMAIN paths : watchPathParts(paths[k]) # <<>>

evalWatchStatement(n, s) ==
  IF n[4] = <<>> THEN R(Unk("must specify at least one path"), s)
  ELSE IF ~ Watchable(n[4]) THEN R(Unk("unsupported path expression"), s)
  ELSE bindWatcherAtPath(s, bindingPathFor(s, n[2]), Watcher(n[3], n[4], n[6], n[7]))

evalWatchExpression(n, s) ==
  IF n[5] = <<>> THEN R(Unk("watch expression must have a body"), s)
  ELSE IF ~ Watchable(n[3]) THEN R(Unk("unsupported path expression"), s)
  ELSE IF n[2] /\ n[4] = "" THEN R(Unk("must have an alias"), s)
  ELSE R(Watcher(n[2], n[3], n[4], n[5]), s)

----------------------------------------------------------------------------
(* Calls *)

Numbers(args) == [k \in DOMAIN args |-> CoerceToNumber(args[k])]
AllNumbers(args) == \A k \in DOMAIN args : ~ IsUnknown(Numbers(args)[k])

\* The greatest (sign 1) or least (sign -1) of the arguments.
Extreme(args, sign) ==
  IF args = <<>> \/ ~ AllNumbers(args) THEN Unk("not a number")
  ELSE LET ns == Numbers(args) IN
       ns[CHOOSE k \in DOMAIN ns : \A j \in DOMAIN ns : sign * ns[j][2] =< sign * ns[k][2]]

Size(v) ==
  CASE Type(v) = "text" -> NumV(Len(v[2]))
    [] Type(v) = "list" -> NumV(Len(v[2]))
    [] Type(v) = "rec" -> NumV(Cardinality(DOMAIN v[2]))
    [] OTHER -> Unk("len() not supported")

Absolute(v) ==
  LET n == CoerceToNumber(v) IN IF IsUnknown(n) \/ n[2] >= 0 THEN n ELSE negate(n)

\* Numbers are whole here: floor and ceil only coerce.
Whole(v) == CoerceToNumber(v)

One(args, f(_)) == IF Len(args) # 1 THEN Unk("requires exactly 1 argument") ELSE f(args[1])

Builtins == {"len", "text", "number", "add", "output", "abs", "floor", "ceil", "max",
             "min", "unknown"}

Builtin(name, args) ==
  CASE name = "len" -> One(args, Size)
    [] name = "text" -> One(args, LAMBDA v : TextV(CoerceToText(v)))
    [] name = "number" -> One(args, CoerceToNumber)
    [] name \in {"floor", "ceil"} -> One(args, Whole)
    [] name = "abs" -> One(args, Absolute)
    [] name = "add" -> FoldLeft(LAMBDA a, b : Add(a, b), NumV(0), args)
    [] name = "output" -> IF args = <<>> THEN Nothing ELSE args[1]
    [] name = "max" -> Extreme(args, 1)
    [] name = "min" -> Extreme(args, -1)
    [] name = "unknown" -> IF args = <<>> THEN Unk("")
                           ELSE One(args, LAMBDA v : Unk(Glue(CoerceToText(v))))

\* A procedure bound at the path comes before a variable of that name.
evalCallExpression(n, s) ==
  LET parts == n[2][2]
      name == parts[1]
      simple == Len(parts) = 1
      value(t) == IF simple THEN Get(t, name) ELSE Missing
  IN IF n[2][1] # "path" THEN R(Unk("function must be a path expression"), s)
     ELSE IF simple /\ name = "new" THEN evalNewFunction(n[3], s)
     ELSE Then(EvalAll(n[3], s, <<>>), LAMBDA a, t :
            IF simple /\ name \in Builtins THEN R(Builtin(name, a[2]), t)
            ELSE IF parts \in DOMAIN t.procedures THEN Call(t.procedures[parts], a[2], t)
            ELSE IF value(t) = Missing THEN R(Unk("unknown function"), t)
            ELSE IF Type(value(t)) # "proc" THEN R(Unk("not a procedure"), t)
            ELSE Call(value(t), a[2], t))

evalExpression(n, s) ==
  CASE n[1] = "lit" -> R(evalLiteral(n), s)
    [] n[1] = "unknown" -> R(evalUnknownLiteral(n, s), s)
    [] n[1] = "path" -> evalPath(n, s)
    [] n[1] = "bin" -> evalBinaryExpression(n, s)
    [] n[1] = "un" -> evalUnaryExpression(n, s)
    [] n[1] = "call" -> evalCallExpression(n, s)
    [] n[1] = "filter" -> evalBracketFilter(n, s)
    [] n[1] = "proj" -> evalProjectionExpression(n, s)
    [] n[1] = "rec" -> evalRecordExpression(n, s)
    [] n[1] = "list" -> evalListExpression(n, s)
    [] n[1] = "coll" -> evalCollectionOperationExpression(n, s)
    [] n[1] = "ref" -> R(<<"reference", IF n[2][1] = "path" THEN n[2][2] ELSE <<>> >>, s)
    [] n[1] = "mod" -> Value(n[3], s)
    [] n[1] = "proc" -> R(Procedure(n[2], n[3], s), s)
    [] n[1] = "watch" -> evalWatchExpression(n, s)
    [] OTHER -> R(Unk("unsupported expression type"), s)

----------------------------------------------------------------------------
(* Assignment *)

Write(path, v, quiet) == [path |-> path, value |-> v, quiet |-> quiet]

\* Every prefix without a value in the tree becomes an empty record; what is
\* staged is not looked at.
ensureIntermediatePath(s, path) ==
  LET prefixes == [k \in DOMAIN path |-> SubSeq(path, 1, k)]
  IN [k \in DOMAIN SelectSeq(prefixes, LAMBDA p : Read(s, p) \in {Missing, Nothing}) |->
        Write(SelectSeq(prefixes, LAMBDA p : Read(s, p) \in {Missing, Nothing})[k],
              RecV(<<>>), FALSE)]

\* A record is stored field by field, and one inside it the same way.
RECURSIVE expandRecordToStorage(_, _, _)
expandRecordToStorage(s, path, f) ==
  FlattenSeq([k \in DOMAIN FieldOrder(s, f) |->
    LET name == FieldOrder(s, f)[k] IN
    IF Type(f[name]) = "rec" THEN expandRecordToStorage(s, Append(path, name), f[name][2])
    ELSE <<Write(Append(path, name), f[name], FALSE)>>])

\* What the modifier leaves at the path.
MetaWrites(path, modifier) ==
  CASE modifier = "cascade" -> <<Write(Append(path, "@cascade"), Text("true"), FALSE)>>
    [] modifier \in {"copy", "link", "exclude", "reset"} ->
         <<Write(Append(path, "@heritability"), Text(modifier), FALSE)>>
    [] OTHER -> <<>>

\* Under a scope a single name is a path below it: the write is staged with
\* the slice append returned, and a full buffer is not reported.
AssignScoped(s, name, v) ==
  LET a == GoAppend(s, s.path, <<name>>)
      w == stageWriteQuietly(a.s, a.slice, v, FALSE)
  IN R(v, w.s)

AssignPath(s, path, v, modifier) ==
  Then(StageAll(s, MetaWrites(path, modifier)
                   \o ensureIntermediatePath(s, SubSeq(path, 1, Len(path) - 1))
                   \o IF Type(v) = "rec" THEN expandRecordToStorage(s, path, v[2])
                      ELSE <<Write(path, v, modifier = "quietly")>>),
       LAMBDA x, t : R(v, t))

AssignValue(s, parts, v, modifier) ==
  IF Type(v) = "proc" THEN bindProcedureAtPath(s, parts, v)
  ELSE IF Type(v) = "watcher" THEN bindWatcherAtPath(s, resolvePath(parts), v)
  ELSE LET w == convertToMBLType(v) IN
       IF Len(parts) = 1 /\ parts[1] \notin {"my", "world"}
       THEN IF s.path # NoPath THEN AssignScoped(s, parts[1], w)
            ELSE R(w, Update(s, parts[1], w))
       ELSE AssignPath(s, resolvePath(parts), w, modifier)

evalAssignment(n, s) ==
  Then(Value(n[5], s), LAMBDA v, t :
    Then(resolvePathExpressionParts(n[2][2], n[2][3], t), LAMBDA p, u :
      AssignValue(u, p[2], v, n[3])))

\* Anything but a procedure or a watcher is evaluated again, as an assignment.
evalDefinitionStatement(n, s) ==
  LET parts == n[2][2] IN
  Then(Value(n[3], s), LAMBDA v, t :
    IF Type(v) = "proc" /\ Len(parts) = 1
    THEN LET b == bindProcedureAtPath(t, bindingPathForProcedure(t, parts[1]), v)
         IN R(v, Set(b.s, parts[1], v))
    ELSE IF Type(v) = "proc" THEN bindProcedureAtPath(t, parts, v)
    ELSE IF Type(v) = "watcher" THEN bindWatcherAtPath(t, resolvePath(parts), v)
    ELSE evalAssignment(Assign(n[2], "", FALSE, n[3]), t))

----------------------------------------------------------------------------
(* Statements *)

Stops(v) == Type(v) \in {"break", "return"} \/ (IsUnknown(v) /\ v[2] # "")

RECURSIVE BlockTail(_, _, _)
BlockTail(body, s, v) ==
  IF body = <<>> THEN R(v, s)
  ELSE LET r == Run(body[1], s)
       IN IF Stops(r.v) THEN r ELSE BlockTail(Tail(body), r.s, r.v)

evalBlockStatement(body, s) == BlockTail(body, s, Nothing)

evalIfStatement(n, s) ==
  Then(Value(n[2], s), LAMBDA v, t :
    RunAll(IF isTruthy(v) THEN n[3] ELSE n[4], t))

RECURSIVE WhileFrom(_, _, _)
WhileFrom(n, s, k) ==
  IF k > MaxIterations THEN R(Unk("exceeded maximum iterations"), s)
  ELSE Then(Value(n[2], s), LAMBDA v, t :
    LET b == RunAll(n[3], t)
        f == LoopFlush(b.s, k)
    IN IF ~ isTruthy(v) THEN R(Nothing, t)
       ELSE IF b.v = Break THEN R(Nothing, b.s)
       ELSE IF IsUnknown(b.v) \/ Type(b.v) = "return" THEN b
       ELSE IF IsUnknown(f.v) THEN R(Unk("failed to flush buffer"), f.s)
       ELSE WhileFrom(n, f.s, k + 1))

evalWhileStatement(n, s) == WhileFrom(n, s, 1)

\* The k-th element counts from 0.  When the buffer cannot be flushed the
\* loop's scope stays the current one.
RECURSIVE ForFrom(_, _, _, _, _, _)
ForFrom(n, vs, s, k, v, outer) ==
  LET one == Set(s, n[2][1], vs[k + 1])
      in == IF Len(n[2]) > 1 THEN Set(one, n[2][2], NumV(k)) ELSE one
      b == RunAll(n[4], in)
      f == LoopFlush(b.s, k)
  IN IF k = Len(vs) THEN R(v, [s EXCEPT !.cur = outer])
     ELSE IF Type(b.v) \in {"unknown", "break", "return"}
     THEN R(IF b.v = Break THEN Nothing ELSE b.v, [b.s EXCEPT !.cur = outer])
     ELSE IF IsUnknown(f.v)
     THEN R(Unk("failed to flush buffer"), [f.s EXCEPT !.abandoned = TRUE])
     ELSE ForFrom(n, vs, f.s, k + 1, b.v, outer)

evalForStatement(n, s) ==
  Then(Value(n[3], s), LAMBDA v, t :
    IF Type(v) # "list" THEN R(Unk("cannot iterate"), t)
    ELSE IF Len(v[2]) > MaxElements
    THEN R(Unk("list too large"), [Child(t, t.cur) EXCEPT !.abandoned = TRUE])
    ELSE ForFrom(n, v[2], Child(t, t.cur), 0, Nothing, t.cur))

evalReturnStatement(n, s) ==
  IF n[2] = <<>> THEN R(Return(Nothing), s)
  ELSE LET r == Value(n[2][1], s)
       IN IF IsUnknown(r.v) /\ r.v[2] # "" THEN r ELSE R(Return(r.v), r.s)

evalQuietlyBlock(n, s) ==
  LET r == RunAll(n[2], [s EXCEPT !.quietDepth = @ + 1])
  IN R(r.v, [r.s EXCEPT !.quietDepth = @ - 1])

\* The first handler takes every Unknown.
evalCatchStatement(n, s) ==
  LET r == RunAll(n[2], s)
      name == "__caught_unknown"
      outer == Get(r.s, name)
      h == RunAll(n[3][1], Set(r.s, name, r.v))
      back == IF outer # Missing THEN Set(h.s, name, outer)
              ELSE [h.s EXCEPT !.scopes[h.s.cur].local = Without(@, name)]
  IN IF ~ IsUnknown(r.v) \/ n[3] = <<>> THEN r ELSE R(h.v, back)

\* What a scope's path means: an append to a three-element array for my, the
\* parts themselves for world, an append to the current path otherwise.
resolveAbsolutePath(s, parts) ==
  IF parts[1] = "my" THEN GoAppend([s EXCEPT !.arrays = @ + 1],
                                   [parts |-> Me, arr |-> s.arrays + 1, cap |-> 3],
                                   Tail(parts))
  ELSE IF parts[1] = "world" \/ s.path = NoPath THEN [slice |-> Copied(parts), s |-> s]
  ELSE GoAppend(s, s.path, parts)

\* The scope stays set after the body, whose result is dropped.
evalScopeStatement(n, s) ==
  LET r == Parts(n[2], s)
      a == resolveAbsolutePath(r.s, n[2])
      in == [a.s EXCEPT !.path = a.slice, !.raw = n[2]]
      after == IF n[3] = <<>> THEN in ELSE RunAll(n[3][1], in).s
  IN R(IF IsUnknown(r.v) THEN Text("scope set") ELSE r.v, after)

evalEmbedDirectiveStatement(n, s) ==
  Then(Value(n[3], s), LAMBDA v, t : R(Nothing, t))

\* pass has no case.
evalStatement(n, s) ==
  CASE n[1] = "assign" -> evalAssignment(n, s)
    [] n[1] = "expr" -> Value(n[2], s)
    [] n[1] = "if" -> evalIfStatement(n, s)
    [] n[1] = "quiet" -> evalQuietlyBlock(n, s)
    [] n[1] = "while" -> evalWhileStatement(n, s)
    [] n[1] = "for" -> evalForStatement(n, s)
    [] n[1] = "return" -> evalReturnStatement(n, s)
    [] n[1] = "break" -> R(Break, s)
    [] n[1] = "procstmt" -> evalProcedureStatement(n, s)
    [] n[1] = "new" -> evalInstantiationStatement(n, s)
    [] n[1] = "embed" -> evalEmbedDirectiveStatement(n, s)
    [] n[1] = "catch" -> evalCatchStatement(n, s)
    [] n[1] = "scope" -> evalScopeStatement(n, s)
    [] n[1] = "def" -> evalDefinitionStatement(n, s)
    [] n[1] = "watchstmt" -> evalWatchStatement(n, s)
    [] OTHER -> R(Unk("unsupported statement type"), s)

Eval(what, n, s) ==
  CASE what = "expression" -> evalExpression(n, s)
    [] what = "statement" -> evalStatement(n, s)
    [] what = "block" -> evalBlockStatement(n, s)
    [] what = "parts" -> evalParts(n, s)

=============================================================================
