------------------------------ MODULE Language -----------------------------
(***************************************************************************)
(* A session: a program's text is read token by token, parsed, run one      *)
(* top-level statement at a time, and then committed or rolled back         *)
(* (Interpret in internal/mbl/interpreter/interpreter.go; the connection    *)
(* and the shell keep one interpreter for all programs of a session).       *)
(* Between two programs the engine may run a watcher's registered text      *)
(* (internal/watcher/engine.go).                                            *)
(***************************************************************************)
EXTENDS Interpreter

CONSTANTS Programs,      \* the texts a session may submit
          MaxPrograms,   \* programs in one session (a bound)
          Rooms,         \* writes the storage accepts before it fails
          Samples        \* values to compare

VARIABLES phase,     \* "idle", "lexing", "running"
          count,     \* programs submitted
          text, lex, \* the text and the lexer on it
          whole,     \* the parsed program
          body,      \* the statements still to run
          sess,      \* the interpreter
          result,    \* the value of the last statement
          outcome,   \* how the last program ended
          before,    \* the tree when the program was submitted
          last,      \* the last top-level write: its path, its value and whether
                     \* the buffer had room for it; or <<>>
          pair       \* two values compared, or <<>>

lvars == <<phase, count, text, lex, whole, body, sess, result, outcome, before,
           last, pair>>

Init ==
  /\ phase = "idle" /\ count = 0
  /\ text = <<>> /\ lex = NewLexer /\ whole = <<>> /\ body = <<>>
  /\ sess = New(<<>>, 0, FALSE)
  /\ result = Nothing /\ outcome = "none"
  /\ before = <<>> /\ last = <<>> /\ pair = <<>>

\* The engine or the connection takes the changed paths when a program ended.
Submit(program, room, reversed) ==
  /\ phase = "idle" /\ count < MaxPrograms /\ pair = <<>>
  /\ phase' = "lexing" /\ count' = count + 1
  /\ text' = program /\ lex' = NewLexer
  /\ whole' = <<>> /\ body' = <<>>
  /\ sess' = [sess EXCEPT !.room = room, !.reversed = reversed,
                          !.changed = {}, !.flushed = FALSE]
  /\ result' = Nothing /\ outcome' = "none" /\ before' = sess.tree /\ last' = <<>>
  /\ UNCHANGED pair

Lex ==
  /\ phase = "lexing" /\ ~ Lexed(lex)
  /\ lex' = NextToken(text, lex)
  /\ UNCHANGED <<phase, count, text, whole, body, sess, result, outcome, before, last, pair>>

\* A program with an error in it is not run at all.
Parse ==
  /\ phase = "lexing" /\ Lexed(lex)
  /\ \E p \in {ParseProgram(lex.out, text)} :
     /\ phase' = IF p.ok THEN "running" ELSE "idle"
     /\ outcome' = IF p.ok THEN "none" ELSE "parse error"
     /\ whole' = IF p.ok THEN p.body ELSE <<>>
     /\ body' = IF p.ok THEN p.body ELSE <<>>
  /\ UNCHANGED <<count, text, lex, sess, result, before, last, pair>>

\* The path a top-level assignment of a plain value writes, with the value.  A
\* write under a scope that the full buffer refuses answers its value all the same.
Written(n, s, v) ==
  LET parts == resolvePathExpressionParts(n[2][2], n[2][3], s).v[2] IN
  IF n[1] # "assign" \/ Type(v) \notin Plain \ {"rec", "unknown"} THEN <<>>
  ELSE IF Len(parts) > 1 THEN <<resolvePath(parts), v, TRUE>>
  ELSE IF s.path # NoPath THEN <<s.path.parts \o parts, v, Len(s.buf) < BufferLimit>>
  ELSE <<>>

\* An Unknown does not end the program; a return does.
Step ==
  /\ phase = "running" /\ body # <<>>
  /\ \E r \in {Run(body[1], sess)} :
     LET returned == Type(r.v) = "return"
         w == Written(body[1], sess, r.v)
     IN /\ sess' = r.s
        /\ result' = IF returned THEN r.v[2] ELSE r.v
        /\ body' = IF returned THEN <<>> ELSE Tail(body)
        /\ last' = IF w # <<>> THEN w
                   ELSE IF r.s.buf = sess.buf /\ r.s.tree = sess.tree THEN last ELSE <<>>
  /\ UNCHANGED <<phase, count, text, lex, whole, outcome, before, pair>>

\* The buffer is flushed before the result is looked at.
MutantConclude(s, v) ==
  LET f == flushBuffer(s) IN
  IF IsUnknown(f.v) THEN [s |-> f.s, v |-> Unk("commit failed"), outcome |-> "failed"]
  ELSE IF IsUnknown(v) /\ shouldRollback(v)
  THEN [s |-> discardBuffer(f.s), v |-> v, outcome |-> "rolled back"]
  ELSE [s |-> f.s, v |-> v, outcome |-> "committed"]

\* A last value that is a system Unknown throws the staged writes away.
Conclude(s, v) ==
  LET f == flushBuffer(s) IN
  IF IsUnknown(v) /\ shouldRollback(v)
  THEN [s |-> discardBuffer(s), v |-> v, outcome |-> "rolled back"]
  ELSE IF IsUnknown(f.v)
  THEN [s |-> f.s, v |-> Unk("commit failed"), outcome |-> "failed"]
  ELSE [s |-> f.s, v |-> v, outcome |-> "committed"]

\* Scopes nothing refers to any more are forgotten.
Collected(s) ==
  IF /\ s.cur = 1
     /\ \A k \in DOMAIN s.procedures : s.procedures[k][4] = 1
     /\ \A x \in DOMAIN s.scopes[1].local :
          Type(s.scopes[1].local[x]) = "proc" => s.scopes[1].local[x][4] = 1
  THEN [s EXCEPT !.scopes = <<@[1]>>] ELSE s

Finish ==
  /\ phase = "running" /\ body = <<>>
  /\ LET c == Conclude(sess, result) IN
     /\ sess' = Collected(c.s)
     /\ result' = c.v
     /\ outcome' = c.outcome
  /\ phase' = "idle"
  /\ UNCHANGED <<count, text, lex, whole, body, before, last, pair>>

RECURSIVE LexFrom(_, _)
LexFrom(t, s) == IF Lexed(s) THEN s.out ELSE LexFrom(t, NextToken(t, s))
ParseText(t) == ParseProgram(LexFrom(t, NewLexer), t)

RECURSIVE RunFrom(_, _)
RunFrom(b, r) ==
  IF Type(r.v) = "return" THEN Conclude(r.s, r.v[2])
  ELSE IF b = <<>> THEN Conclude(r.s, r.v)
  ELSE RunFrom(Tail(b), Run(b[1], r.s))

\* The engine parses the registered text and runs it in a new interpreter on
\* the same tree.  A text that does not parse is skipped.
FireWatcher(k) ==
  LET w == sess.watchers[k] IN
  /\ phase = "idle" /\ outcome = "committed"
  /\ sess.changed \cap Range(w[3]) # {}
  /\ \E p \in {ParseText(w[5])} :
       /\ p.ok
       /\ \E c \in {RunFrom(p.body, R(Nothing, New(sess.tree, sess.room, FALSE)))} :
            sess' = [sess EXCEPT !.tree = c.s.tree, !.room = c.s.room,
                                 !.changed = c.s.changed]
  /\ outcome' = "watched"
  /\ UNCHANGED <<phase, count, text, lex, whole, body, result, before, last, pair>>

\* ?=, <, > and their like may meet any two values.
Weigh(l, r) ==
  /\ count = 0 /\ pair = <<>>
  /\ pair' = <<l, r>>
  /\ UNCHANGED <<phase, count, text, lex, whole, body, sess, result, outcome, before, last>>

Next ==
  \/ \E t \in Programs, room \in Rooms, reversed \in BOOLEAN : Submit(t, room, reversed)
  \/ Lex
  \/ Parse
  \/ Step
  \/ Finish
  \/ \E k \in DOMAIN sess.watchers : FireWatcher(k)
  \/ \E l, r \in Samples : Weigh(l, r)

Spec == Init /\ [][Next]_lvars

----------------------------------------------------------------------------
(* Properties *)

\* The lexer (handleIndentation) opens and closes blocks in pairs: at every
\* moment the INDENTs it gave out are the DEDENTs given out, the DEDENTs owed
\* and the levels still open, as long as no line fell between two levels.
IndentsBalance ==
  LET given(t) == Cardinality({k \in DOMAIN lex.out : lex.out[k].t = t}) IN
  (\A k \in DOMAIN lex.out : lex.out[k].t # "ILLEGAL") =>
    given("INDENT") = given("DEDENT") + lex.pendingDedents + Len(lex.indentStack) - 1

\* The ranks of the operator table of docs/amorphdb_design.md (549-559): a
\* higher one binds tighter.
Documented ==
  [t \in {"or"} |-> 1] @@ [t \in {"and"} |-> 2]
  @@ [t \in {"?=", ">", "<", ">=", "<="} |-> 3] @@ [t \in {"&"} |-> 4]
  @@ [t \in {"+", "-"} |-> 5] @@ [t \in {"*", "/", "%"} |-> 6] @@ [t \in {"^"} |-> 7]

RECURSIVE Grouped(_, _)
Grouped(n, rank) ==
  n[1] = "bin" =>
    /\ Grouped(n[3], rank) /\ Grouped(n[4], rank)
    /\ n[3][1] = "bin" => \/ rank[n[3][2]] > rank[n[2]]
                          \/ rank[n[3][2]] = rank[n[2]] /\ n[2] # "^"
    /\ n[4][1] = "bin" => \/ rank[n[4][2]] > rank[n[2]]
                          \/ rank[n[4][2]] = rank[n[2]] /\ n[2] = "^"

ChainsGroupBy(rank) ==
  (\A k \in DOMAIN text : text[k].l # "(") =>
    \A k \in DOMAIN whole : whole[k][1] = "expr" => Grouped(whole[k][2], rank)

\* A chain of operators without parentheses is grouped by the ranks of the
\* operator table, left to right among equals and ^ right to left
\* (parseExpression).
ChainsGroup == ChainsGroupBy(Documented)

\* The same with what docs/amorphdb_design.md says of the logical operators
\* (483): "and and or have equal precedence and are left-associative".  The
\* parser does not do this.
AndOrGroupEqually == ChainsGroupBy([Documented EXCEPT !["and"] = 1])

Flat(b) == \A k \in DOMAIN b : b[k][1] \in {"assign", "expr", "return", "break"}

\* The nodes a node of a flat body is made of.
Constituents(n) ==
  CASE n[1] = "assign" -> <<n[2], n[5]>>
    [] n[1] = "path" -> [k \in DOMAIN n[3] |-> n[3][k][2]]
    [] n[1] = "bin" -> <<n[3], n[4]>>
    [] n[1] \in {"un", "mod"} -> <<n[3]>>
    [] n[1] \in {"expr", "ref", "proj"} -> <<n[2]>>
    [] n[1] \in {"return", "list"} -> n[2]
    [] n[1] \in {"call", "filter"} -> <<n[2]>> \o n[3]
    [] n[1] \in {"coll", "chain"} -> <<n[2]>> \o n[4]
    [] n[1] = "rec" -> [k \in DOMAIN n[2] |-> n[2][k][3]]
    [] OTHER -> <<>>

\* What the text keeps: an Unknown without a reason of its own, a path of names
\* only, and an operation the lexer does not take for a modifier, as it takes
\* the f(x of (f(x) + y).
RECURSIVE Expressible(_)
Expressible(n) ==
  /\ n[1] = "unknown" => n[2] = "unknown"
  /\ n[1] = "path" => \A k \in DOMAIN n[2] \ {1} : n[2][k] \notin Numerals \cup Keywords
  /\ n[1] = "bin" => n[2] = " " \/ ~ isStandaloneModifier(bodyToMBLCode(<<n>>), 2)
  /\ \A k \in DOMAIN Constituents(n) : Expressible(Constituents(n)[k])

Reparses(w) == ParseText(w[5]) = [ok |-> TRUE, body |-> w[6]]

\* A watcher whose body has no block in it and nothing the text cannot express
\* means the same after it was written out as text and parsed again, which is
\* how the engine runs it (bodyToMBLCode, the String methods of ast.go, the
\* parser).
WatchersReparse ==
  \A k \in DOMAIN sess.watchers :
    LET b == sess.watchers[k][6] IN
    Flat(b) /\ (\A j \in DOMAIN b : Expressible(b[j])) => Reparses(sess.watchers[k])

\* Every watcher without a block means the same after it was written out.  The
\* String methods do not do this.
FlatWatchersReparse ==
  \A k \in DOMAIN sess.watchers :
    Flat(sess.watchers[k][6]) => Reparses(sess.watchers[k])

\* Whatever a program did, the session it leaves has the outermost scope
\* current, no quiet block or call open and nothing staged.  The one exception
\* is a for loop that gave up on its list or its flush.
SessionRestored ==
  phase = "idle" =>
    /\ sess.buf = <<>> /\ sess.quietDepth = 0 /\ sess.callDepth = 0
    /\ sess.cur = 1 \/ sess.abandoned

\* A program that was rolled back has changed nothing in the tree, unless a
\* loop of it flushed in the middle (Interpret, shouldRollback).
RolledBackLeavesNothing ==
  (outcome = "rolled back" /\ ~ sess.flushed) =>
    sess.tree = before /\ sess.changed = {}

\* A program that is one quietly: block announces no change to any watcher,
\* not even the parents it made or what the procedures it called wrote.
QuietBlocksAnnounceNothing ==
  (phase = "idle" /\ outcome \in {"committed", "failed"} /\ whole # <<>>
     /\ \A k \in DOMAIN whole : whole[k][1] = "quiet") => sess.changed = {}

Stands(w) == w[1] \in DOMAIN sess.tree /\ sess.tree[w[1]] = w[2]

\* After a commit the tree has the value of the program's last write, from
\* text to tree: the path resolved, the buffer flushed in order.  A write under
\* a scope counts if the buffer had room for it.
LastWriteStands ==
  (outcome = "committed" /\ last # <<>> /\ last[3]) => Stands(last)

\* The same for every write: docs/amorphdb_design.md (1101) has a write beyond
\* the limit answer an Unknown.  A write under a scope does not do this, its
\* stageWrite is not looked at (evalAssignment).
NoWriteIsDropped == (outcome = "committed" /\ last # <<>>) => Stands(last)

\* The comparison of any two values is consistent (compare.go).
ComparisonsConsistent == pair # <<>> => OrderIsConsistent(pair[1], pair[2])

\* Any two values compare in one way.  Records do not do this: the field the
\* map gives first decides (compareRecords).
ComparisonsDetermined == pair # <<>> => HasOneOutcome(pair[1], pair[2])

\* A staged write keeps the path it was staged with: "write to persistent
\* storage with scope prefix" (evalAssignment).
StagedPathsStay == \A k \in DOMAIN sess.buf : sess.buf[k].path = sess.buf[k].was

=============================================================================
