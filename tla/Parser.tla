------------------------------- MODULE Parser ------------------------------
(***************************************************************************)
(* The parser of MBL (internal/mbl/parser/parser.go): a Pratt parser for   *)
(* expressions and one function per statement.  A function takes the       *)
(* parser p (its tokens and the text the lookahead reads), the index of the *)
(* current token and the recursion depth, and answers the index of the     *)
(* token it leaves current, the node, and whether it reported no error.    *)
(* An error does not stop the parser: it goes on with a nil node.          *)
(***************************************************************************)
EXTENDS Lexer, TLC

CONSTANT MaxDepth      \* maxRecursionDepth

Nil == <<"nil">>
Result(i, ok, n) == [i |-> i, ok |-> ok, n |-> n, nil |-> FALSE]
Fail(i) == [Result(i, FALSE, Nil) EXCEPT !.nil = TRUE]
IsNil(r) == r.nil

\* The parser keeps a current token and one token of lookahead.
Token(p, i) == IF i =< Len(p.tok) THEN p.tok[i] ELSE p.tok[Len(p.tok)]
Cur(p, i) == Token(p, i).t
Peek(p, i) == Token(p, i + 1).t
Lit(p, i) == Token(p, i).l
Ahead(p, i) == Token(p, i + 1).at

\* r with another node; and r with the errors of q.
As(r, n) == [r EXCEPT !.n = n, !.nil = FALSE]
Also(q, r) == [r EXCEPT !.ok = q.ok /\ r.ok]

expectPeek(p, i, t) ==
  IF Peek(p, i) = t THEN Result(i + 1, TRUE, Nil) ELSE Fail(i)

RECURSIVE SkipPeek(_, _, _)
SkipPeek(p, i, t) == IF Peek(p, i) = t THEN SkipPeek(p, i + 1, t) ELSE i

RECURSIVE skipComments(_, _)
skipComments(p, i) ==
  IF Cur(p, i) = "COMMENT" THEN skipComments(p, i + 1) ELSE i

\* "Consume optional semicolon or newline".
Consume(p, r, ts) == IF Peek(p, r.i) \in ts THEN [r EXCEPT !.i = @ + 1] ELSE r

\* The parse functions call each other: Parsed is all of them in one.
RECURSIVE Parsed(_, _, _, _, _)

LOWEST == 1

Expression(p, i, precedence, d) == Parsed("expression", p, i, precedence, d)
Statement(p, i, d) == Parsed("statement", p, i, LOWEST, d)
Block(p, i, d) == Parsed("block", p, i, LOWEST, d)
Record(p, i, d) == Parsed("record", p, i, LOWEST, d)
Target(p, i, d) == Parsed("target", p, i, LOWEST, d)
ProcedureNode(p, i, d) == Parsed("procedure", p, i, LOWEST, d)


EQUALS == 5
UNARY == 10

Ranks == [t \in {"or"} |-> 2] @@ [t \in {"and"} |-> 3] @@ [t \in {"not"} |-> 4]
         @@ [t \in {"?=", "=", ">", "<", ">=", "<="} |-> EQUALS]
         @@ [t \in {"&"} |-> 6] @@ [t \in {"+", "-"} |-> 7]
         @@ [t \in {"*", "/", "%"} |-> 8] @@ [t \in {"^"} |-> 9]
         @@ [t \in {".."} |-> 11] @@ [t \in {".", "[", "{", "("} |-> 12]

\* A level left out: & binds as tightly as + and -.
MutantPrecedence(t) ==
  IF t = "&" THEN 7 ELSE IF t \in DOMAIN Ranks THEN Ranks[t] ELSE LOWEST

Precedence(t) == IF t \in DOMAIN Ranks THEN Ranks[t] ELSE LOWEST

HasInfix(t) == t \in DOMAIN Ranks \ {"not"}

----------------------------------------------------------------------------
(* Lists *)

Empty(i) == Result(i, TRUE, <<>>)
Listed(r, e) == Result(e.i, r.ok /\ e.ok, Append(r.n, e.n))

\* The expressions after a comma each; r.n is the sequence so far.
RECURSIVE MoreExpressions(_, _, _)
MoreExpressions(p, r, d) ==
  IF Peek(p, r.i) # "," THEN r
  ELSE MoreExpressions(p, Listed(r, Expression(p, r.i + 2, LOWEST, d)), d)

Closed(p, r, end) ==
  LET x == expectPeek(p, r.i, end)
  IN Result(x.i, r.ok /\ x.ok, IF x.ok THEN r.n ELSE <<>>)

\* From an opening bracket to its closing one.
OneOrMore(p, i, end, d) ==
  Closed(p, MoreExpressions(p, Listed(Empty(i), Expression(p, i + 1, LOWEST, d)), d), end)

parseExpressionList(p, i, end, d) ==
  IF Peek(p, i) = end THEN Result(i + 1, TRUE, <<>>) ELSE OneOrMore(p, i, end, d)

\* Names after commas, up to the first that is not a name.
RECURSIVE MoreNames(_, _)
MoreNames(p, r) ==
  IF ~ r.ok \/ Peek(p, r.i) # "," THEN r
  ELSE LET x == expectPeek(p, r.i + 1, "IDENT")
       IN MoreNames(p, Result(x.i, x.ok, Append(r.n, Lit(p, x.i))))

----------------------------------------------------------------------------
(* Bodies *)

\* After the colon: newlines, then an indented block.
IndentedBody(p, i, d) ==
  LET x == expectPeek(p, SkipPeek(p, i, "NEWLINE"), "INDENT")
  IN IF x.ok THEN Block(p, x.i, d) ELSE x

\* After the colon: an indented block, or one statement on the same line.
BodyOrStatement(p, i, d) ==
  IF Peek(p, i) = "NEWLINE" THEN IndentedBody(p, i, d)
  ELSE LET s == Statement(p, i + 1, d)
       IN IF IsNil(s) THEN s ELSE As(s, <<s.n>>)

RECURSIVE BlockFrom(_, _, _, _, _)
BlockFrom(p, i, ok, acc, d) ==
  LET j == skipComments(p, i) IN
  IF Cur(p, i) \in {"DEDENT", "EOF"} THEN Result(i, ok, acc)
  ELSE IF Cur(p, j) = "NEWLINE" THEN BlockFrom(p, j + 1, ok, acc, d)
  ELSE LET s == Statement(p, j, d)
       IN BlockFrom(p, s.i + 1, ok /\ s.ok,
                    IF IsNil(s) THEN acc ELSE Append(acc, s.n), d)

parseBlockStatement(p, i, d) == BlockFrom(p, i + 1, TRUE, <<>>, d)

\* Statements between semicolons.  A statement that consumes its semicolon
\* itself ends the block.
RECURSIVE SameLineFrom(_, _, _, _, _)
SameLineFrom(p, i, ok, acc, d) ==
  IF Cur(p, i) \in {"EOF", "NEWLINE", "DEDENT"} THEN Result(i, ok, acc)
  ELSE LET s == Statement(p, skipComments(p, i), d)
           all == IF IsNil(s) THEN acc ELSE Append(acc, s.n)
       IN IF Peek(p, s.i) = ";"
          THEN SameLineFrom(p, s.i + 2, ok /\ s.ok, all, d)
          ELSE Result(s.i, ok /\ s.ok, all)

parseSameLineBlock(p, i, d) == SameLineFrom(p, i + 1, TRUE, <<>>, d)

----------------------------------------------------------------------------
(* Paths *)

Path(parts) == <<"path", parts, <<>> >>

\* A name and the names after its dots; a dot with no name after it is
\* swallowed.  A meta attribute (@time) is a name, but not below world.
RECURSIVE PathFrom(_, _, _, _)
PathFrom(p, i, parts, names) ==
  IF Peek(p, i) # "." THEN Result(i, TRUE, Path(parts))
  ELSE IF Cur(p, i + 2) \notin names THEN Result(i + 2, TRUE, Path(parts))
  ELSE PathFrom(p, i + 2, Append(parts, Lit(p, i + 2)), names)

Names == {"IDENT", "TIME"}
parsePathExpression(p, i) == PathFrom(p, i, <<Lit(p, i)>>, Names)
parseMyExpression(p, i) == PathFrom(p, i, <<"my">>, Names)
parseWorldExpression(p, i) == PathFrom(p, i, <<"world">>, {"IDENT"})

\* A key in brackets: a literal becomes a part, anything else is computed when
\* the statement runs and stands in the path's third component.
parsePathTargetSelector(p, i, parts, dyn, d) ==
  LET key == Expression(p, i + 2, LOWEST, d)
      x == expectPeek(p, key.i, "]")
  IN IF IsNil(key) \/ ~ x.ok THEN Result(x.i, FALSE, <<"path", parts, dyn>>)
     ELSE Result(x.i, key.ok,
                 IF key.n[1] = "lit" /\ key.n[2] \in {"TEXT", "NUMBER"}
                 THEN <<"path", Append(parts, key.n[3]), dyn>>
                 ELSE <<"path", Append(parts, ""),
                        Append(dyn, <<Len(parts) + 1, key.n>>)>>)

RECURSIVE TargetFrom(_, _, _, _)
TargetFrom(p, r, dyn, d) ==
  LET parts == r.n[2] IN
  IF Peek(p, r.i) = "["
  THEN LET s == parsePathTargetSelector(p, r.i, parts, dyn, d)
       IN IF s.ok THEN TargetFrom(p, s, s.n[3], d) ELSE s
  ELSE IF Peek(p, r.i) # "." THEN r
  ELSE IF Cur(p, r.i + 2) \notin Names THEN Result(r.i + 2, TRUE, r.n)
  ELSE TargetFrom(p, Result(r.i + 2, TRUE,
                            <<"path", Append(parts, Lit(p, r.i + 2)), dyn>>), dyn, d)

parsePathTarget(p, i, d) ==
  TargetFrom(p, Result(i, TRUE, Path(<<Lit(p, i)>>)), <<>>, d)

\* A leading dot and the names after it; the empty part stands for the dot.
RECURSIVE RelativeFrom(_, _, _)
RelativeFrom(p, i, parts) ==
  IF Peek(p, i) = "." /\ Cur(p, i + 2) = "IDENT"
  THEN RelativeFrom(p, i + 2, Append(parts, Lit(p, i + 2)))
  ELSE Result(IF Peek(p, i) = "." THEN i + 1 ELSE i, TRUE, Path(parts))

parseScopeRelativeExpression(p, i) ==
  IF Peek(p, i) # "IDENT" THEN Fail(i)
  ELSE RelativeFrom(p, i + 1, <<"", Lit(p, i + 1)>>)

----------------------------------------------------------------------------
(* Prefix functions *)

\* Words that stand for a value: true, nothing, empty, ...
Literals == {"TEXT", "NUMBER", "true", "false", "nothing", "empty", "quote", "tab",
             "newline", "anything"}

parseLiteral(p, i) == Result(i, TRUE, <<"lit", Cur(p, i), Lit(p, i)>>)
parseIdentifier(p, i) == Result(i, TRUE, Path(<<Lit(p, i)>>))

\* unknown, or unknown with a reason.
parseUnknownLiteral(p, i) ==
  IF Peek(p, i) # "(" THEN Result(i, TRUE, <<"unknown", "unknown">>)
  ELSE IF Cur(p, i + 2) # "TEXT" THEN Fail(i + 2)
  ELSE IF Peek(p, i + 2) # ")" THEN Fail(i + 2)
  ELSE Result(i + 3, TRUE, <<"unknown", Lit(p, i + 2)>>)

parseLinkReference(p, i, d) ==
  LET e == Expression(p, i + 1, LOWEST, d)
  IN IF IsNil(e) THEN e ELSE As(e, <<"ref", e.n>>)

parseUnaryExpression(p, i, d) ==
  LET e == Expression(p, i + 1, UNARY, d)
  IN As(e, <<"un", Cur(p, i), e.n>>)

\* The modifier and the expression after it become operands of a blank.
parseQuietlyExpression(p, i, d) ==
  IF Peek(p, i) \in {"TEXT", "NUMBER", "IDENT", "my"}
  THEN LET e == Expression(p, i + 1, LOWEST, d)
       IN As(e, <<"bin", " ", <<"lit", "quietly", Lit(p, i)>>, e.n>>)
  ELSE Result(i, TRUE, <<"lit", "quietly", "quietly">>)

parseModifierExpression(p, i, d) ==
  IF Peek(p, i) \in {"TEXT", "NUMBER", "IDENT", "my", "world", "{", "["}
  THEN LET e == Expression(p, i + 1, LOWEST, d)
       IN As(e, <<"mod", Cur(p, i), e.n>>)
  ELSE Result(i, TRUE, <<"lit", "modifier", Cur(p, i)>>)

parseGroupedExpression(p, i, d) ==
  LET e == Expression(p, i + 1, LOWEST, d)
      x == expectPeek(p, e.i, ")")
  IN IF x.ok THEN [e EXCEPT !.i = x.i] ELSE x

\* key: value, or key: (modifier) value.  The colon is missing: no field.
parseRecordField(p, i, d) ==
  LET key == Expression(p, i, LOWEST, d)
      x == expectPeek(p, key.i, ":")
      mod == Peek(p, x.i) \in {"copy", "link", "reset", "exclude"}
      v == Expression(p, x.i + (IF mod THEN 2 ELSE 1), LOWEST, d)
  IN IF ~ x.ok THEN x
     ELSE Result(v.i, key.ok /\ v.ok,
                 <<key.n, IF mod THEN Peek(p, x.i) ELSE "", v.n>>)

WithField(r, f) ==
  IF IsNil(f) THEN Result(f.i, r.ok /\ f.ok, r.n) ELSE Listed(r, f)

RECURSIVE MoreFields(_, _, _)
MoreFields(p, r, d) ==
  IF Peek(p, r.i) # "," THEN r
  ELSE MoreFields(p, WithField(r, parseRecordField(p, r.i + 2, d)), d)

ClosedRecord(p, r) ==
  LET x == expectPeek(p, r.i, "}")
  IN Result(x.i, r.ok /\ x.ok, IF x.ok THEN <<"rec", r.n>> ELSE Nil)

parseRecordLiteral(p, i, d) ==
  IF Peek(p, i) = "}" THEN Result(i + 1, TRUE, <<"rec", <<>> >>)
  ELSE ClosedRecord(p, MoreFields(p, WithField(Empty(i), parseRecordField(p, i + 1, d)), d))

parseListLiteral(p, i, d) ==
  LET r == parseExpressionList(p, i, "]", d)
  IN As(r, IF r.ok \/ Cur(p, r.i) = "]" THEN <<"list", r.n>> ELSE Nil)

\* The body completes the node begun before it.
WithBody(r, body, node) ==
  IF IsNil(body) THEN body ELSE Also(r, As(body, Append(node, body.n)))

\* procedure(names): body.  An empty body is an error.
parseProcedureExpression(p, i, d) ==
  LET open == expectPeek(p, i, "(")
      first == Result(open.i + 1, TRUE, <<Lit(p, open.i + 1)>>)
      names == IF Peek(p, open.i) = ")" THEN Result(open.i, TRUE, <<>>)
               ELSE MoreNames(p, first)
      close == expectPeek(p, names.i, ")")
      colon == expectPeek(p, close.i, ":")
  IN IF ~ open.ok THEN open
     ELSE IF ~ (names.ok /\ close.ok /\ colon.ok) THEN Fail(colon.i)
     ELSE IF Peek(p, colon.i) = "EOF" THEN Fail(colon.i + 1)
     ELSE WithBody(names, BodyOrStatement(p, colon.i, d), <<"proc", names.n>>)

WatchOf(p, append, paths, d) ==
  LET as == expectPeek(p, paths.i + 1, "IDENT")
      named == Peek(p, paths.i) = "as"
      j == IF named THEN as.i ELSE paths.i
      node == <<"watch", append, paths.n, IF named THEN Lit(p, as.i) ELSE "">>
  IN IF Cur(p, paths.i) # ")" \/ (named /\ ~ as.ok) THEN Fail(j)
     ELSE IF Peek(p, j) # ":" THEN Result(j, paths.ok, Append(node, <<>>))
     ELSE WithBody(paths, BodyOrStatement(p, j + 1, d), node)

\* watch(paths), watch append(path) as name; a body is optional.
parseWatchExpression(p, i, d) ==
  LET append == Peek(p, i) = "append"
      open == expectPeek(p, IF append THEN i + 1 ELSE i, "(")
  IN IF ~ open.ok THEN open ELSE WatchOf(p, append, OneOrMore(p, open.i, ")", d), d)

parseNewExpression(p, i, d) ==
  LET open == expectPeek(p, i, "(")
      e == Expression(p, open.i + 1, LOWEST, d)
      close == expectPeek(p, e.i, ")")
  IN IF ~ open.ok THEN open
     ELSE IF ~ close.ok THEN close
     ELSE Result(close.i, e.ok, <<"call", Path(<<"new">>), <<e.n>> >>)

Prefix(p, i, d) ==
  LET t == Cur(p, i) IN
  CASE t = "IDENT" -> parseIdentifier(p, i)
    [] t = "my" -> parseMyExpression(p, i)
    [] t = "world" -> parseWorldExpression(p, i)
    [] t = "TIME" -> parseIdentifier(p, i)
    [] t \in Literals -> parseLiteral(p, i)
    [] t = "unknown" -> parseUnknownLiteral(p, i)
    [] t = "link" -> parseLinkReference(p, i, d)
    [] t \in {"-", "+", "not"} -> parseUnaryExpression(p, i, d)
    [] t = "quietly" -> parseQuietlyExpression(p, i, d)
    [] t \in {"copy", "reset", "exclude", "cascade"} -> parseModifierExpression(p, i, d)
    [] t = "(" -> parseGroupedExpression(p, i, d)
    [] t = "{" -> Record(p, i, d)
    [] t = "[" -> parseListLiteral(p, i, d)
    [] t = "procedure" -> ProcedureNode(p, i, d)
    [] t = "watch" -> parseWatchExpression(p, i, d)
    [] t = "new" -> parseNewExpression(p, i, d)
    [] t = ":" -> Fail(i)

HasPrefix(t) == t \in {"IDENT", "my", "world", "TIME", "unknown", "link", "-", "+",
                       "not", "quietly", "copy", "reset", "exclude", "cascade", "(",
                       "{", "[", "procedure", "watch", "new", ":"} \cup Literals

----------------------------------------------------------------------------
(* Infix functions: the current token is the operator *)

\* Only ^ associates to the right.
parseBinaryExpression(p, i, left, d) ==
  LET t == Cur(p, i)
      e == Expression(p, i + 1,
             IF t = "^" THEN Precedence(t) - 1 ELSE Precedence(t), d)
  IN As(e, <<"bin", t, left, e.n>>)

Methods == {"count", "remove", "combine", "append", "prepend"}

parseCollectionOperation(p, i, left, d) ==
  IF Lit(p, i + 1) \notin Methods THEN parseBinaryExpression(p, i, left, d)
  ELSE LET args == IF Peek(p, i + 1) = "("
                   THEN parseExpressionList(p, i + 2, ")", d)
                   ELSE Result(i + 1, TRUE, <<>>)
       IN As(args, <<"coll", left, Lit(p, i + 1), args.n>>)

\* A name after a path extends it; after anything else it is a chained call,
\* with or without arguments.
parseCallExpression(p, i, left, d) ==
  LET name == Lit(p, i + 1)
      call == Peek(p, i + 1) = "("
      args == IF call THEN parseExpressionList(p, i + 2, ")", d)
              ELSE Result(i + 1, TRUE, <<>>)
      path == <<"path", Append(left[2], name), left[3]>>
  IN IF Cur(p, i) = "("
     THEN LET a == parseExpressionList(p, i, ")", d) IN As(a, <<"call", left, a.n>>)
     ELSE IF Peek(p, i) \notin Names THEN Fail(i)
     ELSE IF left[1] # "path" THEN As(args, <<"chain", left, name, args.n>>)
     ELSE As(args, IF call THEN <<"call", path, args.n>> ELSE path)

\* Inside brackets an = left over is an equality.
parseFilterExpression(p, i, d) ==
  LET l == Expression(p, i, LOWEST, d)
      r == Expression(p, l.i + 2, EQUALS, d)
  IN IF Peek(p, l.i) # "=" THEN l ELSE Also(l, As(r, <<"bin", "=", l.n, r.n>>))

RECURSIVE MoreFilters(_, _, _)
MoreFilters(p, r, d) ==
  IF Peek(p, r.i) # "," THEN r
  ELSE LET e == parseFilterExpression(p, r.i + 2, d)
       IN MoreFilters(p, Result(e.i, r.ok /\ e.ok, Append(r.n, e.n)), d)

parseBracketFilterExpression(p, i, left, d) ==
  LET e == parseFilterExpression(p, i + 1, d)
      r == MoreFilters(p, As(e, <<e.n>>), d)
  IN IF Peek(p, r.i) # "]" THEN Fail(r.i)
     ELSE Result(r.i + 1, r.ok, <<"filter", left, r.n>>)

parseProjectionExpression(p, i, left) ==
  LET names == MoreNames(p, Result(i + 1, Cur(p, i + 1) = "IDENT", <<Lit(p, i + 1)>>))
      x == expectPeek(p, names.i, "}")
  IN IF ~ names.ok THEN Fail(names.i)
     ELSE IF ~ x.ok THEN x
     ELSE Result(x.i, TRUE, <<"proj", left, names.n>>)

Infix(p, i, left, d) ==
  CASE Cur(p, i) = ".." -> parseCollectionOperation(p, i, left, d)
    [] Cur(p, i) \in {".", "("} -> parseCallExpression(p, i, left, d)
    [] Cur(p, i) = "[" -> parseBracketFilterExpression(p, i, left, d)
    [] Cur(p, i) = "{" -> parseProjectionExpression(p, i, left)
    [] OTHER -> parseBinaryExpression(p, i, left, d)

RECURSIVE Infixes(_, _, _, _)
Infixes(p, r, precedence, d) ==
  IF Peek(p, r.i) # "NEWLINE" /\ precedence < Precedence(Peek(p, r.i))
     /\ HasInfix(Peek(p, r.i))
  THEN Infixes(p, Also(r, Infix(p, r.i + 1, r.n, d)), precedence, d)
  ELSE r

parseExpression(p, i, precedence, d) ==
  IF d >= MaxDepth \/ ~ HasPrefix(Cur(p, i)) THEN Fail(i)
  ELSE Infixes(p, Prefix(p, i, d + 1), precedence, d + 1)

----------------------------------------------------------------------------
(* What a statement that begins with a name is *)

PathStarts == {"IDENT", "my", "world"}

looksLikePathAssignment(p, i) ==
  LET a == Ahead(p, i) IN
  \/ Peek(p, i) \in {"=", ":"}
  \/ /\ ContainsColonBlank(p.text, a)
     /\ ~ ContainsWord(p.text, a, "procedure") /\ ~ ContainsWord(p.text, a, "watch")
  \/ HasTopLevelAssignment(p.text, a)

isSimpleAssignment(p, i) ==
  \/ Peek(p, i) = "="
  \/ Peek(p, i) = ":" /\ ~ ContainsWord(p.text, Ahead(p, i), "watch")
  \/ Peek(p, i) = "." /\ Cur(p, i) # "IDENT" /\ looksLikePathAssignment(p, i)

\* The built-in functions that are never taken for a definition.
KnownFunctions == {"len", "text", "number", "add", "output"}

\* name(names): at the beginning of a line; a tab does not count as a column.
isProcedureDefinition(p, i) ==
  /\ Cur(p, i) = "IDENT" /\ Peek(p, i) = "("
  /\ InFirstColumn(p.text, Token(p, i).at - 1)
  /\ Lit(p, i) \notin KnownFunctions
  /\ ContainsPair(p.text, Ahead(p, i), ")", ":")

isWatchStatement(p, i) ==
  Cur(p, i) = "IDENT" /\ Peek(p, i) = ":" /\ ContainsWord(p.text, Ahead(p, i), "watch")

isScopeStatement(p, i) ==
  LET a == Ahead(p, i) IN
  \/ ContainsPair(p.text, a, ".", ":")
  \/ EndsWithDot(p.text, a) /\ ~ ContainsWord(p.text, a, "[")

\* Where the next token is a colon, the lexer is behind it: ": " is looked for
\* in what follows.
isDefinition(p, i) ==
  LET a == Ahead(p, i)
      isProcedure == ContainsWord(p.text, a, "procedure")
      isWatch == ContainsWord(p.text, a, "watch")
  IN /\ Peek(p, i) \notin {"=", "("}
     /\ IF Peek(p, i) = ":"
        THEN ~ isWatch /\ (isProcedure \/ ~ ContainsColonBlank(p.text, a))
        ELSE /\ ContainsColonBlank(p.text, a)
             /\ ~ HasTopLevelAssignment(p.text, a)
             /\ isProcedure \/ isWatch

----------------------------------------------------------------------------
(* Statements *)

Assign(target, mod, after, value) == <<"assign", target, mod, after, value>>

\* path = value, path:(modifier) = value, path = (quietly) value, path: value.
\* Without an = after all the path is read.
parseAssignmentStatement(p, i, d) ==
  LET target == Target(p, i, d)
      colon == Peek(p, target.i) = ":"
      mod == colon /\ Peek(p, target.i + 1) \in Modifiers
      m == IF mod /\ Lit(p, target.i + 2) = "(modifier)"
           THEN Peek(p, target.i + 1) ELSE ""
      j == IF mod THEN target.i + 2 ELSE IF colon THEN target.i + 1 ELSE target.i
      v == Expression(p, j + 1, LOWEST, d)
      quiet == Cur(p, j + 2) = "quietly"
      w == Expression(p, IF quiet THEN j + 3 ELSE j + 2, LOWEST, d)
  IN IF colon /\ ~ mod /\ Peek(p, j) # "NEWLINE"
     THEN Also(target, Consume(p, As(v, Assign(target.n, "", FALSE, v.n)),
                               {";", "NEWLINE"}))
     ELSE IF Peek(p, j) # "=" THEN Result(j, target.ok, <<"expr", target.n>>)
     ELSE Also(target,
            Consume(p, As(w, Assign(target.n, IF quiet THEN "quietly" ELSE m,
                                    quiet, w.n)), {"NEWLINE"}))

parseScopeRelativeAssignment(p, i, d) ==
  LET target == parseScopeRelativeExpression(p, i)
      x == expectPeek(p, target.i, "=")
      v == Expression(p, x.i + 1, LOWEST, d)
  IN IF IsNil(target) THEN target
     ELSE IF ~ x.ok THEN x
     ELSE IF IsNil(v) THEN v ELSE As(v, Assign(target.n, "", FALSE, v.n))

\* path: value, where value is mostly a procedure or a watcher.
parseDefinitionStatement(p, i, d) ==
  LET name == parsePathExpression(p, i)
      x == expectPeek(p, name.i, ":")
      v == Expression(p, x.i + 1, LOWEST, d)
  IN IF ~ x.ok THEN x ELSE IF IsNil(v) THEN v ELSE As(v, <<"def", name.n, v.n>>)

parseEmbedDirectiveStatement(p, i, d) ==
  LET e == Expression(p, i + 1, LOWEST, d)
  IN Consume(p, As(e, <<"embed", Cur(p, i), e.n>>), {";", "NEWLINE"})

RECURSIVE parseIfStatement(_, _, _)
parseIfStatement(p, i, d) ==
  LET c == Expression(p, i + 1, LOWEST, d)
      j == c.i + 1
      s == Statement(p, j + 1, d)
      body == IF Peek(p, j) = "NEWLINE" THEN IndentedBody(p, j, d)
              ELSE As(s, IF IsNil(s) THEN <<>> ELSE <<s.n>>)
      elif == parseIfStatement(p, body.i + 2, d)
      colon == expectPeek(p, body.i + 1, ":")
      else == IndentedBody(p, colon.i, d)
      node(alt) == <<"if", c.n, body.n, alt>>
  IN IF Peek(p, c.i) # ":" THEN Fail(c.i)
     ELSE IF Peek(p, j) = "NEWLINE" /\ IsNil(body) THEN body
     ELSE Also(c, Also(body,
       IF Peek(p, body.i) # "else" THEN As(body, node(<<>>))
       ELSE IF Peek(p, body.i + 1) = "if" THEN As(elif, node(<<elif.n>>))
       ELSE IF ~ colon.ok THEN colon
       ELSE IF IsNil(else) THEN else ELSE As(else, node(else.n))))

\* A head, a colon and an indented block.
HeadAndBlock(p, head, node, d) ==
  LET colon == expectPeek(p, head.i, ":")
  IN IF ~ colon.ok THEN colon ELSE WithBody(head, IndentedBody(p, colon.i, d), node)

parseQuietlyBlockStatement(p, i, d) ==
  HeadAndBlock(p, Result(i, TRUE, Nil), <<"quiet">>, d)

parseWhileStatement(p, i, d) ==
  LET c == Expression(p, i + 1, LOWEST, d)
  IN HeadAndBlock(p, c, <<"while", c.n>>, d)

parseForStatement(p, i, d) ==
  LET first == expectPeek(p, i, "IDENT")
      names == MoreNames(p, As(first, <<Lit(p, first.i)>>))
      in == expectPeek(p, names.i, "in")
      e == Expression(p, in.i + 1, LOWEST, d)
  IN IF ~ (first.ok /\ names.ok /\ in.ok) THEN Fail(in.i)
     ELSE HeadAndBlock(p, e, <<"for", names.n, e.n>>, d)

\* The colon and the INDENT must be adjacent, which no line end allows.
parseConsiderStatement(p, i, d) ==
  LET v == Expression(p, i + 1, LOWEST, d)
      colon == expectPeek(p, v.i, ":")
      x == expectPeek(p, colon.i, "INDENT")
  IN IF ~ colon.ok THEN colon ELSE Fail(x.i)

parseReturnStatement(p, i, d) ==
  LET e == Expression(p, i + 1, LOWEST, d)
  IN IF Peek(p, i) \in {"NEWLINE", "EOF"} THEN Result(i, TRUE, <<"return", <<>> >>)
     ELSE Consume(p, As(e, <<"return", <<e.n>> >>), {"NEWLINE"})

\* pass and break consume the semicolon after them.
parsePassStatement(p, i) ==
  Consume(p, Result(i, TRUE, <<Cur(p, i)>>), {";", "NEWLINE"})

WatcherOf(p, name, append, paths, d) ==
  LET as == expectPeek(p, paths.i, "as")
      bind == expectPeek(p, as.i, "IDENT")
      filtered == append /\ paths.n[1][1] = "filter"
      closed == Cur(p, paths.i) = ")" /\ (append => Len(paths.n) = 1)
      head == IF append THEN bind ELSE paths
      node == <<"watchstmt", name, append,
                IF filtered THEN <<paths.n[1][2]>> ELSE paths.n,
                IF filtered THEN paths.n[1][3] ELSE <<>>,
                IF append THEN Lit(p, bind.i) ELSE "">>
  IN IF ~ closed \/ (append /\ ~ (as.ok /\ bind.ok)) THEN Fail(head.i)
     ELSE Also(paths, HeadAndBlock(p, head, node, d))

\* watch name(paths): body, or name: watch(paths): body.
parseWatchStatement(p, i, d) ==
  LET typeFirst == Cur(p, i) = "watch"
      path == parsePathExpression(p, i + 1)
      colon == expectPeek(p, i, ":")
      watch == expectPeek(p, colon.i, "watch")
      name == IF typeFirst THEN path.n[2] ELSE <<Lit(p, i)>>
      j == IF typeFirst THEN path.i ELSE watch.i
      append == Peek(p, j) = "append"
      open == expectPeek(p, IF append THEN j + 1 ELSE j, "(")
  IN IF typeFirst /\ Peek(p, i) \notin PathStarts
     THEN LET e == Expression(p, i, LOWEST, d)
          IN Consume(p, As(e, <<"expr", e.n>>), {"NEWLINE"})
     ELSE IF ~ typeFirst /\ ~ (colon.ok /\ watch.ok) THEN Fail(watch.i)
     ELSE IF ~ open.ok THEN open
     ELSE WatcherOf(p, name, append, OneOrMore(p, open.i, ")", d), d)

\* new Type:(modifier) sources {properties}.
RECURSIVE Sources(_, _, _)
Sources(p, r, d) ==
  LET s == IF Peek(p, r.i) = "IDENT" THEN Result(r.i + 1, TRUE, <<"name", Lit(p, r.i + 1)>>)
           ELSE Record(p, r.i + 1, d)
      all == Result(s.i, r.ok /\ s.ok, Append(r.n, s.n))
  IN IF Peek(p, r.i) \notin {"IDENT", "{"} THEN r
     ELSE IF Peek(p, s.i) = "," THEN Sources(p, [all EXCEPT !.i = @ + 1], d) ELSE all

parseInstantiationStatement(p, i, d) ==
  LET type == expectPeek(p, i, "IDENT")
      colon == Peek(p, type.i) = ":"
      mod == colon /\ Peek(p, type.i + 1) \in {"copy", "link", "reset", "exclude"}
      j == type.i + (IF mod THEN 2 ELSE IF colon THEN 1 ELSE 0)
      sources == Sources(p, Result(j, TRUE, <<>>), d)
      props == Record(p, sources.i + 1, d)
      node(q) == <<"new", Lit(p, type.i), IF mod THEN Cur(p, j) ELSE "", sources.n, q>>
  IN IF ~ type.ok THEN type
     ELSE IF Peek(p, sources.i) = "{" THEN Also(sources, As(props, node(<<props.n>>)))
     ELSE As(sources, node(<<>>))

\* name(names): body, with statements between semicolons on the same line.
parseProcedureStatement(p, i, d) ==
  LET open == i + 1
      names == IF Peek(p, open) = ")" THEN Result(open, TRUE, <<>>)
               ELSE MoreNames(p, Result(open + 1, TRUE, <<Lit(p, open + 1)>>))
      close == expectPeek(p, names.i, ")")
      colon == expectPeek(p, close.i, ":")
      body == IF Peek(p, colon.i) = "NEWLINE" THEN IndentedBody(p, colon.i, d)
              ELSE parseSameLineBlock(p, colon.i, d)
  IN IF ~ (close.ok /\ colon.ok) THEN Fail(colon.i)
     ELSE WithBody(close, body, <<"procstmt", Lit(p, i), names.n>>)

\* procedure name(names): body is the definition of a procedure expression.
parseTypeFirstProcedureStatement(p, i, d) ==
  LET e == ProcedureNode(p, i + 1, d)
  IN IF IsNil(e) THEN e ELSE As(e, <<"def", Path(<<Lit(p, i + 1)>>), e.n>>)

\* path. sets the scope; path.: has a body.
RECURSIVE ScopeFrom(_, _, _)
ScopeFrom(p, i, parts) ==
  IF Cur(p, i) = "." /\ Cur(p, i + 1) = "IDENT"
  THEN ScopeFrom(p, i + 2, Append(parts, Lit(p, i + 1)))
  ELSE Result(IF Cur(p, i) = "." THEN i + 1 ELSE i, TRUE, parts)

parseScopeStatement(p, i, d) ==
  LET path == ScopeFrom(p, i + 1, <<Lit(p, i)>>)
      j == SkipPeek(p, path.i + 1, "NEWLINE")
      body == Block(p, j + 1, d)
  IN IF Cur(p, path.i) # ":" THEN As(path, <<"scope", path.n, <<>> >>)
     ELSE IF Peek(p, j) = "INDENT" THEN As(body, <<"scope", path.n, <<body.n>> >>)
     ELSE Result(j, TRUE, <<"scope", path.n, <<>> >>)

\* catch: body, then else unknown: bodies.
RECURSIVE Clauses(_, _, _)
Clauses(p, r, d) ==
  LET j == SkipPeek(p, r.i + 3, "NEWLINE")
      body == Block(p, j + 1, d)
  IN IF Peek(p, r.i) # "else" THEN r
     ELSE IF Peek(p, r.i + 1) # "unknown" THEN [r EXCEPT !.i = @ + 1, !.ok = FALSE]
     ELSE IF Peek(p, r.i + 2) # ":" THEN [r EXCEPT !.i = @ + 2, !.ok = FALSE]
     ELSE IF Peek(p, j) # "INDENT" THEN Clauses(p, Result(j, r.ok, Append(r.n, <<>>)), d)
     ELSE Clauses(p, Result(body.i, r.ok /\ body.ok, Append(r.n, body.n)), d)

parseCatchStatement(p, i, d) ==
  LET colon == expectPeek(p, i, ":")
      body == IndentedBody(p, colon.i, d)
      clauses == Clauses(p, As(body, <<>>), d)
  IN IF ~ colon.ok THEN colon
     ELSE IF IsNil(body) THEN body
     ELSE As(clauses, <<"catch", body.n, clauses.n>>)

parseExpressionStatement(p, i, d) ==
  LET e == Expression(p, i, LOWEST, d)
  IN Consume(p, As(e, <<"expr", e.n>>), {"NEWLINE"})

\* The order of the questions matters: the first that says yes decides.
NamedStatement(p, i, d) ==
  IF isDefinition(p, i) THEN parseDefinitionStatement(p, i, d)
  ELSE IF isSimpleAssignment(p, i) THEN parseAssignmentStatement(p, i, d)
  ELSE IF isProcedureDefinition(p, i) THEN parseProcedureStatement(p, i, d)
  ELSE IF isWatchStatement(p, i) THEN parseWatchStatement(p, i, d)
  ELSE IF isScopeStatement(p, i) THEN parseScopeStatement(p, i, d)
  ELSE parseExpressionStatement(p, i, d)

StatementFrom(p, i, d) ==
  LET t == Cur(p, i) IN
  CASE t = "quietly" /\ Peek(p, i) = ":" -> parseQuietlyBlockStatement(p, i, d)
    [] t = "if" -> parseIfStatement(p, i, d)
    [] t = "while" -> parseWhileStatement(p, i, d)
    [] t = "for" -> parseForStatement(p, i, d)
    [] t = "consider" -> parseConsiderStatement(p, i, d)
    [] t = "watch" -> parseWatchStatement(p, i, d)
    [] t = "procedure" /\ Peek(p, i) = "IDENT" -> parseTypeFirstProcedureStatement(p, i, d)
    [] t = "catch" -> parseCatchStatement(p, i, d)
    [] t = "return" -> parseReturnStatement(p, i, d)
    [] t \in {"pass", "break"} -> parsePassStatement(p, i)
    [] t = "new" -> parseInstantiationStatement(p, i, d)
    [] t \in {"embed", "..."} -> parseEmbedDirectiveStatement(p, i, d)
    [] t = "." -> parseScopeRelativeAssignment(p, i, d)
    [] t \in PathStarts -> NamedStatement(p, i, d)
    [] OTHER -> parseExpressionStatement(p, i, d)

parseStatement(p, i, d) ==
  IF d >= MaxDepth THEN Fail(i) ELSE StatementFrom(p, skipComments(p, i), d + 1)

Parsed(what, p, i, precedence, d) ==
  CASE what = "expression" -> parseExpression(p, i, precedence, d)
    [] what = "statement" -> parseStatement(p, i, d)
    [] what = "block" -> parseBlockStatement(p, i, d)
    [] what = "record" -> parseRecordLiteral(p, i, d)
    [] what = "target" -> parsePathTarget(p, i, d)
    [] what = "procedure" -> parseProcedureExpression(p, i, d)

\* Statements up to the end; a semicolon left after one is skipped.
RECURSIVE ProgramFrom(_, _, _, _)
ProgramAfter(p, s, ok, acc) ==
  ProgramFrom(p, s.i + (IF Peek(p, s.i) = ";" THEN 2 ELSE 1), ok /\ s.ok,
              IF IsNil(s) THEN acc ELSE Append(acc, s.n))

ProgramFrom(p, i, ok, acc) ==
  LET j == skipComments(p, i)
  IN IF Cur(p, j) = "EOF" THEN [ok |-> ok, body |-> acc]
     ELSE IF Cur(p, j) = "NEWLINE" THEN ProgramFrom(p, j + 1, ok, acc)
     ELSE ProgramAfter(p, Statement(p, j, 0), ok, acc)

ParseProgram(tokens, text) ==
  ProgramFrom([tok |-> tokens, text |-> text], 1, TRUE, <<>>)

=============================================================================
