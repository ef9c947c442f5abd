------------------------------- MODULE Syntax ------------------------------
(***************************************************************************)
(* The syntax tree's String methods (internal/mbl/parser/ast.go): the text *)
(* a node is rendered as.  A watcher's body is kept as this text and parsed *)
(* again every time the watcher fires.  A node is a tuple whose first      *)
(* component names its Go type.                                            *)
(***************************************************************************)
EXTENDS Parser

\* The lexeme of a word, symbol or number, without a blank before it.
AsLexeme(w) ==
  IF w \in SymbolTypes THEN Sym(w) ELSE IF w \in Numerals THEN Num(w) ELSE Word(w)

\* A blank before a rendered piece.
Blank(x) == IF x = <<>> THEN <<>> ELSE <<Spaced(x[1])>> \o Tail(x)

Parens(x) == <<Sym("(")>> \o x \o <<Sym(")")>>
Mod(m) == Parens(<<Word(m)>>)

RECURSIVE Joined(_, _)
Joined(pieces, sep) ==
  IF pieces = <<>> THEN <<>>
  ELSE IF Len(pieces) = 1 THEN pieces[1]
  ELSE pieces[1] \o sep \o Blank(Joined(Tail(pieces), sep))

Commas(pieces) == Joined(pieces, <<Sym(",")>>)
WordsOf(ws) == [k \in DOMAIN ws |-> <<Word(ws[k])>>]

RECURSIVE Dotted(_)
Dotted(parts) ==
  IF Len(parts) = 1 THEN <<AsLexeme(parts[1])>>
  ELSE <<AsLexeme(parts[1]), Sym(".")>> \o Dotted(Tail(parts))

RECURSIVE String(_)
StringAll(ns) == [k \in DOMAIN ns |-> String(ns[k])]

\* Computed segments are rendered in brackets; a leading empty part is a dot.
RECURSIVE PathString(_, _, _)
PathString(parts, dyn, k) ==
  IF k > Len(parts) THEN <<>>
  ELSE LET d == {j \in DOMAIN dyn : dyn[j][1] = k} IN
       (IF d # {} THEN <<Sym("[")>> \o String(dyn[CHOOSE j \in d : TRUE][2]) \o <<Sym("]")>>
        ELSE (IF k > 1 THEN <<Sym(".")>> ELSE <<>>)
             \o (IF parts[k] = "" THEN <<>> ELSE <<AsLexeme(parts[k])>>))
       \o PathString(parts, dyn, k + 1)

LiteralString(n) ==
  IF n[2] = "NUMBER" THEN <<Num(n[3])>>
  ELSE IF n[2] = "TEXT" THEN <<Str(n[3])>>
  ELSE IF n[2] = "modifier" \/ n[3] = "(modifier)" THEN Mod(IF n[2] = "modifier" THEN n[3] ELSE n[2])
  ELSE <<Word(n[3])>>

\* Every line of a nested text gets two blanks more.
Indented(x) ==
  [k \in DOMAIN x |-> IF x[k].k = "ind" THEN [x[k] EXCEPT !.spaces = @ + 2] ELSE x[k]]

\* A block is rendered in braces, which the parser does not read as a block.
RECURSIVE BlockLines(_)
BlockLines(b) ==
  IF b = <<>> THEN <<>>
  ELSE <<LineStart(0, 2)>> \o Indented(String(b[1])) \o <<LineEnd>> \o BlockLines(Tail(b))

BlockString(b) ==
  <<Sym("{"), LineEnd>> \o BlockLines(b) \o <<LineStart(0, 0), Sym("}")>>

Headed(head, b) == head \o <<Sym(":")>> \o Blank(BlockString(b))

FieldString(f) ==
  String(f[1]) \o (IF f[2] = "" THEN <<>> ELSE <<Sym(":")>> \o Mod(f[2]))
  \o <<Sym(":")>> \o Blank(String(f[3]))

RecordString(n) ==
  <<Sym("{")>> \o Commas([k \in DOMAIN n[2] |-> FieldString(n[2][k])]) \o <<Sym("}")>>

\* A modifier after the = is left out.
MutantAssignmentString(n) ==
  String(n[2])
  \o (IF n[3] = "" \/ n[4] THEN <<>> ELSE <<Spaced(Sym(":"))>> \o Mod(n[3]))
  \o <<Spaced(Sym("="))>> \o Blank(String(n[5]))

\* The modifier stands where its author wrote it.
AssignmentString(n) ==
  IF n[4] THEN String(n[2]) \o <<Spaced(Sym("="))>> \o Blank(Mod(n[3])) \o Blank(String(n[5]))
  ELSE String(n[2])
       \o (IF n[3] = "" THEN <<>> ELSE <<Spaced(Sym(":"))>> \o Mod(n[3]))
       \o <<Spaced(Sym("="))>> \o Blank(String(n[5]))

WatchString(append, paths, filters, name) ==
  <<Word("watch")>> \o (IF append THEN <<Spaced(Word("append"))>> ELSE <<>>)
  \o Parens(Commas(StringAll(paths))
            \o (IF filters = <<>> THEN <<>>
                ELSE <<Sym("[")>> \o Commas(StringAll(filters)) \o <<Sym("]")>>))
  \o (IF name = "" THEN <<>> ELSE <<Spaced(Word("as")), Spaced(Word(name))>>)

ElseString(alt) ==
  IF alt = <<>> THEN <<>>
  ELSE <<Spaced(Word("else"))>>
       \o Blank(IF alt[1][1] = "if" THEN String(alt[1]) ELSE BlockString(alt))

RECURSIVE ClauseStrings(_)
ClauseStrings(cs) ==
  IF cs = <<>> THEN <<>>
  ELSE Headed(<<Spaced(Word("else")), Spaced(Word("unknown"))>>, cs[1])
       \o ClauseStrings(Tail(cs))

SourceString(s) == IF s[1] = "name" THEN <<Word(s[2])>> ELSE RecordString(s)

\* Every operator but the blank between a modifier and its value is in
\* parentheses.
BinaryString(n) ==
  IF n[2] = " " THEN String(n[3]) \o Blank(String(n[4]))
  ELSE Parens(String(n[3]) \o <<Spaced(AsLexeme(n[2]))>> \o Blank(String(n[4])))

UnaryString(n) ==
  Parens(<<AsLexeme(n[2])>> \o (IF n[2] = "not" THEN Blank(String(n[3])) ELSE String(n[3])))

CallString(f, args) == String(f) \o Parens(Commas(StringAll(args)))

CollectionOperationString(n) ==
  String(n[2]) \o <<Sym(".."), Word(n[3])>>
  \o (IF n[4] = <<>> THEN <<>> ELSE Parens(Commas(StringAll(n[4]))))

BracketFilterString(n) ==
  String(n[2]) \o <<Sym("[")>> \o Commas(StringAll(n[3])) \o <<Sym("]")>>

ProjectionString(n) ==
  String(n[2]) \o <<Sym("{")>> \o Blank(Commas(WordsOf(n[3]))) \o <<Spaced(Sym("}"))>>

ListString(n) == <<Sym("[")>> \o Commas(StringAll(n[2])) \o <<Sym("]")>>

ProcedureString(n) ==
  Headed(<<Word("procedure")>> \o Parens(Commas(WordsOf(n[2]))), n[3])

WatchExpressionString(n) ==
  WatchString(n[2], n[3], <<>>, n[4])
  \o (IF n[5] = <<>> THEN <<>> ELSE <<Sym(":")>> \o Blank(BlockString(n[5])))

ExpressionString(n) ==
  CASE n[1] = "path" -> PathString(n[2], n[3], 1)
    [] n[1] = "lit" -> LiteralString(n)
    [] n[1] = "unknown" -> <<Word("unknown")>>
    [] n[1] = "bin" -> BinaryString(n)
    [] n[1] = "un" -> UnaryString(n)
    [] n[1] = "call" -> CallString(n[2], n[3])
    [] n[1] = "chain" -> CallString(n[2], n[4])
    [] n[1] = "coll" -> CollectionOperationString(n)
    [] n[1] = "filter" -> BracketFilterString(n)
    [] n[1] = "proj" -> ProjectionString(n)
    [] n[1] = "rec" -> RecordString(n)
    [] n[1] = "list" -> ListString(n)
    [] n[1] = "ref" -> Mod("link") \o String(n[2])
    [] n[1] = "mod" -> Mod(n[2]) \o Blank(String(n[3]))
    [] n[1] = "proc" -> ProcedureString(n)
    [] n[1] = "watch" -> WatchExpressionString(n)

EmbedString(n) ==
  IF n[2] = "..." THEN <<Sym("...")>> \o String(n[3])
  ELSE <<Word("embed")>> \o Blank(String(n[3]))

ReturnString(n) ==
  <<Word("return")>> \o (IF n[2] = <<>> THEN <<>> ELSE Blank(String(n[2][1])))

IfString(n) == Headed(<<Word("if")>> \o Blank(String(n[2])), n[3]) \o ElseString(n[4])

WhileString(n) == Headed(<<Word("while")>> \o Blank(String(n[2])), n[3])

ForString(n) ==
  Headed(<<Word("for")>> \o Blank(Commas(WordsOf(n[2])))
         \o <<Spaced(Word("in"))>> \o Blank(String(n[3])), n[4])

CatchString(n) == Headed(<<Word("catch")>>, n[2]) \o ClauseStrings(n[3])

ScopeString(n) ==
  Dotted(n[2]) \o <<Sym(".")>>
  \o (IF n[3] = <<>> THEN <<>> ELSE <<Sym(":")>> \o Blank(BlockString(n[3][1])))

WatchStatementString(n) ==
  Headed(Dotted(n[2]) \o <<Sym(":")>> \o Blank(WatchString(n[3], n[4], n[5], n[6])), n[7])

InstantiationString(n) ==
  <<Word("new"), Spaced(Word(n[2]))>>
  \o (IF n[3] = "" THEN <<>> ELSE <<Sym(":")>> \o Mod(n[3]))
  \o Blank(Commas([k \in DOMAIN n[4] |-> SourceString(n[4][k])]))
  \o (IF n[5] = <<>> THEN <<>> ELSE Blank(RecordString(n[5][1])))

StatementString(n) ==
  CASE n[1] = "expr" -> String(n[2])
    [] n[1] = "assign" -> AssignmentString(n)
    [] n[1] = "def" -> String(n[2]) \o <<Sym(":")>> \o Blank(String(n[3]))
    [] n[1] = "embed" -> EmbedString(n)
    [] n[1] = "return" -> ReturnString(n)
    [] n[1] \in {"pass", "break"} -> <<Word(n[1])>>
    [] n[1] = "if" -> IfString(n)
    [] n[1] = "while" -> WhileString(n)
    [] n[1] = "for" -> ForString(n)
    [] n[1] = "quiet" -> Headed(<<Word("quietly")>>, n[2])
    [] n[1] = "catch" -> CatchString(n)
    [] n[1] = "scope" -> ScopeString(n)
    [] n[1] = "procstmt" -> Headed(<<Word(n[2])>> \o Parens(Commas(WordsOf(n[3]))), n[4])
    [] n[1] = "watchstmt" -> WatchStatementString(n)
    [] n[1] = "new" -> InstantiationString(n)

Statements == {"expr", "assign", "def", "embed", "return", "pass", "break", "if",
               "while", "for", "quiet", "catch", "scope", "procstmt", "watchstmt", "new"}

String(n) == IF n[1] \in Statements THEN StatementString(n) ELSE ExpressionString(n)

\* A watcher's body: each statement on a line of its own.
RECURSIVE bodyToMBLCode(_)
bodyToMBLCode(body) ==
  IF body = <<>> THEN <<>>
  ELSE <<LineStart(0, 0)>> \o String(body[1])
       \o (IF Len(body) = 1 THEN <<>> ELSE <<LineEnd>> \o bodyToMBLCode(Tail(body)))

=============================================================================
