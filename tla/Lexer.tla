------------------------------- MODULE Lexer -------------------------------
(***************************************************************************)
(* The lexer of MBL (internal/mbl/lexer).  A source text is a sequence of  *)
(* lexemes: words, numbers, texts, symbols, comments, line ends, and the    *)
(* blanks that begin each line.  A lexeme knows whether a blank stands      *)
(* before it, since the lookahead works on the text and not on tokens.      *)
(* NextToken takes the lexer from one state to the next and adds one token. *)
(***************************************************************************)
EXTENDS Naturals, Sequences, FiniteSets, SequencesExt

Lexeme(k, l) == [k |-> k, l |-> l, sp |-> FALSE, tabs |-> 0, spaces |-> 0]
Word(w) == Lexeme("word", w)
Num(n) == Lexeme("num", n)
Str(s) == Lexeme("str", s)
Sym(s) == Lexeme("sym", s)
Comment(s) == Lexeme("comment", s)
LineEnd == Lexeme("nl", "\n")
LineStart(tabs, spaces) ==
  [Lexeme("ind", "") EXCEPT !.tabs = tabs, !.spaces = spaces]
Spaced(x) == [x EXCEPT !.sp = TRUE]

EndOfText == Lexeme("eof", "")
At(text, i) == IF i =< Len(text) THEN text[i] ELSE EndOfText

Is(x, s) == x.k = "sym" /\ x.l = s

----------------------------------------------------------------------------
(* Token types *)

Keywords == {"if", "else", "while", "for", "in", "consider", "watch", "append",
             "as", "return", "break", "pass", "new", "catch", "procedure", "and",
             "or", "not", "true", "false", "my", "world", "nothing", "unknown",
             "embed", "quietly", "empty", "quote", "tab", "newline", "anything"}

Modifiers == {"copy", "link", "reset", "exclude", "protected", "cascade",
              "quietly"}

\* The numbers of one digit.
Numerals == {"0", "1", "2", "3", "4", "5", "6", "7", "8", "9"}

\* A keyword's and a symbol's token type is written as itself.
SymbolTypes == {"(", ")", "[", "]", "{", "}", ",", ".", "..", "...", ";", ":",
                "+", "-", "*", "/", "%", "^", "&", "=", "!=", "?=", ">", ">=",
                "<", "<="}

LookupIdent(w) == IF w \in Keywords THEN w ELSE "IDENT"

\* After .. the words append and prepend are methods, not keywords.
lookupIdentWithContext(prev, w) ==
  IF prev = ".." /\ w \in {"append", "prepend"} THEN "IDENT" ELSE LookupIdent(w)

----------------------------------------------------------------------------
(* Parenthesised modifiers *)

\* Where the line's first closing parenthesis after i is, or 0.
ClosingParen(text, i) ==
  LET ends == {j \in i + 1 .. Len(text) : Is(text[j], ")")
                 /\ \A k \in i + 1 .. j : text[k].k # "nl"}
  IN IF ends = {} THEN 0 ELSE CHOOSE j \in ends : \A k \in ends : j =< k

Inside(text, i) == SubSeq(text, i + 1, ClosingParen(text, i) - 1)

IsModifier(word) == Len(word) = 1 /\ ~ word[1].sp /\ word[1].l \in Modifiers

IsReset(word) == Len(word) > 1 /\ word[1].l = "reset" /\ word[2].sp

\* A word of letters with no dot, blank, quote or digit in it is taken for a
\* modifier that is not known, except as the argument list of a call.
isStandaloneModifier(text, i) ==
  LET word == Inside(text, i) IN
  /\ ClosingParen(text, i) # 0
  /\ ~ (Is(At(text, ClosingParen(text, i) + 1), ":")
        /\ ~ At(text, ClosingParen(text, i) + 1).sp)
  /\ word # <<>>
  /\ \/ IsModifier(word)
     \/ IsReset(word)
     \/ /\ text[i].sp \/ At(text, i - 1).k \notin {"word", "num"}
        /\ word[1].k = "word"
        /\ \A k \in 2 .. Len(word) : ~ word[k].sp
        /\ \A k \in 1 .. Len(word) : word[k].k \notin {"num", "str"}
                                     /\ word[k].l \notin {".", "..", "..."}

\* The token type of a modifier is its name; its literal has parentheses.
readModifier(text, i) ==
  LET word == Inside(text, i) IN
  IF IsModifier(word) \/ IsReset(word) THEN word[1].l ELSE "IDENT"

----------------------------------------------------------------------------
(* The state of the lexer: where it is in the text, the open indentation    *)
(* levels, the DEDENTs it owes, the previous token and the tokens so far.   *)
(* A token's "at" is the position the lexer has after it.                   *)

NewLexer == [pos |-> 1, indentStack |-> <<0>>, pendingDedents |-> 0,
             previous |-> "ILLEGAL", out |-> <<>>]

Emit(s, t, l, pos) ==
  [s EXCEPT !.pos = pos, !.out = Append(@, [t |-> t, l |-> l, at |-> pos])]

Last1(stack) == stack[Len(stack)]

\* At the end of the text every open level is closed.
EndTokens(s) ==
  IF Len(s.indentStack) > 1
  THEN Emit([s EXCEPT !.pendingDedents = Len(s.indentStack) - 2,
                      !.indentStack = <<0>>], "DEDENT", "", s.pos)
  ELSE Emit(s, "EOF", "", s.pos)

SymbolToken(s, x) ==
  LET t == IF x.l \in SymbolTypes THEN x.l ELSE "ILLEGAL"
  IN Emit([s EXCEPT !.previous = t], t, x.l, s.pos + 1)

\* Words and numbers return before previousToken is set.
ContentToken(text, s) ==
  LET x == At(text, s.pos)
      after(t) == [s EXCEPT !.previous = t]
  IN
  IF x.k = "eof" THEN EndTokens(s)
  ELSE IF x.k = "nl" THEN Emit(after("NEWLINE"), "NEWLINE", "\n", s.pos + 1)
  ELSE IF x.k = "comment" THEN Emit(s, "COMMENT", x.l, s.pos + 1)
  ELSE IF x.k = "word"
  THEN Emit(s, lookupIdentWithContext(s.previous, x.l), x.l, s.pos + 1)
  ELSE IF x.k = "time" THEN Emit(after("TIME"), "TIME", x.l, s.pos + 1)
  ELSE IF x.k = "num" THEN Emit(s, "NUMBER", x.l, s.pos + 1)
  ELSE IF x.k = "str" THEN Emit(after("TEXT"), "TEXT", x.l, s.pos + 1)
  ELSE IF Is(x, "(") /\ isStandaloneModifier(text, s.pos)
  THEN Emit(s, readModifier(text, s.pos), "(modifier)",
            ClosingParen(text, s.pos) + 1)
  ELSE SymbolToken(s, x)

\* One level too few closed: a line that goes back by several levels owes only
\* one DEDENT.
MutantDedent(s, level) ==
  LET keep == {k \in 1 .. Len(s.indentStack) : k = 1 \/ s.indentStack[k] =< level}
  IN [s EXCEPT !.indentStack = SubSeq(@, 1, Cardinality(keep)),
               !.pendingDedents = 0]

\* The levels deeper than the line's are popped.
Dedent(s, level) ==
  LET keep == {k \in 1 .. Len(s.indentStack) : k = 1 \/ s.indentStack[k] =< level}
  IN [s EXCEPT !.indentStack = SubSeq(@, 1, Cardinality(keep)),
               !.pendingDedents = Len(s.indentStack) - Cardinality(keep) - 1]

\* Four blanks or one tab are one level.  An empty line and a comment line
\* have no level; a jump by several levels opens one block.
handleIndentation(text, s) ==
  LET x == text[s.pos]
      next == At(text, s.pos + 1)
      level == IF x.tabs > 0 THEN x.tabs ELSE x.spaces \div 4
      here == [s EXCEPT !.pos = s.pos + 1]
      back == Dedent(here, level)
  IN
  IF x.tabs > 0 /\ x.spaces > 0 THEN Emit(here, "ILLEGAL", "mixed", here.pos)
  ELSE IF next.k = "nl" THEN Emit(here, "NEWLINE", "\n", here.pos + 1)
  ELSE IF next.k \in {"eof", "comment"} THEN ContentToken(text, here)
  ELSE IF level > Last1(s.indentStack)
  THEN Emit([here EXCEPT !.indentStack = Append(@, level)], "INDENT", "", here.pos)
  ELSE IF level < Last1(s.indentStack)
  THEN IF Last1(back.indentStack) # level
       THEN Emit([back EXCEPT !.pendingDedents = 0], "ILLEGAL", "level", here.pos)
       ELSE Emit(back, "DEDENT", "", here.pos)
  ELSE ContentToken(text, here)

NextToken(text, s) ==
  IF s.pendingDedents > 0
  THEN Emit([s EXCEPT !.pendingDedents = @ - 1], "DEDENT", "", s.pos)
  ELSE IF At(text, s.pos).k = "ind" THEN handleIndentation(text, s)
  ELSE ContentToken(text, s)

Lexed(s) == s.out # <<>> /\ Last1(s.out).t = "EOF"

----------------------------------------------------------------------------
(* Lookahead: the rest of the line after position i.  When the position is   *)
(* behind a line end, this is the next line.                                 *)

RestOfLine(text, i) ==
  LET ends == {j \in i .. Len(text) : text[j].k = "nl"}
      end == IF ends = {} THEN Len(text)
             ELSE (CHOOSE j \in ends : \A k \in ends : j =< k) - 1
  IN SubSeq(text, i, end)

\* The pattern is looked for in the text, so a longer word has it too.
ContainsWord(text, i, w) ==
  \E k \in DOMAIN RestOfLine(text, i) :
    LET l == RestOfLine(text, i)[k].l IN
    l = w \/ <<l, w>> = <<"watchdog", "watch">>

\* ContainsPattern of a symbol and what follows it at once.
ContainsPair(text, i, a, b) ==
  LET r == RestOfLine(text, i) IN
  \E k \in 1 .. Len(r) - 1 : Is(r[k], a) /\ Is(r[k + 1], b) /\ ~ r[k + 1].sp

ContainsColonBlank(text, i) ==
  LET r == RestOfLine(text, i) IN
  \E k \in 1 .. Len(r) - 1 : Is(r[k], ":") /\ r[k + 1].sp

\* The lexeme's column is 1: tabs at the beginning of a line do not count.
InFirstColumn(text, i) == i = 1 \/ (text[i - 1].k = "ind" /\ text[i - 1].spaces = 0)

Depth(r, k) == Cardinality({j \in 1 .. k : Is(r[j], "[")})
               - Cardinality({j \in 1 .. k : Is(r[j], "]")})

\* An = outside brackets; two of them together do not count.
HasTopLevelAssignment(text, i) ==
  LET r == RestOfLine(text, i) IN
  \E k \in DOMAIN r :
    /\ Is(r[k], "=") /\ Depth(r, k) = 0
    /\ \A j \in {k - 1, k} : j \in 1 .. Len(r) - 1
         => ~ (Is(r[j], "=") /\ Is(r[j + 1], "=") /\ ~ r[j + 1].sp)

EndsWithDot(text, i) ==
  LET r == RestOfLine(text, i) IN r # <<>> /\ Is(Last1(r), ".")

=============================================================================
