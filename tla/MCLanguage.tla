----------------------------- MODULE MCLanguage ----------------------------
(***************************************************************************)
(* Programs for the Language runs.  A line is its tabs and its words; a      *)
(* text is a word with a quote before it.                                    *)
(***************************************************************************)
EXTENDS Language

Texts == [x \in {"'x"} |-> "x"]

AsWritten(w) ==
  IF w \in DOMAIN Texts THEN Str(Texts[w])
  ELSE IF w = " (" THEN Spaced(Sym("("))
  ELSE IF w \in SymbolTypes THEN Sym(w)
  ELSE IF w \in Numerals THEN Num(w)
  ELSE Word(w)

\* No blank stands before these, nor after those.
Tight == {".", "..", ",", ":", "(", "[", ")", "]", "}"}
Opening == {".", "..", "(", "[", "-", " (", "{"}

Line(tabs, ws) ==
  <<LineStart(tabs, 0)>>
  \o [k \in DOMAIN ws |->
        IF k = 1 \/ ws[k] \in Tight \/ ws[k - 1] \in Opening THEN AsWritten(ws[k])
        ELSE Spaced(AsWritten(ws[k]))]
  \o <<LineEnd>>

Twice ==
  Line(0, <<"my", ".", "a", "=", "1">>) \o Line(0, <<"my", ".", "a", "=", "2">>)

Nested ==
  Line(0, <<"if", "true", ":">>)
  \o Line(1, <<"if", "1", ">", "0", ":">>)
  \o Line(2, <<"my", ".", "b", ".", "c", "=", "1">>)
  \o Line(0, <<"my", ".", "c", "=", "my", ".", "b", ".", "c", "+", "1">>)

Records ==
  Line(0, <<"my", ".", "r", "=", "{", "x", ":", "1", ",", "y", ":",
            "{", "z", ":", "2", "}", "}">>)
  \o Line(0, <<"s", "=", "{", "x", ":", "1", ",", "w", ":", "2", "}">>)
  \o Line(0, <<"s", "{", "x", ",", "v", "}">>)
  \o Line(0, <<"s", "[", "field", ">", "1", "]">>)
  \o Line(0, <<"my", ".", "d", "=", "my", ".", "r", "[", "'x", "]">>)

Quiet ==
  Line(0, <<"quietly", ":">>)
  \o Line(1, <<"my", ".", "q", ".", "d", "=", "1">>)
  \o Line(1, <<"for", "x", ",", "n", "in", "[", "1", ",", "2", ",", "3", "]", ":">>)
  \o Line(2, <<"my", ".", "l", "=", "x", "+", "n">>)

\* A procedure that writes, and a quiet block that calls it.
Writing ==
  Line(0, <<"h", "(", "n", ")", ":">>)
  \o Line(1, <<"my", ".", "h", "=", "n">>)
  \o Line(1, <<"return", "n">>)

QuietCall ==
  Line(0, <<"quietly", ":">>) \o Line(1, <<"my", ".", "q", "=", "h", "(", "3", ")">>)

\* A recursive call, one that ends in an Unknown, and one too deep.
Procedures ==
  Line(0, <<"f", "(", "n", ")", ":">>)
  \o Line(1, <<"if", "n", ">", "2", ":">>)
  \o Line(2, <<"return", "n">>)
  \o Line(1, <<"return", "f", "(", "n", "+", "1", ")">>)
  \o Line(0, <<"my", ".", "a", "=", "f", "(", "1", ")">>)
  \o Line(0, <<"f", "(", "0", "-", "9", ")">>)

Watching ==
  Line(0, <<"watch", "w", "(", "my", ".", "a", ")", ":">>)
  \o Line(1, <<"my", ".", "b", "=", " (", "quietly", ")", "my", ".", "a", "+", "1", "*", "2">>)
  \o Line(1, <<"my", ".", "c", "=", "f", "(", "my", ".", "a", ",", "'x", ")">>)
  \o Line(0, <<"my", ".", "a", "=", "5">>)

\* One watcher for each kind of expression a line may have.
WatchingMore ==
  Line(0, <<"watch", "w", "(", "my", ".", "a", ")", ":">>)
  \o Line(1, <<"x", "=", "y", "&", "'x", "-", "-", "f", "(", "n", "+", "1", ")">>)
  \o Line(1, <<"my", ".", "k", "[", "n", "+", "1", "]", "=", "not", "x", "or", "y", "and", "z">>)
  \o Line(1, <<"y", "..", "append", "(", "5", ")">>)
  \o Line(1, <<"my", ".", "b", "=", "y", "[", "item", ">", "1", "]", "..", "count">>)
  \o Line(1, <<"my", ".", "r", "=", "{", "x", ":", "[", "1", ",", "2", "]", ",", "y", ":",
               "{", "z", ":", "2", "}", "}">>)
  \o Line(0, <<"watch", "v", "(", "my", ".", "a", ")", ":">>)
  \o Line(1, <<"my", ".", "e", ":", "(", "cascade", ")", "=", "unknown">>)
  \o Line(1, <<"y", "{", "x", ",", "v", "}">>)
  \o Line(1, <<"my", ".", "l", "="," (", "link", ")", "my", ".", "c">>)
  \o Line(1, <<"my", ".", "p", "=", " (", "x", "+", "1", ")", "^", "2", "^", "x">>)
  \o Line(1, <<"return", "y", "+", "f", "(", "x", ")">>)

\* Three bodies whose text does not say what they say.
WatchingLossy ==
  Line(0, <<"watch", "w", "(", "my", ".", "a", ")", ":">>)
  \o Line(1, <<"my", ".", "k", "[", "1", "]", "=", "2">>)
  \o Line(0, <<"watch", "v", "(", "my", ".", "a", ")", ":">>)
  \o Line(1, <<"my", ".", "b", "=", "f", "(", "x", ")", "+", "y">>)
  \o Line(0, <<"watch", "u", "(", "my", ".", "a", ")", ":">>)
  \o Line(1, <<"my", ".", "e", "=", "unknown", "(", "'x", ")">>)
  \o Line(0, <<"my", ".", "a", "=", "5">>)

Looping ==
  Line(0, <<"n", "=", "0">>)
  \o Line(0, <<"while", "n", "<", "3", ":">>)
  \o Line(1, <<"my", ".", "k", "[", "n", "]", "=", "n">>)
  \o Line(1, <<"n", "=", "n", "+", "1">>)
  \o Line(0, <<"bogus", "(", "n", ")">>)

Catching ==
  Line(0, <<"catch", ":">>)
  \o Line(1, <<"my", ".", "a", "=", "my", ".", "none">>)
  \o Line(0, <<"else", "unknown", ":">>)
  \o Line(1, <<"my", ".", "e", "=", "unknown">>)

\* Rolled back: pass is no statement the evaluator knows.
Passing ==
  Line(0, <<"my", ".", "a", "=", "3">>) \o Line(0, <<"pass">>)

Scoping ==
  Line(0, <<"my", ".", "cfg", ".">>)
  \o Line(0, <<"a", "=", "1">>)
  \o Line(0, <<"b", "=", "a", "+", "1">>)

\* One write more than the buffer takes.
Overfull ==
  Line(0, <<"my", ".", "cfg", ".">>)
  \o Line(0, <<"a", "=", "1">>) \o Line(0, <<"b", "=", "2">>) \o Line(0, <<"c", "=", "3">>)
  \o Line(0, <<"d", "=", "1">>) \o Line(0, <<"e", "=", "2">>) \o Line(0, <<"f", "=", "3">>)
  \o Line(0, <<"g", "=", "1">>) \o Line(0, <<"h", "=", "2">>) \o Line(0, <<"i", "=", "3">>)

Chains ==
  Line(0, <<"1", "+", "2", "*", "3", "-", "4">>)
  \o Line(0, <<"1", "<", "2", "and", "3", "or", "4", "and", "0">>)
  \o Line(0, <<"2", "^", "2", "^", "3", "&", "'x", "&", "1", "-", "1">>)
  \o Line(0, <<"1", "or", "0", "and", "5", "%", "2", ">=", "1">>)

Lists ==
  Line(0, <<"x", "=", "[", "3", ",", "1", ",", "2", "]">>)
  \o Line(0, <<"y", "=", "x", "..", "append", "(", "5", ")">>)
  \o Line(0, <<"y", "..", "remove", "(", "1", ")">>)
  \o Line(0, <<"y", "[", "item", ">", "1", "]">>)
  \o Line(0, <<"my", ".", "a", "=", "y", "[", "3", "]">>)

Templates ==
  Line(0, <<"my", ".", "t", ".", "template", "=", "{", "rate", ":", "1", "}">>)
  \o Line(0, <<"my", ".", "u", "=", "new", "(", "my", ".", "t", ".", "template", ")">>)
  \o Line(0, <<"t", "=", "{", "a", ":", "1", ",", "b", ":", " (", "exclude", ")", "2", "}">>)
  \o Line(0, <<"new", "Thing", "t", ",", "{", "c", ":", "3", "}">>)

\* A field that cannot be stored: the others may have been staged before it.
Unstorable ==
  Line(0, <<"my", ".", "p", "=", "{", "x", ":", "1", ",", "y", ":", " (", "link", ")", "2", "}">>)
  \o Line(0, <<"max", "(", "1", ",", "abs", "(", "-", "2", ")", ")">>)

Returning ==
  Line(0, <<"my", ".", "a", "=", "4">>)
  \o Line(0, <<"return", "my", ".", "a">>)
  \o Line(0, <<"my", ".", "b", "=", "4">>)

\* The third line is between two levels.
Uneven ==
  Line(0, <<"if", "true", ":">>)
  \o Line(2, <<"my", ".", "a", "=", "1">>)
  \o Line(1, <<"my", ".", "b", "=", "1">>)

\* A value that cascades; a break that leaves a procedure; a list too long.
Odd ==
  Line(0, <<"world", ".", "org", ".", "v", ":", "(", "cascade", ")", "=", "1">>)
  \o Line(0, <<"g", "(", ")", ":">>)
  \o Line(1, <<"break">>)
  \o Line(0, <<"for", "x", "in", "[", "v", ",", "2", "]", ":">>)
  \o Line(1, <<"g", "(", ")">>)
  \o Line(0, <<"for", "x", "in", "[", "1", ",", "2", ",", "3", ",", "4", ",", "5", "]", ":">>)
  \o Line(1, <<"not", "x">>)

MCPrograms ==
  {Twice, Nested, Records, Quiet, Procedures, Watching, Looping, Catching, Passing,
   Scoping, Chains, Odd, Lists, Templates, Unstorable, Returning, Uneven,
   WatchingMore, WatchingLossy, Overfull, Writing, QuietCall}

ScopePrograms ==
  {Scoping, Line(0, <<"my", ".", "cfg", ".">>) \o Line(0, <<"a", "=", "1">>)
            \o Line(0, <<"b", "=", "2">>)}

MCCollation == <<"1", "2", "a", "b", "x">>

\* The same fields in other orders, other fields, and records in records.
SampleRecords ==
  {RecV([x |-> NumV(1)]), RecV([x |-> NumV(1), y |-> NumV(2)]),
   RecV([x |-> NumV(2), y |-> NumV(1)]), RecV([x |-> NumV(1), z |-> NumV(2)]),
   RecV([x |-> RecV([y |-> NumV(1)]), y |-> Text("a")]),
   RecV([x |-> RecV([y |-> NumV(2)]), y |-> Text("a")])}

MCSamples ==
  {NumV(1), NumV(2), TextV(<<>>), Text("a"), Text("b"), TextV(<<"a", "b">>),
   TextV(<<"a", "1">>), BoolV(TRUE), BoolV(FALSE), Nothing, Unk("a"), Unk("b"),
   MoneyV(1, "EUR"), MoneyV(1, "USD"), MoneyV(2, "EUR"),
   ListV(<<NumV(1)>>), ListV(<<NumV(1), NumV(2)>>), ListV(<<Text("a"), NumV(1)>>),
   ListV(<<RecV([x |-> NumV(1), y |-> NumV(2)])>>),
   ListV(<<RecV([x |-> NumV(2), y |-> NumV(1)])>>)}
  \cup SampleRecords
  \cup {TimeV(t, p) : t \in 0 .. 5, p \in {1, 2, 4}}

=============================================================================
