----------------------------- MODULE Directory -----------------------------
(***************************************************************************)
(* The path directory of internal/directory: which node is the authority   *)
(* of a path, and since when.  A directory is a partial function from      *)
(* paths to entries; a path is the sequence of its dotted labels, so that  *)
(* "a path that begins with the entry's path followed by a dot" is a       *)
(* proper prefix.                                                          *)
(***************************************************************************)
EXTENDS Naturals, Sequences, SequencesExt

Entry(auth, ts) == [auth |-> auth, ts |-> ts]

\* What Get answers when no entry matches: ok is false, the time is zero.
NoEntry == [auth |-> "none", ts |-> 0]

NewDirectory == <<>>

Set(d, path, auth, ts) ==
  [p \in DOMAIN d \cup {path} |-> IF p = path THEN Entry(auth, ts) ELSE d[p]]

\* The exact entry, or else the one of the longest dotted prefix.
Matches(d, path) ==
  {p \in DOMAIN d : p = path \/ (p # <<>> /\ IsPrefix(p, path))}

Get(d, path) ==
  IF Matches(d, path) = {} THEN NoEntry
  ELSE d[CHOOSE p \in Matches(d, path) :
            \A q \in Matches(d, path) : Len(q) =< Len(p)]

Known(d, path) == Matches(d, path) # {}

Delete(d, path) == [p \in DOMAIN d \ {path} |-> d[p]]

\* A snapshot lists each path once, in any order: it is a directory itself.
Snapshot(d) == d

Merge(d, entries) ==
  [p \in DOMAIN d \cup DOMAIN entries |->
     IF p \in DOMAIN entries
        /\ (p \notin DOMAIN d \/ entries[p].ts > d[p].ts)
     THEN entries[p]
     ELSE d[p]]

=============================================================================
