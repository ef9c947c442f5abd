--------------------------- MODULE MCValueStore ---------------------------
(* A small instance of ValueStore: one value in tier 0, two whose sizes     *)
(* differ in tier 1, a file that stays as it is, so that blocks are split,  *)
(* merged and scanned, and one in tier 3, the file that is compacted. The   *)
(* last is an Unknown: FreeList takes its record for one cell and steps     *)
(* into it, where the second cell looks like a tombstone.                   *)
EXTENDS ValueStore, TLC

CONSTANTS v0, u2, u3, unknown

MCSizeOf == (v0 :> 2) @@ (u2 :> 2) @@ (u3 :> 3) @@ (unknown :> 3)

MCTierOf == (v0 :> 0) @@ (u2 :> 1) @@ (u3 :> 1) @@ (unknown :> 3)

\* The two sizes in the compacted file, the Unknown in one that stays.
MCTierOf3 == (v0 :> 0) @@ (u2 :> 3) @@ (u3 :> 3) @@ (unknown :> 1)

MCScanSize == [c \in Contents |-> IF c = unknown THEN 1 ELSE MCSizeOf[c]]

MCLookalikes ==
    [c \in Contents |->
        IF c = unknown THEN {[at |-> 2, mark |-> "tomb", size |-> 1]} ELSE {}]

Symmetry == Permutations(Holders)
=============================================================================
