---------------------------- MODULE TemporalTree ----------------------------
(***************************************************************************)
(* What the storage engine promises (docs/amorphdb_design.md, "Every value *)
(* has a history"): each path holds the sequence of values assigned to it, *)
(* with their times.  An assignment of the current value records nothing;  *)
(* any other one is recorded after all the earlier ones, which stay, at    *)
(* the time the wall clock showed.  The promise stands while the store is  *)
(* intact; nothing is promised from the step on that ends it.              *)
(***************************************************************************)
EXTENDS Naturals, Sequences

CONSTANTS Paths, Contents, Times

VARIABLES history,  \* [Paths -> sequence of assignments, oldest first]
          intact

Init ==
    /\ history = [p \in Paths |-> <<>>]
    /\ intact = TRUE

Current(p) == history[p][Len(history[p])].data

Assign(p, c, at) ==
    /\ history[p] = <<>> \/ Current(p) # c
    /\ history' = [history EXCEPT ![p] = Append(@, [data |-> c, time |-> at])]
    /\ intact' = intact

Break == intact' = FALSE

Next == Break \/ \E p \in Paths, c \in Contents, at \in Times : Assign(p, c, at)

Spec == Init /\ [][Next]_<<history, intact>>
=============================================================================
