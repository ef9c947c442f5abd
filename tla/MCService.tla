----------------------------- MODULE MCService -----------------------------
(***************************************************************************)
(* A daemon with one client on the local socket and one on the network.    *)
(* The network client holds a key pair of its own, with which it may       *)
(* enrol; the local client holds the owner's.                              *)
(***************************************************************************)
EXTENDS Service, TLC

CONSTANTS c1, c2, k1, k2

MCKeyOf == (c1 :> k1) @@ (c2 :> k2)
=============================================================================
