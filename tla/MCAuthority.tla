---------------------------- MODULE MCAuthority ----------------------------
EXTENDS Authority
MCCreated == (1 :> 1) @@ (2 :> 1)
MCRoots == {<<"inventory">>}
=============================================================================
