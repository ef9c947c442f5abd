------------------------------- MODULE MCWire -------------------------------
(* Constants for checking the wire protocol: paths and lists of up to two. *)
EXTENDS Wire

MCStrings == { <<>>, <<7>> }
MCPaths   == { <<>> } \cup { <<s>> : s \in Strings } \cup { <<s, t>> : s, t \in Strings }

Children     == [ids : { <<3, 6, 3, 6>> }, name : Strings]
MCChildLists == { <<>> } \cup { <<c>> : c \in Children } \cup { <<c, d>> : c, d \in Children }
=============================================================================
