---------------------------- MODULE MCHeartbeat ----------------------------
(* Two watchers that write below and at each other's watched paths, so that *)
(* a cascade may go on for ever, and two that wait for appends, one of them *)
(* for those that pass its filter.                                          *)
EXTENDS Heartbeat

x == <<"x">>
xa == <<"x", "a">>
y == <<"y">>

MCPaths == {x, xa, y}

MCRemotePaths == {y}

MCLists == {x}

MCWatching == [w \in Watchers |-> IF w = "onY" THEN {y} ELSE {x}]

Write(p, v, quiet) == [path |-> p, value |-> v, quiet |-> quiet]

MCBodies == [w \in Watchers |->
    IF w = "onX" THEN {<<>>, <<Write(y, 0, FALSE), Write(x, 1, TRUE)>>, <<Write(y, 1, FALSE)>>}
    ELSE IF w = "onY" THEN {<<>>, <<Write(xa, 0, FALSE)>>, <<Write(xa, 1, FALSE)>>}
    ELSE {<<>>}]
=============================================================================
