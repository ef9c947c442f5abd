-------------------------------- MODULE Wire --------------------------------
(***************************************************************************)
(* A message of any kind sent as a frame, followed on the stream by        *)
(* another frame, possibly damaged on the way or cut off by a lost         *)
(* connection, and read by the receiver (internal/protocol; the readers of *)
(* connection.go, client.go, bootstrap.go).                                *)
(***************************************************************************)
EXTENDS Protocol

CONSTANTS
    Paths,       \* the paths of requests
    Tags,        \* the type tags of values
    ChildLists,  \* the children a node may answer with
    Codes,       \* the error codes
    AnyTail      \* TRUE: also messages that end in an empty string

ASSUME FieldAssumption ==
    /\ Paths \subseteq Seq(Strings)
    /\ Tags \subseteq Nat
    /\ ChildLists \subseteq Seq([ids : Words \X Words \X Words \X Words, name : Strings])
    /\ Codes \subseteq 0 .. (M32 - 1)

VARIABLES kind, msg, sequence, stream, damage, got

vars == <<kind, msg, sequence, stream, damage, got>>

Values == [typeTag : Tags, data : Strings]

\* The messages of each kind as the service and its clients build them: a
\* failed execution or extraction has no result, a successful one no error.
Messages(k) ==
    CASE k \in {"READ", "CHILDREN", "EXTRACT"} -> [path : Paths]
      [] k \in {"READ_RESPONSE", "READ_AT_RESPONSE"} -> [value : Values]
      [] k = "READ_AT" -> [path : Paths, timestamp : Ints(M64)]
      [] k = "CHILDREN_RESPONSE" -> [children : ChildLists]
      [] k = "WRITE" -> [path : Paths, value : Values, author : Words]
      [] k \in {"WRITE_ACK", "PURGE_ACK", "STOP_ACK"} -> [success : BOOLEAN, error : Strings]
      [] k = "PURGE" -> [path : Paths, from : Ints(M64), to : Ints(M64), author : Words]
      [] k = "STATUS_RESPONSE" ->
            [uptime : Ints(M64), nodeIdentity : Strings, localSocket : Strings,
             networkPort : Ints(M32), connections : Ints(M32), dataSize : Ints(M64)]
      [] k = "WHOAMI_RESPONSE" -> [agentID : Words, identity : Strings]
      [] k = "AUTH_INIT" -> [identity : Strings]
      [] k = "AUTH_CHALLENGE" -> [challenge : Strings]
      [] k = "AUTH_RESPONSE" -> [response : Strings]
      [] k = "AUTH_RESULT" ->
            [success : BOOLEAN, agentID : Words, identity : Strings, error : Strings]
      [] k = "REGISTER" -> [identity : Strings, publicKey : Strings, token : Strings]
      [] k = "REGISTER_RESULT" -> [success : BOOLEAN, agentID : Words, error : Strings]
      [] k = "INVITE_CREATE_RESULT" -> [success : BOOLEAN, token : Strings, error : Strings]
      [] k = "COMPACT_ACK" -> [success : BOOLEAN, error : Strings, spaceReclaimed : Ints(M64)]
      [] k = "ERROR" -> [code : Codes, message : Strings]
      [] k = "CREATE_MESH" -> [name : Strings]
      [] k = "CREATE_MESH_ACK" ->
            [success : BOOLEAN, message : Strings, meshName : Strings, nodeID : Strings,
             isFounder : BOOLEAN]
      [] k = "MESH_STATUS" -> [none : {E}]
      [] k = "MESH_STATUS_RESPONSE" ->
            [meshName : Strings, status : Strings, isFounder : BOOLEAN,
             nodeIdentity : Strings, memberCount : Ints(M32), zoneCount : Ints(M32),
             foundedAt : {<<>>} \cup { <<t>> : t \in Ints(M64) }]
      [] k = "DISCOVER_MESH_RESPONSE" ->
            [meshName : Strings, founderIdentity : Strings, memberCount : Ints(M32),
             zoneCount : Ints(M32), requiresAuth : BOOLEAN, foundedAt : Ints(M64)]
      [] k = "JOIN_MESH" -> [nodeIdentity : Strings, meshName : Strings]
      [] k = "JOIN_MESH_ACK" ->
            [success : BOOLEAN, message : Strings, assignedZone : Strings,
             memberCount : Ints(M32)]
      [] k = "CREATE_BRIDGE" -> [targetAddress : Strings, nodeIdentity : Strings]
      [] k = "CREATE_BRIDGE_ACK" ->
            [success : BOOLEAN, message : Strings, targetMeshName : Strings,
             bridgeIdentity : Strings, bridgeStatus : Strings]
      [] k = "EXECUTE" -> [code : Strings]
      [] k = "EXECUTE_RESPONSE" ->
            [success : {TRUE}, result : Values, error : {E}]
                \cup [success : {FALSE}, result : {V}, error : Strings]
      [] k = "EXTRACT_RESPONSE" ->
            [success : {TRUE}, script : Strings, error : {E}]
                \cup [success : {FALSE}, script : {E}, error : Strings]

Encoded(k, m) ==
    CASE k = "READ" -> EncodeRead(m)
      [] k = "READ_RESPONSE" -> EncodeReadResponse(m)
      [] k = "READ_AT" -> EncodeReadAt(m)
      [] k = "READ_AT_RESPONSE" -> EncodeReadAtResponse(m)
      [] k = "CHILDREN" -> EncodeChildren(m)
      [] k = "CHILDREN_RESPONSE" -> EncodeChildrenResponse(m)
      [] k = "WRITE" -> EncodeWrite(m)
      [] k = "WRITE_ACK" -> EncodeWriteAck(m)
      [] k = "PURGE" -> EncodePurge(m)
      [] k = "PURGE_ACK" -> EncodePurgeAck(m)
      [] k = "STATUS_RESPONSE" -> EncodeStatusResponse(m)
      [] k = "WHOAMI_RESPONSE" -> EncodeWhoAmIResponse(m)
      [] k = "AUTH_INIT" -> EncodeAuthInit(m)
      [] k = "AUTH_CHALLENGE" -> EncodeAuthChallenge(m)
      [] k = "AUTH_RESPONSE" -> EncodeAuthResponse(m)
      [] k = "AUTH_RESULT" -> EncodeAuthResult(m)
      [] k = "REGISTER" -> EncodeRegister(m)
      [] k = "REGISTER_RESULT" -> EncodeRegisterResult(m)
      [] k = "INVITE_CREATE_RESULT" -> EncodeInviteCreateResult(m)
      [] k = "STOP_ACK" -> EncodeStopAck(m)
      [] k = "COMPACT_ACK" -> EncodeCompactAck(m)
      [] k = "ERROR" -> EncodeError(m)
      [] k = "CREATE_MESH" -> EncodeCreateMesh(m)
      [] k = "CREATE_MESH_ACK" -> EncodeCreateMeshAck(m)
      [] k = "MESH_STATUS" -> EncodeMeshStatus(m)
      [] k = "MESH_STATUS_RESPONSE" -> EncodeMeshStatusResponse(m)
      [] k = "DISCOVER_MESH_RESPONSE" -> EncodeDiscoverMeshResponse(m)
      [] k = "JOIN_MESH" -> EncodeJoinMesh(m)
      [] k = "JOIN_MESH_ACK" -> EncodeJoinMeshAck(m)
      [] k = "CREATE_BRIDGE" -> EncodeCreateBridge(m)
      [] k = "CREATE_BRIDGE_ACK" -> EncodeCreateBridgeAck(m)
      [] k = "EXECUTE" -> EncodeExecute(m)
      [] k = "EXECUTE_RESPONSE" -> EncodeExecuteResponse(m)
      [] k = "EXTRACT" -> EncodeExtract(m)
      [] k = "EXTRACT_RESPONSE" -> EncodeExtractResponse(m)

Decoded(k, p) ==
    CASE k = "READ" -> DecodeRead(p)
      [] k = "READ_RESPONSE" -> DecodeReadResponse(p)
      [] k = "READ_AT" -> DecodeReadAt(p)
      [] k = "READ_AT_RESPONSE" -> DecodeReadAtResponse(p)
      [] k = "CHILDREN" -> DecodeChildren(p)
      [] k = "CHILDREN_RESPONSE" -> DecodeChildrenResponse(p)
      [] k = "WRITE" -> DecodeWrite(p)
      [] k = "WRITE_ACK" -> DecodeWriteAck(p)
      [] k = "PURGE" -> DecodePurge(p)
      [] k = "PURGE_ACK" -> DecodePurgeAck(p)
      [] k = "STATUS_RESPONSE" -> DecodeStatusResponse(p)
      [] k = "WHOAMI_RESPONSE" -> DecodeWhoAmIResponse(p)
      [] k = "AUTH_INIT" -> DecodeAuthInit(p)
      [] k = "AUTH_CHALLENGE" -> DecodeAuthChallenge(p)
      [] k = "AUTH_RESPONSE" -> DecodeAuthResponse(p)
      [] k = "AUTH_RESULT" -> DecodeAuthResult(p)
      [] k = "REGISTER" -> DecodeRegister(p)
      [] k = "REGISTER_RESULT" -> DecodeRegisterResult(p)
      [] k = "INVITE_CREATE_RESULT" -> DecodeInviteCreateResult(p)
      [] k = "STOP_ACK" -> DecodeStopAck(p)
      [] k = "COMPACT_ACK" -> DecodeCompactAck(p)
      [] k = "ERROR" -> DecodeError(p)
      [] k = "CREATE_MESH" -> DecodeCreateMesh(p)
      [] k = "CREATE_MESH_ACK" -> DecodeCreateMeshAck(p)
      [] k = "MESH_STATUS" -> DecodeMeshStatus(p)
      [] k = "MESH_STATUS_RESPONSE" -> DecodeMeshStatusResponse(p)
      [] k = "DISCOVER_MESH_RESPONSE" -> DecodeDiscoverMeshResponse(p)
      [] k = "JOIN_MESH" -> DecodeJoinMesh(p)
      [] k = "JOIN_MESH_ACK" -> DecodeJoinMeshAck(p)
      [] k = "CREATE_BRIDGE" -> DecodeCreateBridge(p)
      [] k = "CREATE_BRIDGE_ACK" -> DecodeCreateBridgeAck(p)
      [] k = "EXECUTE" -> DecodeExecute(p)
      [] k = "EXECUTE_RESPONSE" -> DecodeExecuteResponse(p)
      [] k = "EXTRACT" -> DecodeExtract(p)
      [] k = "EXTRACT_RESPONSE" -> DecodeExtractResponse(p)

\* The string the encoder writes last, if a string comes last.
LastString(k, m) ==
    CASE k \in {"READ", "CHILDREN", "EXTRACT"} ->
            IF m.path = <<>> THEN {} ELSE {Last(m.path)}
      [] k \in {"READ_RESPONSE", "READ_AT_RESPONSE"} -> {m.value.data}
      [] k \in {"WHOAMI_RESPONSE", "AUTH_INIT"} -> {m.identity}
      [] k = "AUTH_CHALLENGE" -> {m.challenge}
      [] k = "AUTH_RESPONSE" -> {m.response}
      [] k = "REGISTER" -> {m.token}
      [] k = "ERROR" -> {m.message}
      [] k = "CREATE_MESH" -> {m.name}
      [] k = "JOIN_MESH" -> {m.meshName}
      [] k = "CREATE_BRIDGE" -> {m.nodeIdentity}
      [] k = "CREATE_BRIDGE_ACK" ->
            IF {m.targetMeshName, m.bridgeIdentity, m.bridgeStatus} = {E} THEN {m.message} ELSE {}
      [] k = "EXECUTE" -> {m.code}
      [] k = "EXECUTE_RESPONSE" ->
            IF m.success /\ m.result # V THEN {m.result.data} ELSE {}
      [] k = "EXTRACT_RESPONSE" -> {IF m.success THEN m.script ELSE m.error}
      [] OTHER -> {}

-----------------------------------------------------------------------------
\* The type codes of messages.go.
TypeCode(k) ==
    CASE k = "READ" -> 16                  [] k = "READ_RESPONSE" -> 17
      [] k = "WRITE" -> 18                 [] k = "WRITE_ACK" -> 19
      [] k = "PURGE" -> 20                 [] k = "PURGE_ACK" -> 21
      [] k = "READ_AT" -> 22               [] k = "READ_AT_RESPONSE" -> 23
      [] k = "CHILDREN" -> 24              [] k = "CHILDREN_RESPONSE" -> 25
      [] k = "EXECUTE" -> 26               [] k = "EXECUTE_RESPONSE" -> 27
      [] k = "STATUS_RESPONSE" -> 33       [] k = "STOP_ACK" -> 35
      [] k = "COMPACT_ACK" -> 37           [] k = "EXTRACT" -> 66
      [] k = "EXTRACT_RESPONSE" -> 67      [] k = "WHOAMI_RESPONSE" -> 69
      [] k = "AUTH_INIT" -> 70             [] k = "AUTH_CHALLENGE" -> 71
      [] k = "AUTH_RESPONSE" -> 72         [] k = "AUTH_RESULT" -> 73
      [] k = "REGISTER" -> 74              [] k = "REGISTER_RESULT" -> 75
      [] k = "INVITE_CREATE_RESULT" -> 77  [] k = "CREATE_MESH" -> 38
      [] k = "CREATE_MESH_ACK" -> 39       [] k = "MESH_STATUS" -> 40
      [] k = "MESH_STATUS_RESPONSE" -> 41  [] k = "DISCOVER_MESH_RESPONSE" -> 43
      [] k = "JOIN_MESH" -> 44             [] k = "JOIN_MESH_ACK" -> 45
      [] k = "CREATE_BRIDGE" -> 46         [] k = "CREATE_BRIDGE_ACK" -> 47
      [] k = "ERROR" -> 255

Frame(k, m, s) == EncodeMessage(CreateMessage(TypeCode(k), s, Encoded(k, m)))

\* What follows on the stream: the frame of a request without a payload.
NextFrame == Frame("MESH_STATUS", [none |-> E], 0)

NotRead == [ok |-> FALSE, waiting |-> TRUE]

Init ==
    /\ kind \in Kinds
    /\ msg \in Messages(kind)
    /\ AnyTail \/ E \notin LastString(kind, msg)
    /\ sequence \in Sequences32
    /\ stream = Frame(kind, msg, sequence) \o NextFrame
    /\ damage = "none"
    /\ got = NotRead

Waiting == got = NotRead /\ damage = "none"

\* The connection is lost within the frame.
Cut ==
    /\ Waiting
    /\ \E n \in 0 .. (Len(stream) - Len(NextFrame) - 1) : stream' = SubSeq(stream, 1, n)
    /\ damage' = "frame"
    /\ UNCHANGED <<kind, msg, sequence, got>>

\* One cell arrives changed; the type and the sequence number are the cells
\* the checksum does not cover.
Alter ==
    /\ Waiting
    /\ \E i \in 1 .. (Len(stream) - Len(NextFrame)) :
        /\ stream' = [stream EXCEPT ![i] = @ + 1]
        /\ damage' = IF i \in {2, 3} THEN "header" ELSE "frame"
    /\ UNCHANGED <<kind, msg, sequence, got>>

\* The receiver reads a frame and decodes its payload as its type says.  A
\* type that is none of these is answered with an error.
Received(st) ==
    LET f == ReadFrame(st)
        k == { x \in Kinds : TypeCode(x) = f.v.type }
    IN  IF ~f.ok THEN Failed
        ELSE IF k = {} THEN Failed
        ELSE LET x == CHOOSE y \in k : TRUE
                 m == Decoded(x, f.v.payload)
             IN  IF m.ok THEN [ok |-> TRUE, kind |-> x, msg |-> m.v,
                               sequence |-> f.v.sequence,
                               rest |-> SubSeq(st, f.at, Len(st))]
                 ELSE Failed

Receive ==
    /\ got = NotRead
    /\ got' = Received(stream)
    /\ UNCHANGED <<kind, msg, sequence, stream, damage>>

Next == Cut \/ Alter \/ Receive

Spec == Init /\ [][Next]_vars

-----------------------------------------------------------------------------
\* What a receiver keeps of a message: DecodePurgeAck leaves the error out.
Kept(k, m) == IF k = "PURGE_ACK" THEN [m EXCEPT !.error = E] ELSE m

\* Every decoder of internal/protocol gives back the message its encoder was
\* given, under the same sequence number, and leaves the stream at the next
\* frame.  Messages that end in an empty string are not part of it (see
\* NothingTravels), nor is the error of a PURGE_ACK.
RoundTrip ==
    (got # NotRead /\ damage = "none") =>
        got = [ok |-> TRUE, kind |-> kind, msg |-> Kept(kind, msg),
               sequence |-> sequence, rest |-> NextFrame]

\* A frame that is cut, or changed in its version, length, payload or
\* checksum, is never taken for a message (DecodeMessage, ReadFull): not even
\* when the wrong length makes the reader run into the next frame.
DamageRefused ==
    (got # NotRead /\ damage = "frame") => ~got.ok

\* A successful response reaches the client whatever value it carries: Nothing
\* is a value, and it serializes to no bytes.
NothingTravels ==
    (got # NotRead /\ damage = "none" /\ kind = "READ_RESPONSE") => got.ok
=============================================================================
