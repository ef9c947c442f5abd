------------------------------ MODULE Protocol ------------------------------
(***************************************************************************)
(* The client and control protocol: what each message's encoder writes and *)
(* what its decoder reads back (internal/protocol), and one frame on its   *)
(* way from a sender to a receiver that reads it off the stream.           *)
(*                                                                         *)
(* A payload is a sequence of cells.  A byte is a cell, and so is a        *)
(* fixed-width integer, which carries its bits; a string is a length cell  *)
(* and one cell per byte.  Cells have no kind: a reader that is out of     *)
(* step reads whatever comes next, as it does on the wire.                 *)
(***************************************************************************)
EXTENDS Integers, SequencesExt

CONSTANTS
    Strings,     \* the byte strings a field may hold, <<>> among them
    Words,       \* the unsigned 64-bit numbers a field may hold
    M32, M64,    \* how many numbers the two integer formats have: 2^32, 2^64
    Sequences32  \* the sequence numbers of frames

ASSUME FormatAssumption ==
    /\ M32 \in Nat /\ M64 \in Nat /\ M32 > 0 /\ M64 > 0
    /\ M32 % 2 = 0 /\ M64 % 2 = 0
    /\ Words \subseteq 0 .. (M64 - 1)
    /\ Strings \subseteq Seq(Nat)
    /\ Sequences32 \subseteq Nat

Version == 1
Kinds ==
    { "READ", "READ_RESPONSE", "READ_AT", "READ_AT_RESPONSE", "CHILDREN",
      "CHILDREN_RESPONSE", "WRITE", "WRITE_ACK", "PURGE", "PURGE_ACK",
      "STATUS_RESPONSE", "WHOAMI_RESPONSE", "AUTH_INIT", "AUTH_CHALLENGE",
      "AUTH_RESPONSE", "AUTH_RESULT", "REGISTER", "REGISTER_RESULT",
      "INVITE_CREATE_RESULT", "STOP_ACK", "COMPACT_ACK", "ERROR",
      "CREATE_MESH", "CREATE_MESH_ACK", "MESH_STATUS", "MESH_STATUS_RESPONSE",
      "DISCOVER_MESH_RESPONSE", "JOIN_MESH", "JOIN_MESH_ACK",
      "CREATE_BRIDGE", "CREATE_BRIDGE_ACK", "EXECUTE", "EXECUTE_RESPONSE",
      "EXTRACT", "EXTRACT_RESPONSE" }

-----------------------------------------------------------------------------
(* Integers: the bits of a signed or unsigned number of a format with m    *)
(* numbers, and the signed number that bits stand for.                     *)

Bits(x, m)   == x % m
Signed(b, m) == IF b % m < m \div 2 THEN b % m ELSE (b % m) - m
Ints(m)      == { Signed(x, m) : x \in Words }

-----------------------------------------------------------------------------
(* Encoding tagged fields.                                                 *)

String(s) == <<Len(s)>> \o s

encodeString(tag, s)     == <<tag>> \o String(s)
encodeStringSlice(tag, slice) ==
    <<tag, Len(slice)>> \o FlattenSeq([i \in DOMAIN slice |-> String(slice[i])])
encodeValue(tag, value)  == <<tag, value.typeTag>> \o String(value.data)
encodeBool(tag, b)       == <<tag, IF b THEN 1 ELSE 0>>
encodeUint64(tag, x)     == <<tag, Bits(x, M64)>>
encodeInt64(tag, x)      == <<tag, Bits(x, M64)>>
encodeUint32(tag, x)     == <<tag, Bits(x, M32)>>
encodeInt32(tag, x)      == <<tag, Bits(x, M32)>>

\* A field that is written only under a condition.
Optional(written, cells) == IF written THEN cells ELSE <<>>

-----------------------------------------------------------------------------
(* The encoders, one per message.                                          *)

EncodeRead(m)         == encodeStringSlice(1, m.path)
EncodeReadResponse(m) == encodeValue(1, m.value)
EncodeReadAt(m)       == encodeStringSlice(1, m.path) \o encodeInt64(2, m.timestamp)
EncodeReadAtResponse(m) == encodeValue(1, m.value)
EncodeChildren(m)     == encodeStringSlice(1, m.path)

\* A count, then four words and a name for each child.
EncodeChildrenResponse(m) ==
    <<1, Len(m.children)>> \o
    FlattenSeq([i \in DOMAIN m.children |->
        m.children[i].ids \o String(m.children[i].name)])

EncodeWrite(m) ==
    encodeStringSlice(1, m.path) \o encodeValue(2, m.value) \o encodeUint64(3, m.author)

EncodeWriteAck(m) ==
    encodeBool(1, m.success) \o Optional(m.error # <<>>, encodeString(2, m.error))

EncodePurge(m) ==
    encodeStringSlice(1, m.path) \o encodeInt64(2, m.from)
        \o encodeInt64(3, m.to) \o encodeUint64(4, m.author)

EncodePurgeAck(m) ==
    encodeBool(1, m.success) \o Optional(m.error # <<>>, encodeString(2, m.error))

EncodeStatusResponse(m) ==
    encodeInt64(1, m.uptime) \o encodeString(2, m.nodeIdentity)
        \o encodeString(3, m.localSocket) \o encodeInt32(4, m.networkPort)
        \o encodeInt32(5, m.connections) \o encodeInt64(6, m.dataSize)

\* The agent ID goes through int64: its bits are kept.
EncodeWhoAmIResponse(m) ==
    encodeInt64(1, Signed(m.agentID, M64)) \o encodeString(2, m.identity)

EncodeAuthInit(m)      == encodeString(1, m.identity)
EncodeAuthChallenge(m) == encodeString(1, m.challenge)
EncodeAuthResponse(m)  == encodeString(1, m.response)

EncodeAuthResult(m) ==
    encodeBool(1, m.success) \o encodeInt64(2, Signed(m.agentID, M64))
        \o Optional(m.identity # <<>>, encodeString(3, m.identity))
        \o Optional(m.error # <<>>, encodeString(4, m.error))

EncodeRegister(m) ==
    encodeString(1, m.identity) \o encodeString(2, m.publicKey) \o encodeString(3, m.token)

EncodeRegisterResult(m) ==
    encodeBool(1, m.success) \o encodeInt64(2, Signed(m.agentID, M64))
        \o Optional(m.error # <<>>, encodeString(3, m.error))

EncodeInviteCreateResult(m) ==
    encodeBool(1, m.success) \o Optional(m.token # <<>>, encodeString(2, m.token))
        \o Optional(m.error # <<>>, encodeString(3, m.error))

EncodeStopAck(m) ==
    encodeBool(1, m.success) \o Optional(m.error # <<>>, encodeString(2, m.error))

EncodeCompactAck(m) ==
    encodeBool(1, m.success) \o Optional(m.error # <<>>, encodeString(2, m.error))
        \o encodeInt64(3, m.spaceReclaimed)

EncodeError(m) == encodeUint32(1, m.code) \o encodeString(2, m.message)

EncodeCreateMesh(m) == encodeString(1, m.name)

EncodeCreateMeshAck(m) ==
    encodeBool(1, m.success) \o encodeString(2, m.message)
        \o Optional(m.meshName # <<>>, encodeString(3, m.meshName))
        \o Optional(m.nodeID # <<>>, encodeString(4, m.nodeID))
        \o encodeBool(5, m.isFounder)

EncodeMeshStatus(m) == <<>>

\* foundedAt is a pointer: <<>> is nil, <<t>> points at t.  The bridges are
\* not encoded.
EncodeMeshStatusResponse(m) ==
    encodeString(1, m.meshName) \o encodeString(2, m.status)
        \o encodeBool(3, m.isFounder) \o encodeString(4, m.nodeIdentity)
        \o encodeInt32(5, m.memberCount) \o encodeInt32(6, m.zoneCount)
        \o Optional(m.foundedAt # <<>>, encodeInt64(7, m.foundedAt[1]))

EncodeDiscoverMeshResponse(m) ==
    encodeString(1, m.meshName) \o encodeString(2, m.founderIdentity)
        \o encodeInt32(3, m.memberCount) \o encodeInt32(4, m.zoneCount)
        \o encodeBool(5, m.requiresAuth) \o encodeInt64(6, m.foundedAt)

EncodeJoinMesh(m) == encodeString(1, m.nodeIdentity) \o encodeString(2, m.meshName)

EncodeJoinMeshAck(m) ==
    encodeBool(1, m.success) \o encodeString(2, m.message)
        \o Optional(m.assignedZone # <<>>, encodeString(3, m.assignedZone))
        \o encodeInt32(4, m.memberCount)

EncodeCreateBridge(m) ==
    encodeString(1, m.targetAddress) \o encodeString(2, m.nodeIdentity)

EncodeCreateBridgeAck(m) ==
    encodeBool(1, m.success) \o encodeString(2, m.message)
        \o Optional(m.targetMeshName # <<>>, encodeString(3, m.targetMeshName))
        \o Optional(m.bridgeIdentity # <<>>, encodeString(4, m.bridgeIdentity))
        \o Optional(m.bridgeStatus # <<>>, encodeString(5, m.bridgeStatus))

EncodeExecute(m) == encodeString(1, m.code)

EncodeExecuteResponse(m) ==
    encodeBool(1, m.success)
        \o Optional(m.success /\ (m.result.data # <<>> \/ m.result.typeTag # 0),
                    encodeValue(2, m.result))
        \o Optional(~m.success /\ m.error # <<>>, encodeString(3, m.error))

EncodeExtract(m) == encodeStringSlice(1, m.path)

EncodeExtractResponse(m) ==
    encodeBool(1, m.success)
        \o (IF m.success THEN encodeString(2, m.script) ELSE encodeString(3, m.error))

-----------------------------------------------------------------------------
(* Reading.  A reader takes a payload and a position and gives what it     *)
(* read and where it stands, or an error.                                  *)

Failed    == [ok |-> FALSE]
Read(v, i) == [ok |-> TRUE, v |-> v, at |-> i]

ReadCell(p, i) == IF i <= Len(p) THEN Read(p[i], i + 1) ELSE Failed

\* bytes.Reader.Read at the end of its data is an error, for 0 bytes too.
ReadBytes(p, i, n) ==
    IF i <= Len(p) /\ i + n - 1 <= Len(p) THEN Read(SubSeq(p, i, i + n - 1), i + n)
    ELSE Failed

readString(p, i) ==
    LET length == ReadCell(p, i)
    IN  IF length.ok THEN ReadBytes(p, length.at, length.v) ELSE Failed

\* One more string of a slice, if those before it could be read.
NextString(p, acc) ==
    IF ~acc.ok THEN Failed
    ELSE LET s == readString(p, acc.at)
         IN  IF s.ok THEN Read(Append(acc.v, s.v), s.at) ELSE Failed

readStringSlice(p, i) ==
    LET length == ReadCell(p, i)
    IN  IF ~length.ok THEN Failed
        ELSE LET after[k \in 0 .. length.v] ==
                    IF k = 0 THEN Read(<<>>, length.at) ELSE NextString(p, after[k - 1])
             IN  after[length.v]

readBool(p, i) ==
    LET b == ReadCell(p, i) IN IF b.ok THEN Read(b.v # 0, b.at) ELSE Failed

readValue(p, i) ==
    LET type == ReadCell(p, i)
        data == readString(p, type.at)
    IN  IF type.ok /\ data.ok THEN Read([typeTag |-> type.v, data |-> data.v], data.at)
        ELSE Failed

readSigned(p, i, m) ==
    LET c == ReadCell(p, i) IN IF c.ok THEN Read(Signed(c.v, m), c.at) ELSE Failed

\* A number behind a pointer, and a uint64 that was sent as an int64.
readPointer(p, i) ==
    LET c == readSigned(p, i, M64) IN IF c.ok THEN Read(<<c.v>>, c.at) ELSE Failed
readUnsigned(p, i) ==
    LET c == readSigned(p, i, M64) IN IF c.ok THEN Read(Bits(c.v, M64), c.at) ELSE Failed

ReadField(type, p, i) ==
    CASE type = "string"  -> readString(p, i)
      [] type = "slice"   -> readStringSlice(p, i)
      [] type = "value"   -> readValue(p, i)
      [] type = "bool"    -> readBool(p, i)
      [] type = "int64"   -> readSigned(p, i, M64)
      [] type = "int32"   -> readSigned(p, i, M32)
      [] type = "word"    -> ReadCell(p, i)
      [] type = "agent"   -> readUnsigned(p, i)
      [] type = "pointer" -> readPointer(p, i)

\* An unknown field with a low tag is taken for a length and that many
\* bytes, any other for a single byte.
skipField(p, i, tag) ==
    LET length == ReadCell(p, i)
    IN  IF ~length.ok THEN Failed
        ELSE IF tag \in 1 .. 16
             THEN IF length.v > Len(p) - i THEN Failed ELSE Read(tag, length.at + length.v)
             ELSE length

\* A tag and its field into the message, if anything is left.  table gives
\* the name and the type of each known tag.
NextField(table, p, acc) ==
    IF ~(acc.ok /\ acc.at <= Len(p)) THEN acc
    ELSE LET tag == p[acc.at]
             known == tag \in DOMAIN table
             f == IF known THEN ReadField(table[tag][2], p, acc.at + 1)
                  ELSE skipField(p, acc.at + 1, tag)
         IN  IF ~f.ok THEN Failed
             ELSE Read(IF known THEN [acc.v EXCEPT ![table[tag][1]] = f.v] ELSE acc.v, f.at)

\* The loop of the decoders; a field has at least one cell.
DecodeTagged(table, zero, p) ==
    LET after[k \in 0 .. Len(p)] ==
            IF k = 0 THEN Read(zero, 1) ELSE NextField(table, p, after[k - 1])
    IN  after[Len(p)]

\* Messages of one field: the tag must be the expected one, and what follows
\* the field is not looked at.
decodeOne(type, p) ==
    IF p = <<>> \/ p[1] # 1 THEN Failed ELSE ReadField(type, p, 2)

-----------------------------------------------------------------------------
(* The decoders, one per message; E is the empty string, V the zero value. *)

E == <<>>
V == [typeTag |-> 0, data |-> <<>>]
Named(name, f) == IF f.ok THEN Read([x \in {name} |-> f.v], f.at) ELSE Failed

DecodeRead(p)           == Named("path", decodeOne("slice", p))
DecodeReadResponse(p)   == Named("value", decodeOne("value", p))
DecodeReadAtResponse(p) == Named("value", decodeOne("value", p))
DecodeChildren(p)       == Named("path", decodeOne("slice", p))

DecodeReadAt(p) ==
    DecodeTagged(<< <<"path", "slice">>, <<"timestamp", "int64">> >>,
                 [path |-> <<>>, timestamp |-> 0], p)

\* A count the payload cannot hold is refused; a child takes at least its
\* four words and the length of its name.  io.ReadFull of an empty name is no
\* error at the end.
ChildCells == 5
NextChild(p, acc) ==
    LET n == acc.at + 4
    IN  IF ~acc.ok THEN Failed
        ELSE IF n > Len(p) THEN Failed
        ELSE IF n + p[n] > Len(p) THEN Failed
        ELSE Read(Append(acc.v, [ids  |-> SubSeq(p, acc.at, n - 1),
                                 name |-> SubSeq(p, n + 1, n + p[n])]),
                  n + p[n] + 1)

DecodeChildrenResponse(p) ==
    IF Len(p) < 2 THEN Failed
    ELSE IF p[1] # 1 \/ p[2] * ChildCells > Len(p) - 2 THEN Failed
    ELSE LET after[k \in 0 .. p[2]] ==
                IF k = 0 THEN Read(<<>>, 3) ELSE NextChild(p, after[k - 1])
         IN  Named("children", after[p[2]])

DecodeWrite(p) ==
    DecodeTagged(<< <<"path", "slice">>, <<"value", "value">>, <<"author", "word">> >>,
                 [path |-> <<>>, value |-> V, author |-> 0], p)

DecodeWriteAck(p) ==
    DecodeTagged(<< <<"success", "bool">>, <<"error", "string">> >>,
                 [success |-> FALSE, error |-> E], p)

\* Mutant of DecodePurge: the bounds are read the other way round.
MutantDecodePurge(p) ==
    DecodeTagged(<< <<"path", "slice">>, <<"to", "int64">>, <<"from", "int64">>,
                    <<"author", "word">> >>,
                 [path |-> <<>>, from |-> 0, to |-> 0, author |-> 0], p)

DecodePurge(p) ==
    DecodeTagged(<< <<"path", "slice">>, <<"from", "int64">>, <<"to", "int64">>,
                    <<"author", "word">> >>,
                 [path |-> <<>>, from |-> 0, to |-> 0, author |-> 0], p)

\* Tag 2, the error, is not known here: it is skipped.
DecodePurgeAck(p) ==
    DecodeTagged(<< <<"success", "bool">> >>, [success |-> FALSE, error |-> E], p)

DecodeStatusResponse(p) ==
    DecodeTagged(<< <<"uptime", "int64">>, <<"nodeIdentity", "string">>,
                    <<"localSocket", "string">>, <<"networkPort", "int32">>,
                    <<"connections", "int32">>, <<"dataSize", "int64">> >>,
                 [uptime |-> 0, nodeIdentity |-> E, localSocket |-> E,
                  networkPort |-> 0, connections |-> 0, dataSize |-> 0], p)

DecodeWhoAmIResponse(p) ==
    DecodeTagged(<< <<"agentID", "agent">>, <<"identity", "string">> >>,
                 [agentID |-> 0, identity |-> E], p)

DecodeAuthInit(p) ==
    DecodeTagged(<< <<"identity", "string">> >>, [identity |-> E], p)
DecodeAuthChallenge(p) ==
    DecodeTagged(<< <<"challenge", "string">> >>, [challenge |-> E], p)
DecodeAuthResponse(p) ==
    DecodeTagged(<< <<"response", "string">> >>, [response |-> E], p)

DecodeAuthResult(p) ==
    DecodeTagged(<< <<"success", "bool">>, <<"agentID", "agent">>,
                    <<"identity", "string">>, <<"error", "string">> >>,
                 [success |-> FALSE, agentID |-> 0, identity |-> E, error |-> E], p)

DecodeRegister(p) ==
    DecodeTagged(<< <<"identity", "string">>, <<"publicKey", "string">>,
                    <<"token", "string">> >>,
                 [identity |-> E, publicKey |-> E, token |-> E], p)

DecodeRegisterResult(p) ==
    DecodeTagged(<< <<"success", "bool">>, <<"agentID", "agent">>, <<"error", "string">> >>,
                 [success |-> FALSE, agentID |-> 0, error |-> E], p)

DecodeInviteCreateResult(p) ==
    DecodeTagged(<< <<"success", "bool">>, <<"token", "string">>, <<"error", "string">> >>,
                 [success |-> FALSE, token |-> E, error |-> E], p)

DecodeStopAck(p) ==
    DecodeTagged(<< <<"success", "bool">>, <<"error", "string">> >>,
                 [success |-> FALSE, error |-> E], p)

DecodeCompactAck(p) ==
    DecodeTagged(<< <<"success", "bool">>, <<"error", "string">>,
                    <<"spaceReclaimed", "int64">> >>,
                 [success |-> FALSE, error |-> E, spaceReclaimed |-> 0], p)

DecodeError(p) ==
    DecodeTagged(<< <<"code", "word">>, <<"message", "string">> >>,
                 [code |-> 0, message |-> E], p)

DecodeCreateMesh(p) == DecodeTagged(<< <<"name", "string">> >>, [name |-> E], p)

DecodeCreateMeshAck(p) ==
    DecodeTagged(<< <<"success", "bool">>, <<"message", "string">>,
                    <<"meshName", "string">>, <<"nodeID", "string">>,
                    <<"isFounder", "bool">> >>,
                 [success |-> FALSE, message |-> E, meshName |-> E, nodeID |-> E,
                  isFounder |-> FALSE], p)

\* The messages without fields skip whatever they are sent.
DecodeMeshStatus(p) == DecodeTagged(<<>>, [none |-> E], p)

DecodeMeshStatusResponse(p) ==
    DecodeTagged(<< <<"meshName", "string">>, <<"status", "string">>,
                    <<"isFounder", "bool">>, <<"nodeIdentity", "string">>,
                    <<"memberCount", "int32">>, <<"zoneCount", "int32">>,
                    <<"foundedAt", "pointer">> >>,
                 [meshName |-> E, status |-> E, isFounder |-> FALSE, nodeIdentity |-> E,
                  memberCount |-> 0, zoneCount |-> 0, foundedAt |-> <<>>], p)

DecodeDiscoverMeshResponse(p) ==
    DecodeTagged(<< <<"meshName", "string">>, <<"founderIdentity", "string">>,
                    <<"memberCount", "int32">>, <<"zoneCount", "int32">>,
                    <<"requiresAuth", "bool">>, <<"foundedAt", "int64">> >>,
                 [meshName |-> E, founderIdentity |-> E, memberCount |-> 0,
                  zoneCount |-> 0, requiresAuth |-> FALSE, foundedAt |-> 0], p)

DecodeJoinMesh(p) ==
    DecodeTagged(<< <<"nodeIdentity", "string">>, <<"meshName", "string">> >>,
                 [nodeIdentity |-> E, meshName |-> E], p)

DecodeJoinMeshAck(p) ==
    DecodeTagged(<< <<"success", "bool">>, <<"message", "string">>,
                    <<"assignedZone", "string">>, <<"memberCount", "int32">> >>,
                 [success |-> FALSE, message |-> E, assignedZone |-> E, memberCount |-> 0], p)

DecodeCreateBridge(p) ==
    DecodeTagged(<< <<"targetAddress", "string">>, <<"nodeIdentity", "string">> >>,
                 [targetAddress |-> E, nodeIdentity |-> E], p)

DecodeCreateBridgeAck(p) ==
    DecodeTagged(<< <<"success", "bool">>, <<"message", "string">>,
                    <<"targetMeshName", "string">>, <<"bridgeIdentity", "string">>,
                    <<"bridgeStatus", "string">> >>,
                 [success |-> FALSE, message |-> E, targetMeshName |-> E,
                  bridgeIdentity |-> E, bridgeStatus |-> E], p)

DecodeExecute(p) == DecodeTagged(<< <<"code", "string">> >>, [code |-> E], p)

DecodeExecuteResponse(p) ==
    DecodeTagged(<< <<"success", "bool">>, <<"result", "value">>, <<"error", "string">> >>,
                 [success |-> FALSE, result |-> V, error |-> E], p)

DecodeExtract(p) == DecodeTagged(<< <<"path", "slice">> >>, [path |-> <<>>], p)

DecodeExtractResponse(p) ==
    DecodeTagged(<< <<"success", "bool">>, <<"script", "string">>, <<"error", "string">> >>,
                 [success |-> FALSE, script |-> E, error |-> E], p)

-----------------------------------------------------------------------------
(* Frames: version, type, sequence, payload length, payload, checksum.     *)

HeaderCells == 4

\* crc32.ChecksumIEEE of the payload, external: like a CRC it tells any two
\* payloads apart that differ in one cell.
Checksum(p) == FoldLeft(LAMBDA acc, c : (acc * 31 + c + 1) % 65521, 7, p)

CreateMessage(type, sequence, payload) ==
    [version |-> Version, type |-> type, sequence |-> sequence,
     length |-> Len(payload), payload |-> payload, checksum |-> Checksum(payload)]

\* The bytes of a frame; a message whose length is not its payload's is not
\* encoded.
EncodeMessage(m) ==
    <<m.version, m.type, m.sequence, m.length>> \o m.payload \o <<m.checksum>>

\* Mutant of DecodeMessage: the checksum is read and not compared.
MutantDecodeMessage(d) ==
    IF Len(d) < HeaderCells + 1 THEN Failed
    ELSE IF Len(d) = HeaderCells + d[4] + 1 /\ d[1] = Version
    THEN Read([type |-> d[2], sequence |-> d[3],
               payload |-> SubSeq(d, HeaderCells + 1, Len(d) - 1)], Len(d) + 1)
    ELSE Failed

\* The size must be the header's, the checksum the payload's, the version
\* this one.
DecodeMessage(d) ==
    IF Len(d) < HeaderCells + 1 THEN Failed
    ELSE LET size == HeaderCells + d[4] + 1
             payload == SubSeq(d, HeaderCells + 1, Len(d) - 1)
         IN  IF /\ Len(d) = size
                /\ d[Len(d)] = Checksum(payload)
                /\ d[1] = Version
             THEN Read([type |-> d[2], sequence |-> d[3], payload |-> payload], size + 1)
             ELSE Failed

\* A receiver takes the header off the stream, then as many cells as the
\* header says and the checksum, and decodes what it put together.  The
\* stream may end before.
ReadFrame(stream) ==
    IF Len(stream) < HeaderCells THEN Failed
    ELSE LET size == HeaderCells + stream[4] + 1
         IN  IF Len(stream) < size THEN Failed ELSE DecodeMessage(SubSeq(stream, 1, size))
=============================================================================
