------------------------- MODULE StorageTreeHistory -------------------------
(***************************************************************************)
(* The history of a path as the stores of StorageTree hold it, and the     *)
(* properties of what clients are told: StorageTree implements             *)
(* TemporalTree, and reads answer from that history.                       *)
(***************************************************************************)
EXTENDS StorageTree

\* The instances from i back to the oldest, as GetInstanceChain walks them in
\* the file insts, oldest first. A tombstoned or missing record cuts the chain.
ChainsIn(insts) ==
    LET chain[i \in Nat] ==
            IF i \notin DOMAIN insts THEN <<>>
            ELSE IF insts[i].older = Tombstone THEN <<i>>
            ELSE Append(chain[insts[i].older], i)
    IN  chain

\* The attribute an operation on p finds once no write is under way: its
\* label's value ID in the hash map, then the index.
AttributeOf(p) ==
    LET label == hashToValueID[p]
    IN  IF label # 0 /\ label \in DOMAIN hashIndex THEN hashIndex[label] ELSE 0

ChainOf(p) ==
    IF AttributeOf(p) = 0 THEN <<>>
    ELSE ChainsIn(instances)[attributes[AttributeOf(p)].first]

Stored(id) == IF id \in DOMAIN values THEN values[id] ELSE "failed"

History(p) ==
    LET c == ChainOf(p)
    IN  [k \in DOMAIN c |-> [data |-> Stored(instances[c[k]].value),
                             time |-> instances[c[k]].time]]

Promise == INSTANCE TemporalTree WITH
              history <- [p \in Paths |-> History(p)], intact <- ~misnamed

\* The engine implements the promise: a path's history changes only by one
\* assignment, at its end, and never otherwise; crashes, I/O errors and failed
\* Syncs between the calls of a write leave it as it was or with the whole
\* assignment. It ends when a record is written behind one whose Sync failed
\* (WriteReportingChange, WriteInstance, NewStorageTree).
ImplementsTemporalTree == Promise!Spec

Answered(t, kind) == pc[t] = "done" /\ op[t].kind = kind /\ op[t].out # "failed"

\* The last value of a path's history.
CurrentOf(p) ==
    LET h == History(p) IN IF h = <<>> THEN "notFound" ELSE h[Len(h)].data

\* The last value assigned to a path at or before an instant.
AsOf(p, at) ==
    LET h == History(p)
        past == {k \in DOMAIN h : h[k].time <= at}
    IN  IF past = {} THEN "notFound"
        ELSE h[CHOOSE k \in past : \A j \in past : j <= k].data

\* Read answers with the last value of the history, or that there is none.
ReadsAnswerCurrent ==
    \A t \in Threads : Answered(t, "read") => op[t].out = CurrentOf(op[t].path)

\* ReadAt answers with the last value assigned at or before the instant.
ReadAtAnswersAsOf ==
    \A t \in Threads :
        Answered(t, "readAt") => op[t].out = AsOf(op[t].path, op[t].at)

\* An acknowledged change is in the history of its path, with the value that
\* was written, for as long as the client that was told so looks, unless a
\* record was written behind one whose Sync had failed (WriteReportingChange
\* returning true).
AcknowledgedChangesStay ==
    \A t \in Threads : Answered(t, "write") /\ op[t].out = "changed" =>
        \/ misnamed
        \/ \E k \in DOMAIN ChainOf(op[t].path) :
              /\ ChainOf(op[t].path)[k] = op[t].made
              /\ History(op[t].path)[k].data = op[t].data

\* A read of a path answers with data that was written to that path.
ReadsStayOnPath ==
    \A t \in Threads : pc[t] = "done" /\ op[t].kind \in {"read", "readAt"} =>
        op[t].out \in DataFor[op[t].path] \cup {AuditRecord, "notFound", "failed"}

\* The ID an acknowledged change was given is the one of its own record.
AcknowledgedIDsName ==
    \A t \in Threads : Answered(t, "write") /\ op[t].out = "changed" =>
        Stored(instances[op[t].made].value) = op[t].data

\* ValidateChainOrder: along a chain, the older instance is strictly older.
ChainTimesDescend ==
    \A i \in DOMAIN instances : LET older == instances[i].older IN
        older \in DOMAIN instances => instances[older].time < instances[i].time

\* Purge marks an instance without breaking the chain it is in: the older
\* instance it names stays what it was.
PurgeKeepsChains ==
    [][\A i \in DOMAIN instances : instances'[i].older = instances[i].older]_vars

\* Once nothing is under way, a path that has an assignment can be found: its
\* attribute is the one an operation on the path looks up.
RecordedPathsFound ==
    (\A t \in Threads : pc[t] \in {"idle", "done"}) =>
        \A a \in DOMAIN attributes :
            attributes[a].first # 0 =>
                \E p \in Paths : Stored(attributes[a].label) = p /\ AttributeOf(p) # 0
=============================================================================
