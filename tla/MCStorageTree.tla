--------------------------- MODULE MCStorageTree ---------------------------
(* Small instances of StorageTree for TLC.                                 *)
EXTENDS StorageTreeHistory, TLC

CONSTANTS pa, pb, pLog, d1, d2

Symmetry == Permutations(Threads) \cup Permutations({d1, d2})

\* The audit record of either path goes under one audit path.
MCAuditPath == [p \in Paths |-> IF pLog \in Paths THEN pLog ELSE p]

AnyData == [p \in Paths |-> IF p = pLog THEN {} ELSE Data]

\* Each path gets data of its own, so that an answer tells its path.
OwnData == [p \in Paths |-> CASE p = pa -> {d1} [] p = pb -> {d2} [] OTHER -> {}]

AllContents == Contents

\* The data spill to a higher tier; labels and audit records do not.
ShortLabels == Contents \ Data
=============================================================================
