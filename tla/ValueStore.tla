---------------------------- MODULE ValueStore ----------------------------
(***************************************************************************)
(* The value store of internal/storage with its space management:          *)
(* ValueStore (values.go), FreeList (freelist.go), Defragmenter            *)
(* (defrag.go).  A value is stored once and counted; when its last         *)
(* reference goes, its bytes go to the tier's free list, and the next      *)
(* record that fits is written over them.                                  *)
(*                                                                         *)
(* A file is a sequence of cells.  A record of content c takes SizeOf[c]   *)
(* cells: a sentinel, then the body.  A tombstone overwrites only the      *)
(* sentinel.  A body cell names its content and its place, so a record     *)
(* that something else was written over is told from an intact one.        *)
(*                                                                         *)
(* Every operation runs under the store's exclusive lock, so each is one   *)
(* step.  StorageTree models the two-step reads under the shared lock.     *)
(***************************************************************************)
EXTENDS Naturals, Sequences, FiniteSets

CONSTANTS
    Contents,       \* values, by content (type tag and data)
    SizeOf,         \* [Contents -> Nat]: cells of the serialized record
    TierOf,         \* [Contents -> 0..3]: determineTier of that size
    Holders,        \* who may hold a reference a WriteValue returned
    ScanSize,       \* [Contents -> Nat]: the cells FreeList takes the record for
    Lookalikes,     \* [Contents -> SUBSET Sentinel]: body cells it takes for one
    Span,           \* 2^OffsetBits: value IDs of one tier
    ScanUnit,       \* the average record size determineMaxValueID assumes
    ScanDefault,    \* its scan range while the tier 3 file is short
    MaxFile,        \* bound: cells of one file
    Upsets,         \* the upsets of this instance, of UpsetKinds
    MaxUpsets       \* bound: upsets of one behaviour

\* What may befall the store: a file call fails, only the read of the value to
\* tombstone fails, the process restarts, the files are defragmented while they
\* hold nothing FreeList reads wrongly, or while they do.
UpsetKinds == {"fault", "misread", "restart", "defragment", "misled"}

\* What FreeList makes of a place of a record: a value's or a tombstone's first
\* byte, with the size it takes from the type byte and the length behind.
Sentinel == [at : Nat, mark : {"value", "tomb"}, size : Nat \ {0}]

ASSUME ValueStoreAssumption ==
    /\ SizeOf \in [Contents -> Nat \ {0, 1}]
    /\ TierOf \in [Contents -> 0..3]
    /\ ScanSize \in [Contents -> Nat \ {0}]
    /\ Lookalikes \in [Contents -> SUBSET Sentinel]
    /\ \A c \in Contents : \A x, y \in Lookalikes[c] : x.at = y.at => x = y
    /\ Upsets \subseteq UpsetKinds
    /\ {Span, ScanUnit, ScanDefault, MaxFile, MaxUpsets} \subseteq Nat
    /\ 0 < MaxFile /\ MaxFile < Span
    /\ ScanUnit > 0
    /\ IsFiniteSet(Holders)

VARIABLES
    files,          \* each tier's file
    freeLists,      \* each tier's free blocks; a sorted slice in the code
    hashToValueID,  \* content -> value ID of its record, 0 when absent
    referenceCount, \* value ID -> count, on the IDs that have one
    ref,            \* the reference each holder keeps
    upsets,         \* the kinds of upset so far
    upsetCount      \* how many there were

vars == <<files, freeLists, hashToValueID, referenceCount, ref, upsets, upsetCount>>

Tiers == 0..3

NoRef == [id |-> 0, of |-> {}]

Pad == [mark |-> "pad", of |-> {}, at |-> 0]

\* Cell k of the record of content c.
Cell(c, k) == [mark |-> IF k = 1 THEN "value" ELSE "body", of |-> {c}, at |-> k]

Init ==
    /\ files = [tier \in Tiers |-> <<>>]
    /\ freeLists = [tier \in Tiers |-> {}]
    /\ hashToValueID = [c \in Contents |-> 0]
    /\ referenceCount = [id \in {} |-> 0]
    /\ ref = [h \in Holders |-> NoRef]
    /\ upsets = {}
    /\ upsetCount = 0

Upset(kind) ==
    /\ kind \in Upsets
    /\ upsetCount < MaxUpsets
    /\ upsets' = upsets \cup {kind}
    /\ upsetCount' = upsetCount + 1
-----------------------------------------------------------------------------
(* Value IDs and records.                                                  *)

EncodeValueID(tier, offset) == offset + tier * Span

ExtractTier(id) == id \div Span

ExtractOffset(id) == id % Span

\* Offsets count from 0, cells of a sequence from 1.
CellAt(file, offset) == file[offset + 1]

\* The contents whose whole record is at that offset: one, or none. A read
\* takes the size from the record's own header.
IntactAt(file, offset) ==
    IF offset >= Len(file) THEN {}
    ELSE {c \in CellAt(file, offset).of :
            /\ offset + SizeOf[c] <= Len(file)
            /\ \A k \in 1..SizeOf[c] : file[offset + k] = Cell(c, k)}

ReadValue(id) == IntactAt(files[ExtractTier(id)], ExtractOffset(id))

\* The record written over the cells from offset on, which may be the end.
Written(file, offset, c) ==
    [i \in 1..(IF offset + SizeOf[c] > Len(file) THEN offset + SizeOf[c] ELSE Len(file)) |->
        IF i \in (offset + 1)..(offset + SizeOf[c]) THEN Cell(c, i - offset) ELSE file[i]]
-----------------------------------------------------------------------------
(* FreeList: blocks of free cells.                                         *)

Block(offset, size) == [offset |-> offset, size |-> size]

EndOf(b) == b.offset + b.size

LastOfRun(blocks, b) ==
    CHOOSE x \in blocks :
        /\ x.offset >= b.offset
        /\ \A y \in blocks : y.offset # EndOf(x)
        /\ \A z \in blocks :
              z.offset >= b.offset /\ (\A y \in blocks : y.offset # EndOf(z)) => x.offset <= z.offset

\* coalesceBlocks: every run of adjacent blocks becomes one.
CoalesceBlocks(blocks) ==
    {Block(b.offset, EndOf(LastOfRun(blocks, b)) - b.offset) :
        b \in {x \in blocks : \A y \in blocks : EndOf(y) # x.offset}}

MutantAddBlockAlone(blocks, offset, size) == blocks \cup {Block(offset, size)}

AddBlock(blocks, offset, size) == CoalesceBlocks(blocks \cup {Block(offset, size)})

Fitting(blocks, size) == {b \in blocks : b.size >= size}

\* AllocateSpace takes the first block that is large enough.
FirstFit(blocks, size) ==
    CHOOSE b \in Fitting(blocks, size) : \A x \in Fitting(blocks, size) : b.offset <= x.offset

MutantShrunkShort(blocks, b, size) ==
    IF b.size = size THEN blocks \ {b}
    ELSE (blocks \ {b}) \cup {Block(b.offset + size - 1, b.size - size + 1)}

MutantWholeBlock(blocks, b, size) == blocks \ {b}

\* A perfect fit leaves the list; a larger block is shrunk from the front.
Allocated(blocks, b, size) ==
    IF b.size = size THEN blocks \ {b}
    ELSE (blocks \ {b}) \cup {Block(b.offset + size, b.size - size)}
-----------------------------------------------------------------------------
(* WriteValue.                                                             *)

Counted(id, n) ==
    [i \in DOMAIN referenceCount \cup {id} |-> IF i = id THEN n ELSE referenceCount[i]]

CountOf(id) == IF id \in DOMAIN referenceCount THEN referenceCount[id] ELSE 0

Uncounted(id) == [i \in DOMAIN referenceCount \ {id} |-> referenceCount[i]]

\* The offset an appended record gets: offset 0 of tier 0 would make ID 0.
Padded(tier) ==
    IF tier = 0 /\ files[tier] = <<>> THEN <<Pad>> ELSE files[tier]

MutantDeduplicate(h, c) ==
    /\ ref[h] = NoRef
    /\ hashToValueID[c] # 0
    /\ ref' = [ref EXCEPT ![h] = [id |-> hashToValueID[c], of |-> {c}]]
    /\ UNCHANGED <<files, freeLists, hashToValueID, referenceCount, upsets, upsetCount>>

\* A content the hash map knows is counted, not written.
Deduplicate(h, c) ==
    /\ ref[h] = NoRef
    /\ hashToValueID[c] # 0
    /\ referenceCount' = Counted(hashToValueID[c], CountOf(hashToValueID[c]) + 1)
    /\ ref' = [ref EXCEPT ![h] = [id |-> hashToValueID[c], of |-> {c}]]
    /\ UNCHANGED <<files, freeLists, hashToValueID, upsets, upsetCount>>

\* The new record's ID enters the hash map with one reference.
Enter(h, c, id) ==
    /\ hashToValueID' = [hashToValueID EXCEPT ![c] = id]
    /\ referenceCount' = Counted(id, 1)
    /\ ref' = [ref EXCEPT ![h] = [id |-> id, of |-> {c}]]

\* writeToBucketTier and writeToTier3, over a free block.
Reuse(h, c) ==
    LET tier == TierOf[c]
        b == FirstFit(freeLists[tier], SizeOf[c]) IN
    /\ ref[h] = NoRef
    /\ hashToValueID[c] = 0
    /\ Fitting(freeLists[tier], SizeOf[c]) # {}
    /\ freeLists' = [freeLists EXCEPT ![tier] = Allocated(@, b, SizeOf[c])]
    /\ files' = [files EXCEPT ![tier] = Written(@, b.offset, c)]
    /\ Enter(h, c, EncodeValueID(tier, b.offset))
    /\ UNCHANGED <<upsets, upsetCount>>

\* No block fits: the record goes to the end of the file.
AppendRecord(h, c) ==
    LET tier == TierOf[c]
        end == Padded(tier) IN
    /\ ref[h] = NoRef
    /\ hashToValueID[c] = 0
    /\ Fitting(freeLists[tier], SizeOf[c]) = {}
    /\ Len(end) + SizeOf[c] <= MaxFile
    /\ files' = [files EXCEPT ![tier] = Written(end, Len(end), c)]
    /\ Enter(h, c, EncodeValueID(tier, Len(end)))
    /\ UNCHANGED <<freeLists, upsets, upsetCount>>

\* A seek, stat or write fails: the block it was to reuse has left the free
\* list for good, or the padding of offset 0 stays.
WriteFails(c) ==
    LET tier == TierOf[c] IN
    /\ hashToValueID[c] = 0
    /\ Upset("fault")
    /\ \/ /\ Fitting(freeLists[tier], SizeOf[c]) # {}
          /\ freeLists' = [freeLists EXCEPT ![tier] =
                Allocated(@, FirstFit(@, SizeOf[c]), SizeOf[c])]
          /\ UNCHANGED files
       \/ /\ Fitting(freeLists[tier], SizeOf[c]) = {}
          /\ files' = [files EXCEPT ![tier] = Padded(tier)]
          /\ UNCHANGED freeLists
    /\ UNCHANGED <<hashToValueID, referenceCount, ref>>
-----------------------------------------------------------------------------
(* TombstoneValue, by a holder that drops its reference.                   *)

Drop(h) == ref' = [ref EXCEPT ![h] = NoRef]

LastReference(id) == CountOf(id) = 1

Release(h) ==
    /\ ref[h] # NoRef
    /\ ref[h].id \in DOMAIN referenceCount
    /\ ~LastReference(ref[h].id)
    /\ referenceCount' = Counted(ref[h].id, CountOf(ref[h].id) - 1)
    /\ Drop(h)
    /\ UNCHANGED <<files, freeLists, hashToValueID, upsets, upsetCount>>

\* The hash map forgets the content that is read back at the ID.
Forgotten(id) == [c \in Contents |-> IF c \in ReadValue(id) THEN 0 ELSE hashToValueID[c]]

Tombstoned(file, offset) == [file EXCEPT ![offset + 1].mark = "tomb"]

\* The last reference: the record is marked and its space is free.
Freed(h) ==
    LET id == ref[h].id
        tier == ExtractTier(id)
        offset == ExtractOffset(id) IN
    /\ ref[h] # NoRef
    /\ id \in DOMAIN referenceCount
    /\ LastReference(id)
    /\ ReadValue(id) # {}
    /\ referenceCount' = Uncounted(id)
    /\ files' = [files EXCEPT ![tier] = Tombstoned(@, offset)]
    /\ \E c \in ReadValue(id) :
          freeLists' = [freeLists EXCEPT ![tier] = AddBlock(@, offset, SizeOf[c])]
    /\ Drop(h)

Tombstone(h) ==
    /\ Freed(h)
    /\ hashToValueID' = Forgotten(ref[h].id)
    /\ UNCHANGED <<upsets, upsetCount>>

\* The read for the hash fails and the value is tombstoned anyway: the hash
\* map goes on naming the freed record.
TombstoneUnhashed(h) ==
    /\ Freed(h)
    /\ Upset("misread")
    /\ UNCHANGED hashToValueID

\* The ID has no count, or no record to read: an error, and in the second
\* case the count is gone.
TombstoneRefused(h) ==
    /\ ref[h] # NoRef
    /\ \/ /\ ref[h].id \notin DOMAIN referenceCount
          /\ UNCHANGED referenceCount
       \/ /\ ref[h].id \in DOMAIN referenceCount
          /\ LastReference(ref[h].id)
          /\ ReadValue(ref[h].id) = {}
          /\ referenceCount' = Uncounted(ref[h].id)
    /\ Drop(h)
    /\ UNCHANGED <<files, freeLists, hashToValueID, upsets, upsetCount>>

\* A file call of tombstoneTierN fails: the count is gone already, the hash
\* entry too unless the read for it failed as well, and the record stays.
TombstoneFails(h) ==
    LET id == ref[h].id IN
    /\ ref[h] # NoRef
    /\ id \in DOMAIN referenceCount
    /\ LastReference(id)
    /\ Upset("fault")
    /\ referenceCount' = Uncounted(id)
    /\ hashToValueID' \in {hashToValueID, Forgotten(id)}
    /\ Drop(h)
    /\ UNCHANGED <<files, freeLists>>
-----------------------------------------------------------------------------
(* NewValueStore after a restart, and DefragmentValueStore.                *)

\* determineMaxValueID guesses from the size of the tier 3 file.
MaxValueID ==
    IF Len(files[3]) \div ScanUnit > 0 THEN Len(files[3]) \div ScanUnit ELSE ScanDefault

\* rebuildHashMap reads every ID up to the guess: offsets of tier 0, the only
\* tier those IDs name.
ScannedIDs == {id \in 1..(IF MaxValueID < Span THEN MaxValueID ELSE Span - 1) : ReadValue(id) # {}}

\* The free lists start empty and every record found has one reference.
Restart ==
    /\ Upset("restart")
    /\ freeLists' = [tier \in Tiers |-> {}]
    /\ referenceCount' = [id \in ScannedIDs |-> 1]
    /\ hashToValueID' =
          [c \in Contents |->
              LET ids == {id \in ScannedIDs : c \in ReadValue(id)}
              IN  IF ids = {} THEN 0 ELSE CHOOSE id \in ids : \A j \in ids : j <= id]
    /\ UNCHANGED <<files, ref>>

\* What determineTombstoneSize makes of a cell. A sentinel has its content's
\* type, whose size it gets wrong when the type is Money, Reference or Unknown:
\* isVariableLength leaves them out, and their records have a length.
Sentinels(cell) ==
    IF cell.mark = "body"
    THEN UNION {{x \in Lookalikes[c] : x.at = cell.at} : c \in cell.of}
    ELSE {[at |-> cell.at, mark |-> cell.mark, size |-> ScanSize[c]] : c \in cell.of}

\* The offsets a scan of the file visits: it steps from sentinel to sentinel
\* by the sizes it takes them for, and stops at anything else.
ScanFrom(file) ==
    LET visit[o \in 0..Len(file)] ==
            IF o < Len(file)
            THEN UNION {{o} \cup (IF o + x.size <= Len(file) THEN visit[o + x.size] ELSE {}) :
                          x \in Sentinels(CellAt(file, o))}
            ELSE {}
    IN  visit[0]

SentinelAt(file, o) == CHOOSE x \in Sentinels(CellAt(file, o)) : TRUE

SizeAt(file, o) == SentinelAt(file, o).size

TombstonesAt(file) == {o \in ScanFrom(file) : SentinelAt(file, o).mark = "tomb"}

ValuesAt(file) == {o \in ScanFrom(file) : SentinelAt(file, o).mark = "value"}

\* RebuildFromFile: the tombstones the scan reaches.
RebuildFromFile(file) ==
    CoalesceBlocks({Block(o, SizeAt(file, o)) : o \in TombstonesAt(file)})

\* scanAndCopyTier3Records: the cells of the live records the scan reaches,
\* in their order.
Compacted(file) ==
    LET copied == {i \in DOMAIN file : \E o \in ValuesAt(file) : i \in (o + 1)..(o + SizeAt(file, o))}
        place(i) == Cardinality({j \in copied : j <= i})
    IN  [n \in 1..Cardinality(copied) |-> file[CHOOSE i \in copied : place(i) = n]]

\* rebuildTier3HashEntries ends at the first record it cannot deserialize: one
\* that is not whole, or that the scan's size cuts short.
Deserialized(file, o) == {c \in IntactAt(file, o) : SizeOf[c] <= SizeAt(file, o)}

HashedAt(file, c) ==
    {o \in ScanFrom(file) :
        /\ c \in Deserialized(file, o)
        /\ \A p \in ScanFrom(file) : p < o => Deserialized(file, p) # {}}

\* The contents FreeList reads as the value store does.
PlainContents == {c \in Contents : ScanSize[c] = SizeOf[c] /\ Lookalikes[c] = {}}

PlainFile(file) == \A i \in DOMAIN file : file[i].of \subseteq PlainContents

\* Tier 3 is compacted, the hash map is rebuilt from it alone, the counts and
\* the references others keep stay, and the free lists are scanned anew. An
\* empty tier 3 file leaves the hash map alone. A record to copy that seems to
\* run past the end of the file is an error, and nothing changes.
Defragmented ==
    LET compacted == Compacted(files[3])
        newFiles == [files EXCEPT ![3] = compacted] IN
    /\ \A o \in ValuesAt(files[3]) : o + SizeAt(files[3], o) <= Len(files[3])
    /\ files' = newFiles
    /\ hashToValueID' =
          IF files[3] = <<>> THEN hashToValueID
          ELSE [c \in Contents |->
                  IF HashedAt(compacted, c) = {} THEN 0
                  ELSE EncodeValueID(3, CHOOSE o \in HashedAt(compacted, c) :
                                           \A x \in HashedAt(compacted, c) : x <= o)]
    /\ freeLists' = [tier \in Tiers |-> RebuildFromFile(newFiles[tier])]
    /\ UNCHANGED <<referenceCount, ref>>

Defragment ==
    /\ \A tier \in Tiers : PlainFile(files[tier])
    /\ Upset("defragment")
    /\ Defragmented

DefragmentMisled ==
    /\ ~ \A tier \in Tiers : PlainFile(files[tier])
    /\ Upset("misled")
    /\ Defragmented
-----------------------------------------------------------------------------
Next ==
    \/ \E h \in Holders, c \in Contents : Deduplicate(h, c) \/ Reuse(h, c) \/ AppendRecord(h, c)
    \/ \E c \in Contents : WriteFails(c)
    \/ \E h \in Holders : Release(h) \/ Tombstone(h) \/ TombstoneUnhashed(h)
                           \/ TombstoneRefused(h) \/ TombstoneFails(h)
    \/ Restart
    \/ Defragment
    \/ DefragmentMisled

Spec == Init /\ [][Next]_vars
-----------------------------------------------------------------------------
(* Properties.                                                             *)

Cells(b) == b.offset..(EndOf(b) - 1)

\* The cells of the records of a tier that read back.
LiveCells(tier) ==
    {i \in 0..(Len(files[tier]) - 1) :
        \E o \in 0..i : \E c \in IntactAt(files[tier], o) : i < o + SizeOf[c]}

\* The blocks of a free list lie in the file, touch no record that still reads
\* back and no other block, and no two of them are adjacent.
FreeSpaceIsDead ==
    \A tier \in Tiers : \A b \in freeLists[tier] :
        /\ b.size > 0
        /\ EndOf(b) <= Len(files[tier])
        /\ Cells(b) \cap LiveCells(tier) = {}
        /\ \A x \in freeLists[tier] : x = b \/ EndOf(x) < b.offset \/ EndOf(b) < x.offset

\* Free space is never live: whatever is written, released, failed, scanned
\* or compacted (AddBlock, AllocateSpace, RebuildFromFile), except when the
\* files are defragmented after a file call failed, or while they hold a record
\* FreeList reads wrongly. The failed write's block has left the free list but
\* its tombstones are in the file: the block that remains may begin inside one,
\* whose header still gives the whole size. A Money, a Reference or an Unknown
\* is stepped into, and a byte of it may look like a tombstone.
FreeListsSound ==
    ~({"fault", "defragment"} \subseteq upsets) /\ "misled" \notin upsets => FreeSpaceIsDead

\* Compaction keeps every value of tier 3 (scanAndCopyTier3Records). It does
\* not when a record has reused the front of a larger block: the scan takes
\* what is left of the old record for the end of the file.
CompactionKeepsValues ==
    [][Defragment =>
         \A o \in 0..Len(files[3]) : \A c \in IntactAt(files[3], o) :
            \E p \in 0..Len(files'[3]) : c \in IntactAt(files'[3], p)]_vars

HeldReferencesRead ==
    \A h \in Holders : ref[h] # NoRef => ReadValue(ref[h].id) = ref[h].of

\* A reference that WriteValue returned reads back its value until its holder
\* gives it up, however often the space around it is freed, merged, split and
\* written again (writeValue, tombstoneValue), until a value is tombstoned that
\* could not be read (values.go:280-286), a restart or a defragmentation.
HeldValuesReadBack == upsets \subseteq {"fault"} => HeldReferencesRead

\* A record's reference count is the number of references held, failed
\* operations in between included, so the record goes with the last one: until
\* a value is tombstoned that could not be read, whose hash entry gives its ID
\* to the next writer.
CountsAreReferences ==
    upsets \subseteq {"fault"} =>
      \A id \in DOMAIN referenceCount \cup ({ref[h].id : h \in Holders} \ {0}) :
          CountOf(id) = Cardinality({h \in Holders : ref[h].id = id})

\* While no operation failed, every byte of a file is accounted for: in a
\* record some reference holds, or in a free block.
SpaceIsAccounted ==
    upsets = {} => \A tier \in Tiers :
        LET held == {h \in Holders : ref[h] # NoRef /\ ExtractTier(ref[h].id) = tier}
            used == UNION {ExtractOffset(ref[h].id)..
                             (ExtractOffset(ref[h].id) + SizeOf[CHOOSE c \in ref[h].of : TRUE] - 1) : h \in held}
            free == UNION {Cells(b) : b \in freeLists[tier]}
        IN  used \cup free \cup (IF tier = 0 /\ files[0] # <<>> THEN {0} ELSE {})
              = 0..(Len(files[tier]) - 1)
=============================================================================
