----------------------------- MODULE RecordIndex -----------------------------
(***************************************************************************)
(* The record index of an unsorted data block: the class                   *)
(* DTBlockMultipleRecordIDs of Library/Source/Blocks.  An unsorted DT      *)
(* block holds the records of several channel groups one after the other,  *)
(* each behind its record ID; a variable-length (VLSD) record also carries *)
(* its own 4-byte length.  index() walks the block once and remembers, for *)
(* every record ID, where its records start and how many bytes they take;  *)
(* findFirstMatching() walks it again until a record of one of the wanted  *)
(* groups is met.  Both loops are modelled one record at a time.           *)
(*                                                                         *)
(* A record is named by its ordinal in the block instead of its address:   *)
(* both loops visit records in file order and never look at an address     *)
(* except to compare it with the end of the block, so `limit`, the number  *)
(* of records that start before the end the header gives, replaces         *)
(* header.blockSize.                                                       *)
(***************************************************************************)
EXTENDS Integers, Sequences, FiniteSets, Functions

CONSTANTS
    RecordIDs,   \* the IDs registered by setRecordInformation
    UnknownID,   \* stands for an ID no channel group has (a damaged file)
    VLSDIDs,     \* those of them whose size is -1 in recordSizeMap
    DataBlocks,  \* the DT blocks considered
    MaxCalls     \* bound on the number of calls after load, for TLC

(***************************************************************************)
(* A DT block as it lies on disk.  `torn` says that the file ends inside   *)
(* the length field of its last record, as after a power loss.  A record's *)
(* ID may be one that no channel group registered (a damaged file).        *)
(***************************************************************************)
ASSUME RecordIndexAssumption ==
    /\ VLSDIDs \subseteq RecordIDs
    /\ UnknownID \notin RecordIDs
    /\ MaxCalls \in Nat
    /\ \A b \in DataBlocks :
        /\ b.torn \in BOOLEAN
        /\ b.recs \in Seq([id : RecordIDs \cup {UnknownID}, size : Nat])
        /\ b.torn => Len(b.recs) > 0 /\ b.recs[Len(b.recs)].id \in VLSDIDs

VARIABLES
    block,          \* the bytes on disk, never written
    limit,          \* header.blockSize, in records
    lengthFlag,     \* FinalizationFlags_UpdateLengthInLastDT is still set
    pc,             \* which loop is running
    recordIndices,  \* recordIndices: ID -> records found, in order
    recordSizes,    \* recordSizes: ID -> bytes
    cursor,         \* currentLocation of index()
    targets,        \* targetIDs of findFirstMatching()
    probe,          \* currentLocation of findFirstMatching()
    outcome,        \* how the last call ended
    calls           \* calls made since load

fileVars == <<block, limit, lengthFlag>>
indexVars == <<recordIndices, recordSizes, cursor>>
findVars == <<targets, probe>>
vars == <<fileVars, indexVars, findVars, pc, outcome, calls>>

recs == block.recs
Torn(k) == block.torn /\ k = Len(recs)
Registered(k) == recs[k].id \in RecordIDs

-----------------------------------------------------------------------------
\* Mutant of StartIndex: the index of the pass before is not cleared.
StartIndexUncleared ==
    pc' = "indexing" /\ cursor' = 1 /\ UNCHANGED <<recordIndices, recordSizes>>

\* What index() does before its loop: recordIndices is cleared and gets an
\* empty entry per ID; insert() leaves an entry of recordSizes that is already
\* there as it is.
StartIndex ==
    /\ pc' = "indexing"
    /\ recordIndices' = [id \in RecordIDs |-> <<>>]
    /\ cursor' = 1
    /\ UNCHANGED recordSizes

(***************************************************************************)
(* DGBlock::load hands the ID table to a new block and calls index() on    *)
(* the length the file has on disk: the whole block, or nothing when the   *)
(* length was never updated (FinalizationFlags_UpdateLengthInLastDT).      *)
(***************************************************************************)
Init ==
    /\ block \in DataBlocks
    /\ lengthFlag \in BOOLEAN
    /\ limit = IF lengthFlag THEN 0 ELSE Len(block.recs)
    /\ pc = "indexing"
    /\ recordIndices = [id \in RecordIDs |-> <<>>]
    /\ recordSizes = [id \in RecordIDs |-> 0]
    /\ cursor = 1
    /\ targets = {}
    /\ probe = 1
    /\ outcome = "none"
    /\ calls = 0

\* finalize(): the length is brought to the end of the stream when the flag
\* asks for it, and the block is indexed again to count its records.
CallFinalize ==
    /\ pc = "idle" /\ calls < MaxCalls
    /\ limit' = IF lengthFlag THEN Len(recs) ELSE limit
    /\ StartIndex
    /\ calls' = calls + 1 /\ outcome' = "none"
    /\ UNCHANGED <<block, lengthFlag, findVars>>

\* Mutant of IndexRecord: VLSD records are not counted.
IndexRecordUncounted ==
    /\ pc = "indexing" /\ cursor <= limit
    /\ Registered(cursor) /\ ~Torn(cursor)
    /\ LET id == recs[cursor].id IN
        /\ recordIndices' = [recordIndices EXCEPT ![id] = Append(@, cursor)]
        /\ recordSizes' =
            IF id \in VLSDIDs THEN recordSizes
            ELSE [recordSizes EXCEPT ![id] = @ + recs[cursor].size]
    /\ cursor' = cursor + 1
    /\ UNCHANGED <<fileVars, pc, findVars, outcome, calls>>

IndexRecord ==
    /\ pc = "indexing" /\ cursor <= limit
    /\ Registered(cursor) /\ ~Torn(cursor)
    /\ LET id == recs[cursor].id IN
        /\ recordIndices' = [recordIndices EXCEPT ![id] = Append(@, cursor)]
        /\ recordSizes' = [recordSizes EXCEPT ![id] = @ + recs[cursor].size]
    /\ cursor' = cursor + 1
    /\ UNCHANGED <<fileVars, pc, findVars, outcome, calls>>

\* An exception of index() ends the call; out of DGBlock::load it ends the
\* loading of the file, and the block with it.
Throw ==
    /\ pc' = IF calls = 0 THEN "destroyed" ELSE "idle"
    /\ outcome' = "threw"

\* "Could not read VLSD length": the record is in the index by then, its bytes
\* are not counted.
IndexTorn ==
    /\ pc = "indexing" /\ cursor <= limit
    /\ Registered(cursor) /\ Torn(cursor)
    /\ recordIndices' =
        [recordIndices EXCEPT ![recs[cursor].id] = Append(@, cursor)]
    /\ cursor' = cursor + 1
    /\ Throw
    /\ UNCHANGED <<fileVars, recordSizes, findVars, calls>>

\* Mutant of IndexUnknown: the loop neither throws nor moves on.
IndexUnknownIgnored ==
    pc = "indexing" /\ cursor <= limit /\ ~Registered(cursor) /\ UNCHANGED vars

\* recordIndices.at() throws for an ID that no channel group has.
IndexUnknown ==
    /\ pc = "indexing" /\ cursor <= limit
    /\ ~Registered(cursor)
    /\ Throw
    /\ UNCHANGED <<fileVars, indexVars, findVars, calls>>

\* Mutant of IndexDone: the last record of the block is left out.
IndexDoneEarly ==
    /\ pc = "indexing" /\ cursor >= limit
    /\ pc' = "idle" /\ outcome' = "indexed"
    /\ lengthFlag' = (lengthFlag /\ calls = 0)
    /\ UNCHANGED <<block, limit, indexVars, findVars, calls>>

\* The flag goes with the first pass of finalize that ends; the pass made on
\* load leaves it.
IndexDone ==
    /\ pc = "indexing" /\ cursor > limit
    /\ pc' = "idle" /\ outcome' = "indexed"
    /\ lengthFlag' = (lengthFlag /\ calls = 0)
    /\ UNCHANGED <<block, limit, indexVars, findVars, calls>>

-----------------------------------------------------------------------------
(***************************************************************************)
(* The soft finalization of getFirstMeasurement, while the flag is set:    *)
(* the header gets room for one record of the largest size, which reaches  *)
(* one or more records and, where there is no such record, past the last   *)
(* of them: an end past that of the file on disk stays where it is, one    *)
(* past that of decoded data is brought back to it.                        *)
(***************************************************************************)
SoftFinalize ==
    /\ pc = "idle" /\ calls < MaxCalls
    /\ lengthFlag
    /\ limit' \in (IF recs = <<>> THEN 0 ELSE 1)..(Len(recs) + 1)
    /\ calls' = calls + 1
    /\ UNCHANGED <<block, lengthFlag, pc, indexVars, findVars, outcome>>

\* Mutant of CallFindFirstMatching: the walk goes on where the last one ended.
CallFindNextMatching(T) ==
    /\ pc = "idle" /\ calls < MaxCalls
    /\ pc' = "finding" /\ targets' = T
    /\ calls' = calls + 1 /\ outcome' = "none"
    /\ UNCHANGED <<fileVars, indexVars, probe>>

\* findFirstMatching(T).
CallFindFirstMatching(T) ==
    /\ pc = "idle" /\ calls < MaxCalls
    /\ pc' = "finding" /\ targets' = T /\ probe' = 1
    /\ calls' = calls + 1 /\ outcome' = "none"
    /\ UNCHANGED <<fileVars, indexVars>>

\* A match ends the loop before the record is counted.
FindMatch ==
    /\ pc = "finding" /\ probe <= limit /\ probe <= Len(recs)
    /\ recs[probe].id \in targets
    /\ pc' = "idle" /\ outcome' = "found"
    /\ UNCHANGED <<fileVars, indexVars, findVars, calls>>

\* Mutant of FindSkip: the -1 that marks a VLSD group is taken for its size.
FindSkipUnsized ==
    /\ pc = "finding" /\ probe <= limit /\ probe <= Len(recs)
    /\ recs[probe].id \notin targets /\ Registered(probe)
    /\ LET size == IF recs[probe].id \in VLSDIDs THEN -1 ELSE recs[probe].size
       IN recordSizes' = [recordSizes EXCEPT ![recs[probe].id] = @ + size]
    /\ probe' = probe + 1
    /\ UNCHANGED <<fileVars, pc, recordIndices, cursor, targets, outcome, calls>>

\* The bytes of every record passed over are added to recordSizes.  A short
\* read of the VLSD length is not noticed here: what was read of it (nothing,
\* or the low bytes, which hold these small lengths) is taken as the size.
FindSkip ==
    /\ pc = "finding" /\ probe <= limit /\ probe <= Len(recs)
    /\ recs[probe].id \notin targets /\ Registered(probe)
    /\ \E size \in {recs[probe].size} \cup (IF Torn(probe) THEN {0} ELSE {}) :
        recordSizes' = [recordSizes EXCEPT ![recs[probe].id] = @ + size]
    /\ probe' = probe + 1
    /\ UNCHANGED <<fileVars, pc, recordIndices, cursor, targets, outcome, calls>>

\* recordSizeMap.at() throws: an unknown ID, or past the end of the file, where
\* nothing is read and the ID stays 0, which unsorted groups do not use.
FindThrow ==
    /\ pc = "finding" /\ probe <= limit
    /\ probe <= Len(recs) => recs[probe].id \notin targets /\ ~Registered(probe)
    /\ pc' = "idle" /\ outcome' = "threw"
    /\ UNCHANGED <<fileVars, indexVars, findVars, calls>>

FindEnd ==
    /\ pc = "finding" /\ probe > limit
    /\ pc' = "idle" /\ outcome' = "notfound"
    /\ UNCHANGED <<fileVars, indexVars, findVars, calls>>

IndexStep == IndexRecord \/ IndexTorn \/ IndexUnknown \/ IndexDone
FindStep  == FindMatch \/ FindSkip \/ FindThrow \/ FindEnd

Next ==
    \/ CallFinalize
    \/ IndexStep
    \/ SoftFinalize
    \/ \E T \in SUBSET RecordIDs : CallFindFirstMatching(T)
    \/ FindStep

\* A call that was made runs on: the loops wait for nobody.
Fairness == WF_vars(IndexStep) /\ WF_vars(FindStep)

Spec == Init /\ [][Next]_vars
FairSpec == Spec /\ Fairness

-----------------------------------------------------------------------------
Indexed(id) == {recordIndices[id][i] : i \in DOMAIN recordIndices[id]}

\* The bytes the index accounts for: a torn record's were never counted.
Counted == [k \in DOMAIN recs |-> IF Torn(k) THEN 0 ELSE recs[k].size]
IndexedBytes(id) == SumFunctionOnSet(Counted, Indexed(id))

-----------------------------------------------------------------------------
TypeOK ==
    /\ block \in DataBlocks
    /\ limit \in 0..(Len(recs) + 1)
    /\ lengthFlag \in BOOLEAN
    /\ pc \in {"idle", "indexing", "finding", "destroyed"}
    /\ recordIndices \in [RecordIDs -> Seq(Nat)]
    /\ recordSizes \in [RecordIDs -> Nat]
    /\ cursor \in 1..(Len(recs) + 1)
    /\ targets \subseteq RecordIDs
    /\ probe \in 1..(Len(recs) + 1)
    /\ outcome \in {"none", "indexed", "threw", "found", "notfound"}
    /\ calls \in 0..MaxCalls

\* Whatever calls came before, and wherever index() stands or stopped, the
\* entry of an ID lists, in file order and without repetition, exactly the
\* records of that ID it has passed: a record is never filed under another
\* group, filed twice, or left over from an earlier pass
\* (DTBlockMultipleRecordIDs::index).
IndexExact ==
    \A id \in RecordIDs :
        /\ \A i, j \in DOMAIN recordIndices[id] :
            i < j => recordIndices[id][i] < recordIndices[id][j]
        /\ Indexed(id) = {k \in 1..(cursor - 1) : recs[k].id = id}

\* When index() returns normally every record of the block is in the index of
\* one and only one group, so sorting by ID loses and duplicates nothing.
IndexCoversBlock ==
    [][outcome' = "indexed" /\ pc = "indexing" /\ pc' = "idle" =>
        \A k \in 1..limit :
            \E id \in RecordIDs :
                /\ k \in Indexed(id)
                /\ \A other \in RecordIDs \ {id} : k \notin Indexed(other)]_vars

\* findFirstMatching returns the first record of the wanted groups, and -1 only
\* when no record before the end of the block belongs to one of them.
FirstMatchIsFirst ==
    /\ outcome = "found" =>
        /\ recs[probe].id \in targets
        /\ \A k \in 1..(probe - 1) : recs[k].id \notin targets
    /\ outcome = "notfound" =>
        \A k \in 1..(probe - 1) : recs[k].id \notin targets

\* The byte totals never fall short of the records in the index, in the middle
\* of a pass, after a pass that threw and after any number of passes:
\* header.blockSize of the blocks derived from them has room for every record.
SizesCoverIndex ==
    \A id \in RecordIDs : recordSizes[id] >= IndexedBytes(id)

\* index() and findFirstMatching() return or throw on every block, damaged ones
\* included: each iteration moves on by at least the record ID.
CallsReturn ==
    pc \in {"indexing", "finding"} ~> pc \in {"idle", "destroyed"}
=============================================================================
