---------------------------- MODULE MCRecordIndex ----------------------------
(* Instances of RecordIndex for TLC: every block of up to MaxRecords records *)
(* of the given IDs and sizes, whole or torn, with at most one record of an  *)
(* ID that no channel group registered.                                      *)
EXTENDS RecordIndex

MCRecordIDs == {1, 2}
MCUnknownID == 9
MCVLSDIDs == {2}

\* Fixed-size records have one size, VLSD records any size in 0..2.
MCRecords == {[id |-> 1, size |-> 2], [id |-> MCUnknownID, size |-> 1]}
             \cup [id : {2}, size : {0, 2}]

MCLogs(n) == UNION {[1..m -> MCRecords] : m \in 0..n}

MCDataBlocks(n) ==
    {b \in [recs : MCLogs(n), torn : BOOLEAN] :
        /\ b.torn => b.recs # <<>> /\ b.recs[Len(b.recs)].id \in MCVLSDIDs
        /\ Cardinality({k \in DOMAIN b.recs : b.recs[k].id = MCUnknownID}) <= 1}

MCBlocks == MCDataBlocks(3)
=============================================================================
