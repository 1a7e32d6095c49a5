--------------------------- MODULE MCRecordIterator ---------------------------
(* Groups of up to three records, whole and damaged in one place: the record  *)
(* cut off, its data bytes cut off, of an offset nobody has, or too many.     *)
EXTENDS RecordIterator

MCCapacity == 2

Whole(n) == [framed |-> TRUE, entry |-> TRUE, length |-> n, there |-> n, shown |-> n]
Log(kind, elsewhere, recs) ==
    [kind |-> kind, found |-> TRUE, elsewhere |-> elsewhere,
     channels |-> Fields[kind], recs |-> recs]
Absent(kind) == [Log(kind, TRUE, <<>>) EXCEPT !.found = FALSE]

Good == <<Whole(2), Whole(1), Whole(2)>>
Damaged ==
    {[Good EXCEPT ![3].there = 0], [Good EXCEPT ![2].there = 0, ![2].length = 2],
     [Good EXCEPT ![3].framed = FALSE], [Good EXCEPT ![1].framed = FALSE],
     [Good EXCEPT ![2].entry = FALSE], [Good EXCEPT ![1].entry = FALSE],
     [Good EXCEPT ![2].length = 3, ![2].there = 3]}

MCLogs ==
    {Log("CAN_DataFrame", TRUE, rs) : rs \in {Good, <<>>} \cup Damaged}
    \cup {Log("LIN_Frame", FALSE, Good),
          Log("LIN_Frame", TRUE, [Good EXCEPT ![2].shown = 3]),
          Log("LIN_Frame", TRUE, [Good EXCEPT ![2].shown = 2]),
          [Log("LIN_Frame", TRUE, Good) EXCEPT !.channels = @ \ {"Dir"}],
          Log("LIN_ChecksumError", FALSE, <<Whole(2), Whole(2)>>),
          Log("LIN_SyncError", FALSE, <<Whole(0), Whole(0)>>),
          Log("CAN_RemoteFrame", FALSE, <<Whole(0), Whole(0)>>),
          Log("LIN_ReceiveError", FALSE, <<Whole(0)>>),
          Absent("CAN_DataFrame"), Absent("LIN_Frame")}
=============================================================================
