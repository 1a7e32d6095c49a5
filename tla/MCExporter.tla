----------------------------- MODULE MCExporter -----------------------------
(* Logs of up to four records of a kind: interleaved and at equal times, on  *)
(* channels the tools know and do not know, with and without FD frames, and  *)
(* those that cannot be loaded, sorted or read to the end.                   *)
EXTENDS Exporter

\* A day and a night, so that no zone moves a time before the epoch.
Epoch == 2 * 24 * 60 * 60 * 8

Rec(k, i, t, c, fd, n) ==
    [kind |-> k, index |-> i, time |-> Epoch + t, channel |-> c, fd |-> fd, length |-> n]

Log(data, remote, lin) == [data |-> data, remote |-> remote, lin |-> lin]

Data4 == <<Rec("data", 1, 5, 1, FALSE, 8), Rec("data", 2, 5, 2, TRUE, 3),
           Rec("data", 3, 9, 2, FALSE, 0), Rec("data", 4, 11, 1, TRUE, 64)>>
FdFirst == <<Rec("data", 1, 3, 2, TRUE, 5), Rec("data", 2, 8, 3, FALSE, 6)>>
Remote2 == <<Rec("remote", 1, 5, 1, FALSE, 0), Rec("remote", 2, 10, 2, FALSE, 0)>>
Lin2 == <<Rec("lin", 1, 6, 2, FALSE, 4), Rec("lin", 2, 7, 2, FALSE, 8)>>

All(log) == [k \in Kinds |-> Len(log[k])]
In(log, zone, here) ==
    [loads |-> TRUE, sorts |-> TRUE, log |-> log, readable |-> All(log),
     zone |-> zone, here |-> here]

Mixed == In(Log(Data4, Remote2, Lin2), 120, 60)

MCFields == {{}, {"Timestamp", "ID", "Data"}, {"Timestamp", "Type", "ID", "Length"}}

MCInputs == {
    Mixed,
    In(Log(FdFirst, <<>>, <<>>), -330, -300),
    In(Log(<<Rec("data", 1, 2, 2, TRUE, 1)>>, <<>>, Lin2), 0, 330),
    In(Log(<<>>, Remote2, <<>>), 60, 0),
    [Mixed EXCEPT !.readable["data"] = 2],
    [Mixed EXCEPT !.readable["lin"] = 1],
    [Mixed EXCEPT !.loads = FALSE],
    [Mixed EXCEPT !.sorts = FALSE]}
=============================================================================
