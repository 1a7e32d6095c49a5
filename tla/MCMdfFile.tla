------------------------------ MODULE MCMdfFile ------------------------------
(* Instances of MdfFile for TLC.  Groups 1 and 3 have fixed-size records of   *)
(* different sizes, 2 holds the variable-length data of 1.  Group 4 is one    *)
(* more group of fixed size, or has the variable-length data of 3 or 1.       *)
EXTENDS MdfFile

MCGroups == 1..6
MCUnknown == 9

Rec(c) == IF c = 1 THEN {[id |-> 1, size |-> 3]}
          ELSE IF c = 3 THEN {[id |-> 3, size |-> 2]}
          ELSE [id : {c}, size : {1, 2}]
Bad == [id |-> MCUnknown, size |-> 0]

\* The logs of at most n records of the groups in cgs.
Logs(cgs, n) ==
    UNION {[1..m -> UNION {Rec(c) : c \in cgs}] : m \in 0..n}
\* The same with a damaged record in one place.
DamagedLogs(cgs, n) ==
    {before \o <<Bad>> \o after : before \in Logs(cgs, n), after \in Logs(cgs, 1)}

Counts(dgs, done) ==
    [c \in MCGroups |->
        IF done
        THEN Cardinality({sk \in (1..2) \X (1..5) :
                /\ sk[1] \in DOMAIN dgs /\ sk[2] \in DOMAIN dgs[sk[1]].log
                /\ dgs[sk[1]].log[sk[2]].id = c})
        ELSE 0]

MkFile(fl, dgs, vlsd, refers, timed, bounded) ==
    [flags |-> fl, bounded |-> bounded, dgs |-> dgs, vlsd |-> vlsd,
     refers |-> refers, timed |-> timed, cycles |-> Counts(dgs, "cycles" \notin fl)]

DG(cgs, log) == [cgs |-> cgs, log |-> log]

\* What a logger of this kind writes: each variable-length group right behind
\* the group it belongs to, every other group with a time master.
OneDG(fl, log, bounded) ==
    MkFile(fl, <<DG(<<1, 2, 3, 4>>, log)>>, {2}, [v \in {2} |-> 1], {1, 3, 4},
           bounded)
TwoDGs(fl, log) ==
    MkFile(fl, <<DG(<<1, 2>>, <<[id |-> 2, size |-> 1], [id |-> 1, size |-> 3]>>),
                 DG(<<3, 4>>, log)>>,
           {2, 4}, (2 :> 1 @@ 4 :> 3), {1, 3}, FALSE)
SortedFile(log) ==
    MkFile({}, <<DG(<<1>>, log), DG(<<3>>, <<[id |-> 3, size |-> 2]>>)>>,
           {}, <<>>, {1, 3}, FALSE)

Unfinished == Handled
Rec4 == [id |-> 4, size |-> 1]
ShortLogs == Logs({1, 2, 3}, 3) \cup {<<Rec4>> \o l : l \in Logs({1, 3}, 2)}
LoggerFiles ==
    {OneDG(fl, l, FALSE) : fl \in {Unfinished, Flags}, l \in ShortLogs}
    \cup {OneDG(fl, l, TRUE) : fl \in {Unfinished}, l \in Logs({1, 2, 3}, 1)}
    \cup {OneDG({}, l, FALSE) : l \in ShortLogs}
    \cup {OneDG(Unfinished, l, FALSE) : l \in DamagedLogs({1, 2, 3}, 1)}
    \cup {TwoDGs(fl, l) : fl \in {{}, Unfinished}, l \in Logs({3, 4}, 2)}
    \cup {SortedFile(l) : l \in Logs({1}, 2)}
\* Finalized files that nobody sorted, with a group that has no time master.
UntimedFiles ==
    {MkFile({}, <<DG(<<1, 2, 3>>, l)>>, {2}, [v \in {2} |-> 1], {3}, FALSE) :
        l \in Logs({1, 2, 3}, 3)}

\* Files on which sorting throws once getFirstMeasurement has counted records
\* of group 1: one data group, two of which the second is half sorted then, and
\* one that leaves a single group.
Odd == <<[id |-> 1, size |-> 3], [id |-> 3, size |-> 2], [id |-> 1, size |-> 3]>>
RetryFiles ==
    UntimedFiles
    \cup {MkFile({}, <<DG(<<1, 3, 4>>, Odd \o l)>>, {}, <<>>, {3}, FALSE) :
            l \in {<<>>, <<Rec4>>}}
    \cup {MkFile({}, <<DG(<<3, 1>>, Odd), DG(<<4, 5, 6>>, l)>>,
                 {5}, [v \in {5} |-> 4], {3, 6}, FALSE) :
            l \in [1..2 -> {Rec4, [id |-> 5, size |-> 2], [id |-> 6, size |-> 1]}]}
    \cup {MkFile(Unfinished, <<DG(<<1, 2>>, l)>>,
                 {2}, [v \in {2} |-> 1], {}, FALSE) :
            l \in {<<Odd[1], Odd[1]>>, <<Odd[1], [id |-> 2, size |-> 1], Odd[1]>>}}
LoggerAndRetryFiles == LoggerFiles \cup RetryFiles
=============================================================================
