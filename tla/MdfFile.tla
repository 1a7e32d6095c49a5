------------------------------- MODULE MdfFile -------------------------------
(***************************************************************************)
(* An opened log file: the class MdfFileImplementation of Library/Source.  *)
(* Its calls finalize the file (make the lengths and counters that the     *)
(* logger had no time to write right), sort it (give every channel group a *)
(* data group of its own, turn variable-length groups into SD blocks), and *)
(* then hand out iterators and file information.  Calls come one after     *)
(* another, but each is a chain of loops any of which may throw, and a     *)
(* caller may go on with the file after that; so each iteration is a step. *)
(*                                                                         *)
(* A record is named by its ordinal in the DT block it was read from.      *)
(* What index() and findFirstMatching() do to one block, step by step, is  *)
(* the subject of RecordIndex; here each is one step with that result.     *)
(***************************************************************************)
EXTENDS Integers, SequencesExt, Functions, FiniteSetsExt

CONSTANTS
    Groups,     \* the channel groups (CG blocks)
    Unknown,    \* the ID of a record that belongs to none of them
    Files,      \* the files considered
    MaxCalls    \* bound on the calls made on one file, for TLC

\* The bits of FinalizationFlags; "other" stands for those the library knows
\* the name of and does not handle.
Handled == {"length", "cycles", "bytes"}
Flags == Handled \cup {"other"}

(***************************************************************************)
(* A file as the logger left it.  dgs lists the data groups in the order   *)
(* of their chain, which is their order in the file too: their channel     *)
(* groups and the records of their DT block.  `bounded`: another block     *)
(* follows the last DT block.  refers[v] is the group one of whose         *)
(* channels points to the variable-length group v; `timed` groups have a   *)
(* time master channel.                                                    *)
(***************************************************************************)
Records == [id : Groups \cup {Unknown}, size : Nat]

GroupsIn(dg) == {dg.cgs[i] : i \in DOMAIN dg.cgs}

FileOK(f) ==
    /\ f.flags \subseteq Flags /\ f.bounded \in BOOLEAN
    /\ f.dgs \in Seq([cgs : Seq(Groups), log : Seq(Records)]) /\ f.dgs # <<>>
    /\ \A s \in DOMAIN f.dgs :
        /\ f.dgs[s].cgs # <<>>
        /\ \A i, j \in DOMAIN f.dgs[s].cgs :
            f.dgs[s].cgs[i] = f.dgs[s].cgs[j] => i = j
        /\ \A k \in DOMAIN f.dgs[s].log :
            f.dgs[s].log[k].id \in GroupsIn(f.dgs[s]) \cup {Unknown}
        /\ \A k \in DOMAIN f.dgs[s].log :
            f.dgs[s].log[k].id = Unknown =>
                s = Len(f.dgs) /\ "length" \in f.flags
        \* Outside a variable-length group all records have its CG block's size.
        /\ \A j, k \in DOMAIN f.dgs[s].log :
            /\ f.dgs[s].log[j].id = f.dgs[s].log[k].id
            /\ f.dgs[s].log[j].id \notin f.vlsd
            => f.dgs[s].log[j].size = f.dgs[s].log[k].size
    /\ \A s, t \in DOMAIN f.dgs :
        s # t => GroupsIn(f.dgs[s]) \cap GroupsIn(f.dgs[t]) = {}
    /\ f.vlsd \subseteq Groups /\ f.timed \subseteq Groups \ f.vlsd
    /\ f.refers \in [f.vlsd -> Groups \ f.vlsd]
    /\ \A s \in DOMAIN f.dgs :
        GroupsIn(f.dgs[s]) \cap f.vlsd # {} => Len(f.dgs[s].cgs) > 1
    /\ f.cycles \in [Groups -> Nat]

ASSUME MdfFileAssumption ==
    /\ Unknown \notin Groups
    /\ IsFiniteSet(Groups)
    /\ MaxCalls \in Nat
    /\ \A f \in Files : FileOK(f)

VARIABLES
    file,       \* what is on disk, never written
    flags,      \* IDBlock::finalizationFlags
    reach,      \* header.blockSize of the last DT block, in records
    chain,      \* the DG blocks, with their CG blocks and data block
    cycles,     \* CGBlock::cycleCount
    bytes,      \* CGBlock::dataBytes of the variable-length groups
    sd,         \* the SD blocks: variable-length group -> its records
    pc,         \* which loop of the call is running
    goal,       \* the group an iterator is wanted for, as a set
    at,         \* dgBlock of that loop, as a position in the chain
    todo,       \* cgBlocks of sort_VLSDCGtoSD still to visit
    measured,   \* what getFirstMeasurement read as first records
    outcome,    \* how the last call ended
    calls       \* calls made since load

loopVars == <<goal, at, todo>>
sortVars == <<chain, sd>>
vars == <<file, flags, reach, sortVars, cycles, bytes, pc, loopVars,
          measured, outcome, calls>>

Log(s) == file.dgs[s].log
Reach(s) == IF s = Len(file.dgs) THEN reach ELSE Len(Log(s))
HasIDs(s) == Len(file.dgs[s].cgs) > 1

-----------------------------------------------------------------------------
(***************************************************************************)
(* Data blocks.  kind "multi": DTBlockMultipleRecordIDs, with the index    *)
(* and the byte totals of its IDs; "subset": one made from another for     *)
(* fewer IDs, whose recordLength is never set; "disc":                     *)
(* DTBlockSingleDiscontinuous; "cont": DTBlockSingleContinuous; "none": a  *)
(* null pointer.                                                           *)
(***************************************************************************)
NoDT == [kind |-> "none", indices |-> <<>>, sizes |-> <<>>]
Cont == [kind |-> "cont", indices |-> <<>>, sizes |-> <<>>]
IsMultiple(dt) == dt.kind \in {"multi", "subset"}

\* The records of group c among the first n of a log, and their bytes.
RecordsOf(log, c, n) ==
    LET upto[m \in 0..n] ==
          IF m = 0 THEN <<>>
          ELSE IF log[m].id = c THEN Append(upto[m - 1], m) ELSE upto[m - 1]
    IN upto[n]
BytesOf(log, c, n) ==
    LET upto[m \in 0..n] ==
          IF m = 0 THEN 0
          ELSE upto[m - 1] + (IF log[m].id = c THEN log[m].size ELSE 0)
    IN upto[n]

\* How many records a walk over the first n passes: it throws at the first
\* that has an unknown ID, or at the end of the file.
Passable(s, n) ==
    CHOOSE m \in 0..n :
        /\ \A k \in 1..m : k <= Len(Log(s)) /\ Log(s)[k].id # Unknown
        /\ m < n => m = Len(Log(s)) \/ Log(s)[m + 1].id = Unknown

AddBytes(dt, s, n) ==
    [dt EXCEPT !.sizes = [c \in DOMAIN @ |-> @[c] + BytesOf(Log(s), c, n)]]

\* DTBlockMultipleRecordIDs::index() over the first n records of its block.
Indexed(dt, s, n) ==
    LET ok == Passable(s, n) IN
    [AddBytes(dt, s, ok) EXCEPT
        !.indices = [c \in DOMAIN @ |-> RecordsOf(Log(s), c, ok)]]

\* The constructors that take some of a block's IDs.
Derived(dt, ids) ==
    IF ids = {} THEN NoDT
    ELSE [kind |-> IF Cardinality(ids) > 1 THEN "subset" ELSE "disc",
          indices |-> Restrict(dt.indices, ids),
          sizes |-> Restrict(dt.sizes, ids)]

\* "Not constant number of bytes in record": what the constructor of
\* DTBlockSingleDiscontinuous throws.
Throws(dt, ids) ==
    \E c \in ids :
        /\ ids = {c}
        /\ dt.indices[c] # <<>>
        /\ dt.sizes[c] % Len(dt.indices[c]) # 0

\* DGBlock::load: a block whose records carry IDs is indexed.
LoadedDT(s, n) ==
    IF ~HasIDs(s) THEN Cont
    ELSE [kind |-> "multi",
          indices |-> [c \in GroupsIn(file.dgs[s]) |-> RecordsOf(Log(s), c, n)],
          sizes |-> [c \in GroupsIn(file.dgs[s]) |-> BytesOf(Log(s), c, n)]]

Init ==
    /\ file \in Files
    /\ flags = file.flags
    /\ reach = IF "length" \in flags THEN 0 ELSE Len(Log(Len(file.dgs)))
    /\ chain = [s \in DOMAIN file.dgs |->
                  [src |-> s, cgs |-> file.dgs[s].cgs, hasIDs |-> HasIDs(s),
                   dt |-> LoadedDT(s, Reach(s))]]
    /\ cycles = file.cycles
    /\ bytes = [v \in file.vlsd |-> 0]
    /\ sd = <<>>
    /\ pc = "idle" /\ goal = {} /\ at = 1 /\ todo = <<>>
    /\ measured = {}
    /\ outcome = "none"
    /\ calls = 0

-----------------------------------------------------------------------------
Call ==
    /\ pc = "idle" /\ calls < MaxCalls
    /\ calls' = calls + 1 /\ outcome' = "none"
    /\ at' = 1

Return(result) == pc' = "idle" /\ outcome' = result
Throw == Return("threw")

\* A null pointer is followed: the process is gone.
Crash == pc' = "dead" /\ outcome' = "crashed"

\* finalize() returns at once when no flag is set; otherwise its three parts
\* run in order.  sort() follows in every caller.
StartSort == pc' = "toSD" /\ todo' = chain[1].cgs
StartFinalize ==
    IF flags = {} THEN StartSort ELSE pc' = "length" /\ todo' = <<>>

\* getFileInfo(), and the conversion of the MDF tool, which makes the same two
\* calls and then saves.
CallGetFileInfo ==
    /\ Call
    /\ goal' = {}
    /\ StartFinalize
    /\ UNCHANGED <<file, flags, reach, sortVars, cycles, bytes, measured>>

\* getCANIterator() and the seven others: a file without flags is not sorted.
CallGetIterator(c) ==
    /\ Call
    /\ goal' = {c}
    /\ IF flags = {} THEN pc' = "find" /\ todo' = <<>> ELSE StartFinalize
    /\ UNCHANGED <<file, flags, reach, sortVars, cycles, bytes, measured>>

CallGetFirstMeasurement ==
    /\ Call
    /\ goal' = {} /\ todo' = <<>> /\ measured' = {}
    /\ pc' = IF "length" \in flags THEN "soft" ELSE "measure"
    /\ UNCHANGED <<file, flags, reach, sortVars, cycles, bytes>>

-----------------------------------------------------------------------------
\* Mutant of SetLength: setHeader is not called.
SetNoLength ==
    /\ pc = "length"
    /\ IF "length" \in flags /\ file.bounded
       THEN Throw ELSE pc' = "count" /\ UNCHANGED outcome
    /\ UNCHANGED <<file, flags, reach, sortVars, cycles, bytes, loopVars,
                   measured, calls>>

\* finalize_setLengthOfLastDTBlock.
SetLength ==
    /\ pc = "length"
    /\ IF "length" \in flags /\ file.bounded
       THEN Throw /\ UNCHANGED reach
       ELSE /\ reach' = IF "length" \in flags
                        THEN Len(Log(Len(file.dgs))) ELSE reach
            /\ pc' = "count" /\ UNCHANGED outcome
    /\ UNCHANGED <<file, flags, sortVars, cycles, bytes, loopVars, measured,
                   calls>>

CurrentDT == chain[at].dt

\* Mutant of CountRecords: the counts are taken before the block is indexed.
CountBeforeIndex ==
    /\ pc = "count" /\ "cycles" \in flags /\ at <= Len(chain)
    /\ Len(chain[at].cgs) > 1 /\ IsMultiple(CurrentDT)
    /\ LET s == chain[at].src IN
        /\ chain' = [chain EXCEPT ![at].dt = Indexed(@, s, Reach(s))]
        /\ cycles' = [c \in Groups |-> IF c \in GroupsIn(chain[at])
                        THEN Len(CurrentDT.indices[c]) ELSE cycles[c]]
    /\ at' = at + 1
    /\ UNCHANGED <<file, flags, reach, bytes, sd, pc, goal, todo, measured,
                   outcome, calls>>

\* finalize_updateCycleCountersInCGCABlocks, the body of its loop for a data
\* group with several channel groups: index, then one counter per group.
CountRecords ==
    /\ pc = "count" /\ "cycles" \in flags /\ at <= Len(chain)
    /\ Len(chain[at].cgs) > 1 /\ IsMultiple(CurrentDT)
    /\ LET s == chain[at].src
           dt == Indexed(CurrentDT, s, Reach(s))
       IN /\ chain' = [chain EXCEPT ![at].dt = dt]
          /\ IF Passable(s, Reach(s)) < Reach(s)
             THEN Throw /\ UNCHANGED <<cycles, at>>
             ELSE /\ cycles' = [c \in Groups |->
                        IF c \in GroupsIn(chain[at])
                        THEN Len(dt.indices[c]) ELSE cycles[c]]
                  /\ at' = at + 1
                  /\ UNCHANGED <<pc, outcome>>
    /\ UNCHANGED <<file, flags, reach, bytes, sd, goal, todo, measured, calls>>

\* A data group with one channel group ends the loop: before sorting its block
\* is a DTBlockSingleContinuous, never the kind the loop goes on for.
CountDone ==
    /\ pc = "count"
    /\ \/ "cycles" \notin flags
       \/ at > Len(chain)
       \/ at <= Len(chain) /\ (Len(chain[at].cgs) = 1 \/ ~IsMultiple(CurrentDT))
    /\ pc' = "bytes"
    /\ UNCHANGED <<file, flags, reach, sortVars, cycles, bytes, loopVars,
                   measured, outcome, calls>>

\* finalize_updateByteCountersInVLSDCGBlocks, then the end of finalize().
CountBytes ==
    /\ pc = "bytes"
    /\ bytes' = [v \in file.vlsd |->
          IF "bytes" \notin flags THEN bytes[v]
          ELSE LET holders == {i \in DOMAIN chain : v \in GroupsIn(chain[i])}
               IN IF holders = {} THEN bytes[v]
                  ELSE chain[CHOOSE i \in holders : TRUE].dt.sizes[v]]
    /\ flags' = flags \ Handled
    /\ at' = 1 /\ StartSort
    /\ UNCHANGED <<file, reach, sortVars, cycles, goal, measured, outcome, calls>>

-----------------------------------------------------------------------------
\* Mutants of MoveVLSD: its ID is not erased; what follows it is unlinked too;
\* the SD block is made from the block that no longer has its records.
MoveBy(ids(_), left(_), kept(_, _)) ==
    /\ pc = "toSD" /\ Len(todo) > 1 /\ todo[2] \in file.vlsd
    /\ file.refers[todo[2]] = todo[1] /\ todo[2] \notin DOMAIN sd
    /\ IsMultiple(CurrentDT)
    /\ LET v == todo[2] IN
        /\ sd' = [w \in DOMAIN sd \cup {v} |->
                    IF w = v THEN kept(CurrentDT, v) ELSE sd[w]]
        /\ chain' = [chain EXCEPT ![at].cgs = left(@),
                                  ![at].dt = Derived(@, ids(v))]
        /\ todo' = Tail(todo)
    /\ UNCHANGED <<file, flags, reach, cycles, bytes, pc, goal, at, measured,
                   outcome, calls>>
MoveKeepingID ==
    MoveBy(LAMBDA v : DOMAIN CurrentDT.sizes, LAMBDA gs : Remove(gs, todo[2]),
           LAMBDA dt, v : dt.indices[v])
MoveUnlinkingRest ==
    MoveBy(LAMBDA v : DOMAIN CurrentDT.sizes \ {v},
           LAMBDA gs : SelectSeq(gs, LAMBDA c : c = todo[1]),
           LAMBDA dt, v : dt.indices[v])
MoveNoRecords ==
    MoveBy(LAMBDA v : DOMAIN CurrentDT.sizes \ {v},
           LAMBDA gs : Remove(gs, todo[2]), LAMBDA dt, v : <<>>)

\* sort_VLSDCGtoSD, one block of the list cgBlocks at a time.  The list was
\* made before the loop, so todo[2] is the next block even when the loop has
\* unlinked it.
IsMove ==
    /\ Len(todo) > 1 /\ todo[2] \in file.vlsd
    /\ file.refers[todo[2]] = todo[1] /\ todo[2] \notin DOMAIN sd

MoveVLSD ==
    /\ pc = "toSD" /\ IsMove
    /\ IsMultiple(CurrentDT)
    /\ LET v == todo[2]
           ids == DOMAIN CurrentDT.sizes \ {v}
       IN /\ sd' = [w \in DOMAIN sd \cup {v} |->
                      IF w = v THEN CurrentDT.indices[v] ELSE sd[w]]
          /\ IF Throws(CurrentDT, ids)
             THEN Throw /\ UNCHANGED <<chain, todo>>
             ELSE /\ chain' = [chain EXCEPT
                        ![at].cgs = RemoveAt(@, CHOOSE k \in DOMAIN @ : @[k] = v),
                        ![at].dt = Derived(@, ids)]
                  /\ todo' = Tail(todo)
                  /\ UNCHANGED <<pc, outcome>>
    /\ UNCHANGED <<file, flags, reach, cycles, bytes, goal, at, measured, calls>>

\* Mutant of KeepGroup: the loop stays at the group.
KeepForever == pc = "toSD" /\ Len(todo) > 1 /\ ~IsMove /\ UNCHANGED vars

KeepGroup ==
    /\ pc = "toSD" /\ Len(todo) > 1 /\ ~IsMove
    /\ todo' = Tail(todo)
    /\ UNCHANGED <<file, flags, reach, sortVars, cycles, bytes, pc, goal, at,
                   measured, outcome, calls>>

NextToSD ==
    /\ pc = "toSD" /\ Len(todo) <= 1
    /\ IF at < Len(chain)
       THEN at' = at + 1 /\ todo' = chain[at + 1].cgs /\ UNCHANGED pc
       ELSE at' = 1 /\ todo' = <<>> /\ pc' = "toDG"
    /\ UNCHANGED <<file, flags, reach, sortVars, cycles, bytes, goal, measured,
                   outcome, calls>>

\* Mutant of SplitGroup: several remaining IDs get no data block.
SplitWithoutBlock ==
    /\ pc = "toDG" /\ at <= Len(chain) /\ Len(chain[at].cgs) > 1
    /\ IsMultiple(CurrentDT)
    /\ LET dg == chain[at]
           c == Head(dg.cgs)
           rest == DOMAIN CurrentDT.sizes \ {c}
           old == [dg EXCEPT !.cgs = <<c>>, !.dt = Derived(@, {c}),
                             !.hasIDs = FALSE]
           new == [dg EXCEPT !.cgs = Tail(@), !.hasIDs = FALSE,
                             !.dt = Derived(@, IF Cardinality(rest) > 1
                                               THEN {} ELSE rest)]
       IN chain' = InsertAt([chain EXCEPT ![at] = old], at + 1, new)
    /\ at' = at + 1
    /\ UNCHANGED <<file, flags, reach, cycles, bytes, sd, pc, goal, todo,
                   measured, outcome, calls>>

\* sort_CGtoDG: the first group stays, the others move to a new data group,
\* linked in behind before the data blocks are made.
SplitGroup ==
    /\ pc = "toDG" /\ at <= Len(chain) /\ Len(chain[at].cgs) > 1
    /\ IsMultiple(CurrentDT)
    /\ LET dg == chain[at]
           c == Head(dg.cgs)
           rest == DOMAIN CurrentDT.sizes \ {c}
           failed == Throws(CurrentDT, {c}) \/ Throws(CurrentDT, rest)
           old == [src |-> dg.src, cgs |-> <<c>>, hasIDs |-> failed /\ dg.hasIDs,
                   dt |-> IF failed THEN dg.dt ELSE Derived(dg.dt, {c})]
           new == [src |-> dg.src, cgs |-> Tail(dg.cgs), hasIDs |-> FALSE,
                   dt |-> IF failed THEN NoDT ELSE Derived(dg.dt, rest)]
       IN /\ chain' = InsertAt([chain EXCEPT ![at] = old], at + 1, new)
          /\ IF failed THEN Throw /\ UNCHANGED at
             ELSE at' = at + 1 /\ UNCHANGED <<pc, outcome>>
    /\ UNCHANGED <<file, flags, reach, cycles, bytes, sd, goal, todo, measured,
                   calls>>

\* Mutant of NextToDG: the block of a group that is alone is made anew, the way
\* load makes it.
NextToDGReloading ==
    /\ pc = "toDG" /\ at <= Len(chain) /\ Len(chain[at].cgs) = 1
    /\ at' = at + 1
    /\ chain' = [chain EXCEPT ![at].dt = Cont]
    /\ UNCHANGED <<file, flags, reach, sd, cycles, bytes, pc, goal, todo,
                   measured, outcome, calls>>

NextToDG ==
    /\ pc = "toDG" /\ at <= Len(chain) /\ Len(chain[at].cgs) = 1
    /\ at' = at + 1
    /\ UNCHANGED <<file, flags, reach, sortVars, cycles, bytes, pc, goal, todo,
                   measured, outcome, calls>>

\* Both halves of sort() use the data block of a group that has several
\* channel groups without asking whether there is one.
SortCrash ==
    /\ \/ pc = "toSD" /\ IsMove
       \/ pc = "toDG" /\ at <= Len(chain) /\ Len(chain[at].cgs) > 1
    /\ ~IsMultiple(CurrentDT)
    /\ Crash
    /\ UNCHANGED <<file, flags, reach, sortVars, cycles, bytes, loopVars,
                   measured, calls>>

SortDone ==
    /\ pc = "toDG" /\ at > Len(chain)
    /\ IF goal = {} THEN Return("ok") ELSE pc' = "find" /\ UNCHANGED outcome
    /\ UNCHANGED <<file, flags, reach, sortVars, cycles, bytes, loopVars,
                   measured, calls>>

\* findBUSBlock takes the first data group whose only channel group has the
\* name asked for.  Without one an iterator is empty; getCANIterator throws.
IsSortedFor(i, c) == chain[i].cgs = <<c>>
Found == \E i \in DOMAIN chain, c \in goal : IsSortedFor(i, c)

FindBUSBlock ==
    /\ pc = "find"
    /\ Return(IF Found THEN "iterator" ELSE "empty")
    /\ UNCHANGED <<file, flags, reach, sortVars, cycles, bytes, loopVars,
                   measured, calls>>

-----------------------------------------------------------------------------
\* softFinalize_setLengthOfLastDTBlock: the header gets room for one record of
\* the largest size, which may take in several smaller ones and, behind the
\* last of them, what is past the end of the file (not of decoded data, which
\* cannot be sought past its end).
SoftSetLength ==
    /\ pc = "soft"
    /\ IF file.bounded
       THEN Throw /\ UNCHANGED reach
       ELSE /\ reach' \in (IF Log(Len(file.dgs)) = <<>> THEN 0 ELSE 1)
                          ..(Len(Log(Len(file.dgs))) + 1)
            /\ pc' = "measure" /\ UNCHANGED outcome
    /\ UNCHANGED <<file, flags, sortVars, cycles, bytes, loopVars, measured,
                   calls>>

\* Mutant of Targets: the first record of any group will do.
TargetsUntimed == {c \in GroupsIn(chain[at]) : flags = {} => cycles[c] # 0}

\* The groups firstMeasurement() looks for: those with a time master, and on a
\* finalized file a cycle count too.
Targets ==
    {c \in GroupsIn(chain[at]) \cap file.timed : flags = {} => cycles[c] # 0}

\* findFirstMatching is called: on a finalized file only for a group that is
\* not sorted and has targets.
IsWalk ==
    /\ IsMultiple(CurrentDT)
    /\ flags = {} => Len(chain[at].cgs) > 1 /\ Targets # {}

MeasureWalk ==
    /\ pc = "measure" /\ at <= Len(chain) /\ IsWalk
    /\ LET s == chain[at].src
           hits == {k \in 1..Reach(s) :
                      k <= Len(Log(s)) /\ Log(s)[k].id \in Targets}
           n == IF hits = {} THEN Reach(s) ELSE Min(hits) - 1
           ok == Passable(s, n)
       IN /\ chain' = [chain EXCEPT ![at].dt = AddBytes(@, s, ok)]
          /\ IF ok < n
             THEN Throw /\ UNCHANGED <<at, measured>>
             ELSE /\ at' = at + 1
                  /\ measured' = measured \cup
                        {[src |-> s, rec |-> k, framed |-> TRUE] :
                            k \in {j \in hits : j = n + 1}}
                  /\ UNCHANGED <<pc, outcome>>
    /\ UNCHANGED <<file, flags, reach, cycles, bytes, sd, goal, todo, calls>>

\* recordLength of a "subset" block was never set: as an ID length it makes
\* at() throw, or overruns the variable read into, unless it is right by luck.
MeasureUninitialised ==
    /\ pc = "measure" /\ at <= Len(chain) /\ IsWalk
    /\ CurrentDT.kind = "subset"
    /\ Throw \/ Crash
    /\ UNCHANGED <<file, flags, reach, sortVars, cycles, bytes, loopVars,
                   measured, calls>>

\* A sorted group of a finalized file is read at the start of its DT block.
\* With an ID there the record's own group decides how it is read; without,
\* the first byte is taken for the record's.
IsStart == flags = {} /\ Len(chain[at].cgs) = 1 /\ Targets # {}

MeasureStart ==
    /\ pc = "measure" /\ at <= Len(chain) /\ IsStart
    /\ LET dg == chain[at]
           nothing == dg.hasIDs /\ (Log(dg.src) = <<>> \/
                          ~(Log(dg.src)[1].id \in file.timed
                            /\ cycles[Log(dg.src)[1].id] # 0))
       IN IF CurrentDT = NoDT
          THEN Crash /\ UNCHANGED <<at, measured>>
          ELSE /\ at' = at + 1
               /\ measured' = measured \cup
                    IF nothing THEN {}
                    ELSE {[src |-> dg.src, rec |-> 1,
                           framed |-> dg.hasIDs = HasIDs(dg.src)]}
               /\ UNCHANGED <<pc, outcome>>
    /\ UNCHANGED <<file, flags, reach, sortVars, cycles, bytes, goal, todo,
                   calls>>

MeasureSkip ==
    /\ pc = "measure" /\ at <= Len(chain) /\ ~IsWalk /\ ~IsStart
    /\ at' = at + 1
    /\ UNCHANGED <<file, flags, reach, sortVars, cycles, bytes, pc, goal, todo,
                   measured, outcome, calls>>

MeasureDone ==
    /\ pc = "measure" /\ at > Len(chain)
    /\ Return("measured")
    /\ UNCHANGED <<file, flags, reach, sortVars, cycles, bytes, loopVars,
                   measured, calls>>

-----------------------------------------------------------------------------
FinalizeStep == SetLength \/ CountRecords \/ CountDone \/ CountBytes
SortStep == \/ MoveVLSD \/ KeepGroup \/ NextToSD
            \/ SplitGroup \/ NextToDG \/ SortCrash \/ SortDone
MeasureStep == \/ SoftSetLength \/ MeasureWalk \/ MeasureUninitialised
               \/ MeasureStart \/ MeasureSkip \/ MeasureDone
Step == FinalizeStep \/ SortStep \/ FindBUSBlock \/ MeasureStep

Next ==
    \/ CallGetFileInfo
    \/ \E c \in Groups : CallGetIterator(c)
    \/ CallGetFirstMeasurement
    \/ Step

\* A call that was made runs on: the loops wait for nobody.
Spec == Init /\ [][Next]_vars
FairSpec == Spec /\ WF_vars(Step)

-----------------------------------------------------------------------------
(***************************************************************************)
(* What the calls promise.                                                 *)
(***************************************************************************)
TypeOK ==
    /\ FileOK(file)
    /\ flags \subseteq file.flags
    /\ reach \in 0..(Len(Log(Len(file.dgs))) + 1)
    /\ chain # <<>>
    /\ \A i \in DOMAIN chain :
        /\ chain[i].src \in DOMAIN file.dgs
        /\ chain[i].hasIDs \in BOOLEAN
        /\ chain[i].cgs # <<>>
        /\ GroupsIn(chain[i]) \subseteq GroupsIn(file.dgs[chain[i].src])
        /\ DOMAIN chain[i].dt.indices = DOMAIN chain[i].dt.sizes
    /\ cycles \in [Groups -> Nat]
    /\ bytes \in [file.vlsd -> Nat]
    /\ DOMAIN sd \subseteq file.vlsd
    /\ pc \in {"idle", "dead", "length", "count", "bytes", "toSD", "toDG",
              "find", "soft", "measure"}
    /\ goal \subseteq Groups /\ Cardinality(goal) <= 1
    /\ at \in 1..(Len(chain) + 1)
    /\ todo \in Seq(Groups)
    /\ outcome \in {"none", "ok", "iterator", "empty", "measured", "threw",
                   "crashed"}
    /\ calls \in 0..MaxCalls

SourceOf(c) == CHOOSE s \in DOMAIN file.dgs : c \in GroupsIn(file.dgs[s])
AllRecords(c) == RecordsOf(Log(SourceOf(c)), c, Len(Log(SourceOf(c))))
InFile(c) == \E s \in DOMAIN file.dgs : c \in GroupsIn(file.dgs[s])

\* Where the records of group c can be reached from: the data blocks that
\* index it, and the SD block it was moved to.
DTHolders(c) == {i \in DOMAIN chain : c \in DOMAIN chain[i].dt.indices}

Finalized == flags \cap Handled = {}

\* A flag is cleared only when its work is done, for good, whatever threw in
\* between: the last data block then reaches the end of the file, and the
\* counter of every group that shares its data block is the number of its
\* records ("Index the records, to get the correct number for each channel
\* group. Loop over each DG block").  That loop ends at the first data group
\* that is sorted already; a file with one before another that is not has its
\* flags cleared and the counters of the latter left.
FlagsHonest ==
    /\ "length" \in file.flags \ flags => reach = Len(Log(Len(file.dgs)))
    /\ "cycles" \in file.flags \ flags =>
        \A s \in DOMAIN file.dgs : \A c \in GroupsIn(file.dgs[s]) :
            HasIDs(s) => cycles[c] = Len(AllRecords(c))

\* Between two calls, once the file is finalized, every record of a group that
\* shared its data block is still reachable, through one data block or through
\* its SD block, in file order, whatever calls were made or threw.
NothingLost ==
    pc = "idle" /\ Finalized =>
        \A s \in DOMAIN file.dgs : \A c \in GroupsIn(file.dgs[s]) :
            HasIDs(s) =>
                \/ \E i \in DTHolders(c) :
                     chain[i].dt.indices[c] = AllRecords(c)
                \/ c \in DOMAIN sd /\ sd[c] = AllRecords(c)

Linked(c) == \E i \in DOMAIN chain : c \in GroupsIn(chain[i])

\* No record is reachable twice: at no time do two data blocks index the same
\* group, and none indexes a group that was unlinked for its SD block, though
\* both sorts move IDs from one block to another and may throw on the way.
NothingTwice ==
    \A c \in Groups :
        /\ Cardinality(DTHolders(c)) <= 1
        /\ ~Linked(c) => DTHolders(c) = {}

\* Group c stands before group d in a list of data groups: in one before that
\* of d, or in the same one before d.
Precedes(dgs, c, d) ==
    \E i, j \in DOMAIN dgs : \E k \in DOMAIN dgs[i].cgs, l \in DOMAIN dgs[j].cgs :
        /\ dgs[i].cgs[k] = c /\ dgs[j].cgs[l] = d
        /\ i < j \/ (i = j /\ k < l)

\* Sorting divides the data groups and never reorders, duplicates or drops a
\* channel group: along the chain stand the groups of the file, less the
\* variable-length ones that became SD blocks, each once (none precedes itself)
\* and in the order of the file.
GroupsKept ==
    /\ \A c \in Groups :
        /\ Linked(c) => InFile(c)
        /\ InFile(c) => Linked(c) \/ c \in DOMAIN sd
    /\ \A c, d \in Groups : Precedes(chain, c, d) => Precedes(file.dgs, c, d)

\* Every group of fixed size has a time master, as in what loggers write.
AllTimed ==
    \A s \in DOMAIN file.dgs : GroupsIn(file.dgs[s]) \ file.vlsd \subseteq file.timed

\* An iterator covers its group: as many positions as the group has records,
\* each giving the next record of the group in file order, when every group
\* is timed; and then no SD block has records that a data block has too.
IteratorComplete ==
    AllTimed /\ pc = "idle" /\ outcome = "iterator" =>
        /\ \A c \in DOMAIN sd : DTHolders(c) = {}
        /\ \E i \in DOMAIN chain : \E c \in goal :
            /\ IsSortedFor(i, c)
            /\ cycles[c] = Len(AllRecords(c))
            /\ \/ chain[i].dt = Cont
               \/ /\ chain[i].dt.kind = "disc"
                  /\ chain[i].dt.indices[c] = AllRecords(c)

\* Iterators keep working while other calls are made on the file: the data
\* block of a sorted data group is never replaced or written again, nor is its
\* group joined by another or its count changed.
SortedGroupsStay ==
    [][\A i \in DOMAIN chain : chain[i].dt.kind = "disc" =>
        /\ \E j \in DOMAIN chain' : /\ chain'[j].dt = chain[i].dt
                                     /\ chain'[j].cgs = chain[i].cgs
        /\ \A c \in GroupsIn(chain[i]) : cycles'[c] = cycles[c]]_vars

\* "Extract records from the relevant DT blocks until a record from one of the
\* master channels is located": what getFirstMeasurement reads as first records
\* of a file that is still to be finalized are that, each the first one of a
\* group with a time master in its data block and read from where it starts,
\* whatever length the soft finalization made up and whatever was counted before.
MeasuredIsFirst ==
    ~Finalized =>
        \A m \in measured :
            /\ m.framed
            /\ Log(m.src)[m.rec].id \in file.timed
            /\ \A k \in 1..(m.rec - 1) : Log(m.src)[k].id \notin file.timed

\* No sequence of calls on a file with all its groups timed follows a null
\* pointer or reads the length that was never set.
NeverCrashes == AllTimed => pc # "dead"

\* Every call returns or throws.
CallsReturn == pc \notin {"idle", "dead"} ~> pc \in {"idle", "dead"}
=============================================================================
