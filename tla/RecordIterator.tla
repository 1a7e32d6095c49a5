---------------------------- MODULE RecordIterator ----------------------------
(***************************************************************************)
(* Iterators over the records of one channel group: GenericIterator, which *)
(* reads a record when it comes to it, EmptyIterator for a group that is   *)
(* not in the file, and the handle RecordIterator that owns one of them    *)
(* and is copied, moved, set to the beginning and to the end.  Around them *)
(* the loops over them: `for (auto const &record: iterator)' of the        *)
(* exporters and of the data frames, and Python's next().                  *)
(*                                                                         *)
(* A field of a record in memory is the number of the record in the file   *)
(* it was read from, 0 if it was never written; so is each data byte.      *)
(***************************************************************************)
EXTENDS Integers, SequencesExt, RecordTypes

CONSTANTS
    Handles,    \* the RecordIterator objects
    Logs,       \* the groups considered: see LogOK
    Capacity    \* the most data bytes a record has room for

(* A log: the kind of its records; whether findBUSBlock() finds the group;   *)
(* the fields that have a channel; whether the data bytes lie elsewhere (a   *)
(* channel with an SD block) or in the record; and for each record whether   *)
(* the file has all of it, whether its offset is one of the SD block's, the  *)
(* length found there, how many of the data bytes the file has, and its      *)
(* field DataLength.  Every group has a time master, and only LIN data fits   *)
(* into a record.                                                            *)
RecordOK(r) ==
    /\ r.framed \in BOOLEAN /\ r.entry \in BOOLEAN
    /\ r.length \in Nat /\ r.there \in 0..r.length /\ r.shown \in Nat

LogOK(l) ==
    /\ l.kind \in Kinds
    /\ l.found \in BOOLEAN /\ l.elsewhere \in BOOLEAN
    /\ l.channels \subseteq Fields[l.kind] /\ "TimeStamp" \in l.channels
    /\ l.kind = "CAN_DataFrame" /\ "DataBytes" \in l.channels => l.elsewhere
    /\ l.recs \in Seq([framed : BOOLEAN, entry : BOOLEAN, length : Nat,
                       there : Nat, shown : Nat])
    /\ \A i \in 1..Len(l.recs) : RecordOK(l.recs[i])
    /\ ~l.found => l.recs = <<>>

ASSUME RecordIteratorAssumption ==
    /\ Capacity \in Nat
    /\ \A l \in Logs : LogOK(l)

VARIABLES
    log,     \* the group, never written
    it,      \* handle -> its iterator
    sound,   \* history: the handles whose record has been read where they are
    result,  \* what was dereferenced last
    loop,    \* the loop over an iterator that runs, or ran last
    status   \* "running", or "terminated": the process has ended

vars == <<log, it, sound, result, loop, status>>
-----------------------------------------------------------------------------
Start == 0
Stop == Len(log.recs)
Scalars == Fields[log.kind] \ {"DataBytes"}

Record(values, bytes) == [values |-> values, bytes |-> bytes]
Unread == Record([f \in Scalars |-> 0], <<>>)

Iterator(type, current, record) ==
    [type |-> type, current |-> current, record |-> record]
Null == Iterator("null", Start, Unread)
Empty == Iterator("empty", Start, Unread)

\* vector::resize(): what was there stays, what is new is 0.
Resized(bytes, n) == [k \in 1..n |-> IF k <= Len(bytes) THEN bytes[k] ELSE 0]
\* sgetn() over it delivers the bytes the file has.
Filled(bytes, n, i) == [k \in 1..Len(bytes) |-> IF k <= n THEN i ELSE bytes[k]]

HasBytes == "DataBytes" \in log.channels
Truncates == log.kind = "LIN_Frame"

\* The lookup of the offset or the copy of the length throws.
ReferenceThrows(r) == HasBytes /\ log.elsewhere /\ (~r.entry \/ r.length > Capacity)
Throws(r) == ReferenceThrows(r) \/ (Truncates /\ r.shown > Capacity)

\* assign3() for data elsewhere, assign2() for data in the record.
Assigned(bytes, r, i) ==
    IF ~HasBytes \/ ReferenceThrows(r) THEN bytes
    ELSE IF log.elsewhere THEN Filled(Resized(bytes, r.length), r.there, i)
    ELSE [k \in 1..Capacity |-> i]

\* mapDataToRecord(), where the record is all there: fields without a channel
\* keep what they have, and the data bytes come last.
Read(record, i) ==
    LET r == log.recs[i]
        bytes == Assigned(record.bytes, r, i)
    IN  Record([f \in Scalars |-> IF f \in log.channels THEN i ELSE record.values[f]],
               IF Truncates /\ ~Throws(r) THEN Resized(bytes, r.shown) ELSE bytes)

\* A short read of the record: `throw;' with nothing to throw again.
Cut(i) == ~log.recs[i].framed
Fails(i) == Throws(log.recs[i])

At(iter, current) == [iter EXCEPT !.current = current]

\* increment(): at the end nothing happens, and on the way to it nothing is read.
Reads(iter) == iter.type = "generic" /\ iter.current + 1 < Stop
\* Mutant of Incremented: one step goes past the end.
IncrementedPast(iter) ==
    IF iter.type = "generic"
    THEN Iterator("generic", iter.current + 1,
                  IF Reads(iter) THEN Read(iter.record, iter.current + 2)
                  ELSE iter.record)
    ELSE iter
\* Mutant of Incremented: the record is read before the position is moved.
IncrementedAfter(iter) ==
    IF iter.type = "generic" /\ iter.current < Stop
    THEN Iterator("generic", iter.current + 1,
                  IF Reads(iter) THEN Read(iter.record, iter.current + 1)
                  ELSE iter.record)
    ELSE iter

Incremented(iter) ==
    IF iter.type = "generic" /\ iter.current < Stop
    THEN Iterator("generic", iter.current + 1,
                  IF Reads(iter) THEN Read(iter.record, iter.current + 2)
                  ELSE iter.record)
    ELSE iter

\* equals(): only the positions are compared, and two empty ones are equal.
Same(a, b) == a.type = b.type /\ (a.type = "generic" => a.current = b.current)

BeginOf(iter) == IF iter.type = "generic" THEN At(iter, Start) ELSE iter
EndOf(iter) == IF iter.type = "generic" THEN At(iter, Stop) ELSE iter

NoResult == [what |-> "none", promised |-> FALSE, values |-> <<>>, bytes |-> <<>>]
Shown(values, bytes, promised) ==
    [what |-> "record", promised |-> promised, values |-> values, bytes |-> bytes]

NoLoop == [phase |-> "none", it |-> Null, end |-> Null, rows |-> <<>>,
           sound |-> FALSE, python |-> FALSE, size |-> 0]
Idle == status = "running" /\ loop.phase # "running"

Init ==
    /\ log \in Logs
    /\ it = [h \in Handles |-> Null]
    /\ sound = {}
    /\ result = NoResult
    /\ loop = NoLoop
    /\ status = "running"

Terminate ==
    /\ status' = "terminated"
    /\ UNCHANGED <<log, it, sound, result, loop>>

Become(h, iter, promised) ==
    /\ it' = [it EXCEPT ![h] = iter]
    /\ sound' = IF promised THEN sound \cup {h} ELSE sound \ {h}
    /\ result' = NoResult
    /\ UNCHANGED <<log, loop, status>>
-----------------------------------------------------------------------------
\* A getter makes the iterator, which reads its first record, and hands it
\* over; without a group there is an empty one, or for CAN data frames an
\* exception.
Fresh == IF log.found
         THEN Iterator("generic", Start, IF Stop > 0 THEN Read(Unread, 1) ELSE Unread)
         ELSE Empty
GetterThrows == IF log.found THEN Stop > 0 /\ ~Cut(1) /\ Fails(1)
                ELSE log.kind = "CAN_DataFrame"
GetterEnds == Stop > 0 /\ Cut(1)

GetIterator(h) ==
    /\ Idle
    /\ \/ GetterEnds /\ Terminate
       \/ ~GetterEnds /\ ~GetterThrows /\ Become(h, Fresh, TRUE)

\* The default constructor, and RecordIterator's move assignment.
MakeNull(h) == Idle /\ Become(h, Null, FALSE)

\* Dereferences the null pointer of a handle that was never set or moved from.
OnNull(h) == Idle /\ it[h].type = "null" /\ Terminate

MoveFrom(g, h) ==
    /\ Idle /\ g # h /\ it[g].type # "null"
    /\ it' = [it EXCEPT ![h] = it[g], ![g] = Null]
    /\ sound' = (IF g \in sound THEN sound \cup {h} ELSE sound \ {h}) \ {g}
    /\ result' = NoResult
    /\ UNCHANGED <<log, loop, status>>

CopyOf(g, h) ==
    /\ Idle /\ it[g].type # "null"
    /\ Become(h, it[g], g \in sound)

\* The copy is set back, its record stays.
Begin(g, h) ==
    /\ Idle /\ it[g].type # "null"
    /\ Become(h, BeginOf(it[g]), g \in sound /\ it[g].current = Start)

End(g, h) ==
    /\ Idle /\ it[g].type # "null"
    /\ Become(h, EndOf(it[g]), TRUE)

\* Moving on reads the record come to; what throws there has moved already.
NextIn(iter) == iter.current + 2
Increment(h) ==
    /\ Idle /\ it[h].type # "null"
    /\ IF Reads(it[h]) /\ Cut(NextIn(it[h]))
       THEN Terminate
       ELSE Become(h, Incremented(it[h]),
                   IF Reads(it[h]) THEN ~Fails(NextIn(it[h])) ELSE h \in sound)

Dereference(h) ==
    /\ Idle /\ it[h].type # "null"
    /\ IF it[h].type = "empty"
       THEN Terminate
       ELSE /\ result' = Shown(it[h].record.values, it[h].record.bytes,
                               h \in sound /\ it[h].current < Stop)
            /\ UNCHANGED <<log, it, sound, loop, status>>
-----------------------------------------------------------------------------
(* Python: next() of the iterators get_can_iterator() and the others return. *)
Getter == CHOOSE m \in DOMAIN PythonGetters : PythonGetters[m].kind = log.kind
Attributes == PythonGetters[Getter].makes

\* The attributes of the object made of a record: 0 for what it lists and
\* does not copy, the default of its type.
Attribute(record, f) ==
    IF f \in Attributes.copied \cap Scalars THEN record.values[f] ELSE 0
Wrapped(record, promised) ==
    Shown([f \in Attributes.listed \ {"DataBytes"} |-> Attribute(record, f)],
          IF "DataBytes" \in Attributes.copied THEN record.bytes ELSE <<>>,
          promised)

AtEnd(h) == Same(it[h], EndOf(it[h]))

\* Mutant of PythonNext: moves on before it takes the record.
PythonNextPrefix(h) ==
    /\ Idle /\ it[h].type # "null" /\ ~AtEnd(h)
    /\ ~(Reads(it[h]) /\ (Cut(NextIn(it[h])) \/ Fails(NextIn(it[h]))))
    /\ it' = [it EXCEPT ![h] = Incremented(it[h])]
    /\ sound' = IF Reads(it[h]) THEN sound \cup {h} ELSE sound
    /\ result' = Wrapped(Incremented(it[h]).record, h \in sound)
    /\ UNCHANGED <<log, loop, status>>

\* The object is made of the record `*it++' left behind; but that is after
\* the next one was read, and an exception from there ends in C code.
PythonNext(h) ==
    /\ Idle /\ it[h].type # "null" /\ ~AtEnd(h)
    /\ IF Reads(it[h]) /\ (Cut(NextIn(it[h])) \/ Fails(NextIn(it[h])))
       THEN Terminate
       ELSE /\ it' = [it EXCEPT ![h] = Incremented(it[h])]
            /\ sound' = IF Reads(it[h]) THEN sound \cup {h} ELSE sound
            /\ result' = Wrapped(it[h].record, h \in sound)
            /\ UNCHANGED <<log, loop, status>>

PythonStop(h) ==
    /\ Idle /\ it[h].type # "null" /\ AtEnd(h)
    /\ result' = NoResult
    /\ UNCHANGED <<log, it, sound, loop, status>>
-----------------------------------------------------------------------------
(* for (auto const &record: iterator): from begin() to end().                *)
Enter(iter, promised, python, size) ==
    /\ loop' = [phase |-> "running", it |-> BeginOf(iter), end |-> EndOf(iter),
                rows |-> <<>>, sound |-> promised /\ iter.current = Start,
                python |-> python, size |-> size]
    /\ result' = NoResult
    /\ UNCHANGED <<log, it, sound, status>>

StartLoop(h) ==
    /\ Idle /\ it[h].type # "null"
    /\ Enter(it[h], h \in sound, FALSE, 0)

\* get_data_frame() and get_data_frame_lin(): an iterator of its own, and
\* columns with a row for each of the messages getFileInfo() has counted, those
\* of the same group.  An array of the wrong type raises an exception.
StartFrame ==
    /\ Idle /\ log.kind \in FrameKinds
    /\ \A f \in DOMAIN FrameColumns[log.kind] : PointerGiven(FrameColumns[log.kind][f])
    /\ \/ GetterEnds /\ Terminate
       \/ ~GetterEnds /\ ~GetterThrows /\ Enter(Fresh, TRUE, TRUE, Stop)

\* Mutant of LoopBody: it moves on before it uses the record.
LoopBodyAfter ==
    /\ status = "running" /\ loop.phase = "running" /\ ~Same(loop.it, loop.end)
    /\ ~(Reads(loop.it) /\ (Cut(NextIn(loop.it)) \/ Fails(NextIn(loop.it))))
    /\ loop' = [loop EXCEPT !.rows = Append(@, Incremented(loop.it).record),
                           !.it = Incremented(@)]
    /\ UNCHANGED <<log, it, sound, result, status>>
\* Mutant of LoopBody: a record that throws is tried again.
LoopBodyRetried ==
    /\ status = "running" /\ loop.phase = "running" /\ ~Same(loop.it, loop.end)
    /\ IF Reads(loop.it) /\ Fails(NextIn(loop.it))
       THEN UNCHANGED vars
       ELSE /\ loop' = [loop EXCEPT !.rows = Append(@, loop.it.record),
                                   !.it = Incremented(@)]
            /\ UNCHANGED <<log, it, sound, result, status>>

\* One turn of it.  What throws in the loop leaves convert(), or ends in C
\* code where the loop fills a data frame.
LoopBody ==
    /\ status = "running" /\ loop.phase = "running" /\ ~Same(loop.it, loop.end)
    /\ LET i == NextIn(loop.it)
       IN  IF Reads(loop.it) /\ (Cut(i) \/ (Fails(i) /\ loop.python))
           THEN Terminate
           ELSE /\ loop' = [loop EXCEPT
                        !.rows = Append(@, loop.it.record),
                        !.it = Incremented(@),
                        !.phase = IF Reads(loop.it) /\ Fails(i) THEN "threw" ELSE @]
                /\ UNCHANGED <<log, it, sound, result, status>>

LoopDone ==
    /\ status = "running" /\ loop.phase = "running" /\ Same(loop.it, loop.end)
    /\ loop' = [loop EXCEPT !.phase = "done"]
    /\ UNCHANGED <<log, it, sound, result, status>>
-----------------------------------------------------------------------------
LoopStep == LoopBody \/ LoopDone

Next ==
    \/ \E h \in Handles : GetIterator(h)
    \/ \E h \in Handles : MakeNull(h)
    \/ \E h \in Handles : OnNull(h)
    \/ \E g, h \in Handles : MoveFrom(g, h)
    \/ \E g, h \in Handles : CopyOf(g, h)
    \/ \E g, h \in Handles : Begin(g, h)
    \/ \E g, h \in Handles : End(g, h)
    \/ \E h \in Handles : Increment(h)
    \/ \E h \in Handles : Dereference(h)
    \/ \E h \in Handles : PythonNext(h)
    \/ \E h \in Handles : PythonStop(h)
    \/ \E h \in Handles : StartLoop(h)
    \/ StartFrame
    \/ LoopStep

Spec == Init /\ [][Next]_vars
\* A loop that runs is the only thing that does, until it ends.
FairSpec == Spec /\ WF_vars(LoopStep)
-----------------------------------------------------------------------------
Places == 0..Stop
RecordType == [values : [Scalars -> Places], bytes : Seq(Places)]
IteratorType ==
    [type : {"null", "empty", "generic"}, current : Places, record : RecordType]

TypeOK ==
    /\ log \in Logs
    /\ it \in [Handles -> IteratorType]
    /\ \A h \in Handles : ~log.found => it[h].type # "generic"
    /\ sound \subseteq Handles
    /\ loop.phase \in {"none", "running", "done", "threw"}
    /\ loop.it \in IteratorType /\ loop.end \in IteratorType
    /\ loop.rows \in Seq(RecordType)
    /\ loop.sound \in BOOLEAN /\ loop.python \in BOOLEAN
    /\ status \in {"running", "terminated"}

\* What is in memory is record i of the file: every field that has a channel
\* is its, the data is as long as the file says, and of the data bytes those
\* that are in the file are its own.  (Those cut off are whatever an earlier
\* record left there.)
LengthOf(r) == IF Truncates THEN r.shown
               ELSE IF ~HasBytes THEN 0
               ELSE IF log.elsewhere THEN r.length ELSE Capacity
InFile(r) == IF ~HasBytes THEN 0 ELSE IF log.elsewhere THEN r.there ELSE Capacity
Owns(record, i) ==
    /\ \A f \in Scalars \cap log.channels : record.values[f] = i
    /\ Len(record.bytes) = LengthOf(log.recs[i])
    /\ \A k \in 1..Len(record.bytes) : k <= InFile(log.recs[i]) => record.bytes[k] = i

\* A handle before the end holds the record it is at, however it was copied,
\* moved and moved on, alone or with others over the same caches; except for
\* begin() of one that had moved, until it moves on.  (GenericIterator.cpp
\* 164-218, Assign.h 92-107)
RecordIsOwn ==
    \A h \in sound :
        it[h].type = "generic" /\ it[h].current < Stop =>
            Owns(it[h].record, it[h].current + 1)

\* A loop over an iterator that nobody moved before has been given every
\* record of the group once and in order when it is done, and those up to the
\* one that threw when it is not; a data frame has as many rows.
PassComplete ==
    loop.sound =>
        /\ \A i \in 1..Len(loop.rows) : Owns(loop.rows[i], i)
        /\ loop.phase = "done" =>
               Len(loop.rows) = Stop /\ (loop.python => loop.size = Stop)
        /\ loop.phase = "threw" => Fails(Len(loop.rows) + 1)

\* A loop ends: it meets its end, an exception, or the end of the process.
PassEnds == loop.phase = "running" ~> (loop.phase # "running" \/ status = "terminated")

\* Handles are cursors over the records of the group.  (GenericIterator.cpp,
\* RecordIterator.cpp, EmptyIterator.cpp, and next() of the Python iterators)
Cursors == INSTANCE Cursor WITH
    length <- Stop,
    at <- [h \in Handles |->
              IF it[h].type = "null" THEN -1
              ELSE IF it[h].type = "empty" THEN 0 ELSE it[h].current],
    sure <- sound,
    told <- IF result.what = "record" /\ result.promised
            THEN result.values["TimeStamp"] ELSE 0
LooksLikeACursor == Cursors!Spec
=============================================================================
