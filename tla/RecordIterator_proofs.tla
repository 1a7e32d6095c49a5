------------------------ MODULE RecordIterator_proofs ------------------------
(***************************************************************************)
(* Proofs about RecordIterator, for groups of any number of records, whole *)
(* and damaged, and any number of handles.                                 *)
(***************************************************************************)
EXTENDS RecordIterator, TLAPS

-----------------------------------------------------------------------------
(* Facts about logs and records.                                             *)

\* What the assumption says of the group in use.
LEMMA LogFacts ==
    ASSUME log \in Logs
    PROVE  /\ Capacity \in Nat /\ Stop \in Nat
           /\ log.kind \in Kinds
           /\ log.channels \subseteq Fields[log.kind]
           /\ "TimeStamp" \in log.channels /\ "TimeStamp" \in Scalars
           /\ ~log.found => Stop = 0
           /\ \A i \in 1..Stop :
                log.recs[i].length \in Nat /\ log.recs[i].shown \in Nat
                /\ log.recs[i].there \in 0..log.recs[i].length
<1>1. LogOK(log) /\ Capacity \in Nat
  BY RecordIteratorAssumption
<1>2. log.recs \in Seq([framed : BOOLEAN, entry : BOOLEAN, length : Nat,
                        there : Nat, shown : Nat])
  BY <1>1 DEF LogOK
<1>3. Stop \in Nat
  BY <1>2 DEF Stop
<1>4. "TimeStamp" \in Fields[log.kind] \ {"DataBytes"}
  BY <1>1 DEF LogOK
<1>5. ~log.found => Stop = 0
  BY <1>1 DEF LogOK, Stop
<1>6. \A i \in 1..Stop :
        log.recs[i].length \in Nat /\ log.recs[i].shown \in Nat
        /\ log.recs[i].there \in 0..log.recs[i].length
  BY <1>1 DEF LogOK, Stop, RecordOK
<1> QED
  BY <1>1, <1>3, <1>4, <1>5, <1>6 DEF LogOK, Scalars

\* A function on 1..n is a sequence.
LEMMA FunctionIsSeq ==
    ASSUME NEW S, NEW n \in Nat, NEW f \in [1..n -> S]
    PROVE  f \in Seq(S) /\ Len(f) = n
OBVIOUS

\* vector::resize() keeps what was there, and makes it as long as it was told.
LEMMA ResizedIs ==
    ASSUME log \in Logs, NEW bytes \in Seq(Places), NEW n \in Nat
    PROVE  /\ Resized(bytes, n) \in Seq(Places) /\ Len(Resized(bytes, n)) = n
           /\ \A k \in 1..n : k <= Len(bytes) => Resized(bytes, n)[k] = bytes[k]
<1>1. 0 \in Places
  BY LogFacts DEF Places
<1>2. \A k \in 1..n : k <= Len(bytes) => bytes[k] \in Places
  OBVIOUS
<1>3. Resized(bytes, n) \in [1..n -> Places]
  BY <1>1, <1>2 DEF Resized
<1>4. \A k \in 1..n : k <= Len(bytes) => Resized(bytes, n)[k] = bytes[k]
  BY DEF Resized
<1> QED
  BY <1>3, <1>4, FunctionIsSeq

\* What the file has of the bytes is the record's own.
LEMMA FilledIs ==
    ASSUME log \in Logs, NEW bytes \in Seq(Places), NEW n \in Nat, NEW i \in Places
    PROVE  /\ Filled(bytes, n, i) \in Seq(Places)
           /\ Len(Filled(bytes, n, i)) = Len(bytes)
           /\ \A k \in 1..Len(bytes) : k <= n => Filled(bytes, n, i)[k] = i
<1>1. \A k \in 1..Len(bytes) : bytes[k] \in Places
  OBVIOUS
<1>2. Filled(bytes, n, i) \in [1..Len(bytes) -> Places]
  BY <1>1 DEF Filled
<1>3. \A k \in 1..Len(bytes) : k <= n => Filled(bytes, n, i)[k] = i
  BY DEF Filled
<1> QED
  BY <1>2, <1>3, FunctionIsSeq

\* The data bytes after assign2() or assign3(), when neither throws: as many as
\* the file says, and the record's own as far as the file has them.
LEMMA AssignedIs ==
    ASSUME log \in Logs, NEW bytes \in Seq(Places), NEW i \in 1..Stop
    PROVE  LET r == log.recs[i]
               new == Assigned(bytes, r, i)
           IN /\ new \in Seq(Places)
              /\ ~HasBytes => new = bytes
              /\ HasBytes /\ ~ReferenceThrows(r) =>
                    /\ Len(new) = IF log.elsewhere THEN r.length ELSE Capacity
                    /\ \A k \in 1..Len(new) : k <= InFile(r) => new[k] = i
<1> DEFINE r == log.recs[i]
           new == Assigned(bytes, r, i)
<1>1. i \in Places /\ r.length \in Nat /\ r.there \in Nat /\ Capacity \in Nat
  BY LogFacts DEF Places
<1>2. CASE ~HasBytes \/ ReferenceThrows(r)
  BY <1>2 DEF Assigned
<1>3. CASE HasBytes /\ ~ReferenceThrows(r) /\ log.elsewhere
  <2> DEFINE mid == Resized(bytes, r.length)
             filled == Filled(mid, r.there, i)
  <2>1. new = filled
    BY <1>3 DEF Assigned
  <2>2. mid \in Seq(Places) /\ Len(mid) = r.length
    BY <1>1, ResizedIs
  <2> HIDE DEF mid
  <2>3. /\ filled \in Seq(Places) /\ Len(filled) = Len(mid)
        /\ \A k \in 1..Len(mid) : k <= r.there => filled[k] = i
    BY <1>1, <2>2, FilledIs
  <2>4. InFile(r) = r.there
    BY <1>3 DEF InFile
  <2> HIDE DEF filled, new
  <2>5. Len(new) = r.length /\ \A k \in 1..Len(new) : k <= InFile(r) => new[k] = i
    BY <2>1, <2>2, <2>3, <2>4
  <2> QED
    BY <1>3, <2>1, <2>3, <2>5 DEF new
<1>4. CASE HasBytes /\ ~ReferenceThrows(r) /\ ~log.elsewhere
  <2>1. new = [k \in 1..Capacity |-> i]
    BY <1>4 DEF Assigned
  <2>2. new \in [1..Capacity -> Places]
    BY <1>1, <2>1
  <2>3. new \in Seq(Places) /\ Len(new) = Capacity
    BY <1>1, <2>2, FunctionIsSeq
  <2> QED
    BY <1>1, <1>4, <2>1, <2>3
<1> QED
  BY <1>2, <1>3, <1>4

\* A record of a group without a channel of data bytes has none.
Bare(record) == ~HasBytes /\ ~Truncates => record.bytes = <<>>

\* Reading a record makes memory that of the record, unless it throws.
LEMMA ReadIs ==
    ASSUME log \in Logs, NEW record \in RecordType, Bare(record), NEW i \in 1..Stop
    PROVE  /\ Read(record, i) \in RecordType /\ Bare(Read(record, i))
           /\ ~Fails(i) => Owns(Read(record, i), i)
<1> DEFINE r == log.recs[i]
           bytes == Assigned(record.bytes, r, i)
           read == Read(record, i)
           values == [f \in Scalars |-> IF f \in log.channels THEN i
                                        ELSE record.values[f]]
           kept == IF Truncates /\ ~Throws(r) THEN Resized(bytes, r.shown) ELSE bytes
<1>1. i \in Places /\ r.length \in Nat /\ r.there \in 0..r.length /\ r.shown \in Nat
      /\ Capacity \in Nat
  BY LogFacts DEF Places
<1>2. record.values \in [Scalars -> Places] /\ record.bytes \in Seq(Places)
  BY DEF RecordType
<1>3. /\ bytes \in Seq(Places)
      /\ ~HasBytes => bytes = record.bytes
      /\ HasBytes /\ ~ReferenceThrows(r) =>
            /\ Len(bytes) = IF log.elsewhere THEN r.length ELSE Capacity
            /\ \A k \in 1..Len(bytes) : k <= InFile(r) => bytes[k] = i
  BY <1>2, AssignedIs
<1>4. read = [values |-> values, bytes |-> kept]
  BY DEF Read, Record
<1>5. values \in [Scalars -> Places]
  BY <1>1, <1>2
<1> HIDE DEF bytes
<1>6. /\ Resized(bytes, r.shown) \in Seq(Places) /\ Len(Resized(bytes, r.shown)) = r.shown
      /\ \A k \in 1..r.shown : k <= Len(bytes) => Resized(bytes, r.shown)[k] = bytes[k]
  BY <1>1, <1>3, ResizedIs
<1>7. kept \in Seq(Places)
  BY <1>3, <1>6
<1>8. Bare(read)
  BY <1>3, <1>4 DEF Bare
<1>9. ASSUME ~Fails(i)
      PROVE  /\ Len(kept) = LengthOf(r)
             /\ \A k \in 1..Len(kept) : k <= InFile(r) => kept[k] = i
  <2>1. ~Throws(r) /\ ~ReferenceThrows(r)
    BY <1>9 DEF Fails, Throws
  <2>2. CASE Truncates
    <3>1. kept = Resized(bytes, r.shown) /\ r.shown <= Capacity
      BY <1>1, <2>1, <2>2 DEF Throws
    <3>2. InFile(r) \in Nat /\ (~HasBytes => InFile(r) = 0)
      BY <1>1 DEF InFile
    <3>3. HasBytes => (IF log.elsewhere THEN InFile(r) <= r.length ELSE InFile(r) = Capacity)
      BY <1>1 DEF InFile
    <3>4. Len(kept) = r.shown /\ LengthOf(r) = r.shown
      BY <1>6, <2>2, <3>1 DEF LengthOf
    <3>5. ASSUME NEW k \in 1..r.shown, k <= InFile(r) PROVE kept[k] = i
      <4>1. HasBytes
        BY <1>1, <3>2, <3>5
      <4>2. k \in 1..Len(bytes)
        BY <1>1, <1>3, <2>1, <3>1, <3>2, <3>3, <3>5, <4>1
      <4> QED
        BY <1>3, <1>6, <2>1, <3>1, <3>5, <4>1, <4>2
    <3> QED
      BY <3>4, <3>5
  <2>3. CASE ~Truncates /\ HasBytes
    BY <1>3, <2>1, <2>3 DEF LengthOf
  <2>4. CASE ~Truncates /\ ~HasBytes
    BY <1>3, <2>4 DEF LengthOf, Bare
  <2> QED
    BY <2>2, <2>3, <2>4
<1>10. \A f \in Scalars \cap log.channels : values[f] = i
  OBVIOUS
<1> HIDE DEF kept, values
<1> QED
  BY <1>4, <1>5, <1>7, <1>8, <1>9, <1>10 DEF RecordType, Owns

-----------------------------------------------------------------------------
(* Iterators: what is true of each, and what is true of one that nobody set  *)
(* back after it had moved.                                                  *)

Sane(iter) ==
    /\ iter \in IteratorType
    /\ Bare(iter.record)
    /\ iter.type = "empty" => Stop = 0
    /\ iter.type = "generic" => log.found

Own(iter) ==
    iter.type = "generic" /\ iter.current < Stop => Owns(iter.record, iter.current + 1)

\* Iterators over nothing are at the start of it.
LEMMA IteratorFacts ==
    ASSUME log \in Logs, NEW iter, Sane(iter)
    PROVE  /\ iter.current \in 0..Stop /\ Stop \in Nat /\ iter.record \in RecordType
           /\ iter.type \in {"null", "empty", "generic"}
           /\ iter.type = "empty" => iter.current = 0
           /\ NextIn(iter) - 1 = iter.current + 1
<1>1. iter.current \in 0..Stop /\ iter.record \in RecordType
      /\ iter.type \in {"null", "empty", "generic"}
  BY DEF Sane, IteratorType, Places
<1>2. Stop \in Nat
  BY LogFacts
<1> QED
  BY <1>1, <1>2 DEF Sane, NextIn

\* Memory nothing was read into.
LEMMA UnreadIs ==
    ASSUME log \in Logs
    PROVE  Unread \in RecordType /\ Bare(Unread)
<1>1. 0 \in Places
  BY LogFacts DEF Places
<1>2. [f \in Scalars |-> 0] \in [Scalars -> Places]
  BY <1>1
<1> QED
  BY <1>2 DEF Unread, Record, RecordType, Bare

\* An iterator put together from a place and a record.
LEMMA IteratorIs ==
    ASSUME log \in Logs, NEW type \in {"null", "empty", "generic"},
           NEW current \in 0..Stop, NEW record \in RecordType, Bare(record),
           type = "empty" => Stop = 0, type = "generic" => log.found
    PROVE  /\ Sane(Iterator(type, current, record))
           /\ Iterator(type, current, record).type = type
           /\ Iterator(type, current, record).current = current
           /\ Iterator(type, current, record).record = record
BY DEF Iterator, Sane, IteratorType, Places

LEMMA NullIs ==
    ASSUME log \in Logs
    PROVE  Sane(Null) /\ Own(Null) /\ Null.type = "null"
<1>1. 0 \in 0..Stop
  BY LogFacts
<1> QED
  BY <1>1, UnreadIs, IteratorIs DEF Null, Own, Start

\* A new iterator holds the first record, if there is one to be had.
LEMMA FreshIs ==
    ASSUME log \in Logs
    PROVE  /\ Sane(Fresh) /\ Fresh.type \in {"empty", "generic"}
           /\ Fresh.current = 0
           /\ ~GetterEnds /\ ~GetterThrows => Own(Fresh)
<1>1. 0 \in 0..Stop /\ Stop \in Nat /\ (~log.found => Stop = 0)
  BY LogFacts
<1>2. CASE ~log.found
  <2>1. Fresh = Iterator("empty", 0, Unread)
    BY <1>2 DEF Fresh, Empty, Start
  <2> QED
    BY <1>1, <1>2, <2>1, UnreadIs, IteratorIs DEF Own
<1>3. CASE log.found
  <2> DEFINE record == IF Stop > 0 THEN Read(Unread, 1) ELSE Unread
  <2>1. Fresh = Iterator("generic", 0, record)
    BY <1>3 DEF Fresh, Start
  <2>2. Stop > 0 => 1 \in 1..Stop
    BY <1>1
  <2>3. record \in RecordType /\ Bare(record)
    BY <2>2, UnreadIs, ReadIs
  <2>4. Stop > 0 /\ ~Fails(1) => Owns(record, 1)
    BY <2>2, UnreadIs, ReadIs
  <2> HIDE DEF record
  <2>5. Sane(Fresh) /\ Fresh.type = "generic" /\ Fresh.current = 0 /\ Fresh.record = record
    BY <1>1, <1>3, <2>1, <2>3, IteratorIs
  <2>6. ~GetterEnds /\ ~GetterThrows => (Stop > 0 => ~Fails(1))
    BY <1>3 DEF GetterEnds, GetterThrows
  <2> QED
    BY <1>1, <2>4, <2>5, <2>6 DEF Own
<1> QED
  BY <1>2, <1>3

\* Setting an iterator to a place leaves its record.
LEMMA AtIs ==
    ASSUME log \in Logs, NEW iter, Sane(iter), NEW current \in 0..Stop
    PROVE  /\ Sane(At(iter, current)) /\ At(iter, current).type = iter.type
           /\ At(iter, current).current = current
           /\ At(iter, current).record = iter.record
BY DEF At, Sane, IteratorType, Places

LEMMA BeginIs ==
    ASSUME log \in Logs, NEW iter, Sane(iter)
    PROVE  /\ Sane(BeginOf(iter)) /\ BeginOf(iter).type = iter.type
           /\ iter.type # "null" => BeginOf(iter).current = 0
           /\ Own(iter) /\ iter.current = Start => Own(BeginOf(iter))
<1>1. 0 \in 0..Stop
  BY LogFacts
<1>2. CASE iter.type = "generic"
  <2>1. BeginOf(iter) = At(iter, 0)
    BY <1>2 DEF BeginOf, Start
  <2> QED
    BY <1>1, <1>2, <2>1, AtIs DEF Own, Start
<1>3. CASE iter.type # "generic"
  BY <1>3, IteratorFacts DEF BeginOf
<1> QED
  BY <1>2, <1>3

LEMMA EndIs ==
    ASSUME log \in Logs, NEW iter, Sane(iter)
    PROVE  /\ Sane(EndOf(iter)) /\ EndOf(iter).type = iter.type
           /\ iter.type # "null" => EndOf(iter).current = Stop
           /\ Own(EndOf(iter))
<1>1. Stop \in 0..Stop /\ Stop \in Nat
  BY LogFacts
<1>2. CASE iter.type = "generic"
  <2>1. EndOf(iter) = At(iter, Stop)
    BY <1>2 DEF EndOf
  <2> QED
    BY <1>1, <1>2, <2>1, AtIs DEF Own
<1>3. CASE iter.type # "generic"
  BY <1>3, IteratorFacts DEF EndOf, Sane, Own
<1> QED
  BY <1>2, <1>3

\* Moving on: one place further, unless at the end, and with the record of it.
LEMMA IncrementedIs ==
    ASSUME log \in Logs, NEW iter, Sane(iter)
    PROVE  /\ Sane(Incremented(iter)) /\ Incremented(iter).type = iter.type
           /\ iter.type # "null" =>
                Incremented(iter).current =
                    IF iter.current < Stop THEN iter.current + 1 ELSE iter.current
           /\ iter.type = "null" => Incremented(iter) = iter
           /\ Reads(iter) /\ ~Fails(NextIn(iter)) => Own(Incremented(iter))
           /\ ~Reads(iter) /\ Own(iter) => Own(Incremented(iter))
           /\ Reads(iter) => iter.current < Stop
<1>1. /\ iter.current \in 0..Stop /\ Stop \in Nat /\ iter.record \in RecordType
      /\ iter.type \in {"null", "empty", "generic"}
      /\ iter.type = "empty" => iter.current = 0
  BY IteratorFacts
<1>2. CASE iter.type = "generic" /\ iter.current < Stop
  <2> DEFINE record == IF Reads(iter) THEN Read(iter.record, iter.current + 2)
                       ELSE iter.record
  <2>1. Incremented(iter) = Iterator("generic", iter.current + 1, record)
    BY <1>2 DEF Incremented
  <2>2. Reads(iter) <=> iter.current + 1 < Stop
    BY <1>2 DEF Reads
  <2>3. Reads(iter) => iter.current + 2 \in 1..Stop
    BY <1>1, <2>2
  <2>4. /\ record \in RecordType /\ Bare(record)
        /\ Reads(iter) /\ ~Fails(iter.current + 2) => Owns(record, iter.current + 2)
    BY <1>1, <2>3, ReadIs DEF Sane
  <2> HIDE DEF record
  <2>5. iter.current + 1 \in 0..Stop /\ log.found
    BY <1>1, <1>2 DEF Sane
  <2>6. /\ Sane(Incremented(iter)) /\ Incremented(iter).type = "generic"
        /\ Incremented(iter).current = iter.current + 1
        /\ Incremented(iter).record = record
    BY <2>1, <2>4, <2>5, IteratorIs
  <2>7. iter.current + 1 + 1 = iter.current + 2
    BY <1>1
  <2>8. Reads(iter) /\ ~Fails(NextIn(iter)) => Own(Incremented(iter))
    BY <2>4, <2>6, <2>7 DEF Own, NextIn
  <2>9. ~Reads(iter) => Own(Incremented(iter))
    BY <2>2, <2>6 DEF Own
  <2> QED
    BY <1>2, <2>6, <2>8, <2>9
<1>3. CASE ~(iter.type = "generic" /\ iter.current < Stop)
  <2>1. Incremented(iter) = iter
    BY <1>3 DEF Incremented
  <2>2. ~Reads(iter)
    BY <1>1, <1>3 DEF Reads
  <2>3. iter.type # "null" => ~(iter.current < Stop)
    BY <1>1, <1>3 DEF Sane
  <2> QED
    BY <2>1, <2>2, <2>3
<1> QED
  BY <1>2, <1>3

\* An iterator that is not at its end has a record of its own still to tell.
LEMMA NotAtEnd ==
    ASSUME log \in Logs, NEW iter, Sane(iter), iter.type # "null", NEW end,
           end.type = iter.type, end.current = Stop
    PROVE  Same(iter, end) <=> iter.current = Stop
<1>1. /\ iter.type \in {"null", "empty", "generic"}
      /\ iter.type = "empty" => iter.current = 0 /\ Stop = 0
  BY IteratorFacts DEF Sane
<1> QED
  BY <1>1 DEF Same

-----------------------------------------------------------------------------
(* The invariant.  Beyond the properties it says that a loop in progress has *)
(* delivered as many records as it has passed, holds its own next, and that   *)
(* its end is the end of the group.                                          *)

HandlesInv(iters, owned) ==
    /\ iters \in [Handles -> IteratorType] /\ owned \subseteq Handles
    /\ \A h \in Handles : Sane(iters[h])
    /\ \A h \in owned : Own(iters[h])

LoopType ==
    [phase : {"none", "running", "done", "threw"}, it : IteratorType,
     end : IteratorType, rows : Seq(RecordType), sound : BOOLEAN,
     python : BOOLEAN, size : Nat]

LoopInv(l) ==
    /\ l \in LoopType /\ Sane(l.it)
    /\ l.python => l.size = Stop
    /\ l.phase = "running" =>
        /\ l.it.type # "null" /\ l.end.type = l.it.type /\ l.end.current = Stop
        /\ Len(l.rows) = l.it.current
        /\ l.sound => Own(l.it)
    /\ l.sound => \A i \in 1..Len(l.rows) : i <= Stop /\ Owns(l.rows[i], i)
    /\ l.phase = "done" => Len(l.rows) = Stop
    /\ l.phase = "threw" => Fails(Len(l.rows) + 1)

Inv ==
    /\ log \in Logs /\ status \in {"running", "terminated"}
    /\ HandlesInv(it, sound)
    /\ LoopInv(loop)

\* Nothing that is said of an iterator changes while the log stays.
LEMMA InvStays ==
    ASSUME log' = log, log \in Logs, status' \in {"running", "terminated"},
           HandlesInv(it', sound'), LoopInv(loop')
    PROVE  Inv'
<1>1. HandlesInv(it, sound)'
  BY DEF HandlesInv, Sane, Own, Bare, IteratorType, RecordType, Places, Scalars, Stop,
         HasBytes, Truncates, Owns, LengthOf, InFile
<1>2. LoopInv(loop)'
  BY DEF LoopInv, LoopType, Sane, Own, Bare, IteratorType, RecordType, Places, Scalars,
         Stop, HasBytes, Truncates, Owns, LengthOf, InFile, Fails, Throws, ReferenceThrows
<1> QED
  BY <1>1, <1>2 DEF Inv

\* One handle's iterator replaced.
LEMMA HandleSet ==
    ASSUME log \in Logs, HandlesInv(it, sound), NEW h \in Handles, NEW iter,
           Sane(iter), NEW promised, promised => Own(iter)
    PROVE  HandlesInv([it EXCEPT ![h] = iter],
                      IF promised THEN sound \cup {h} ELSE sound \ {h})
BY DEF HandlesInv, Sane

LEMMA BecomeKeeps ==
    ASSUME Inv, NEW h \in Handles, NEW iter, Sane(iter), NEW promised,
           promised => Own(iter), Become(h, iter, promised)
    PROVE  Inv'
<1>1. log \in Logs /\ HandlesInv(it, sound) /\ LoopInv(loop)
  BY DEF Inv
<1>2. HandlesInv(it', sound')
  BY <1>1, HandleSet DEF Become
<1> QED
  BY <1>1, <1>2, InvStays DEF Become, Inv

LEMMA TerminateKeeps ==
    ASSUME Inv, Terminate
    PROVE  Inv'
<1>1. HandlesInv(it', sound') /\ LoopInv(loop')
  BY DEF Inv, Terminate
<1> QED
  BY <1>1, InvStays DEF Inv, Terminate

\* Nothing but the record told last changes.
LEMMA ResultKeeps ==
    ASSUME Inv, UNCHANGED <<log, it, sound, loop, status>>
    PROVE  Inv'
<1>1. HandlesInv(it', sound') /\ LoopInv(loop')
  BY DEF Inv
<1> QED
  BY <1>1, InvStays DEF Inv

\* A loop starts with nothing delivered, from the beginning.
LEMMA EnterKeeps ==
    ASSUME Inv, NEW iter, Sane(iter), iter.type # "null",
           NEW promised, promised => Own(iter),
           NEW python \in BOOLEAN, NEW size \in Nat, python => size = Stop,
           Enter(iter, promised, python, size)
    PROVE  Inv'
<1>1. log \in Logs /\ HandlesInv(it, sound)
  BY DEF Inv
<1> DEFINE first == BeginOf(iter)
           last == EndOf(iter)
           starts == promised /\ iter.current = Start
<1>2. /\ Sane(first) /\ first.type = iter.type /\ first.current = 0
      /\ starts => Own(first)
  BY <1>1, BeginIs
<1>3. Sane(last) /\ last.type = iter.type /\ last.current = Stop
  BY <1>1, EndIs
<1>4. loop' = [phase |-> "running", it |-> first, end |-> last, rows |-> <<>>,
               sound |-> starts, python |-> python, size |-> size]
  BY DEF Enter
<1>5. starts \in BOOLEAN /\ first \in IteratorType /\ last \in IteratorType
  BY <1>2, <1>3 DEF Sane
<1> HIDE DEF first, last, starts
<1>6. loop' \in LoopType
  BY <1>4, <1>5 DEF LoopType
<1>7. LoopInv(loop')
  BY <1>2, <1>3, <1>4, <1>6 DEF LoopInv
<1> QED
  BY <1>1, <1>7, InvStays DEF Enter, Inv

-----------------------------------------------------------------------------
(* Every step keeps it.                                                      *)

LEMMA InvInit ==
    ASSUME Init
    PROVE  Inv
<1>1. log \in Logs
  BY DEF Init
<1>2. Sane(Null) /\ Own(Null) /\ Null.type = "null" /\ Null \in IteratorType
  BY <1>1, NullIs DEF Sane
<1>3. HandlesInv(it, sound)
  BY <1>2 DEF Init, HandlesInv
<1>4. LoopInv(loop)
  BY <1>2 DEF Init, NoLoop, LoopInv, LoopType
<1> QED
  BY <1>1, <1>3, <1>4 DEF Init, Inv

LEMMA MoveKeeps ==
    ASSUME Inv, NEW g \in Handles, NEW h \in Handles, MoveFrom(g, h)
    PROVE  Inv'
<1>1. log \in Logs /\ HandlesInv(it, sound) /\ Sane(Null) /\ Null \in IteratorType
  BY NullIs DEF Inv, Sane
<1>2. it' \in [Handles -> IteratorType] /\ sound' \subseteq Handles
  BY <1>1 DEF MoveFrom, HandlesInv
<1>3. /\ it'[h] = it[g] /\ it'[g] = Null
      /\ \A k \in Handles \ {g, h} : it'[k] = it[k]
  BY <1>1 DEF MoveFrom, HandlesInv
<1>4. \A k \in Handles : Sane(it'[k])
  BY <1>1, <1>3 DEF HandlesInv
<1>5. \A k \in sound' : Own(it'[k])
  <2> SUFFICES ASSUME NEW k \in sound' PROVE Own(it'[k])
    OBVIOUS
  <2>1. k \in Handles /\ k # g
    BY <1>2 DEF MoveFrom
  <2>2. CASE k = h
    BY <1>1, <1>3, <2>1, <2>2 DEF MoveFrom, HandlesInv
  <2>3. CASE k # h
    BY <1>1, <1>3, <2>1, <2>3 DEF MoveFrom, HandlesInv
  <2> QED
    BY <2>2, <2>3
<1>6. HandlesInv(it', sound')
  BY <1>2, <1>4, <1>5 DEF HandlesInv
<1> QED
  BY <1>1, <1>6, InvStays DEF MoveFrom, Inv

LEMMA HandleFacts ==
    ASSUME Inv, NEW h \in Handles
    PROVE  Sane(it[h]) /\ (h \in sound) \in BOOLEAN /\ (h \in sound => Own(it[h]))
BY DEF Inv, HandlesInv

LEMMA IncrementKeeps ==
    ASSUME Inv, NEW h \in Handles, Increment(h)
    PROVE  Inv'
<1>1. log \in Logs /\ Sane(it[h]) /\ (h \in sound => Own(it[h]))
  BY HandleFacts DEF Inv
<1> DEFINE promised == IF Reads(it[h]) THEN ~Fails(NextIn(it[h])) ELSE h \in sound
<1>2. Sane(Incremented(it[h])) /\ (promised => Own(Incremented(it[h])))
  BY <1>1, IncrementedIs
<1>3. Terminate \/ Become(h, Incremented(it[h]), promised)
  BY DEF Increment
<1> HIDE DEF promised
<1> QED
  BY <1>2, <1>3, BecomeKeeps, TerminateKeeps

LEMMA PythonNextKeeps ==
    ASSUME Inv, NEW h \in Handles, PythonNext(h)
    PROVE  Inv'
<1>1. /\ log \in Logs /\ Sane(it[h]) /\ (h \in sound => Own(it[h]))
      /\ HandlesInv(it, sound) /\ LoopInv(loop)
  BY HandleFacts DEF Inv
<1>2. CASE Reads(it[h]) /\ (Cut(NextIn(it[h])) \/ Fails(NextIn(it[h])))
  BY <1>2, TerminateKeeps DEF PythonNext
<1>3. CASE ~(Reads(it[h]) /\ (Cut(NextIn(it[h])) \/ Fails(NextIn(it[h]))))
  <2> DEFINE promised == Reads(it[h]) \/ h \in sound
  <2>1. Sane(Incremented(it[h])) /\ (promised => Own(Incremented(it[h])))
    BY <1>1, <1>3, IncrementedIs
  <2>2. /\ it' = [it EXCEPT ![h] = Incremented(it[h])]
        /\ sound' = IF promised THEN sound \cup {h} ELSE sound \ {h}
        /\ UNCHANGED <<log, loop, status>>
    BY <1>3 DEF PythonNext
  <2> HIDE DEF promised
  <2>3. HandlesInv(it', sound')
    BY <1>1, <2>1, <2>2, HandleSet
  <2> QED
    BY <1>1, <2>2, <2>3, InvStays DEF Inv
<1> QED
  BY <1>2, <1>3

\* One turn: what is delivered is the record the loop is at, and the loop moves
\* to one of its own, to the end, or to the record that throws.
LEMMA LoopBodyKeeps ==
    ASSUME Inv, LoopBody
    PROVE  Inv'
<1> DEFINE i == NextIn(loop.it)
           next == Incremented(loop.it)
<1>1. /\ log \in Logs /\ HandlesInv(it, sound) /\ LoopInv(loop) /\ loop.phase = "running"
      /\ ~Same(loop.it, loop.end)
  BY DEF Inv, LoopBody
<1>2. /\ Sane(loop.it) /\ loop.it.type # "null" /\ loop.end.type = loop.it.type
      /\ loop.end.current = Stop /\ Len(loop.rows) = loop.it.current
      /\ loop \in LoopType /\ loop.rows \in Seq(RecordType)
      /\ loop.sound => Own(loop.it)
      /\ loop.sound => \A k \in 1..Len(loop.rows) : k <= Stop /\ Owns(loop.rows[k], k)
  BY <1>1 DEF LoopInv, LoopType
<1>3. /\ loop.it.current \in 0..Stop /\ Stop \in Nat /\ loop.it.record \in RecordType
      /\ loop.it.type \in {"null", "empty", "generic"}
      /\ loop.it.type = "empty" => loop.it.current = 0 /\ Stop = 0
  BY <1>1, <1>2, IteratorFacts DEF Sane
<1>4. loop.it.current < Stop /\ loop.it.type = "generic"
  BY <1>1, <1>2, <1>3, NotAtEnd
<1>5. /\ Sane(next) /\ next.type = "generic" /\ next.current = loop.it.current + 1
      /\ Reads(loop.it) /\ ~Fails(i) => Own(next)
      /\ ~Reads(loop.it) /\ Own(loop.it) => Own(next)
  BY <1>1, <1>2, <1>4, IncrementedIs
<1>6. CASE Reads(loop.it) /\ (Cut(i) \/ (Fails(i) /\ loop.python))
  BY <1>6, TerminateKeeps DEF LoopBody
<1>7. CASE ~(Reads(loop.it) /\ (Cut(i) \/ (Fails(i) /\ loop.python)))
  <2> DEFINE fails == Reads(loop.it) /\ Fails(i)
             rows == Append(loop.rows, loop.it.record)
  <2>1. /\ loop' = [loop EXCEPT !.rows = rows, !.it = next,
                               !.phase = IF fails THEN "threw" ELSE @]
        /\ UNCHANGED <<log, it, sound, result, status>>
    BY <1>7 DEF LoopBody
  <2>2. /\ rows \in Seq(RecordType) /\ Len(rows) = loop.it.current + 1
        /\ \A k \in 1..Len(rows) :
             rows[k] = IF k <= Len(loop.rows) THEN loop.rows[k] ELSE loop.it.record
    BY <1>2, <1>3
  <2>3. loop.sound => \A k \in 1..Len(rows) : k <= Stop /\ Owns(rows[k], k)
    <3> SUFFICES ASSUME loop.sound, NEW k \in 1..Len(rows)
                 PROVE  k <= Stop /\ Owns(rows[k], k)
      OBVIOUS
    <3>1. CASE k <= Len(loop.rows)
      BY <1>2, <1>3, <2>2, <3>1
    <3>2. CASE ~(k <= Len(loop.rows))
      <4>1. k = loop.it.current + 1 /\ rows[k] = loop.it.record
        BY <1>2, <1>3, <2>2, <3>2
      <4> QED
        BY <1>2, <1>3, <1>4, <4>1 DEF Own
    <3> QED
      BY <3>1, <3>2
  <2>4. next \in IteratorType /\ Len(rows) = next.current
    BY <1>5, <2>2 DEF Sane
  <2>5. Fails(Len(rows) + 1) \/ ~fails
    BY <1>3, <2>2 DEF NextIn
  <2>6. ~fails /\ loop.sound => Own(next)
    BY <1>2, <1>5
  <2> HIDE DEF rows, next, fails
  <2>7. /\ loop'.rows = rows /\ loop'.it = next /\ loop'.end = loop.end
        /\ loop'.phase = (IF fails THEN "threw" ELSE loop.phase)
        /\ loop'.sound = loop.sound /\ loop'.python = loop.python /\ loop'.size = loop.size
        /\ loop' \in LoopType
    BY <1>2, <2>1, <2>2, <2>4 DEF LoopType
  <2>8. LoopInv(loop')
    BY <1>1, <1>2, <1>4, <1>5, <2>3, <2>4, <2>5, <2>6, <2>7 DEF LoopInv, next
  <2> QED
    BY <1>1, <2>1, <2>8, InvStays DEF Inv
<1> QED
  BY <1>6, <1>7

LEMMA LoopDoneKeeps ==
    ASSUME Inv, LoopDone
    PROVE  Inv'
<1>1. /\ log \in Logs /\ HandlesInv(it, sound) /\ LoopInv(loop) /\ loop.phase = "running"
      /\ Same(loop.it, loop.end)
  BY DEF Inv, LoopDone
<1>2. /\ Sane(loop.it) /\ loop.it.type # "null" /\ loop.end.type = loop.it.type
      /\ loop.end.current = Stop /\ Len(loop.rows) = loop.it.current /\ loop \in LoopType
  BY <1>1 DEF LoopInv
<1>3. Len(loop.rows) = Stop
  BY <1>1, <1>2, NotAtEnd
<1>4. LoopInv(loop')
  BY <1>1, <1>2, <1>3 DEF LoopDone, LoopInv, LoopType
<1> QED
  BY <1>1, <1>4, InvStays DEF LoopDone, Inv

LEMMA InvNext ==
    ASSUME Inv, [Next]_vars
    PROVE  Inv'
<1>0. log \in Logs
  BY DEF Inv
<1>1. ASSUME NEW h \in Handles, GetIterator(h) PROVE Inv'
  <2>1. Terminate \/ (Sane(Fresh) /\ Own(Fresh) /\ Become(h, Fresh, TRUE))
    BY <1>0, <1>1, FreshIs DEF GetIterator
  <2> QED
    BY <2>1, BecomeKeeps, TerminateKeeps
<1>2. ASSUME NEW h \in Handles, MakeNull(h) PROVE Inv'
  BY <1>0, <1>2, NullIs, BecomeKeeps DEF MakeNull
<1>3. ASSUME NEW h \in Handles, OnNull(h) PROVE Inv'
  BY <1>3, TerminateKeeps DEF OnNull
<1>4. ASSUME NEW g \in Handles, NEW h \in Handles, MoveFrom(g, h) PROVE Inv'
  BY <1>4, MoveKeeps
<1>5. ASSUME NEW g \in Handles, NEW h \in Handles, CopyOf(g, h) PROVE Inv'
  BY <1>5, HandleFacts, BecomeKeeps DEF CopyOf
<1>6. ASSUME NEW g \in Handles, NEW h \in Handles, Begin(g, h) PROVE Inv'
  <2> DEFINE promised == g \in sound /\ it[g].current = Start
  <2>1. Sane(BeginOf(it[g])) /\ (promised => Own(BeginOf(it[g])))
    BY <1>0, HandleFacts, BeginIs
  <2>2. Become(h, BeginOf(it[g]), promised)
    BY <1>6 DEF Begin
  <2> HIDE DEF promised
  <2> QED
    BY <2>1, <2>2, BecomeKeeps
<1>7. ASSUME NEW g \in Handles, NEW h \in Handles, End(g, h) PROVE Inv'
  <2>1. Sane(EndOf(it[g])) /\ Own(EndOf(it[g]))
    BY <1>0, HandleFacts, EndIs
  <2> QED
    BY <1>7, <2>1, BecomeKeeps DEF End
<1>8. ASSUME NEW h \in Handles, Increment(h) PROVE Inv'
  BY <1>8, IncrementKeeps
<1>9. ASSUME NEW h \in Handles, Dereference(h) PROVE Inv'
  BY <1>9, TerminateKeeps, ResultKeeps DEF Dereference
<1>10. ASSUME NEW h \in Handles, PythonNext(h) PROVE Inv'
  BY <1>10, PythonNextKeeps
<1>11. ASSUME NEW h \in Handles, PythonStop(h) PROVE Inv'
  BY <1>11, ResultKeeps DEF PythonStop
<1>12. ASSUME NEW h \in Handles, StartLoop(h) PROVE Inv'
  <2> DEFINE promised == h \in sound
             python == FALSE
  <2>1. Sane(it[h]) /\ it[h].type # "null" /\ (promised => Own(it[h]))
    BY <1>12, HandleFacts DEF StartLoop
  <2>2. Enter(it[h], promised, python, 0) /\ python \in BOOLEAN /\ (python => 0 = Stop)
    BY <1>12 DEF StartLoop
  <2> HIDE DEF promised, python
  <2> QED
    BY ONLY Inv, <2>1, <2>2, EnterKeeps
<1>13. CASE StartFrame
  <2>1. Terminate \/ (Sane(Fresh) /\ Own(Fresh) /\ Fresh.type # "null"
                      /\ Enter(Fresh, TRUE, TRUE, Stop))
    BY <1>0, <1>13, FreshIs DEF StartFrame
  <2>2. Stop \in Nat
    BY <1>0, LogFacts
  <2> QED
    BY <2>1, <2>2, EnterKeeps, TerminateKeeps
<1>14. CASE LoopStep
  BY <1>14, LoopBodyKeeps, LoopDoneKeeps DEF LoopStep
<1>15. CASE UNCHANGED vars
  BY <1>15, ResultKeeps DEF vars
<1> QED
  BY <1>1, <1>2, <1>3, <1>4, <1>5, <1>6, <1>7, <1>8, <1>9, <1>10, <1>11, <1>12, <1>13,
     <1>14, <1>15 DEF Next

LEMMA InvSpec == Spec => []Inv
<1>1. Init => Inv
  BY InvInit
<1>2. Inv /\ [Next]_vars => Inv'
  BY InvNext
<1> QED
  BY <1>1, <1>2, PTL DEF Spec

-----------------------------------------------------------------------------
(* What follows from it.                                                     *)

\* Every handle and every loop has an iterator over the group it was made for,
\* within its bounds, whatever is damaged in it.  (GenericIterator.cpp 127-242)
THEOREM TypeCorrect == Spec => []TypeOK
<1>1. Inv => TypeOK
  BY DEF Inv, HandlesInv, LoopInv, LoopType, Sane, TypeOK
<1> QED
  BY <1>1, InvSpec, PTL

\* Whatever was copied, moved, moved on and wrapped in between, a handle before
\* the end that was not set back holds the record it is at.
\* (GenericIterator.cpp 164-218, RecordIterator.cpp)
THEOREM EveryRecordIsOwn == Spec => []RecordIsOwn
<1>1. Inv => RecordIsOwn
  BY DEF Inv, HandlesInv, Own, RecordIsOwn
<1> QED
  BY <1>1, InvSpec, PTL

\* A loop over a group is given all its records, once and in order, or all up
\* to the one that throws.  (GenericIterator.cpp 145-218, the loops of the
\* exporters and of DataFrameWrapper.cpp)
THEOREM EveryPassComplete == Spec => []PassComplete
<1>1. Inv => PassComplete
  BY DEF Inv, LoopInv, PassComplete
<1> QED
  BY <1>1, InvSpec, PTL

-----------------------------------------------------------------------------
(* Handles are cursors.                                                      *)


Place(iter) ==
    IF iter.type = "null" THEN -1 ELSE IF iter.type = "empty" THEN 0 ELSE iter.current
AtOf(iters) == [h \in Handles |-> Place(iters[h])]
Told(r) == IF r.what = "record" /\ r.promised THEN r.values["TimeStamp"] ELSE 0

\* Every wrapper copies and lists the time of a record.
LEMMA TimeStampIsShown ==
    ASSUME log \in Logs
    PROVE  "TimeStamp" \in Attributes.copied /\ "TimeStamp" \in Attributes.listed
<1>1. \A m \in Methods : /\ "TimeStamp" \in PythonGetters[m].makes.copied
                         /\ "TimeStamp" \in PythonGetters[m].makes.listed
  <2>1. \A m \in DOMAIN CanGetters : /\ "TimeStamp" \in CanGetters[m].makes.copied
                                     /\ "TimeStamp" \in CanGetters[m].makes.listed
    BY DEF CanGetters, CAN_DataFrameIterator, CAN_ErrorFrameIterator,
           CAN_RemoteFrameIterator, CAN_DataFrameWrapper, CAN_ErrorFrameWrapper,
           CAN_RemoteFrameWrapper, PythonIterator, Wrapper, Common, CanFrame
  <2>2. \A m \in DOMAIN LinGetters : /\ "TimeStamp" \in LinGetters[m].makes.copied
                                     /\ "TimeStamp" \in LinGetters[m].makes.listed
    BY DEF LinGetters, LIN_ChecksumErrorIterator, LIN_FrameIterator,
           LIN_ReceiveErrorIterator, LIN_SyncErrorIterator,
           LIN_TransmissionErrorIterator, LIN_ChecksumErrorWrapper, LIN_FrameWrapper,
           LIN_ReceiveErrorWrapper, LIN_SyncErrorWrapper,
           LIN_TransmissionErrorWrapper, PythonIterator, Wrapper, Common, LinFrame
  <2> QED
    BY <2>1, <2>2 DEF PythonGetters, Methods
<1>2. \A k \in Kinds : \E m \in Methods : PythonGetters[m].kind = k
  <2>1. Kinds = {CanGetters[m].kind : m \in DOMAIN CanGetters}
                \cup {LinGetters[m].kind : m \in DOMAIN LinGetters}
    BY DEF Kinds, Fields, CanGetters, LinGetters, CAN_DataFrameIterator,
           CAN_ErrorFrameIterator, CAN_RemoteFrameIterator, LIN_ChecksumErrorIterator,
           LIN_FrameIterator, LIN_ReceiveErrorIterator, LIN_SyncErrorIterator,
           LIN_TransmissionErrorIterator, PythonIterator
  <2>2. DOMAIN CanGetters \cap DOMAIN LinGetters = {}
    BY DEF CanGetters, LinGetters
  <2> QED
    BY <2>1, <2>2 DEF PythonGetters, Methods
<1>3. DOMAIN PythonGetters = Methods
  BY DEF PythonGetters
<1>4. Getter \in Methods
  BY <1>2, <1>3, LogFacts DEF Getter
<1> QED
  BY <1>1, <1>4 DEF Attributes

LEMMA PlaceIs ==
    ASSUME log \in Logs, NEW iter, Sane(iter)
    PROVE  /\ Place(iter) = -1 <=> iter.type = "null"
           /\ iter.type # "null" => Place(iter) = iter.current
           /\ iter.current \in 0..Stop
BY IteratorFacts DEF Place

\* A handle that is sure tells its own record.
LEMMA TellsOwn ==
    ASSUME log \in Logs, NEW iter, Sane(iter), Own(iter), iter.type # "null",
           iter.current < Stop
    PROVE  iter.record.values["TimeStamp"] = Place(iter) + 1
<1>1. iter.type = "generic"
  BY IteratorFacts DEF Sane
<1>2. "TimeStamp" \in Scalars \cap log.channels
  BY LogFacts
<1> QED
  BY <1>1, <1>2 DEF Own, Owns, Place

LEMMA HandleSetLooks ==
    ASSUME Inv, NEW h \in Handles, NEW iter, it' = [it EXCEPT ![h] = iter]
    PROVE  AtOf(it)' = [AtOf(it) EXCEPT ![h] = Place(iter)]
BY DEF Inv, HandlesInv, AtOf, Place

LEMMA BecomeIsBecome ==
    ASSUME Inv, NEW h \in Handles, NEW iter, NEW promised, Become(h, iter, promised)
    PROVE  /\ Cursors!Become(h, Place(iter), promised)
           /\ UNCHANGED Stop /\ Told(result)' = 0
BY DEF Inv, HandlesInv, Become, Cursors!Become, Place, Told, Stop, NoResult

LEMMA StaysIsStutter ==
    ASSUME UNCHANGED <<log, it, sound, result>>
    PROVE  UNCHANGED Cursors!cursorVars
BY DEF Cursors!cursorVars, Stop

\* What a handle with an iterator looks like from above.
LEMMA HandleLooks ==
    ASSUME Inv, NEW h \in Handles, it[h].type # "null"
    PROVE  /\ AtOf(it)[h] = it[h].current /\ AtOf(it)[h] # Cursors!None
           /\ it[h].current \in 0..Stop /\ Stop \in Nat
           /\ h \in sound /\ it[h].current < Stop =>
                it[h].record.values["TimeStamp"] = it[h].current + 1
<1>1. log \in Logs /\ Sane(it[h]) /\ (h \in sound => Own(it[h]))
  BY HandleFacts DEF Inv
<1>2. Place(it[h]) = it[h].current /\ it[h].current \in 0..Stop /\ Stop \in Nat
  BY <1>1, PlaceIs, LogFacts
<1>3. h \in sound /\ it[h].current < Stop =>
        it[h].record.values["TimeStamp"] = it[h].current + 1
  BY <1>1, <1>2, TellsOwn
<1> QED
  BY <1>2, <1>3 DEF AtOf, Cursors!None

LEMMA IncrementLooks ==
    ASSUME Inv, NEW h \in Handles, Increment(h)
    PROVE  [Cursors!Next]_Cursors!cursorVars
<1> DEFINE promised == IF Reads(it[h]) THEN ~Fails(NextIn(it[h])) ELSE h \in sound
           next == Incremented(it[h])
           at == AtOf(it)
<1>1. log \in Logs /\ Sane(it[h]) /\ it[h].type # "null"
  BY HandleFacts DEF Inv, Increment
<1>2. at[h] = it[h].current /\ at[h] # Cursors!None /\ at[h] \in 0..Stop /\ Stop \in Nat
  BY <1>1, HandleLooks
<1>3. /\ Sane(next) /\ next.type = it[h].type
      /\ next.current = IF at[h] < Stop THEN at[h] + 1 ELSE at[h]
      /\ Reads(it[h]) => at[h] < Stop
  BY <1>1, <1>2, IncrementedIs
<1>4. Place(next) = next.current
  BY <1>1, <1>3, PlaceIs
<1>5. CASE Terminate
  BY <1>5, StaysIsStutter DEF Terminate
<1>6. CASE Become(h, next, promised)
  <2> HIDE DEF next, promised
  <2>1. Cursors!Become(h, Place(next), promised) /\ UNCHANGED Stop /\ Told(result)' = 0
    BY <1>6, HandleSetLooks
       DEF Become, Cursors!Become, AtOf, Place, Told, NoResult, Stop
  <2>2. CASE at[h] < Stop
    <3>1. Place(next) = at[h] + 1
      BY <1>3, <1>4, <2>2
    <3>2. \E b \in BOOLEAN : Cursors!Become(h, at[h] + 1, b)
      <4>1. CASE promised
        <5>1. Cursors!Become(h, at[h] + 1, TRUE)
          BY <2>1, <3>1, <4>1 DEF Cursors!Become
        <5> QED
          BY <5>1
      <4>2. CASE ~promised
        <5>1. Cursors!Become(h, at[h] + 1, FALSE)
          BY <2>1, <3>1, <4>2 DEF Cursors!Become
        <5> QED
          BY <5>1
      <4> QED
        BY <4>1, <4>2
    <3>3. Cursors!Advance(h) /\ Told(result)' = 0
      BY <2>1, <2>2, <3>2 DEF Cursors!Advance, AtOf, Place
    <3> QED
      BY <1>2, <2>1, <3>3 DEF Cursors!Next, AtOf, Place, Told
  <2>3. CASE ~(at[h] < Stop)
    <3>1. Place(next) = at[h] /\ (promised <=> h \in sound)
      BY <1>3, <1>4, <2>3 DEF promised
    <3>2. Cursors!Copy(h, h)
      BY <2>1, <3>1 DEF Cursors!Copy, Cursors!Become, AtOf, Place, Told
    <3> QED
      BY <1>2, <2>1, <3>2 DEF Cursors!Next, AtOf, Place
  <2> QED
    BY <2>2, <2>3
<1> QED
  BY <1>5, <1>6 DEF Increment

LEMMA PythonNextLooks ==
    ASSUME Inv, NEW h \in Handles, PythonNext(h)
    PROVE  [Cursors!Next]_Cursors!cursorVars
<1> DEFINE next == Incremented(it[h])
           at == AtOf(it)
           sure == Reads(it[h]) \/ h \in sound
<1>1. /\ log \in Logs /\ HandlesInv(it, sound)
      /\ Sane(it[h]) /\ it[h].type # "null" /\ ~AtEnd(h)
  BY HandleFacts DEF Inv, PythonNext
<1>2. /\ at[h] = it[h].current /\ at[h] # Cursors!None /\ at[h] \in 0..Stop /\ Stop \in Nat
      /\ h \in sound /\ at[h] < Stop => it[h].record.values["TimeStamp"] = at[h] + 1
  BY <1>1, HandleLooks
<1>3. at[h] < Stop
  <2>1. EndOf(it[h]).type = it[h].type /\ EndOf(it[h]).current = Stop
    BY <1>1, EndIs
  <2>2. it[h].current # Stop
    BY <1>1, <2>1, NotAtEnd DEF AtEnd
  <2> QED
    BY <1>2, <2>2
<1>4. Sane(next) /\ next.type = it[h].type /\ next.current = at[h] + 1
  BY <1>1, <1>2, <1>3, IncrementedIs
<1>5. Place(next) = at[h] + 1
  BY <1>1, <1>4, PlaceIs
<1>6. CASE Terminate
  BY <1>6, StaysIsStutter DEF Terminate
<1>7. CASE ~Terminate
  <2>1. /\ it' = [it EXCEPT ![h] = next]
        /\ sound' = IF sure THEN sound \cup {h} ELSE sound \ {h}
        /\ result' = Wrapped(it[h].record, h \in sound)
        /\ UNCHANGED log
    BY <1>7 DEF PythonNext
  <2>2. Told(result)' = IF h \in sound THEN it[h].record.values["TimeStamp"] ELSE 0
    <3>1. "TimeStamp" \in Attributes.copied \cap Scalars
          /\ "TimeStamp" \in Attributes.listed \ {"DataBytes"}
      BY <1>1, TimeStampIsShown, LogFacts
    <3>2. Wrapped(it[h].record, h \in sound).values["TimeStamp"]
            = it[h].record.values["TimeStamp"]
      BY <3>1 DEF Wrapped, Shown, Attribute
    <3>3. /\ Wrapped(it[h].record, h \in sound).what = "record"
          /\ Wrapped(it[h].record, h \in sound).promised = (h \in sound)
      BY DEF Wrapped, Shown
    <3> QED
      BY <2>1, <3>2, <3>3 DEF Told
  <2>3. Told(result)' = Cursors!Promised(h)
    BY <1>2, <1>3, <2>2 DEF Cursors!Promised, AtOf, Place
  <2> HIDE DEF next, sure
  <2>4. Cursors!Become(h, at[h] + 1, sure) /\ UNCHANGED Stop
    BY <1>1, <1>5, <2>1 DEF Cursors!Become, AtOf, Place, HandlesInv, Stop
  <2>5. \E b \in BOOLEAN : Cursors!Become(h, at[h] + 1, b)
    <3>1. CASE sure
      <4>1. Cursors!Become(h, at[h] + 1, TRUE)
        BY <2>4, <3>1 DEF Cursors!Become
      <4> QED
        BY <4>1
    <3>2. CASE ~sure
      <4>1. Cursors!Become(h, at[h] + 1, FALSE)
        BY <2>4, <3>2 DEF Cursors!Become
      <4> QED
        BY <4>1
    <3> QED
      BY <3>1, <3>2
  <2>6. Cursors!Advance(h)
    BY <1>3, <2>5 DEF Cursors!Advance, AtOf, Place
  <2> QED
    BY <1>2, <2>3, <2>4, <2>6 DEF Cursors!Next, AtOf, Place, Told
<1> QED
  BY <1>6, <1>7

\* The other steps.
LEMMA GetIteratorLooks ==
    ASSUME Inv, NEW h \in Handles, GetIterator(h)
    PROVE  [Cursors!Next]_Cursors!cursorVars
<1>1. CASE Terminate
  BY <1>1, StaysIsStutter DEF Terminate
<1>2. CASE Become(h, Fresh, TRUE)
  <2>1. Sane(Fresh) /\ Fresh.type # "null" /\ Fresh.current = 0 /\ log \in Logs
    BY FreshIs DEF Inv
  <2>2. Place(Fresh) = 0
    BY <2>1, PlaceIs
  <2>3. Cursors!Become(h, Place(Fresh), TRUE) /\ UNCHANGED Stop /\ Told(result)' = 0
    BY <1>2, BecomeIsBecome
  <2>4. Cursors!Make(h)
    BY <2>2, <2>3 DEF Cursors!Make, Told
  <2> QED
    BY <2>3, <2>4 DEF Cursors!Next
<1> QED
  BY <1>1, <1>2 DEF GetIterator

LEMMA MakeNullLooks ==
    ASSUME Inv, NEW h \in Handles, MakeNull(h)
    PROVE  [Cursors!Next]_Cursors!cursorVars
<1>1. Place(Null) = -1
  BY NullIs, PlaceIs DEF Inv
<1>2. Cursors!Become(h, Place(Null), FALSE) /\ UNCHANGED Stop /\ Told(result)' = 0
  BY BecomeIsBecome DEF MakeNull
<1>3. Cursors!Drop(h)
  BY <1>1, <1>2 DEF Cursors!Drop, Cursors!None, Told
<1> QED
  BY <1>2, <1>3 DEF Cursors!Next

LEMMA MoveLooks ==
    ASSUME Inv, NEW g \in Handles, NEW h \in Handles, MoveFrom(g, h)
    PROVE  [Cursors!Next]_Cursors!cursorVars
<1>1. AtOf(it)[g] # Cursors!None
  BY HandleLooks DEF MoveFrom
<1>2. Place(Null) = -1
  BY NullIs, PlaceIs DEF Inv
<1>3. it \in [Handles -> IteratorType]
  BY DEF Inv, HandlesInv
<1>4. AtOf(it)' = [AtOf(it) EXCEPT ![h] = AtOf(it)[g], ![g] = -1]
  <2>1. \A k \in Handles : Place(it'[k]) =
            IF k = g THEN -1 ELSE IF k = h THEN Place(it[g]) ELSE Place(it[k])
    BY <1>2, <1>3 DEF MoveFrom
  <2>2. AtOf(it)' = [k \in Handles |-> Place(it'[k])]
    BY DEF AtOf, Place
  <2> QED
    BY <2>1, <2>2 DEF AtOf
<1>5. Told(result)' = 0 /\ UNCHANGED Stop
  BY DEF MoveFrom, Told, NoResult, Stop
<1>6. Cursors!Move(g, h)
  BY <1>4, <1>5 DEF Cursors!Move, Cursors!None, MoveFrom, AtOf, Place, Told
<1> QED
  BY <1>1, <1>5, <1>6 DEF Cursors!Next, AtOf, Place

LEMMA CopyLooks ==
    ASSUME Inv, NEW g \in Handles, NEW h \in Handles, CopyOf(g, h)
    PROVE  [Cursors!Next]_Cursors!cursorVars
<1> DEFINE promised == g \in sound
<1>1. AtOf(it)[g] # Cursors!None /\ AtOf(it)[g] = Place(it[g])
  BY HandleLooks DEF CopyOf, AtOf
<1>2. Become(h, it[g], promised)
  BY DEF CopyOf
<1> HIDE DEF promised
<1>3. Cursors!Become(h, Place(it[g]), promised) /\ UNCHANGED Stop /\ Told(result)' = 0
  BY <1>2, HandleSetLooks
       DEF Become, Cursors!Become, AtOf, Place, Told, NoResult, Stop
<1>4. Cursors!Copy(g, h)
  BY <1>1, <1>3 DEF Cursors!Copy, Cursors!Become, AtOf, Place, Told, promised
<1> QED
  BY <1>1, <1>3, <1>4 DEF Cursors!Next, AtOf, Place

LEMMA BeginLooks ==
    ASSUME Inv, NEW g \in Handles, NEW h \in Handles, Begin(g, h)
    PROVE  [Cursors!Next]_Cursors!cursorVars
<1> DEFINE promised == g \in sound /\ it[g].current = Start
           next == BeginOf(it[g])
<1>1. /\ AtOf(it)[g] # Cursors!None /\ AtOf(it)[g] = it[g].current
      /\ it[g].type # "null" /\ Sane(it[g]) /\ log \in Logs
  BY HandleLooks, HandleFacts DEF Begin, Inv
<1>2. Sane(next) /\ next.type = it[g].type /\ next.current = 0
  BY <1>1, BeginIs
<1>3. Place(next) = 0
  BY <1>1, <1>2, PlaceIs
<1>4. Become(h, next, promised)
  BY DEF Begin
<1> HIDE DEF promised, next
<1>5. Cursors!Become(h, Place(next), promised) /\ UNCHANGED Stop /\ Told(result)' = 0
  BY <1>4, HandleSetLooks
       DEF Become, Cursors!Become, AtOf, Place, Told, NoResult, Stop
<1>6. promised <=> (g \in sound /\ AtOf(it)[g] = 0)
  BY <1>1 DEF promised, Start
<1>7. Cursors!Restart(g, h)
  BY <1>3, <1>5, <1>6 DEF Cursors!Restart, Cursors!Become, AtOf, Place, Told
<1> QED
  BY <1>1, <1>5, <1>7 DEF Cursors!Next, AtOf, Place

LEMMA EndLooks ==
    ASSUME Inv, NEW g \in Handles, NEW h \in Handles, End(g, h)
    PROVE  [Cursors!Next]_Cursors!cursorVars
<1>1. /\ AtOf(it)[g] # Cursors!None /\ it[g].type # "null" /\ Sane(it[g])
      /\ log \in Logs
  BY HandleLooks, HandleFacts DEF End, Inv
<1>2. Place(EndOf(it[g])) = Stop
  BY <1>1, EndIs, PlaceIs
<1>3. Cursors!Become(h, Place(EndOf(it[g])), TRUE) /\ UNCHANGED Stop /\ Told(result)' = 0
  BY <1>1, EndIs, BecomeIsBecome DEF End
<1>4. Cursors!Finish(g, h)
  BY <1>2, <1>3 DEF Cursors!Finish, Told
<1> QED
  BY <1>1, <1>3, <1>4 DEF Cursors!Next, AtOf, Place

LEMMA DereferenceLooks ==
    ASSUME Inv, NEW h \in Handles, Dereference(h)
    PROVE  [Cursors!Next]_Cursors!cursorVars
<1>1. CASE Terminate
  BY <1>1, StaysIsStutter DEF Terminate
<1>2. CASE ~Terminate
  <2>1. /\ AtOf(it)[h] = it[h].current /\ AtOf(it)[h] # Cursors!None
        /\ h \in sound /\ it[h].current < Stop =>
             it[h].record.values["TimeStamp"] = it[h].current + 1
    BY HandleLooks DEF Dereference
  <2>2. /\ result' = Shown(it[h].record.values, it[h].record.bytes,
                           h \in sound /\ it[h].current < Stop)
        /\ UNCHANGED <<log, it, sound>>
    BY <1>2 DEF Dereference
  <2>3. Told(result)' = IF h \in sound /\ it[h].current < Stop
                        THEN it[h].record.values["TimeStamp"] ELSE 0
    BY <2>2 DEF Told, Shown
  <2>4. Told(result)' = Cursors!Promised(h)
    BY <2>1, <2>3 DEF Cursors!Promised, AtOf, Place
  <2>5. Cursors!Tell(h) /\ UNCHANGED Stop
    BY <2>2, <2>4 DEF Cursors!Tell, Told, Stop
  <2> QED
    BY <2>1, <2>5 DEF Cursors!Next, AtOf, Place
<1> QED
  BY <1>1, <1>2

\* A loop that starts, and next() at the end, promise nothing; with a handle
\* that has an iterator that is as if it were copied to itself.
LEMMA ForgetLooks ==
    ASSUME Inv, NEW h \in Handles, it[h].type # "null",
           result' = NoResult, UNCHANGED <<log, it, sound>>
    PROVE  [Cursors!Next]_Cursors!cursorVars
<1>1. it \in [Handles -> IteratorType] /\ AtOf(it)[h] # Cursors!None
  BY HandleLooks DEF Inv, HandlesInv
<1>2. Told(result)' = 0 /\ UNCHANGED Stop
  BY DEF Told, NoResult, Stop
<1>3. AtOf(it)' = [AtOf(it) EXCEPT ![h] = AtOf(it)[h]]
  BY DEF AtOf, Place
<1>4. sound' = IF h \in sound THEN sound \cup {h} ELSE sound \ {h}
  OBVIOUS
<1>5. Cursors!Copy(h, h)
  BY <1>2, <1>3, <1>4 DEF Cursors!Copy, Cursors!Become, AtOf, Place, Told
<1> QED
  BY <1>1, <1>2, <1>5 DEF Cursors!Next, AtOf, Place

-----------------------------------------------------------------------------
\* What was told was told by a handle.
ToldByOne == result.what = "record" => \E h \in Handles : it[h].type # "null"

LEMMA ToldInit == Init => ToldByOne
BY DEF Init, ToldByOne, NoResult

LEMMA ToldNext ==
    ASSUME Inv, ToldByOne, [Next]_vars
    PROVE  ToldByOne'
<1>1. CASE result' = NoResult
  BY <1>1 DEF ToldByOne, NoResult
<1>2. CASE UNCHANGED <<it, result>>
  BY <1>2 DEF ToldByOne
<1>3. ASSUME NEW h \in Handles, it[h].type # "null", UNCHANGED it PROVE ToldByOne'
  BY <1>3 DEF ToldByOne
<1>4. ASSUME NEW h \in Handles, PythonNext(h), ~Terminate PROVE ToldByOne'
  <2>1. it' = [it EXCEPT ![h] = Incremented(it[h])] /\ it[h].type # "null"
    BY <1>4 DEF PythonNext
  <2>2. it'[h] = Incremented(it[h])
    BY <2>1 DEF Inv, HandlesInv
  <2>3. it'[h].type # "null"
    BY <2>1, <2>2, HandleFacts, IncrementedIs DEF Inv
  <2> QED
    BY <2>3 DEF ToldByOne
<1>5. ASSUME NEW h \in Handles, Dereference(h), ~Terminate PROVE ToldByOne'
  BY <1>3, <1>5 DEF Dereference
<1>6. CASE Terminate
  BY <1>2, <1>6 DEF Terminate
<1> QED
  BY <1>1, <1>2, <1>4, <1>5, <1>6
     DEF Next, vars, GetIterator, MakeNull, OnNull, MoveFrom, CopyOf, Begin, End,
         Increment, Become, PythonStop, StartLoop, StartFrame, Enter, LoopStep,
         LoopBody, LoopDone, PythonNext, Dereference

LEMMA StartFrameLooks ==
    ASSUME Inv, ToldByOne, StartFrame
    PROVE  [Cursors!Next]_Cursors!cursorVars
<1>1. CASE Terminate
  BY <1>1, StaysIsStutter DEF Terminate
<1>2. CASE ~Terminate
  <2>1. result' = NoResult /\ UNCHANGED <<log, it, sound>>
    BY <1>2 DEF StartFrame, Enter
  <2>2. CASE result.what = "record"
    <3>1. PICK h \in Handles : it[h].type # "null"
      BY <2>2 DEF ToldByOne
    <3> QED
      BY <2>1, <3>1, ForgetLooks
  <2>3. CASE result.what # "record"
    BY <2>1, <2>3 DEF Cursors!cursorVars, Stop, NoResult
  <2> QED
    BY <2>2, <2>3
<1> QED
  BY <1>1, <1>2

LEMMA MapsToInit == Init => Cursors!Init
<1> SUFFICES ASSUME Init PROVE Cursors!Init
  OBVIOUS
<1>1. Stop \in Nat /\ Null.type = "null"
  BY LogFacts, NullIs DEF Init
<1> QED
  BY <1>1 DEF Init, Cursors!Init, Cursors!None, NoResult

LEMMA MapsToNext ==
    ASSUME Inv, ToldByOne, [Next]_vars
    PROVE  [Cursors!Next]_Cursors!cursorVars
<1>1. ASSUME NEW h \in Handles, OnNull(h) PROVE [Cursors!Next]_Cursors!cursorVars
  BY <1>1, StaysIsStutter DEF OnNull, Terminate
<1>2. ASSUME NEW h \in Handles, PythonStop(h) PROVE [Cursors!Next]_Cursors!cursorVars
  BY <1>2, ForgetLooks DEF PythonStop
<1>3. ASSUME NEW h \in Handles, StartLoop(h) PROVE [Cursors!Next]_Cursors!cursorVars
  BY <1>3, ForgetLooks DEF StartLoop, Enter
<1>4. CASE LoopStep
  BY <1>4, StaysIsStutter DEF LoopStep, LoopBody, LoopDone, Terminate
<1>5. CASE UNCHANGED vars
  BY <1>5, StaysIsStutter DEF vars
<1> QED
  BY <1>1, <1>2, <1>3, <1>4, <1>5, GetIteratorLooks, MakeNullLooks, MoveLooks, CopyLooks,
     BeginLooks, EndLooks, IncrementLooks, DereferenceLooks, PythonNextLooks,
     StartFrameLooks DEF Next

\* Handles are cursors: every behaviour of the library's iterators, Python's
\* next() and the loops over them is one of Cursor.  (GenericIterator.cpp,
\* EmptyIterator.cpp, RecordIterator.cpp, Python's RecordIterator wrappers)
THEOREM CursorsAreImplemented == Spec => LooksLikeACursor
<1>1. Init => Cursors!Init /\ ToldByOne
  BY MapsToInit, ToldInit
<1>2. Inv /\ ToldByOne /\ [Next]_vars => ToldByOne' /\ [Cursors!Next]_Cursors!cursorVars
  BY MapsToNext, ToldNext
<1> QED
  BY <1>1, <1>2, InvSpec, PTL DEF Spec, LooksLikeACursor, Cursors!Spec
=============================================================================
