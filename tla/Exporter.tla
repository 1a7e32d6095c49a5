------------------------------- MODULE Exporter -------------------------------
(***************************************************************************)
(* One call of convert() of an exporter: mdf2asc, mdf2clx, mdf2csv,        *)
(* mdf2peak (trace formats 1.1 and 2.1), mdf2pcap or mdf2socketcan.  It    *)
(* opens the log, makes one report after the other (CAN, then LIN), each   *)
(* from the iterators of the kinds of records in it, and returns whether   *)
(* the log could be opened.  The streams written to may fail at any write  *)
(* (a full disk, a folder without rights) and nobody looks at them; a      *)
(* record that cannot be read ends the process (`throw;' with nothing to   *)
(* throw again, see RecordIterator) or throws.                             *)
(***************************************************************************)
EXTENDS Integers, FiniteSets, SequencesExt, PcapBlock, ReportRows

CONSTANTS
    Inputs,         \* the logs: see Input below
    Tools,          \* the exporters run
    Formats,        \* the values of --timezone: "u", "l" and "p"
    FieldChoices,   \* mdf2clx: the columns its configuration may ask for
    Second,         \* clock ticks in a second; records are timed in ticks
    Milli,          \* ticks in what mdf2clx shows as a millisecond
    Digit           \* ticks in the last digit of a date of mdf2peak, 1E-10 days

Kinds == {"data", "remote", "lin"}

ASSUME ToolsAssumption ==
    Tools \subseteq {"asc", "clx", "csv", "peak11", "peak21", "pcap", "socketcan"}
ASSUME FormatsAssumption == Formats \subseteq {"u", "l", "p"}
ASSUME FieldsAssumption == \A fields \in FieldChoices : fields \subseteq ClxColumns
ASSUME SecondAssumption ==
    Second \in Nat \ {0} /\ Milli \in Nat \ {0} /\ Second % Milli = 0

Day == 24 * 60 * 60 * Second
ASSUME DigitAssumption == Digit \in Nat \ {0} /\ Day % Digit = 0

RecordType ==
    [kind : Kinds, index : Nat \ {0}, time : Nat, channel : Nat, fd : BOOLEAN,
     length : 0..64]

\* An input: whether MdfFile::Create() could load it and getFileInfo() does
\* not throw; the records of each kind in the order of its iterator; how many
\* of a kind can be read; the zone of the logger and that of this computer, in
\* minutes and less than a day.
InputOK(in) ==
    /\ in.loads \in BOOLEAN /\ in.sorts \in BOOLEAN
    /\ \A k \in Kinds :
           /\ in.log[k] \in Seq(RecordType)
           /\ \A i \in DOMAIN in.log[k] : in.log[k][i].kind = k /\ in.log[k][i].index = i
           /\ in.readable[k] \in Nat
    /\ in.zone \in Int /\ in.here \in Int
    /\ -24 * 60 < in.here /\ in.here < 24 * 60
ASSUME InputsAssumption == \A in \in Inputs : InputOK(in)

VARIABLES
    input,      \* the log being converted
    tool,       \* the exporter
    format,     \* how times are to be shown
    fields,     \* the configured columns
    todo,       \* the reports still to make
    report,     \* the report being made, in a sequence of at most one
    phase,      \* where convert() is
    queue,      \* the records of the report: the vector std::merge fills, or
                \* the iterator's own pass
    taken,      \* std::merge: how many of the first and the second it has
    next,       \* the record to write next
    writers,    \* per output: time of the first record, records written
    out,        \* per output: what has reached the file
    status      \* what convert() returned

settings == <<input, tool, format, fields>>
vars == <<input, tool, format, fields, todo, report, phase, queue, taken, next,
          writers, out, status>>
-----------------------------------------------------------------------------
(* The reports of each tool: from which iterators, into which files (one     *)
(* for each channel, or one for all), and what happens at the end of it.     *)

Report(bus, kinds, channels, footer, dated) ==
    [bus |-> bus, kinds |-> kinds, channels |-> channels, footer |-> footer,
     dated |-> dated]
Whole == {0}

AscReports ==
    <<Report("CAN", <<"data", "remote">>, Whole, TRUE, TRUE),
      Report("LIN", <<"lin">>, Whole, TRUE, TRUE)>>
ClxReports ==
    <<Report("CAN", <<"data">>, {1, 2}, FALSE, TRUE),
      Report("LIN", <<"lin">>, {1, 2}, FALSE, TRUE)>>
CsvReports ==
    <<Report("CAN", <<"data", "remote">>, Whole, FALSE, FALSE),
      Report("LIN", <<"lin">>, Whole, FALSE, FALSE)>>
PeakReports == <<Report("CAN", <<"data", "remote">>, Whole, FALSE, TRUE)>>
PcapReports == <<Report("CAN", <<"data">>, Whole, FALSE, FALSE)>>
SocketCanReports ==
    <<Report("CAN", <<"data">>, Whole, FALSE, FALSE),
      Report("LIN", <<"lin">>, Whole, FALSE, FALSE)>>

ReportsOf ==
    [asc |-> AscReports, clx |-> ClxReports, csv |-> CsvReports,
     peak11 |-> PeakReports, peak21 |-> PeakReports, pcap |-> PcapReports,
     socketcan |-> SocketCanReports]

\* The messages getFileInfo() counts: data frames and LIN frames, no others.
Messages(bus) == Len(input.log[IF bus = "CAN" THEN "data" ELSE "lin"])

\* The files a report writes.
Outputs(r) == {r.bus} \X r.channels
\* The one a record goes to; none for a channel the tool does not know.
OutputOf(r, rec) ==
    {o \in Outputs(r) : r.channels = Whole \/ o[2] = rec.channel}
-----------------------------------------------------------------------------
(* Times.  An exporter shows a time in seconds or in ticks.                  *)

\* The minutes std::time_t is moved by for the zone of this computer: the
\* difference between the hours of local time and UTC on the second day.
HourDifference == ((24 * 60 + input.here) \div 60) % 24

\* convertTimeStamp(time_t): the value is taken to be seconds.
ConvertSeconds(seconds) ==
    seconds + (CASE format = "l" -> input.zone * 60
                 [] format = "u" -> 0
                 [] OTHER -> HourDifference * 60 * 60)

\* The minutes of the other overload: hours and minutes of the two clocks.
MinuteDifference == (24 * 60 + input.here) % (24 * 60)

\* convertTimeStamp(nanoseconds), in ticks.
ConvertTicks(ticks) ==
    ticks + (CASE format = "l" -> input.zone * 60 * Second
               [] format = "u" -> 0
               [] OTHER -> MinuteDifference * 60 * Second)

\* Characters of the placeholder for a date, and of the date: format 1.1
\* prints a blank behind its five and ten digits, which overwrites the end of
\* the line, so that the first row stands on the line of the date.
Placeholder == [asc |-> 27, clx |-> 15, peak11 |-> 16, peak21 |-> 16]
Printed == [asc |-> 27, clx |-> 15, peak11 |-> 5 + 1 + 10 + 1, peak21 |-> 16]

\* The date in the header of a report: a day, counted from the one that is
\* number `from' where 1970 begins, the part of it that has passed, and whether
\* its line still ends behind it.
DateFrom(from, ticks) ==
    [day |-> from + ticks \div Day, part |-> ticks % Day,
     ended |-> Printed[tool] <= Placeholder[tool]]

AscDate(time) == DateFrom(0, ConvertSeconds(time \div Second) * Second)
ClxDate(time) == DateFrom(0, ConvertSeconds(time \div Second) * Second)

\* The number of the first day of 1970.  Counted in "days since 30th December,
\* 1899", as the comment in the code says, it would be 25569.
daysBetweenCenturyAndEpoch == 25568

\* Format 1.1 cuts the day off behind its last digit, 2.1 rounds it there; that
\* a double has an error of a fraction of this digit is left out.
PeakDate(time) ==
    DateFrom(daysBetweenCenturyAndEpoch,
             Digit * (IF tool = "peak11" THEN time \div Digit
                      ELSE (2 * time + Digit) \div (2 * Digit)))
HeaderDate(time) ==
    CASE tool = "asc" -> AscDate(time)
      [] tool = "clx" -> ClxDate(time)
      [] OTHER -> PeakDate(time)

\* mdf2clx rounds what is left over the second to milliseconds, a half to the
\* even one; it prints a thousand of them where that makes a second.
Rounded(rest) ==
    LET down == rest \div Milli
        twice == 2 * (rest % Milli)
    IN  IF twice > Milli \/ (twice = Milli /\ down % 2 = 1) THEN down + 1 ELSE down
ClxTime(time) ==
    LET shown == ConvertTicks(time)
    IN  (shown \div Second) * Second + Rounded(shown % Second) * Milli

\* The time in a row: relative to the first one, moved into a zone -
\* mdf2socketcan gives the ticks to the function for seconds -, or as it is.
AscTime(time, first) == time - first
convertTimestampToRelative(time, first) == time - first
SocketCanTime(time) == ConvertSeconds(time)
RowTime(time, first) ==
    CASE tool = "asc" -> AscTime(time, first)
      [] tool \in {"peak11", "peak21"} -> convertTimestampToRelative(time, first)
      [] tool = "clx" -> ClxTime(time)
      [] tool = "socketcan" -> SocketCanTime(time)
      [] OTHER -> time
-----------------------------------------------------------------------------
Unset == -1
NewWriter == [first |-> Unset, count |-> 0]
\* The placeholder, or the log's own time where mdf2clx writes that first.
NoDate == [day |-> Unset, part |-> Unset, ended |-> TRUE]
NoFile == [exists |-> FALSE, good |-> FALSE, date |-> NoDate, columns |-> <<>>,
           rows |-> <<>>, footer |-> FALSE, blocks |-> <<>>]
NewFile(good, columns, blocks) ==
    [exists |-> TRUE, good |-> good, date |-> NoDate, columns |-> columns,
     rows |-> <<>>, footer |-> FALSE, blocks |-> blocks]

AllOutputs == {"CAN", "LIN"} \X {0, 1, 2}

InputInit ==
    /\ input \in Inputs /\ tool \in Tools
    /\ format \in (IF tool \in {"asc", "clx", "socketcan"} THEN Formats ELSE {"p"})
    /\ fields \in (IF tool = "clx" THEN FieldChoices ELSE {{}})

Init ==
    /\ InputInit
    /\ todo = ReportsOf[tool]
    /\ report = <<>>
    /\ phase = "closed"
    /\ queue = <<>>
    /\ taken = <<0, 0>>
    /\ next = 1
    /\ writers = [o \in AllOutputs |-> NewWriter]
    /\ out = [o \in AllOutputs |-> NoFile]
    /\ status = "none"
-----------------------------------------------------------------------------
\* MdfFile::Create() and getFileInfo(); a log that cannot be loaded is the
\* only reason to return false.
Open ==
    /\ phase = "closed" /\ (input.loads => input.sorts)
    /\ phase' = IF input.loads THEN "open" ELSE "done"
    /\ status' = IF input.loads THEN status ELSE "false"
    /\ UNCHANGED <<settings, todo, report, queue, taken, next,
                   writers, out>>

\* getFileInfo() finalizes and sorts, and what that throws leaves convert().
OpenThrows ==
    /\ phase = "closed" /\ input.loads /\ ~input.sorts
    /\ phase' = "done" /\ status' = "threw"
    /\ UNCHANGED <<settings, todo, report, queue, taken, next,
                   writers, out>>

\* The next report has no message to its name: nothing is made for it.
SkipReport ==
    /\ phase = "open" /\ todo # <<>> /\ Messages(Head(todo).bus) = 0
    /\ todo' = Tail(todo)
    /\ UNCHANGED <<settings, report, phase, queue, taken, next,
                   writers, out, status>>

\* A stream is opened for every file and the header written, the date in it a
\* placeholder.  Those in `absent' could not be created, those in `failed'
\* failed in the header.
StartReport(absent, failed) ==
    LET r == Head(todo)
    IN  /\ phase = "open" /\ todo # <<>> /\ Messages(r.bus) > 0
        /\ absent \cap failed = {}
        /\ out' = [o \in AllOutputs |->
                      IF o \notin Outputs(r) \/ o \in absent THEN out[o]
                      ELSE IF o \in failed THEN NewFile(FALSE, <<>>, <<>>)
                      ELSE NewFile(TRUE, HeaderColumns(tool, r.bus, fields),
                                   IF tool = "pcap" THEN FileHeader ELSE <<>>)]
        /\ report' = <<r>>
        /\ todo' = Tail(todo)
        /\ phase' = IF Len(r.kinds) = 2 THEN "merging" ELSE "writing"
        /\ queue' = IF Len(r.kinds) = 2 THEN <<>> ELSE input.log[r.kinds[1]]
        /\ taken' = <<0, 0>>
        /\ next' = 1
        /\ UNCHANGED <<settings, writers, status>>

StartSome ==
    /\ todo # <<>>
    /\ \E absent, failed \in SUBSET Outputs(Head(todo)) : StartReport(absent, failed)

\* The iterators being merged, and the record each stands at.
Source(i) == input.log[report[1].kinds[i]]
Left(i) == taken[i] < Len(Source(i))
Current(i) == Source(i)[taken[i] + 1]

\* Every record an iterator stands at has been read when it moved there.
Readable(rec) == rec.index <= input.readable[rec.kind]

\* Mutant of TakesSecond: the comparison is turned round.
TakesLater == Left(2) /\ (~Left(1) \/ Current(1).time < Current(2).time)

\* std::merge takes from the second when its record is earlier than that of
\* the first, or the first has ended.
TakesSecond == Left(2) /\ (~Left(1) \/ Current(2).time < Current(1).time)

MergeStep ==
    /\ phase = "merging"
    /\ Left(1) \/ Left(2)
    /\ \A i \in 1..2 : Left(i) => Readable(Current(i))
    /\ LET i == IF TakesSecond THEN 2 ELSE 1
       IN  /\ queue' = Append(queue, Current(i))
           /\ taken' = [taken EXCEPT ![i] = @ + 1]
    /\ UNCHANGED <<settings, todo, report, phase, next, writers,
                   out, status>>

MergeDone ==
    /\ phase = "merging" /\ ~Left(1) /\ ~Left(2)
    /\ phase' = "writing"
    /\ UNCHANGED <<settings, todo, report, queue, taken, next,
                   writers, out, status>>

\* An iterator moves to a record that cannot be read: cut off, and the process
\* ends; or with more bytes than a frame has room for, and an exception leaves
\* convert(), whose files keep what they have.
Unreadable ==
    \/ phase = "merging" /\ \E i \in 1..2 : Left(i) /\ ~Readable(Current(i))
    \/ phase = "writing" /\ next <= Len(queue) /\ ~Readable(queue[next])

Terminate ==
    /\ Unreadable
    /\ phase' = "terminated"
    /\ UNCHANGED <<settings, todo, report, queue, taken, next, writers, out, status>>

Throw ==
    /\ Unreadable
    /\ phase' = "done" /\ status' = "threw"
    /\ UNCHANGED <<settings, todo, report, queue, taken, next, writers, out>>

\* Trace format 1.1 knows no FD frames.
Ignores(rec) == tool = "peak11" /\ rec.kind = "data" /\ rec.fd

\* Mutant of WriteRow: every record's time is taken for that of the first.
WriteRowTimingEach(o, rec, fits) ==
    LET row == [rec |-> rec, time |-> RowTime(rec.time, rec.time),
                number |-> writers[o].count, cells |-> Cells(tool, rec, fields)]
    IN  /\ writers' = [writers EXCEPT ![o] = [first |-> rec.time, count |-> @.count + 1]]
        /\ out' = [out EXCEPT ![o] =
                      IF ~@.good THEN @
                      ELSE IF ~fits THEN [@ EXCEPT !.good = FALSE]
                      ELSE [@ EXCEPT !.rows = Append(@, row)]]

\* writeRecord() of the output's exporter: it remembers the time of its first
\* record and counts, and prints, whatever the stream has come to.
WriteRow(o, rec, fits) ==
    LET w == writers[o]
        f == out[o]
        first == IF w.first = Unset THEN rec.time ELSE w.first
        row == [rec |-> rec, time |-> RowTime(rec.time, first),
                number |-> w.count, cells |-> Cells(tool, rec, fields)]
    IN  /\ writers' = [writers EXCEPT ![o] = [first |-> first, count |-> w.count + 1]]
        /\ out' = [out EXCEPT ![o] =
                      IF ~f.good THEN f
                      ELSE IF ~fits THEN [f EXCEPT !.good = FALSE]
                      ELSE [f EXCEPT
                               !.rows = Append(f.rows, row),
                               !.blocks = IF tool = "pcap"
                                          THEN Put(f.blocks, EnhancedPacketCAN(rec.length))
                                          ELSE f.blocks]]

WriteRecord(fits) ==
    /\ phase = "writing" /\ next <= Len(queue)
    /\ LET rec == queue[next]
       IN  /\ Readable(rec)
           /\ IF Ignores(rec) \/ OutputOf(report[1], rec) = {}
              THEN UNCHANGED <<writers, out>>
              ELSE \E o \in OutputOf(report[1], rec) : WriteRow(o, rec, fits)
    /\ next' = next + 1
    /\ UNCHANGED <<settings, todo, report, phase, queue, taken,
                   status>>

\* What is left to do to one file at the end of its report: the footer, the
\* date over the placeholder and whatever follows that it takes, or, for a file
\* of mdf2clx with no record, to remove it.  A seek on a stream that has failed
\* does nothing.
FinishFile(o, fits, removes) ==
    LET f == out[o]
        w == writers[o]
        good == f.good /\ fits
    IN  IF tool = "clx" /\ w.count = 0
        THEN IF removes THEN NoFile ELSE [f EXCEPT !.good = FALSE]
        ELSE [f EXCEPT
                 !.good = good,
                 !.footer = report[1].footer /\ good,
                 !.date = IF report[1].dated /\ good
                             /\ (tool \in {"peak11", "peak21"} => w.first # Unset)
                          THEN HeaderDate(w.first) ELSE @]

FinishReport(failed, kept) ==
    /\ phase = "writing" /\ next > Len(queue)
    /\ out' = [o \in AllOutputs |->
                  IF o \notin Outputs(report[1]) THEN out[o]
                  ELSE FinishFile(o, o \notin failed, o \notin kept)]
    /\ phase' = "open"
    /\ report' = <<>>
    /\ queue' = <<>>
    /\ UNCHANGED <<settings, todo, taken, next, writers, status>>

FinishSome ==
    /\ report # <<>>
    /\ \E failed, kept \in SUBSET Outputs(report[1]) : FinishReport(failed, kept)

Return ==
    /\ phase = "open" /\ todo = <<>>
    /\ phase' = "done" /\ status' = "true"
    /\ UNCHANGED <<settings, todo, report, queue, taken, next,
                   writers, out>>
-----------------------------------------------------------------------------
Next ==
    \/ Open
    \/ OpenThrows
    \/ SkipReport
    \/ StartSome
    \/ MergeStep
    \/ MergeDone
    \/ Terminate
    \/ Throw
    \/ \E fits \in BOOLEAN : WriteRecord(fits)
    \/ FinishSome
    \/ Return

Spec == Init /\ [][Next]_vars
-----------------------------------------------------------------------------
WriterType == [first : Nat \cup {Unset}, count : Nat]
RowType == [rec : RecordType, time : Int, number : Nat, cells : Seq(Words)]
BlockType == [declared : Nat, begin : Nat, end : Nat]
DateType == [day : Int, part : Int, ended : BOOLEAN]
FileType ==
    [exists : BOOLEAN, good : BOOLEAN, date : DateType, columns : Seq(Words),
     rows : Seq(RowType), footer : BOOLEAN, blocks : Seq(BlockType)]

TypeOK ==
    /\ input \in Inputs /\ tool \in Tools /\ format \in {"u", "l", "p"}
    /\ fields \subseteq ClxColumns
    /\ todo \in Seq(Range(ReportsOf[tool]))
    /\ report \in Seq(Range(ReportsOf[tool])) /\ Len(report) <= 1
    /\ phase \in {"closed", "open", "merging", "writing", "done", "terminated"}
    /\ queue \in Seq(RecordType)
    /\ taken \in [1..2 -> Nat] /\ next \in Nat \ {0}
    /\ writers \in [AllOutputs -> WriterType]
    /\ out \in [AllOutputs -> FileType]
    /\ status \in {"none", "true", "false", "threw"}

\* The records that belong into a file, and their order: by time, of two at
\* the same time the data frame first.
ReportFor(o) == CHOOSE r \in Range(ReportsOf[tool]) : r.bus = o[1]
Due(o) ==
    {rec \in UNION {Range(input.log[k]) : k \in Range(ReportFor(o).kinds)} :
        o \in OutputOf(ReportFor(o), rec) /\ ~Ignores(rec)}
Before(a, b) ==
    \/ a.time < b.time
    \/ a.time = b.time /\ a.kind # b.kind /\ a.kind = "data"
    \/ a.time = b.time /\ a.kind = b.kind /\ a.index < b.index
Started == {o \in AllOutputs : \E r \in Range(ReportsOf[tool]) :
                o \in Outputs(r) /\ Messages(r.bus) > 0}

\* Every file holds a beginning of the records that belong into it, each once
\* and in chronological order, whichever writes failed; once convert() has
\* returned true it holds all of them unless its stream failed, and mdf2clx
\* has left a file only for a channel with records.  (CSV_Exporter.cpp 68-75,
\* CLX000_Exporter.cpp 96-139)
FilesAreTheLog ==
    /\ \A o \in AllOutputs : \A i \in DOMAIN out[o].rows :
           LET rec == out[o].rows[i].rec
           IN  /\ rec \in Due(o)
               /\ Cardinality({other \in Due(o) : Before(other, rec)}) = i - 1
    /\ status = "true" =>
           \A o \in Started :
               /\ writers[o].count = Cardinality(Due(o))
               /\ out[o].good => Len(out[o].rows) = writers[o].count
               /\ tool = "clx" /\ out[o].good => Due(o) # {}

\* What a zone moves a time by, in ticks, as the option means it.
Shift == Second * 60 * (CASE format = "l" -> input.zone
                          [] format = "u" -> 0
                          [] OTHER -> input.here)

\* The days from 31 December 1899 to the start of 1970: one, seventy years, and
\* the leap days of 1904 to 1968.
DaysTo1970 == 1 + 70 * 365 + 17

\* The time, in ticks since 1970, that a date stands for when the day on which
\* 1970 began has the given number.
TimeOf(date, from) == (date.day - from) * Day + date.part

\* The date corrected into a header is that of the first record in that very
\* file, in the zone asked for, to the digits it is written with - for mdf2peak
\* it is so when its days are counted from 31 December 1899, a day later than the
\* comment in the code says -, it keeps to its own line except in trace format
\* 1.1, and the rows that are numbered or timed from the first one are so
\* without a gap.  For the zone of this computer the date is said of whole hours
\* east of UTC only.  (PEAK_CAN_Exporter_1_1.cpp 15-37, PEAK_CAN_Exporter_2_1.cpp
\* 15-33, ASC_CAN_Exporter.cpp 36-39, CLX000_BaseExporter.cpp 297-303)
HeadersMatchRows ==
    \A o \in AllOutputs :
        LET f == out[o]
            start == f.rows[1].rec.time
            said == format # "p" \/ (input.here >= 0 /\ input.here % 60 = 0)
            shown == TimeOf(f.date, IF tool \in {"asc", "clx"} THEN 0 ELSE DaysTo1970)
        IN  /\ f.date # NoDate /\ f.rows # <<>> =>
                   /\ tool = "peak11" => shown <= start /\ start < shown + Digit
                   /\ tool = "peak21" => 2 * start - Digit < 2 * shown
                                        /\ 2 * shown <= 2 * start + Digit
                   /\ tool \in {"asc", "clx"} /\ said =>
                          shown = Second * (start \div Second) + Shift
                   /\ tool \in {"asc", "clx", "peak21"} => f.date.ended
            /\ \A i \in DOMAIN f.rows :
                   /\ f.rows[i].number = i - 1
                   /\ tool \in {"asc", "peak11", "peak21"} =>
                          f.rows[i].time = f.rows[i].rec.time - start
                   /\ tool = "clx" /\ i > 1 => f.rows[i - 1].time <= f.rows[i].time

\* Every cell of a row stands under the name of its own column, the configured
\* ones of mdf2clx too; a row may end early, or with an empty cell.  A log of
\* LIN frames of mdf2clx is left out when the column of types is asked for:
\* its header names it and its rows have none.  (CLX000_BaseExporter.cpp
\* 188-215, CLX000_CAN_Exporter.cpp 37-68, CSV_CAN_Exporter.cpp 76-97)
RowsFitHeader ==
    \A o \in AllOutputs : \A i \in DOMAIN out[o].rows :
        LET columns == out[o].columns
            cells == out[o].rows[i].cells
        IN  columns # <<>> /\ ~(o[1] = "LIN" /\ "Type" \in fields) =>
                \A c \in DOMAIN cells :
                    cells[c] = "" \/ (c <= Len(columns) /\ cells[c] = columns[c])

\* The length each block of a pcapng file declares is the number of bytes it
\* takes up, and each begins at a multiple of four: a reader that goes from
\* length to length finds every block.  (PCAP_EnhancedPacket_CAN.cpp 60-69,
\* PCAP_Option.cpp 20-41)
BlocksDelimited ==
    \A o \in AllOutputs :
        LET bs == out[o].blocks
        IN  \A n \in DOMAIN bs :
                /\ bs[n].begin = (IF n = 1 THEN 0 ELSE bs[n - 1].begin + bs[n - 1].declared)
                /\ bs[n].end = bs[n].begin + bs[n].declared
                /\ bs[n].end % 4 = 0
=============================================================================
