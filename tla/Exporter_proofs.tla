--------------------------- MODULE Exporter_proofs ---------------------------
(***************************************************************************)
(* Theorems about the exporters, for logs of any length.                   *)
(***************************************************************************)
EXTENDS Exporter, FiniteSetTheorems, SequenceTheorems, TLAPS

-----------------------------------------------------------------------------
(* The reports of a tool.                                                    *)

LEMMA PairRange ==
    ASSUME NEW a, NEW b
    PROVE  /\ Range(<<a, b>>) = {a, b} /\ Range(<<a>>) = {a}
           /\ <<a, b>> \in Seq({a, b}) /\ <<a>> \in Seq({a})
           /\ Len(<<a, b>>) = 2 /\ Len(<<a>>) = 1
           /\ <<a, b>>[1] = a /\ <<a, b>>[2] = b /\ <<a>>[1] = a
           /\ <<a>> # <<a, b>>
           /\ DOMAIN <<a, b>> = {1, 2} /\ DOMAIN <<a>> = {1}
<1>1. <<a, b>> \in Seq({a, b}) /\ <<a>> \in Seq({a})
  OBVIOUS
<1>2. Range(<<a, b>>) = {a, b}
  BY SMT DEF Range
<1>3. Range(<<a>>) = {a}
  BY SMT DEF Range
<1> QED BY <1>1, <1>2, <1>3

One == <<"data">>
Both == <<"data", "remote">>
Lin == <<"lin">>

LEMMA KindsDiffer == One # Both /\ One # Lin /\ Both # Lin
BY DEF One, Both, Lin

LEMMA KindFacts ==
    /\ Len(One) = 1 /\ Len(Lin) = 1 /\ Len(Both) = 2
    /\ One[1] = "data" /\ Lin[1] = "lin" /\ Both[1] = "data" /\ Both[2] = "remote"
    /\ Range(One) = {"data"} /\ Range(Lin) = {"lin"} /\ Range(Both) = {"data", "remote"}
BY PairRange DEF One, Both, Lin

\* What a report can be like.
IsReport(r) ==
    /\ r = Report(r.bus, r.kinds, r.channels, r.footer, r.dated)
    /\ r.bus \in {"CAN", "LIN"}
    /\ r.bus = "CAN" => r.kinds \in {One, Both}
    /\ r.bus = "LIN" => r.kinds = Lin
    /\ r.channels \in {{0}, {1, 2}}
    /\ r.footer \in BOOLEAN
    /\ r.kinds = Both => r.channels = {0} /\ tool # "clx"
    /\ r.kinds # Both => tool \notin {"peak11", "peak21"}
    /\ r.kinds # One => tool # "pcap"
    /\ r.kinds = One => tool \notin {"asc", "csv"}

LEMMA OneReport ==
    ASSUME NEW r, NEW kinds \in {One, Both}, NEW channels \in {{0}, {1, 2}},
           NEW footer \in BOOLEAN, NEW dated \in BOOLEAN,
           kinds = Both => channels = {0} /\ tool # "clx",
           kinds = One => tool \notin {"asc", "csv", "peak11", "peak21"},
           kinds = Both => tool # "pcap",
           \/ r = Report("CAN", kinds, channels, footer, dated)
           \/ r = Report("LIN", Lin, channels, footer, dated) /\ tool \notin {"pcap", "peak11", "peak21"}
    PROVE  IsReport(r)
<1>1. CASE r = Report("CAN", kinds, channels, footer, dated)
  <2>1. /\ r.bus = "CAN" /\ r.kinds = kinds /\ r.channels = channels /\ r.footer = footer
        /\ r.dated = dated
    BY <1>1, Zenon DEF Report
  <2>2. r.bus # "LIN"
    BY <2>1
  <2>3. r = Report(r.bus, r.kinds, r.channels, r.footer, r.dated)
    BY <1>1, <2>1, Zenon
  <2>4. /\ kinds = Both => channels = {0} /\ tool # "clx"
        /\ kinds # Both => tool \notin {"peak11", "peak21"}
        /\ kinds # One => tool # "pcap"
        /\ kinds = One => tool \notin {"asc", "csv"}
    OBVIOUS
  <2> QED BY <2>1, <2>2, <2>3, <2>4, Zenon DEF IsReport
<1>2. CASE r = Report("LIN", Lin, channels, footer, dated) /\ tool \notin {"pcap", "peak11", "peak21"}
  <2>1. /\ r.bus = "LIN" /\ r.kinds = Lin /\ r.channels = channels /\ r.footer = footer
        /\ r.dated = dated
    BY <1>2, Zenon DEF Report
  <2>2. r.bus # "CAN" /\ tool # "pcap"
    BY <1>2, <2>1
  <2>3. r = Report(r.bus, r.kinds, r.channels, r.footer, r.dated)
    BY <1>2, <2>1, Zenon
  <2>4. tool \notin {"peak11", "peak21"}
    BY <1>2
  <2> QED BY <2>1, <2>2, <2>3, <2>4, KindsDiffer, Zenon DEF IsReport
<1> QED BY <1>1, <1>2

LEMMA ReportsExpanded ==
    ASSUME tool \in Tools
    PROVE  \E kinds \in {One, Both}, channels \in {{0}, {1, 2}}, footer, dated \in BOOLEAN :
             /\ kinds = Both => channels = {0} /\ tool # "clx"
             /\ kinds = One => tool \notin {"asc", "csv", "peak11", "peak21"}
             /\ kinds = Both => tool # "pcap"
             /\ \/ ReportsOf[tool] = <<Report("CAN", kinds, channels, footer, dated)>>
                \/ /\ tool \notin {"pcap", "peak11", "peak21"}
                   /\ ReportsOf[tool] = <<Report("CAN", kinds, channels, footer, dated),
                                          Report("LIN", Lin, channels, footer, dated)>>
<1>1. tool \in {"asc", "clx", "csv", "peak11", "peak21", "pcap", "socketcan"}
  BY ToolsAssumption
<1>2. CASE tool = "asc"
  <2>1. ReportsOf[tool] = <<Report("CAN", Both, {0}, TRUE, TRUE), Report("LIN", Lin, {0}, TRUE, TRUE)>>
    BY <1>2 DEF ReportsOf, AscReports, Both, Lin, Whole
  <2> QED BY <1>2, <2>1, KindsDiffer
<1>3. CASE tool = "clx"
  <2>1. ReportsOf[tool] = <<Report("CAN", One, {1, 2}, FALSE, TRUE), Report("LIN", Lin, {1, 2}, FALSE, TRUE)>>
    BY <1>3 DEF ReportsOf, ClxReports, One, Lin
  <2>2. tool \notin {"pcap", "peak11", "peak21"} /\ tool \notin {"asc", "csv", "peak11", "peak21"}
    BY <1>3
  <2> DEFINE channels == {1, 2}
  <2>3. channels \in {{0}, channels} /\ One \in {One, Both} /\ FALSE \in BOOLEAN /\ TRUE \in BOOLEAN
    OBVIOUS
  <2> HIDE DEF channels
  <2>4. ReportsOf[tool] = <<Report("CAN", One, channels, FALSE, TRUE), Report("LIN", Lin, channels, FALSE, TRUE)>>
    BY <2>1 DEF channels
  <2>5. QED BY <2>2, <2>3, <2>4, KindsDiffer DEF channels
<1>4. CASE tool = "csv"
  <2>1. ReportsOf[tool] = <<Report("CAN", Both, {0}, FALSE, FALSE), Report("LIN", Lin, {0}, FALSE, FALSE)>>
    BY <1>4 DEF ReportsOf, CsvReports, Both, Lin, Whole
  <2> QED BY <1>4, <2>1, KindsDiffer
<1>5. CASE tool \in {"peak11", "peak21"}
  <2>1. ReportsOf[tool] = <<Report("CAN", Both, {0}, FALSE, TRUE)>>
    <3>1. CASE tool = "peak11" BY <3>1 DEF ReportsOf, PeakReports, Both, Whole
    <3>2. CASE tool = "peak21" BY <3>2 DEF ReportsOf, PeakReports, Both, Whole
    <3> QED BY <1>5, <3>1, <3>2
  <2> QED BY <1>5, <2>1, KindsDiffer
<1>6. CASE tool = "pcap"
  <2>1. ReportsOf[tool] = <<Report("CAN", One, {0}, FALSE, FALSE)>>
    BY <1>6 DEF ReportsOf, PcapReports, One, Whole
  <2> QED BY <1>6, <2>1, KindsDiffer
<1>7. CASE tool = "socketcan"
  <2>1. ReportsOf[tool] = <<Report("CAN", One, {0}, FALSE, FALSE), Report("LIN", Lin, {0}, FALSE, FALSE)>>
    BY <1>7 DEF ReportsOf, SocketCanReports, One, Lin, Whole
  <2> QED BY <1>7, <2>1, KindsDiffer
<1> QED BY <1>1, <1>2, <1>3, <1>4, <1>5, <1>6, <1>7

\* A tool makes at most one report of a bus.
LEMMA ReportFacts ==
    ASSUME tool \in Tools
    PROVE  /\ ReportsOf[tool] \in Seq(Range(ReportsOf[tool]))
           /\ \A i, j \in DOMAIN ReportsOf[tool] :
                 ReportsOf[tool][i].bus = ReportsOf[tool][j].bus => i = j
           /\ \A r \in Range(ReportsOf[tool]) : IsReport(r)
           /\ \A r, s \in Range(ReportsOf[tool]) : r.bus = s.bus => r = s
<1>1. PICK kinds \in {One, Both}, channels \in {{0}, {1, 2}}, footer, dated \in BOOLEAN :
             /\ kinds = Both => channels = {0} /\ tool # "clx"
             /\ kinds = One => tool \notin {"asc", "csv", "peak11", "peak21"}
             /\ kinds = Both => tool # "pcap"
             /\ \/ ReportsOf[tool] = <<Report("CAN", kinds, channels, footer, dated)>>
                \/ /\ tool \notin {"pcap", "peak11", "peak21"}
                   /\ ReportsOf[tool] = <<Report("CAN", kinds, channels, footer, dated),
                                          Report("LIN", Lin, channels, footer, dated)>>
  BY ReportsExpanded
<1> DEFINE can == Report("CAN", kinds, channels, footer, dated)
           lin == Report("LIN", Lin, channels, footer, dated)
           reports == ReportsOf[tool]
<1>2. can.bus = "CAN" /\ lin.bus = "LIN"
  BY DEF Report
<1>3. IsReport(can)
  BY <1>1, OneReport
<1>4. reports = <<can>> \/ (reports = <<can, lin>> /\ tool \notin {"pcap", "peak11", "peak21"})
  BY <1>1
<1>5. reports = <<can, lin>> => IsReport(lin)
  <2> SUFFICES ASSUME reports = <<can, lin>> PROVE IsReport(lin)
    OBVIOUS
  <2>1. <<can>> # <<can, lin>>
    BY PairRange
  <2>2. tool \notin {"pcap", "peak11", "peak21"}
    BY <1>4, <2>1
  <2> QED BY <1>1, <2>2, OneReport
<1> HIDE DEF can, lin
<1>6. CASE reports = <<can>>
  <2> HIDE DEF reports
  <2>1. Range(reports) = {can} /\ reports \in Seq({can}) /\ DOMAIN reports = {1} /\ reports[1] = can
    BY <1>6, PairRange
  <2> QED BY <2>1, <1>2, <1>3 DEF reports
<1>7. CASE reports = <<can, lin>>
  <2> HIDE DEF reports
  <2>0. /\ Range(<<can, lin>>) = {can, lin} /\ <<can, lin>> \in Seq({can, lin})
        /\ DOMAIN <<can, lin>> = {1, 2} /\ <<can, lin>>[1] = can /\ <<can, lin>>[2] = lin
    BY PairRange, Zenon
  <2>1. /\ Range(reports) = {can, lin} /\ reports \in Seq({can, lin})
        /\ DOMAIN reports = {1, 2} /\ reports[1] = can /\ reports[2] = lin
    BY <1>7, <2>0
  <2> QED BY <2>1, <1>2, <1>3, <1>5, <1>7 DEF reports
<1> QED BY <1>4, <1>6, <1>7

LEMMA KindsAreKinds ==
    ASSUME NEW r, IsReport(r)
    PROVE  /\ r.kinds \in {One, Both, Lin} /\ Range(r.kinds) \subseteq Kinds
           /\ Len(r.kinds) = 2 <=> r.kinds = Both
           /\ r.kinds # Both => Range(r.kinds) = {r.kinds[1]}
BY KindFacts, KindsDiffer DEF IsReport, Kinds

-----------------------------------------------------------------------------
(* Where convert() is.                                                       *)

LEMMA StepKeepsSettings ==
    ASSUME [Next]_vars
    PROVE  input' = input /\ tool' = tool /\ format' = format /\ fields' = fields
<1>1. CASE UNCHANGED vars BY <1>1 DEF vars
<1>2. CASE Open BY <1>2 DEF Open, settings
<1>3. CASE OpenThrows BY <1>3 DEF OpenThrows, settings
<1>4. CASE SkipReport BY <1>4 DEF SkipReport, settings
<1>5. CASE StartSome BY <1>5 DEF StartSome, StartReport, settings
<1>6. CASE MergeStep BY <1>6 DEF MergeStep, settings
<1>7. CASE MergeDone BY <1>7 DEF MergeDone, settings
<1>8. CASE Terminate BY <1>8 DEF Terminate, settings
<1>9. CASE Throw BY <1>9 DEF Throw, settings
<1>10. CASE \E fits \in BOOLEAN : WriteRecord(fits) BY <1>10 DEF WriteRecord, settings
<1>11. CASE FinishSome BY <1>11 DEF FinishSome, FinishReport, settings
<1>12. CASE Return BY <1>12 DEF Return, settings
<1> QED
  BY <1>1, <1>2, <1>3, <1>4, <1>5, <1>6, <1>7, <1>8, <1>9, <1>10, <1>11, <1>12 DEF Next

\* The record kinds, logs and zones are those of an input.
Settled ==
    /\ input \in Inputs /\ tool \in Tools /\ format \in {"u", "l", "p"}
    /\ fields \subseteq ClxColumns

\* The reports left are of buses of their own, that of the report being made is
\* another one, and a report is being made when records are merged or written.
Agenda ==
    /\ Settled
    /\ todo \in Seq(Range(ReportsOf[tool]))
    /\ \A i, j \in DOMAIN todo : todo[i].bus = todo[j].bus => i = j
    /\ \/ report = <<>>
       \/ \E r \in Range(ReportsOf[tool]) :
              /\ report = <<r>>
              /\ Messages(r.bus) > 0
              /\ \A i \in DOMAIN todo : todo[i].bus # r.bus
    /\ phase \in {"closed", "open", "merging", "writing", "done", "terminated"}
    /\ phase \in {"merging", "writing"} => report # <<>>
    /\ phase \in {"closed", "open"} => report = <<>>
    /\ phase = "merging" => report[1].kinds = Both
    /\ status \in {"none", "true", "false", "threw"}
    /\ status = "true" => phase = "done" /\ todo = <<>> /\ report = <<>>

LEMMA MessagesKept ==
    ASSUME input' = input, NEW bus
    PROVE  Messages(bus)' = Messages(bus)
BY DEF Messages

\* The first of the reports to make is none of the others.
LEMMA HeadOfTodo ==
    ASSUME Agenda, todo # <<>>
    PROVE  /\ Head(todo) \in Range(ReportsOf[tool]) /\ IsReport(Head(todo))
           /\ 1 \in DOMAIN todo /\ todo[1] = Head(todo)
           /\ Tail(todo) \in Seq(Range(ReportsOf[tool]))
           /\ \A i, j \in DOMAIN Tail(todo) : Tail(todo)[i].bus = Tail(todo)[j].bus => i = j
           /\ \A i \in DOMAIN Tail(todo) :
                 /\ Tail(todo)[i].bus # Head(todo).bus
                 /\ i + 1 \in DOMAIN todo /\ Tail(todo)[i] = todo[i + 1]
           /\ \A i \in DOMAIN todo : i = 1 \/ (i - 1 \in DOMAIN Tail(todo) /\ Tail(todo)[i - 1] = todo[i])
<1> DEFINE S == Range(ReportsOf[tool])
<1>1. todo \in Seq(S) /\ tool \in Tools
  BY DEF Agenda, Settled
<1>2. \A r \in S : IsReport(r)
  BY <1>1, ReportFacts
<1> HIDE DEF S
<1>3. /\ Head(todo) \in S /\ Tail(todo) \in Seq(S) /\ Len(todo) \in Nat /\ Len(todo) > 0
      /\ DOMAIN todo = 1..Len(todo)
      /\ DOMAIN Tail(todo) = 1..(Len(todo) - 1)
      /\ \A i \in 1..(Len(todo) - 1) : Tail(todo)[i] = todo[i + 1]
      /\ Head(todo) = todo[1]
  BY <1>1
<1>4. \A i, j \in DOMAIN todo : todo[i].bus = todo[j].bus => i = j
  BY DEF Agenda
<1>5. ASSUME NEW i \in DOMAIN Tail(todo)
      PROVE  i \in Nat /\ i + 1 \in DOMAIN todo /\ i + 1 # 1 /\ Tail(todo)[i] = todo[i + 1]
  BY <1>3
<1>6. \A i, j \in DOMAIN Tail(todo) : Tail(todo)[i].bus = Tail(todo)[j].bus => i = j
  BY <1>4, <1>5
<1>7. 1 \in DOMAIN todo
  BY <1>3
<1>8. \A i \in DOMAIN Tail(todo) : Tail(todo)[i].bus # Head(todo).bus
  BY <1>3, <1>4, <1>5, <1>7
<1>9. \A i \in DOMAIN todo : i = 1 \/ (i - 1 \in DOMAIN Tail(todo) /\ Tail(todo)[i - 1] = todo[i])
  BY <1>3
<1> QED BY <1>2, <1>3, <1>5, <1>6, <1>7, <1>8, <1>9 DEF S

LEMMA AgendaStep == ASSUME Agenda, [Next]_vars PROVE Agenda'
<1>1. input' = input /\ tool' = tool /\ format' = format /\ fields' = fields
  BY StepKeepsSettings
<1>2. Settled'
  BY <1>1 DEF Agenda, Settled
<1>3. \A bus : Messages(bus)' = Messages(bus)
  BY <1>1, MessagesKept
<1>4. ASSUME todo' = todo, report' = report, phase' = phase, status' = status PROVE Agenda'
  BY <1>1, <1>2, <1>3, <1>4 DEF Agenda
<1>5. CASE UNCHANGED vars
  BY <1>4, <1>5 DEF vars
<1>6. CASE Open
  BY <1>1, <1>2, <1>3, <1>6 DEF Open, Agenda
<1>7. CASE OpenThrows
  BY <1>1, <1>2, <1>3, <1>7 DEF OpenThrows, Agenda
<1>8. CASE SkipReport
  <2>1. /\ todo # <<>> /\ todo' = Tail(todo) /\ report' = report /\ phase' = phase
        /\ status' = status /\ phase = "open"
    BY <1>8 DEF SkipReport
  <2>2. report = <<>> /\ status # "true"
    BY <2>1 DEF Agenda
  <2> QED BY <1>1, <1>2, <2>1, <2>2, HeadOfTodo DEF Agenda
<1>9. CASE StartSome
  <2>1. /\ todo # <<>> /\ todo' = Tail(todo) /\ report' = <<Head(todo)>>
        /\ phase' = (IF Len(Head(todo).kinds) = 2 THEN "merging" ELSE "writing")
        /\ status' = status /\ phase = "open" /\ Messages(Head(todo).bus) > 0
    BY <1>9 DEF StartSome, StartReport
  <2>2. status # "true"
    BY <2>1 DEF Agenda
  <2>3. Len(Head(todo).kinds) = 2 => Head(todo).kinds = Both
    <3>1. IsReport(Head(todo))
      BY <2>1, HeadOfTodo
    <3> QED BY <3>1, KindsAreKinds
  <2>4. \E r \in Range(ReportsOf[tool]) :
            /\ report' = <<r>>
            /\ Messages(r.bus) > 0
            /\ \A i \in DOMAIN todo' : todo'[i].bus # r.bus
    BY <2>1, HeadOfTodo
  <2>5. report' # <<>> /\ report'[1] = Head(todo)
    BY <2>1
  <2> QED BY <1>1, <1>2, <1>3, <2>1, <2>2, <2>3, <2>4, <2>5, HeadOfTodo DEF Agenda
<1>10. CASE MergeStep
  BY <1>4, <1>10 DEF MergeStep
<1>11. CASE MergeDone
  BY <1>1, <1>2, <1>3, <1>11 DEF MergeDone, Agenda
<1>12. CASE Terminate
  BY <1>1, <1>2, <1>3, <1>12 DEF Terminate, Unreadable, Agenda
<1>13. CASE Throw
  BY <1>1, <1>2, <1>3, <1>13 DEF Throw, Unreadable, Agenda
<1>14. CASE \E fits \in BOOLEAN : WriteRecord(fits)
  BY <1>4, <1>14 DEF WriteRecord
<1>15. CASE FinishSome
  BY <1>1, <1>2, <1>3, <1>15 DEF FinishSome, FinishReport, Agenda
<1>16. CASE Return
  BY <1>1, <1>2, <1>3, <1>16 DEF Return, Agenda
<1> QED
  BY <1>5, <1>6, <1>7, <1>8, <1>9, <1>10, <1>11, <1>12, <1>13, <1>14, <1>15, <1>16 DEF Next

LEMMA AgendaInv == Spec => []Agenda
<1>1. Init => Agenda
  <2> SUFFICES ASSUME Init PROVE Agenda
    OBVIOUS
  <2>1. Settled
    BY FieldsAssumption, FormatsAssumption DEF Init, InputInit, Settled
  <2>2. tool \in Tools /\ todo = ReportsOf[tool] /\ report = <<>> /\ phase = "closed" /\ status = "none"
    BY <2>1 DEF Init, Settled
  <2> QED BY <2>1, <2>2, ReportFacts DEF Agenda
<1>2. Agenda /\ [Next]_vars => Agenda'
  BY AgendaStep
<1> QED
  BY <1>1, <1>2, PTL DEF Spec

-----------------------------------------------------------------------------
(* The records of a report.                                                  *)

\* A record that one of the iterators of report r shows.
InReport(rec, r) ==
    /\ rec.kind \in Range(r.kinds) /\ rec.kind \in Kinds
    /\ rec.index \in DOMAIN input.log[rec.kind]
    /\ rec = input.log[rec.kind][rec.index]

LEMMA InputFacts ==
    ASSUME Agenda, NEW k \in Kinds
    PROVE  /\ input.log[k] \in Seq(RecordType)
           /\ Len(input.log[k]) \in Nat /\ DOMAIN input.log[k] = 1..Len(input.log[k])
           /\ \A i \in DOMAIN input.log[k] :
                 /\ input.log[k][i] \in RecordType
                 /\ input.log[k][i].kind = k /\ input.log[k][i].index = i
<1>1. InputOK(input)
  BY InputsAssumption DEF Agenda, Settled
<1>2. input.log[k] \in Seq(RecordType)
  BY <1>1 DEF InputOK
<1>3. \A i \in DOMAIN input.log[k] : input.log[k][i].kind = k /\ input.log[k][i].index = i
  BY <1>1 DEF InputOK
<1> QED BY <1>2, <1>3

\* An element of the log of a kind of the report is in the report.
LEMMA ElementInReport ==
    ASSUME Agenda, NEW r, NEW k \in Kinds, k \in Range(r.kinds), NEW i \in DOMAIN input.log[k]
    PROVE  InReport(input.log[k][i], r)
BY InputFacts DEF InReport

LEMMA InReportKept ==
    ASSUME input' = input, NEW rec, NEW r
    PROVE  InReport(rec, r)' = InReport(rec, r)
BY DEF InReport

\* The report being made, while there is one.
LEMMA CurrentReport ==
    ASSUME Agenda, report # <<>>
    PROVE  /\ report = <<report[1]>> /\ report[1] \in Range(ReportsOf[tool])
           /\ IsReport(report[1]) /\ Messages(report[1].bus) > 0
           /\ \A i \in DOMAIN todo : todo[i].bus # report[1].bus
<1>1. PICK r \in Range(ReportsOf[tool]) :
          report = <<r>> /\ Messages(r.bus) > 0 /\ \A i \in DOMAIN todo : todo[i].bus # r.bus
  BY DEF Agenda
<1>2. report[1] = r
  BY <1>1
<1>3. IsReport(r)
  BY ReportFacts DEF Agenda, Settled
<1> QED BY <1>1, <1>2, <1>3

\* What is merged are data frames and remote frames.
LEMMA MergedSources ==
    ASSUME Agenda, phase = "merging"
    PROVE  /\ report # <<>> /\ report[1].kinds = Both
           /\ Source(1) = input.log["data"] /\ Source(2) = input.log["remote"]
           /\ \A i \in {1, 2} :
                 /\ Source(i) \in Seq(RecordType) /\ Len(Source(i)) \in Nat
                 /\ DOMAIN Source(i) = 1..Len(Source(i))
                 /\ \A m \in DOMAIN Source(i) :
                       Source(i)[m] \in RecordType /\ InReport(Source(i)[m], report[1])
<1>1. report # <<>> /\ report[1].kinds = Both
  BY DEF Agenda
<1>2. Source(1) = input.log["data"] /\ Source(2) = input.log["remote"]
  BY <1>1, KindFacts DEF Source
<1>3. "data" \in Kinds /\ "remote" \in Kinds /\ "data" \in Range(Both) /\ "remote" \in Range(Both)
  BY KindFacts DEF Kinds
<1>4. ASSUME NEW k \in {"data", "remote"}
      PROVE  /\ input.log[k] \in Seq(RecordType) /\ Len(input.log[k]) \in Nat
             /\ DOMAIN input.log[k] = 1..Len(input.log[k])
             /\ \A m \in DOMAIN input.log[k] :
                   input.log[k][m] \in RecordType /\ InReport(input.log[k][m], report[1])
  BY <1>1, <1>3, InputFacts, ElementInReport
<1> QED BY <1>1, <1>2, <1>4

\* The queue holds records of the report being made, the merge has taken no
\* more than there is.
QueueOK ==
    /\ queue \in Seq(RecordType) /\ next \in Nat \ {0}
    /\ report # <<>> => \A j \in DOMAIN queue : InReport(queue[j], report[1])
    /\ taken \in [1..2 -> Nat]
    /\ phase = "merging" => \A i \in {1, 2} : taken[i] <= Len(Source(i))

LEMMA MergeEffect ==
    ASSUME Agenda, QueueOK, MergeStep
    PROVE  \E i \in {1, 2} :
             /\ i = (IF TakesSecond THEN 2 ELSE 1) /\ Left(i)
             /\ taken[i] + 1 \in DOMAIN Source(i)
             /\ queue' = Append(queue, Source(i)[taken[i] + 1])
             /\ taken' = [taken EXCEPT ![i] = taken[i] + 1]
             /\ queue' \in Seq(RecordType) /\ Len(queue') = Len(queue) + 1
             /\ \A j \in DOMAIN queue : j \in DOMAIN queue' /\ queue'[j] = queue[j]
             /\ Len(queue') \in DOMAIN queue' /\ queue'[Len(queue')] = Source(i)[taken[i] + 1]
             /\ \A j \in DOMAIN queue' : j \in DOMAIN queue \/ j = Len(queue')
<1> DEFINE i == IF TakesSecond THEN 2 ELSE 1
           rec == Source(i)[taken[i] + 1]
<1>1. phase = "merging" /\ (Left(1) \/ Left(2))
      /\ queue' = Append(queue, Current(i)) /\ taken' = [taken EXCEPT ![i] = @ + 1]
  BY DEF MergeStep
<1>2. Left(i) /\ i \in {1, 2}
  BY <1>1 DEF TakesSecond
<1> HIDE DEF i
<1>3. taken[i] \in Nat /\ taken[i] < Len(Source(i))
  BY <1>2 DEF QueueOK, Left
<1>4. Len(Source(i)) \in Nat /\ DOMAIN Source(i) = 1..Len(Source(i))
      /\ \A m \in DOMAIN Source(i) : Source(i)[m] \in RecordType
  BY <1>1, <1>2, MergedSources
<1>5. taken[i] + 1 \in DOMAIN Source(i)
  BY <1>3, <1>4
<1>6. rec \in RecordType /\ rec = Current(i)
  BY <1>4, <1>5 DEF Current
<1>7. queue' = Append(queue, rec)
  BY <1>1, <1>6
<1> HIDE DEF rec
<1>8. queue \in Seq(RecordType)
  BY DEF QueueOK
<1>9. /\ queue' \in Seq(RecordType) /\ Len(queue') = Len(queue) + 1
      /\ \A j \in DOMAIN queue : j \in DOMAIN queue' /\ queue'[j] = queue[j]
      /\ Len(queue') \in DOMAIN queue' /\ queue'[Len(queue')] = rec
      /\ \A j \in DOMAIN queue' : j \in DOMAIN queue \/ j = Len(queue')
  BY <1>6, <1>7, <1>8
<1> QED BY <1>1, <1>2, <1>5, <1>7, <1>9 DEF i, rec

\* What is in the queue when a report begins.
LEMMA StartQueue ==
    ASSUME Agenda, StartSome
    PROVE  /\ todo # <<>> /\ report' = <<Head(todo)>> /\ report'[1] = Head(todo)
           /\ next' = 1 /\ taken' = <<0, 0>> /\ phase = "open" /\ report = <<>>
           /\ Head(todo).kinds = Both => phase' = "merging" /\ queue' = <<>>
           /\ Head(todo).kinds # Both =>
                 /\ phase' = "writing" /\ Head(todo).kinds[1] \in Kinds
                 /\ Range(Head(todo).kinds) = {Head(todo).kinds[1]}
                 /\ queue' = input.log[Head(todo).kinds[1]]
           /\ queue' \in Seq(RecordType)
           /\ \A j \in DOMAIN queue' : InReport(queue'[j], Head(todo))
<1> DEFINE r == Head(todo)
<1>1. /\ todo # <<>> /\ report' = <<r>> /\ next' = 1 /\ taken' = <<0, 0>> /\ phase = "open"
      /\ phase' = (IF Len(r.kinds) = 2 THEN "merging" ELSE "writing")
      /\ queue' = (IF Len(r.kinds) = 2 THEN <<>> ELSE input.log[r.kinds[1]])
  BY DEF StartSome, StartReport
<1>2. IsReport(r) /\ report = <<>> /\ report'[1] = r
  BY <1>1, HeadOfTodo DEF Agenda
<1> HIDE DEF r
<1>3. r.kinds # Both => r.kinds[1] \in Kinds /\ Range(r.kinds) = {r.kinds[1]}
  BY <1>2, KindsAreKinds
<1>4. CASE r.kinds = Both
  <2>1. queue' = <<>> /\ phase' = "merging"
    BY <1>1, <1>4, KindFacts
  <2> QED BY <1>1, <1>2, <1>4, <2>1 DEF r
<1>5. CASE r.kinds # Both
  <2> DEFINE k == r.kinds[1]
  <2>1. queue' = input.log[k] /\ phase' = "writing" /\ k \in Kinds /\ k \in Range(r.kinds)
    BY <1>1, <1>2, <1>3, <1>5, KindsAreKinds
  <2> HIDE DEF k
  <2>2. queue' \in Seq(RecordType) /\ \A j \in DOMAIN queue' : InReport(queue'[j], r)
    BY <2>1, InputFacts, ElementInReport
  <2> QED BY <1>1, <1>2, <1>3, <1>5, <2>1, <2>2 DEF r, k
<1> QED BY <1>4, <1>5

LEMMA QueueInv == Spec => []QueueOK
<1>1. Init => QueueOK
  BY DEF Init, QueueOK
<1>2. ASSUME Agenda, QueueOK, [Next]_vars PROVE QueueOK'
  <2>1. input' = input
    BY <1>2, StepKeepsSettings
  <2>2. \A rec, r : InReport(rec, r)' = InReport(rec, r)
    BY <2>1, InReportKept
  <2>3. ASSUME queue' = queue, next' = next, taken' = taken, report' = report,
               phase' = "merging" => phase = "merging"
        PROVE  QueueOK'
    BY <1>2, <2>1, <2>2, <2>3 DEF QueueOK, Source, InReport
  <2>4. CASE UNCHANGED vars \/ Open \/ OpenThrows \/ SkipReport \/ MergeDone \/ Terminate \/ Throw \/ Return
    BY <2>3, <2>4 DEF vars, Open, OpenThrows, SkipReport, MergeDone, Terminate, Throw, Return
  <2>5. CASE StartSome
    <3>1. /\ queue' \in Seq(RecordType) /\ next' = 1 /\ taken' = <<0, 0>> /\ report'[1] = Head(todo)
          /\ \A j \in DOMAIN queue' : InReport(queue'[j], Head(todo))
      BY <1>2, <2>5, StartQueue
    <3>2. taken' \in [1..2 -> Nat] /\ taken'[1] = 0 /\ taken'[2] = 0
      BY <3>1
    <3>3. phase' = "merging" => \A i \in {1, 2} : taken'[i] <= Len(Source(i)')
      <4> SUFFICES ASSUME phase' = "merging" PROVE \A i \in {1, 2} : taken'[i] <= Len(Source(i)')
        OBVIOUS
      <4>1. Head(todo).kinds = Both
        BY <1>2, <2>5, StartQueue, Zenon
      <4>2. Source(1)' = input.log["data"] /\ Source(2)' = input.log["remote"]
        BY <2>1, <3>1, <4>1, KindFacts DEF Source
      <4>3. Len(input.log["data"]) \in Nat /\ Len(input.log["remote"]) \in Nat
        BY <1>2, InputFacts DEF Kinds
      <4> QED BY <3>2, <4>2, <4>3
    <3> QED BY <2>1, <2>2, <3>1, <3>2, <3>3 DEF QueueOK
  <2>6. CASE MergeStep
    <3>1. PICK i \in {1, 2} :
             /\ Left(i) /\ taken[i] + 1 \in DOMAIN Source(i)
             /\ queue' = Append(queue, Source(i)[taken[i] + 1])
             /\ taken' = [taken EXCEPT ![i] = taken[i] + 1]
             /\ queue' \in Seq(RecordType) /\ Len(queue') = Len(queue) + 1
             /\ \A j \in DOMAIN queue : j \in DOMAIN queue' /\ queue'[j] = queue[j]
             /\ Len(queue') \in DOMAIN queue' /\ queue'[Len(queue')] = Source(i)[taken[i] + 1]
             /\ \A j \in DOMAIN queue' : j \in DOMAIN queue \/ j = Len(queue')
      BY <1>2, <2>6, MergeEffect
    <3>2. phase = "merging" /\ phase' = phase /\ report' = report /\ next' = next
      BY <2>6 DEF MergeStep
    <3>3. InReport(Source(i)[taken[i] + 1], report[1]) /\ report # <<>>
      BY <1>2, <3>1, <3>2, MergedSources
    <3>4. \A j \in DOMAIN queue' : InReport(queue'[j], report[1])
      BY <1>2, <3>1, <3>3 DEF QueueOK
    <3>5. \A n \in {1, 2} : taken[n] \in Nat /\ taken[n] <= Len(Source(n)) /\ Len(Source(n)) \in Nat
      BY <1>2, <3>2, MergedSources DEF QueueOK
    <3>6. taken' \in [1..2 -> Nat] /\ \A n \in {1, 2} : taken'[n] <= Len(Source(n))
      BY <1>2, <3>1, <3>5 DEF QueueOK, Left
    <3>7. \A n \in {1, 2} : Source(n)' = Source(n)
      BY <2>1, <3>2 DEF Source
    <3> QED BY <1>2, <2>2, <3>1, <3>2, <3>4, <3>6, <3>7 DEF QueueOK
  <2>7. CASE \E fits \in BOOLEAN : WriteRecord(fits)
    <3>1. /\ queue' = queue /\ next' = next + 1 /\ taken' = taken /\ report' = report
          /\ phase' = "writing"
      BY <2>7 DEF WriteRecord
    <3> QED BY <1>2, <2>2, <3>1 DEF QueueOK
  <2>8. CASE FinishSome
    <3>1. queue' = <<>> /\ next' = next /\ taken' = taken /\ report' = <<>> /\ phase' = "open"
      BY <2>8 DEF FinishSome, FinishReport
    <3> QED BY <1>2, <3>1 DEF QueueOK
  <2> QED
    BY <1>2, <2>4, <2>5, <2>6, <2>7, <2>8 DEF Next
<1> QED
  BY <1>1, <1>2, AgendaInv, PTL DEF Spec

-----------------------------------------------------------------------------
(* Times, rows and blocks: what is computed for one record.                  *)

LEMMA DivisionFacts ==
    ASSUME NEW a \in Int, NEW b \in Nat \ {0}
    PROVE  /\ a \div b \in Int /\ a % b \in Int
           /\ a = b * (a \div b) + (a % b)
           /\ 0 <= a % b /\ a % b < b
OBVIOUS

LEMMA ShiftFacts ==
    ASSUME Agenda
    PROVE  /\ input.zone \in Int /\ input.here \in Int
           /\ -1440 < input.here /\ input.here < 1440
           /\ HourDifference \in Int /\ MinuteDifference \in Int
<1>1. InputOK(input)
  BY InputsAssumption DEF Agenda, Settled
<1>2. input.zone \in Int /\ input.here \in Int /\ -1440 < input.here /\ input.here < 1440
  BY <1>1 DEF InputOK
<1> QED BY <1>2 DEF HourDifference, MinuteDifference

LEMMA ConvertFacts ==
    ASSUME Agenda, NEW t \in Int
    PROVE  ConvertSeconds(t) \in Int /\ ConvertTicks(t) \in Int
<1>1. Second \in Int
  BY SecondAssumption
<1>2. format \in {"l", "u", "p"}
  BY DEF Agenda, Settled
<1>3. CASE format = "l"
  BY <1>1, <1>3, ShiftFacts DEF ConvertSeconds, ConvertTicks
<1>4. CASE format = "u"
  BY <1>1, <1>4, ShiftFacts DEF ConvertSeconds, ConvertTicks
<1>5. CASE format = "p"
  BY <1>1, <1>5, ShiftFacts DEF ConvertSeconds, ConvertTicks
<1> QED BY <1>2, <1>3, <1>4, <1>5

LEMMA RoundedFacts ==
    ASSUME NEW rest \in Int
    PROVE  Rounded(rest) \in Int
<1>1. Milli \in Nat \ {0}
  BY SecondAssumption
<1> DEFINE down == rest \div Milli
<1>2. down \in Int
  BY <1>1, DivisionFacts
<1>3. Rounded(rest) \in {down, down + 1}
  BY DEF Rounded
<1> HIDE DEF down
<1> QED BY <1>2, <1>3

LEMMA DayFacts == Day \in Nat \ {0} /\ Digit \in Nat \ {0}
<1>1. Second \in Nat \ {0}
  BY SecondAssumption
<1>2. Day \in Nat \ {0}
  BY <1>1 DEF Day
<1> QED BY <1>2, DigitAssumption

\* A date is typed, and stands for the time it was made from.
LEMMA DateFacts ==
    ASSUME NEW from \in Int, NEW ticks \in Int
    PROVE  /\ DateFrom(from, ticks) \in DateType
           /\ TimeOf(DateFrom(from, ticks), from) = ticks
<1> DEFINE q == ticks \div Day
           r == ticks % Day
           e == Printed[tool] <= Placeholder[tool]
           D == Day
<1>1. q \in Int /\ r \in Int /\ ticks = D * q + r
  BY DayFacts, DivisionFacts
<1>2. DateFrom(from, ticks) = [day |-> from + q, part |-> r, ended |-> e]
  BY DEF DateFrom
<1>3. TimeOf(DateFrom(from, ticks), from) = (DateFrom(from, ticks).day - from) * D
                                            + DateFrom(from, ticks).part
  BY DEF TimeOf
<1>4. D \in Int
  BY DayFacts
<1>5. e \in BOOLEAN
  OBVIOUS
<1> HIDE DEF q, r, e, D
<1>6. ((from + q) - from) * D + r = ticks
  BY <1>1, <1>4
<1>7. DateFrom(from, ticks) \in DateType
  BY <1>1, <1>2, <1>5 DEF DateType
<1>8. DateFrom(from, ticks).day = from + q /\ DateFrom(from, ticks).part = r
  BY <1>2
<1> QED BY <1>3, <1>6, <1>7, <1>8

\* The digits mdf2peak writes of a time, as ticks.
PeakTicks(t) == Digit * (IF tool = "peak11" THEN t \div Digit
                         ELSE (2 * t + Digit) \div (2 * Digit))

LEMMA PeakTicksFacts ==
    ASSUME NEW t \in Int
    PROVE  /\ PeakTicks(t) \in Int
           /\ tool = "peak11" => PeakTicks(t) <= t /\ t < PeakTicks(t) + Digit
           /\ tool = "peak21" => /\ 2 * t - Digit < 2 * PeakTicks(t)
                                /\ 2 * PeakTicks(t) <= 2 * t + Digit
<1> DEFINE d == Digit
           b == 2 * d
           u == 2 * t + d
           cut == t \div d
           near == u \div b
<1>1. d \in Nat \ {0} /\ b \in Nat \ {0} /\ u \in Int
  BY DayFacts
<1> HIDE DEF b, u
<1>2. cut \in Int /\ t % d \in Int /\ t = d * cut + (t % d) /\ 0 <= t % d /\ t % d < d
  BY <1>1, DivisionFacts
<1>3. near \in Int /\ u % b \in Int /\ u = b * near + (u % b) /\ 0 <= u % b /\ u % b < b
  BY <1>1, DivisionFacts
<1>4. PeakTicks(t) = d * (IF tool = "peak11" THEN cut ELSE near)
  BY DEF PeakTicks, b, u
<1> HIDE DEF d, cut, near
<1>5. d * cut \in Int /\ d * near \in Int /\ b * near = 2 * (d * near)
  BY <1>1, <1>2, <1>3 DEF b
<1>6. CASE tool = "peak11"
  <2>1. PeakTicks(t) = d * cut
    BY <1>4, <1>6
  <2>2. d * cut <= t /\ t < d * cut + d
    BY <1>1, <1>2, <1>5
  <2> QED BY <1>5, <1>6, <2>1, <2>2 DEF d
<1>7. CASE tool # "peak11"
  <2>1. PeakTicks(t) = d * near
    BY <1>4, <1>7
  <2>2. 2 * t - d < 2 * (d * near) /\ 2 * (d * near) <= 2 * t + d
    BY <1>1, <1>3, <1>5 DEF b, u
  <2> QED BY <1>5, <1>7, <2>1, <2>2 DEF d
<1> QED BY <1>6, <1>7

LEMMA TimeTypes ==
    ASSUME Agenda, NEW t \in Int, NEW s \in Int
    PROVE  HeaderDate(t) \in DateType /\ RowTime(t, s) \in Int /\ ClxTime(t) \in Int
<1>1. Second \in Nat \ {0} /\ Milli \in Nat \ {0}
  BY SecondAssumption
<1>2. t \div Second \in Int
  BY <1>1, DivisionFacts
<1>3. ConvertSeconds(t \div Second) \in Int /\ ConvertSeconds(t) \in Int /\ ConvertTicks(t) \in Int
  BY <1>2, ConvertFacts
<1>4. HeaderDate(t) \in DateType
  <2> DEFINE whole == ConvertSeconds(t \div Second)
  <2>1. AscDate(t) = DateFrom(0, whole * Second) /\ ClxDate(t) = DateFrom(0, whole * Second)
    BY DEF AscDate, ClxDate
  <2> HIDE DEF whole
  <2>2. whole * Second \in Int
    BY <1>1, <1>3 DEF whole
  <2>3. AscDate(t) \in DateType /\ ClxDate(t) \in DateType
    BY <2>1, <2>2, DateFacts
  <2>4. PeakDate(t) = DateFrom(daysBetweenCenturyAndEpoch, PeakTicks(t))
    BY DEF PeakDate, PeakTicks
  <2>5. daysBetweenCenturyAndEpoch \in Int
    BY DEF daysBetweenCenturyAndEpoch
  <2>6. PeakDate(t) \in DateType
    BY <2>4, <2>5, PeakTicksFacts, DateFacts
  <2> QED BY <2>3, <2>6 DEF HeaderDate
<1>5. ClxTime(t) \in Int
  <2> DEFINE shown == ConvertTicks(t)
             whole == shown \div Second
             rest == Rounded(shown % Second)
  <2>1. whole \in Int /\ shown % Second \in Int
    BY <1>1, <1>3, DivisionFacts
  <2>2. rest \in Int
    BY <2>1, RoundedFacts
  <2>3. ClxTime(t) = whole * Second + rest * Milli
    BY DEF ClxTime
  <2> HIDE DEF whole, rest
  <2> QED BY <1>1, <2>1, <2>2, <2>3
<1>6. RowTime(t, s) \in Int
  BY <1>3, <1>5 DEF RowTime, AscTime, convertTimestampToRelative, SocketCanTime
<1> QED BY <1>4, <1>5, <1>6

LEMMA TimesKept ==
    ASSUME input' = input, tool' = tool, format' = format, NEW t, NEW s
    PROVE  RowTime(t, s)' = RowTime(t, s) /\ HeaderDate(t)' = HeaderDate(t)
BY DEF RowTime, AscTime, convertTimestampToRelative, SocketCanTime, HeaderDate,
       AscDate, ClxDate, PeakDate, DateFrom, ClxTime, ConvertTicks, ConvertSeconds,
       HourDifference, MinuteDifference

\* The cells of a row and the columns of a header are words.
LEMMA CellTypes ==
    ASSUME NEW column \in Words, NEW set
    PROVE  Cell(column, set) \in Seq(Words)
BY DEF Cell

LEMMA ClxTypes ==
    ASSUME NEW set
    PROVE  ClxHeader(set) \in Seq(Words) /\ ClxCanRow(set) \in Seq(Words) /\ ClxLinRow(set) \in Seq(Words)
<1>1. /\ Cell("Timestamp", set) \in Seq(Words) /\ Cell("Type", set) \in Seq(Words)
      /\ Cell("ID", set) \in Seq(Words) /\ Cell("Length", set) \in Seq(Words)
      /\ Cell("Data", set) \in Seq(Words)
  BY CellTypes DEF Words, ClxColumns
<1>2. \A s, t \in Seq(Words) : s \o t \in Seq(Words) /\ Append(s, "") \in Seq(Words)
  <2>1. "" \in Words
    BY DEF Words
  <2>2. ASSUME NEW S, NEW s \in Seq(S), NEW t \in Seq(S), NEW e \in S
        PROVE  s \o t \in Seq(S) /\ Append(s, e) \in Seq(S)
    OBVIOUS
  <2> QED BY <2>1, <2>2
<1>3. ClxHeader(set) \in Seq(Words)
  BY <1>1, <1>2 DEF ClxHeader
<1>4. ClxCanRow(set) \in Seq(Words)
  BY <1>2, <1>3 DEF ClxCanRow, Delimited
<1>5. ClxLinRow(set) \in Seq(Words)
  BY <1>1, <1>2 DEF ClxLinRow, Delimited
<1> QED BY <1>3, <1>4, <1>5

LEMMA HeaderTypes ==
    ASSUME NEW t, NEW bus, NEW set
    PROVE  HeaderColumns(t, bus, set) \in Seq(Words)
<1>1. CsvCanHeader \in Seq(Words) /\ CsvLinHeader \in Seq(Words)
  BY DEF Words, ClxColumns, CsvCanHeader, CsvLinHeader
<1>2. Peak21Header \in Seq(Words) /\ Peak11Header \in Seq(Words)
  BY DEF Words, ClxColumns, Peak21Header, Peak11Header
<1>3. AscCanHeader \in Seq(Words) /\ AscLinHeader \in Seq(Words) /\ <<>> \in Seq(Words)
  BY DEF Words, ClxColumns, AscCanHeader, AscLinHeader
<1> QED BY <1>1, <1>2, <1>3, ClxTypes DEF HeaderColumns

LEMMA RowCellTypes ==
    ASSUME NEW t, NEW rec, NEW set
    PROVE  Cells(t, rec, set) \in Seq(Words)
<1>1. CsvLinFrame \in Seq(Words) /\ CsvRemoteFrame \in Seq(Words) /\ CsvDataFrame \in Seq(Words)
  BY DEF Words, ClxColumns, CsvLinFrame, CsvRemoteFrame, CsvDataFrame
<1>2. AscLinFrame \in Seq(Words) /\ AscRemoteFrame \in Seq(Words) /\ AscDataFrame \in Seq(Words)
  BY DEF Words, ClxColumns, AscLinFrame, AscRemoteFrame, AscDataFrame
<1>3. /\ Peak21RemoteFrame \in Seq(Words) /\ Peak21DataFrame \in Seq(Words)
      /\ Peak11RemoteFrame \in Seq(Words) /\ Peak11DataFrame \in Seq(Words)
  BY DEF Words, ClxColumns, Peak21RemoteFrame, Peak21DataFrame, Peak11RemoteFrame, Peak11DataFrame
<1>4. SocketCanLinFrame \in Seq(Words) /\ PcapPacket(rec.channel) \in Seq(Words)
  BY DEF Words, ClxColumns, SocketCanLinFrame, PcapPacket
<1>5. SocketCanDataFrame(rec.fd) \in Seq(Words)
  <2>1. <<"time", "interface", "ID">> \in Seq(Words) /\ <<"flags">> \in Seq(Words)
        /\ <<"DataBytes">> \in Seq(Words) /\ <<>> \in Seq(Words)
    BY DEF Words, ClxColumns
  <2>2. \A s, u \in Seq(Words) : s \o u \in Seq(Words)
    OBVIOUS
  <2> QED BY <2>1, <2>2 DEF SocketCanDataFrame
<1>6. /\ ClxLinRow(set) \in Seq(Words) /\ ClxCanRow(set) \in Seq(Words)
  BY ClxTypes
<1>7. CASE rec.kind = "lin"
  BY <1>1, <1>2, <1>4, <1>6, <1>7, Zenon DEF Cells
<1>8. CASE rec.kind = "remote"
  BY <1>1, <1>2, <1>3, <1>8 DEF Cells
<1>9. CASE rec.kind \notin {"lin", "remote"}
  BY <1>1, <1>2, <1>3, <1>4, <1>5, <1>6, <1>9 DEF Cells
<1> QED BY <1>7, <1>8, <1>9

\* The blocks of a pcapng file.
LEMMA Aligned ==
    ASSUME NEW at \in Nat, NEW data \in Nat, at % 4 = 0, data % 4 = 0
    PROVE  AfterOption(at, data) = at + 4 + data /\ (at + 4 + data) % 4 = 0
BY DEF AfterOption, OptionSize, Padding

LEMMA AlignedByFour ==
    ASSUME NEW at \in Nat, at % 4 = 0
    PROVE  /\ AfterOption(at, 0) = at + 4 /\ AfterOption(at, 4) = at + 8 /\ AfterOption(at, 8) = at + 12
           /\ (at + 8) % 4 = 0 /\ (at + 12) % 4 = 0
BY DEF AfterOption, OptionSize, Padding

LEMMA PaddingFacts ==
    ASSUME NEW n \in Nat
    PROVE  Padding(n) \in 0..3 /\ (n + Padding(n)) % 4 = 0
BY DEF Padding

LEMMA OneOption ==
    ASSUME NEW at, NEW a
    PROVE  AfterOptions(at, <<a>>) = AfterOption(at, a)
<1>1. Len(<<a>>) = 1 /\ <<a>>[1] = a
  OBVIOUS
<1> QED BY <1>1 DEF AfterOptions, Nth

LEMMA ThreeOptions ==
    ASSUME NEW at, NEW a, NEW b, NEW c
    PROVE  AfterOptions(at, <<a, b, c>>) = AfterOption(AfterOption(AfterOption(at, a), b), c)
<1>1. Len(<<a, b, c>>) = 3 /\ <<a, b, c>>[1] = a /\ <<a, b, c>>[2] = b /\ <<a, b, c>>[3] = c
  OBVIOUS
<1> QED BY <1>1 DEF AfterOptions, Nth

\* A block that is written where it should be ends where it declares to.
Delimits(b) ==
    /\ b.declared \in Nat
    /\ \A at \in Nat : at % 4 = 0 =>
          /\ BlockEnd(b, at) = at + b.declared
          /\ BlockEnd(b, at) \in Nat /\ BlockEnd(b, at) % 4 = 0

LEMMA PacketDelimits ==
    ASSUME NEW n \in Nat
    PROVE  Delimits(EnhancedPacketCAN(n))
<1> DEFINE unpadded == PacketLength(<<4>>) + (16 + 8 + n)
           b == EnhancedPacketCAN(n)
<1>1. PacketLength(<<4>>) = 44
  <2>1. ListSize(<<4>>) = 12
    BY OneOption, Aligned DEF ListSize
  <2> QED BY <2>1 DEF PacketLength
<1>2. unpadded = 68 + n
  BY <1>1
<1> DEFINE pad == Padding(unpadded)
<1>3. pad \in 0..3 /\ (68 + n + pad) % 4 = 0
  BY <1>2, PaddingFacts
<1>4. /\ b.fields = 20 /\ b.packet = 24 + n /\ b.padding = pad /\ b.options = <<4>>
      /\ b.declared = unpadded + pad
  <2>1. b = Block(20, SerializedPacket(n), pad, <<4>>, unpadded + pad)
    BY DEF EnhancedPacketCAN
  <2>2. SerializedPacket(n) = 24 + n
    BY DEF SerializedPacket
  <2> HIDE DEF b, pad, unpadded
  <2> QED BY <2>1, <2>2 DEF Block
<1> HIDE DEF b, pad, unpadded
<1>5. ASSUME NEW at \in Nat, at % 4 = 0
      PROVE  BlockEnd(b, at) = at + b.declared /\ BlockEnd(b, at) \in Nat /\ BlockEnd(b, at) % 4 = 0
  <2> DEFINE p == at + 52 + n + pad
  <2>1. p \in Nat /\ p % 4 = 0
    BY <1>3, <1>5
  <2>2. at + 8 + b.fields + b.packet + b.padding = p
    BY <1>3, <1>4
  <2> HIDE DEF p
  <2>3. BlockEnd(b, at) = ListEnd(<<4>>, p) + 4
    BY <1>4, <2>2 DEF BlockEnd
  <2>4. AfterOptions(p, <<4>>) = p + 8 /\ (p + 8) % 4 = 0 /\ p + 8 \in Nat
    BY <2>1, OneOption, AlignedByFour
  <2>5. ListEnd(<<4>>, p) = p + 12
    BY <2>1, <2>4, AlignedByFour DEF ListEnd
  <2> QED BY <1>2, <1>3, <1>4, <1>5, <2>1, <2>3, <2>5 DEF p
<1> QED BY <1>2, <1>3, <1>4, <1>5 DEF Delimits, b

LEMMA HeaderBlocksDelimit == Delimits(SectionHeader) /\ Delimits(InterfaceDescription)
<1>1. Delimits(SectionHeader)
  <2>1. ListSize(<<8>>) = 16
    BY OneOption, Aligned DEF ListSize
  <2>2. /\ SectionHeader.fields = 16 /\ SectionHeader.packet = 0 /\ SectionHeader.padding = 0
        /\ SectionHeader.options = <<8>> /\ SectionHeader.declared = 44
    BY <2>1 DEF SectionHeader, Block
  <2>3. ASSUME NEW at \in Nat, at % 4 = 0
        PROVE  BlockEnd(SectionHeader, at) = at + 44
    <3>1. BlockEnd(SectionHeader, at) = ListEnd(<<8>>, at + 24) + 4
      BY <2>2 DEF BlockEnd
    <3>2. (at + 24) % 4 = 0 /\ (at + 36) % 4 = 0 /\ at + 24 \in Nat /\ at + 36 \in Nat
      BY <2>3
    <3>3. AfterOptions(at + 24, <<8>>) = at + 36
      BY <3>2, OneOption, Aligned
    <3>4. ListEnd(<<8>>, at + 24) = at + 40
      BY <3>2, <3>3, Aligned DEF ListEnd
    <3> QED BY <3>1, <3>4
  <2> QED BY <2>2, <2>3 DEF Delimits
<1>2. Delimits(InterfaceDescription)
  <2>1. AfterOption(12, 9) = 28 /\ AfterOption(28, 5) = 40
    BY DEF AfterOption, OptionSize, Padding
  <2>2. AfterOption(0, 8) = 12
    BY Aligned
  <2>3. ListSize(<<8, 9, 5>>) = 44
    BY <2>1, <2>2, ThreeOptions DEF ListSize
  <2>4. /\ InterfaceDescription.fields = 8 /\ InterfaceDescription.packet = 0
        /\ InterfaceDescription.padding = 0
        /\ InterfaceDescription.options = <<8, 9, 5>> /\ InterfaceDescription.declared = 64
    BY <2>3 DEF InterfaceDescription, Block
  <2>5. ASSUME NEW at \in Nat, at % 4 = 0
        PROVE  BlockEnd(InterfaceDescription, at) = at + 64
    <3> DEFINE p == at + 16
    <3>1. p \in Nat /\ p % 4 = 0 /\ (p + 12) % 4 = 0 /\ p + 12 \in Nat
      BY <2>5
    <3> HIDE DEF p
    <3>2. AfterOption(p, 8) = p + 12
      BY <3>1, AlignedByFour
    <3>3. AfterOption(p + 12, 9) = p + 28
      BY <3>1 DEF AfterOption, OptionSize, Padding
    <3>4. AfterOption(p + 28, 5) = p + 40
      BY <3>1 DEF AfterOption, OptionSize, Padding
    <3>5. AfterOptions(p, <<8, 9, 5>>) = p + 40
      BY <3>2, <3>3, <3>4, ThreeOptions
    <3>6. ListEnd(<<8, 9, 5>>, p) = p + 44
      <4>1. (p + 40) % 4 = 0 /\ p + 40 \in Nat
        BY <3>1
      <4> QED BY <3>1, <3>5, <4>1, Aligned DEF ListEnd
    <3>7. BlockEnd(InterfaceDescription, at) = ListEnd(<<8, 9, 5>>, p) + 4
      BY <2>4 DEF BlockEnd, p
    <3> QED BY <3>1, <3>6, <3>7 DEF p
  <2> QED BY <2>4, <2>5 DEF Delimits
<1> QED BY <1>1, <1>2

\* What BlocksDelimited says of one file.
Delimited4(bs) ==
    /\ bs \in Seq(BlockType)
    /\ \A n \in DOMAIN bs :
          /\ bs[n].begin = (IF n = 1 THEN 0 ELSE bs[n - 1].begin + bs[n - 1].declared)
          /\ bs[n].end = bs[n].begin + bs[n].declared
          /\ bs[n].end % 4 = 0

LEMMA PutDelimits ==
    ASSUME NEW bs, Delimited4(bs), NEW b, Delimits(b)
    PROVE  Delimited4(Put(bs, b))
<1> DEFINE at == EndOf(bs)
           e == [declared |-> b.declared, begin |-> at, end |-> BlockEnd(b, at)]
           new == Append(bs, e)
<1>1. bs \in Seq(BlockType) /\ Len(bs) \in Nat /\ DOMAIN bs = 1..Len(bs)
  BY DEF Delimited4
<1>2. /\ at \in Nat /\ at % 4 = 0
      /\ bs = <<>> => at = 0
      /\ bs # <<>> => at = bs[Len(bs)].begin + bs[Len(bs)].declared
  <2>1. CASE bs = <<>>
    BY <2>1 DEF EndOf
  <2>2. CASE bs # <<>>
    <3>1. Len(bs) \in DOMAIN bs
      BY <1>1, <2>2
    <3>2. at = bs[Len(bs)].end
      BY <2>2 DEF EndOf, Last
    <3>3. bs[Len(bs)] \in BlockType
      BY <1>1, <3>1
    <3>4. bs[Len(bs)].end \in Nat
      BY <3>3 DEF BlockType
    <3> QED BY <2>2, <3>1, <3>2, <3>4 DEF Delimited4
  <2> QED BY <2>1, <2>2
<1> HIDE DEF at
<1>3. /\ e \in BlockType /\ e.begin = at /\ e.declared = b.declared /\ e.end = BlockEnd(b, at)
      /\ e.end = at + b.declared /\ e.end % 4 = 0
  BY <1>2 DEF Delimits, BlockType
<1> HIDE DEF e
<1>4. /\ new \in Seq(BlockType) /\ DOMAIN new = 1..(Len(bs) + 1)
      /\ \A n \in DOMAIN bs : new[n] = bs[n]
      /\ new[Len(bs) + 1] = e
  BY <1>1, <1>3
<1> HIDE DEF new
<1>5. ASSUME NEW n \in DOMAIN new
      PROVE  /\ new[n].begin = (IF n = 1 THEN 0 ELSE new[n - 1].begin + new[n - 1].declared)
             /\ new[n].end = new[n].begin + new[n].declared
             /\ new[n].end % 4 = 0
  <2>1. CASE n \in DOMAIN bs
    <3>1. n # 1 => n - 1 \in DOMAIN bs
      BY <1>1, <2>1
    <3>2. new[n] = bs[n] /\ (n # 1 => new[n - 1] = bs[n - 1])
      BY <1>4, <2>1, <3>1
    <3> QED BY <2>1, <3>2 DEF Delimited4
  <2>2. CASE n = Len(bs) + 1
    <3>1. n = 1 => bs = <<>>
      BY <1>1, <2>2
    <3>2. n # 1 => bs # <<>> /\ n - 1 = Len(bs) /\ Len(bs) \in DOMAIN bs
      BY <1>1, <2>2
    <3> QED BY <1>2, <1>3, <1>4, <2>2, <3>1, <3>2
  <2> QED BY <1>1, <1>4, <2>1, <2>2
<1>6. Put(bs, b) = new
  BY DEF Put, new, e, at
<1> QED BY <1>4, <1>5, <1>6 DEF Delimited4

LEMMA FileHeaderDelimits == Delimited4(<<>>) /\ Delimited4(FileHeader)
<1>1. Delimited4(<<>>)
  BY DEF Delimited4
<1> DEFINE a == Put(<<>>, SectionHeader)
           b == Put(a, InterfaceDescription)
           c == Put(b, InterfaceDescription)
           d == Put(c, InterfaceDescription)
<1>2. Delimited4(a)
  BY <1>1, HeaderBlocksDelimit, PutDelimits
<1> HIDE DEF a
<1>3. Delimited4(b)
  BY <1>2, HeaderBlocksDelimit, PutDelimits
<1> HIDE DEF b
<1>4. Delimited4(c)
  BY <1>3, HeaderBlocksDelimit, PutDelimits
<1> HIDE DEF c
<1>5. Delimited4(d)
  BY <1>4, HeaderBlocksDelimit, PutDelimits
<1> HIDE DEF d
<1>6. Delimited4(Put(d, InterfaceDescription))
  BY <1>5, HeaderBlocksDelimit, PutDelimits
<1> QED BY <1>1, <1>6 DEF FileHeader, Interfaces, a, b, c, d

-----------------------------------------------------------------------------
(* What a step does to one output.                                           *)

\* A file with its fields, and those with some of them changed.
File(exists, good, date, columns, rows, footer, blocks) ==
    [exists |-> exists, good |-> good, date |-> date, columns |-> columns,
     rows |-> rows, footer |-> footer, blocks |-> blocks]

LEMMA FileFields ==
    ASSUME NEW f \in FileType
    PROVE  /\ f = File(f.exists, f.good, f.date, f.columns, f.rows, f.footer, f.blocks)
           /\ f.exists \in BOOLEAN /\ f.good \in BOOLEAN /\ f.date \in DateType
           /\ f.columns \in Seq(Words) /\ f.rows \in Seq(RowType) /\ f.footer \in BOOLEAN
           /\ f.blocks \in Seq(BlockType)
BY DEF FileType, File

LEMMA GoodChanged ==
    ASSUME NEW file \in FileType, NEW x
    PROVE  [file EXCEPT !.good = x] =
               File(file.exists, x, file.date, file.columns, file.rows, file.footer, file.blocks)
BY DEF FileType, File

LEMMA RowsChanged ==
    ASSUME NEW file \in FileType, NEW x, NEW y
    PROVE  [file EXCEPT !.rows = x, !.blocks = y] =
               File(file.exists, file.good, file.date, file.columns, x, file.footer, y)
<1> DEFINE a == file.exists
           b == file.good
           c == file.date
           d == file.columns
           e == file.rows
           f == file.footer
           g == file.blocks
           rows == [file EXCEPT !.rows = x]
           blocks == [rows EXCEPT !.blocks = y]
<1>1. [file EXCEPT !.rows = x, !.blocks = y] = blocks
  BY Zenon
<1>2. file = File(a, b, c, d, e, f, g)
  BY FileFields
<1> HIDE DEF a, b, c, d, e, f, g, rows, blocks
<1>3. rows = File(a, b, c, d, x, f, g)
  BY <1>2 DEF File, rows
<1>4. blocks = File(a, b, c, d, x, f, y)
  BY <1>3 DEF File, blocks
<1> QED BY <1>1, <1>4 DEF a, b, c, d, e, f, g

LEMMA EndChanged ==
    ASSUME NEW file \in FileType, NEW x, NEW y, NEW z
    PROVE  [file EXCEPT !.good = x, !.footer = y, !.date = z] =
               File(file.exists, x, z, file.columns, file.rows, y, file.blocks)
<1> DEFINE a == file.exists
           b == file.good
           c == file.date
           d == file.columns
           e == file.rows
           f == file.footer
           g == file.blocks
           good == [file EXCEPT !.good = x]
           footer == [good EXCEPT !.footer = y]
           date == [footer EXCEPT !.date = z]
<1>1. [file EXCEPT !.good = x, !.footer = y, !.date = z] = date
  BY Zenon
<1>2. file = File(a, b, c, d, e, f, g)
  BY FileFields
<1> HIDE DEF a, b, c, d, e, f, g, good, footer, date
<1>3. good = File(a, x, c, d, e, f, g)
  BY <1>2 DEF File, good
<1>4. footer = File(a, x, c, d, e, y, g)
  BY <1>3 DEF File, footer
<1>5. date = File(a, x, z, d, e, y, g)
  BY <1>4 DEF File, date
<1> QED BY <1>1, <1>5 DEF a, b, c, d, e, f, g

FilesTyped ==
    writers \in [AllOutputs -> WriterType] /\ out \in [AllOutputs -> FileType]

Same(p) == writers'[p] = writers[p] /\ out'[p] = out[p]

\* A file is created for output p, or its stream fails in the header.
Begun(p) ==
    /\ report = <<>> /\ todo # <<>> /\ p \in Outputs(Head(todo))
    /\ writers'[p] = writers[p]
    /\ \E good \in BOOLEAN, columns \in {<<>>, HeaderColumns(tool, p[1], fields)},
          blocks \in {<<>>, FileHeader} :
              out'[p] = File(TRUE, good, NoDate, columns, <<>>, FALSE, blocks)

\* The writer of output p takes the next record, and may bring it into the file.
FirstOf(w, rec) == IF w.first = Unset THEN rec.time ELSE w.first
RowOf(p, rec, first) ==
    [rec |-> rec, time |-> RowTime(rec.time, first), number |-> writers[p].count,
     cells |-> Cells(tool, rec, fields)]
Grown(p) ==
    /\ report # <<>> /\ phase = "writing" /\ next \in DOMAIN queue
    /\ p \in OutputOf(report[1], queue[next]) /\ ~Ignores(queue[next])
    /\ \E rec, first, row, blocks :
          /\ rec = queue[next] /\ rec \in RecordType /\ InReport(rec, report[1])
          /\ first = FirstOf(writers[p], rec)
          /\ row = RowOf(p, rec, first)
          /\ writers'[p] = [first |-> first, count |-> writers[p].count + 1]
          /\ blocks \in {out[p].blocks, Put(out[p].blocks, EnhancedPacketCAN(rec.length))}
          /\ \/ out'[p] = out[p] /\ ~out[p].good
             \/ out'[p] = File(out[p].exists, FALSE, out[p].date, out[p].columns,
                               out[p].rows, out[p].footer, out[p].blocks)
             \/ /\ out[p].good
                /\ out'[p] = File(out[p].exists, out[p].good, out[p].date, out[p].columns,
                                  Append(out[p].rows, row), out[p].footer, blocks)

\* The report of output p ends: the file is removed, or its header corrected.
Ended(p) ==
    /\ report # <<>> /\ phase = "writing" /\ next > Len(queue) /\ p \in Outputs(report[1])
    /\ report' = <<>> /\ writers'[p] = writers[p]
    /\ \/ out'[p] = NoFile
       \/ \E good, footer \in BOOLEAN, date \in {out[p].date, HeaderDate(writers[p].first)} :
             /\ good => out[p].good /\ (tool = "clx" => writers[p].count # 0)
             /\ out'[p] = File(out[p].exists, good, date, out[p].columns, out[p].rows,
                               footer, out[p].blocks)

LEMMA OutputsOfReport ==
    ASSUME NEW r, IsReport(r)
    PROVE  Outputs(r) \subseteq AllOutputs /\ \A p \in Outputs(r) : p[1] = r.bus
BY DEF IsReport, Outputs, AllOutputs

LEMMA StartEffect ==
    ASSUME Agenda, FilesTyped, StartSome, NEW p \in AllOutputs
    PROVE  Same(p) \/ Begun(p)
<1> DEFINE r == Head(todo)
<1>1. PICK absent, failed \in SUBSET Outputs(r) : StartReport(absent, failed)
  BY DEF StartSome
<1>2. todo # <<>> /\ phase = "open" /\ writers' = writers /\ report = <<>>
  BY <1>1 DEF StartReport, Agenda
<1>3. IsReport(r)
  BY <1>2, HeadOfTodo
<1> HIDE DEF r
<1>4. out'[p] = IF p \notin Outputs(r) \/ p \in absent THEN out[p]
                ELSE IF p \in failed THEN NewFile(FALSE, <<>>, <<>>)
                ELSE NewFile(TRUE, HeaderColumns(tool, r.bus, fields),
                             IF tool = "pcap" THEN FileHeader ELSE <<>>)
  BY <1>1 DEF StartReport, r
<1>5. CASE p \notin Outputs(r) \/ p \in absent
  BY <1>2, <1>4, <1>5 DEF Same
<1>6. CASE p \in Outputs(r) /\ p \notin absent
  <2>1. p[1] = r.bus
    BY <1>3, <1>6, OutputsOfReport
  <2>2. out'[p] \in {NewFile(FALSE, <<>>, <<>>),
                     NewFile(TRUE, HeaderColumns(tool, p[1], fields), FileHeader),
                     NewFile(TRUE, HeaderColumns(tool, p[1], fields), <<>>)}
    BY <1>4, <1>6, <2>1
  <2>3. \A good, columns, blocks :
            NewFile(good, columns, blocks) = File(TRUE, good, NoDate, columns, <<>>, FALSE, blocks)
    BY Zenon DEF NewFile, File
  <2> QED BY <1>2, <1>6, <2>2, <2>3 DEF Begun, r
<1> QED BY <1>5, <1>6

\* A record goes to no more than one output.
LEMMA SingleOutput ==
    ASSUME NEW r, IsReport(r), NEW rec, NEW p \in OutputOf(r, rec), NEW q \in OutputOf(r, rec)
    PROVE  p = q
<1>1. p \in {r.bus} \X r.channels /\ q \in {r.bus} \X r.channels
  BY DEF OutputOf, Outputs
<1>2. p = <<r.bus, p[2]>> /\ q = <<r.bus, q[2]>> /\ p[2] \in r.channels /\ q[2] \in r.channels
  BY <1>1
<1>3. p[2] = q[2]
  <2>1. CASE r.channels = {0}
    BY <1>2, <2>1
  <2>2. CASE r.channels = {1, 2}
    <3>1. r.channels # Whole
      BY <2>2 DEF Whole
    <3> QED BY <3>1 DEF OutputOf
  <2> QED BY <2>1, <2>2 DEF IsReport
<1> QED BY <1>2, <1>3

LEMMA WriteEffect ==
    ASSUME Agenda, FilesTyped, QueueOK, NEW fits \in BOOLEAN, WriteRecord(fits), NEW p \in AllOutputs
    PROVE  /\ Same(p) \/ Grown(p)
           /\ report # <<>> /\ next \in DOMAIN queue
           /\ ~Ignores(queue[next]) /\ p \in OutputOf(report[1], queue[next]) => Grown(p)
<1> DEFINE rec == queue[next]
           r == report[1]
<1>1. /\ phase = "writing" /\ next <= Len(queue)
      /\ IF Ignores(rec) \/ OutputOf(r, rec) = {} THEN UNCHANGED <<writers, out>>
         ELSE \E o \in OutputOf(r, rec) : WriteRow(o, rec, fits)
  BY DEF WriteRecord
<1>2. next \in DOMAIN queue /\ rec \in RecordType /\ report # <<>>
  BY <1>1 DEF QueueOK, Agenda
<1>3. InReport(rec, r) /\ IsReport(r)
  BY <1>2, CurrentReport DEF QueueOK
<1> HIDE DEF rec, r
<1>4. CASE Ignores(rec) \/ OutputOf(r, rec) = {}
  BY <1>1, <1>2, <1>4 DEF Same, rec, r
<1>5. ASSUME NEW o \in OutputOf(r, rec), ~Ignores(rec), WriteRow(o, rec, fits)
      PROVE  Grown(p) \/ (Same(p) /\ p \notin OutputOf(r, rec))
  <2> DEFINE w == writers[o]
             f == out[o]
             first == FirstOf(w, rec)
             row == RowOf(o, rec, first)
             blocks == IF tool = "pcap" THEN Put(f.blocks, EnhancedPacketCAN(rec.length))
                       ELSE f.blocks
  <2>1. o \in AllOutputs
    BY <1>3, OutputsOfReport DEF OutputOf
  <2>2. /\ writers' = [writers EXCEPT ![o] = [first |-> first, count |-> w.count + 1]]
        /\ out' = [out EXCEPT ![o] =
                      IF ~f.good THEN f
                      ELSE IF ~fits THEN [f EXCEPT !.good = FALSE]
                      ELSE [f EXCEPT !.rows = Append(f.rows, row), !.blocks = blocks]]
    <3>1. writers' = [writers EXCEPT ![o] = [first |-> first, count |-> w.count + 1]]
      BY <1>5 DEF WriteRow, FirstOf
    <3>2. out' = [out EXCEPT ![o] =
                      IF ~f.good THEN f
                      ELSE IF ~fits THEN [f EXCEPT !.good = FALSE]
                      ELSE [f EXCEPT !.rows = Append(f.rows, row), !.blocks = blocks]]
      BY <1>5 DEF WriteRow, RowOf, FirstOf
    <3> QED BY <3>1, <3>2
  <2>3. f \in FileType
    BY <2>1 DEF FilesTyped
  <2> HIDE DEF f, first, row, blocks
  <2>4. CASE p # o
    <3>1. Same(p)
      BY <2>2, <2>4 DEF Same, FilesTyped
    <3> QED BY <1>3, <1>5, <2>4, <3>1, SingleOutput
  <2>5. CASE p = o
    <3>1. /\ writers'[o] = [first |-> first, count |-> w.count + 1]
          /\ out'[o] = IF ~f.good THEN f
                       ELSE IF ~fits THEN [f EXCEPT !.good = FALSE]
                       ELSE [f EXCEPT !.rows = Append(f.rows, row), !.blocks = blocks]
      BY <2>1, <2>2 DEF FilesTyped
    <3>0. [f EXCEPT !.good = FALSE] =
              File(f.exists, FALSE, f.date, f.columns, f.rows, f.footer, f.blocks)
      BY <2>3, GoodChanged, Zenon
    <3>2. [f EXCEPT !.rows = Append(f.rows, row), !.blocks = blocks] =
              File(f.exists, f.good, f.date, f.columns, Append(f.rows, row), f.footer, blocks)
      BY <2>3, RowsChanged, Zenon
    <3>3. \/ out'[o] = f /\ ~f.good
          \/ out'[o] = File(f.exists, FALSE, f.date, f.columns, f.rows, f.footer, f.blocks)
          \/ /\ f.good
             /\ out'[o] = File(f.exists, f.good, f.date, f.columns, Append(f.rows, row), f.footer, blocks)
      BY <3>0, <3>1, <3>2
    <3>4. blocks \in {f.blocks, Put(f.blocks, EnhancedPacketCAN(rec.length))}
      BY DEF blocks
    <3>5. Grown(o)
      BY <1>1, <1>2, <1>3, <1>5, <3>1, <3>3, <3>4 DEF Grown, f, first, row, rec, r
    <3> QED BY <2>5, <3>5
  <2> QED BY <2>4, <2>5
<1>6. CASE ~(Ignores(rec) \/ OutputOf(r, rec) = {})
  <2>1. Grown(p) \/ (Same(p) /\ p \notin OutputOf(r, rec))
    BY <1>1, <1>5, <1>6
  <2> QED BY <1>2, <2>1 DEF rec, r
<1> QED BY <1>4, <1>6

LEMMA FinishEffect ==
    ASSUME Agenda, FilesTyped, FinishSome, NEW p \in AllOutputs
    PROVE  /\ report # <<>>
           /\ p \in Outputs(report[1]) => Ended(p)
           /\ p \notin Outputs(report[1]) => Same(p)
<1> DEFINE r == report[1]
           f == out[p]
           w == writers[p]
<1>1. PICK failed, kept \in SUBSET Outputs(r) : FinishReport(failed, kept)
  BY DEF FinishSome
<1>2. /\ report # <<>> /\ phase = "writing" /\ next > Len(queue)
      /\ report' = <<>> /\ writers' = writers
  BY <1>1 DEF FinishSome, FinishReport
<1>3. out'[p] = IF p \notin Outputs(r) THEN f ELSE FinishFile(p, p \notin failed, p \notin kept)
  BY <1>1 DEF FinishReport
<1>4. f \in FileType
  BY DEF FilesTyped
<1>5. CASE p \notin Outputs(r)
  BY <1>2, <1>3, <1>5 DEF Same
<1>6. CASE p \in Outputs(r)
  <2> DEFINE fits == p \notin failed
             removes == p \notin kept
             good == f.good /\ fits
             footer == r.footer /\ good
             date == IF r.dated /\ good /\ (tool \in {"peak11", "peak21"} => w.first # Unset)
                     THEN HeaderDate(w.first) ELSE f.date
  <2>1. out'[p] = IF tool = "clx" /\ w.count = 0
                  THEN IF removes THEN NoFile ELSE [f EXCEPT !.good = FALSE]
                  ELSE [f EXCEPT !.good = good, !.footer = footer, !.date = date]
    BY <1>3, <1>6, Zenon DEF FinishFile
  <2>2. good \in BOOLEAN /\ footer \in BOOLEAN /\ (good => f.good)
    <3>1. r.footer \in BOOLEAN /\ f.good \in BOOLEAN
      BY <1>2, <1>4, CurrentReport, FileFields DEF IsReport
    <3> QED BY <3>1
  <2>3. date \in {f.date, HeaderDate(w.first)}
    OBVIOUS
  <2> HIDE DEF f, good, footer, date, fits, removes
  <2>9. f \in FileType
    BY <1>4 DEF f
  <2>7. [f EXCEPT !.good = FALSE] =
            File(f.exists, FALSE, f.date, f.columns, f.rows, f.footer, f.blocks)
    BY <2>9, GoodChanged, Zenon
  <2>8. [f EXCEPT !.good = good, !.footer = footer, !.date = date] =
            File(f.exists, good, date, f.columns, f.rows, footer, f.blocks)
    BY <2>9, EndChanged, Zenon
  <2>4. f.footer \in BOOLEAN
    BY <2>9, FileFields
  <2>5. \/ out'[p] = NoFile
        \/ out'[p] = File(f.exists, FALSE, f.date, f.columns, f.rows, f.footer, f.blocks)
        \/ /\ out'[p] = File(f.exists, good, date, f.columns, f.rows, footer, f.blocks)
           /\ tool = "clx" => w.count # 0
    BY <2>1, <2>7, <2>8
  <2> HIDE DEF w
  <2>6. \/ out'[p] = NoFile
        \/ \E g, h \in BOOLEAN, d \in {f.date, HeaderDate(w.first)} :
             /\ g => f.good /\ (tool = "clx" => w.count # 0)
             /\ out'[p] = File(f.exists, g, d, f.columns, f.rows, h, f.blocks)
    BY <2>2, <2>3, <2>4, <2>5
  <2> QED BY <1>2, <1>6, <2>6 DEF Ended, f, w
<1> QED BY <1>5, <1>6

LEMMA OutputStep ==
    ASSUME Agenda, FilesTyped, QueueOK, [Next]_vars, NEW p \in AllOutputs
    PROVE  Same(p) \/ Begun(p) \/ Grown(p) \/ Ended(p)
<1>1. CASE UNCHANGED vars \/ Open \/ OpenThrows \/ SkipReport \/ MergeStep \/ MergeDone
           \/ Terminate \/ Throw \/ Return
  BY <1>1 DEF Same, vars, Open, OpenThrows, SkipReport, MergeStep, MergeDone, Terminate, Throw, Return
<1>2. CASE StartSome BY <1>2, StartEffect
<1>3. CASE \E fits \in BOOLEAN : WriteRecord(fits) BY <1>3, WriteEffect
<1>4. CASE FinishSome BY <1>4, FinishEffect
<1> QED BY <1>1, <1>2, <1>3, <1>4 DEF Next


LEMMA StillFunctions ==
    ASSUME FilesTyped, [Next]_vars
    PROVE  /\ writers' = [p \in AllOutputs |-> writers'[p]]
           /\ out' = [p \in AllOutputs |-> out'[p]]
<1>1. ASSUME writers' = writers, out' = out
      PROVE  /\ writers' = [p \in AllOutputs |-> writers'[p]]
             /\ out' = [p \in AllOutputs |-> out'[p]]
  BY <1>1 DEF FilesTyped
<1>2. CASE UNCHANGED vars \/ Open \/ OpenThrows \/ SkipReport \/ MergeStep \/ MergeDone
           \/ Terminate \/ Throw \/ Return
  BY <1>1, <1>2 DEF vars, Open, OpenThrows, SkipReport, MergeStep, MergeDone, Terminate, Throw, Return
<1>3. CASE StartSome
  <2>1. writers' = writers
    BY <1>3 DEF StartSome, StartReport
  <2>2. out' = [p \in AllOutputs |-> out'[p]]
    BY <1>3 DEF StartSome, StartReport
  <2> QED BY <2>1, <2>2 DEF FilesTyped
<1>4. CASE \E fits \in BOOLEAN : WriteRecord(fits)
  <2>1. PICK fits \in BOOLEAN : WriteRecord(fits)
    BY <1>4
  <2>2. CASE UNCHANGED <<writers, out>>
    BY <1>1, <2>2
  <2>3. ASSUME NEW o, NEW rec, WriteRow(o, rec, fits)
        PROVE  /\ writers' = [p \in AllOutputs |-> writers'[p]]
               /\ out' = [p \in AllOutputs |-> out'[p]]
    <3>1. \E x, y : writers' = [writers EXCEPT ![o] = x] /\ out' = [out EXCEPT ![o] = y]
      BY <2>3, Zenon DEF WriteRow
    <3> QED BY <3>1 DEF FilesTyped
  <2> QED BY <2>1, <2>2, <2>3, Zenon DEF WriteRecord
<1>5. CASE FinishSome
  <2>1. writers' = writers
    BY <1>5 DEF FinishSome, FinishReport
  <2>2. out' = [p \in AllOutputs |-> out'[p]]
    BY <1>5 DEF FinishSome, FinishReport
  <2> QED BY <2>1, <2>2 DEF FilesTyped
<1> QED BY <1>2, <1>3, <1>4, <1>5 DEF Next

\* The files are typed, and their blocks delimit each other.
FilesOK == FilesTyped /\ \A p \in AllOutputs : Delimited4(out[p].blocks)

LEMMA NoFileFacts ==
    /\ NoFile = File(FALSE, FALSE, NoDate, <<>>, <<>>, FALSE, <<>>)
    /\ NoFile \in FileType /\ NoFile.blocks = <<>> /\ NoFile.rows = <<>>
    /\ NoFile.date = NoDate /\ ~NoFile.good /\ NoFile.columns = <<>>
    /\ NewWriter \in WriterType /\ NewWriter.first = Unset /\ NewWriter.count = 0
    /\ NoDate \in DateType
<1>1. NoFile = File(FALSE, FALSE, NoDate, <<>>, <<>>, FALSE, <<>>)
  BY DEF NoFile, File
<1>2. NoDate \in DateType
  BY DEF NoDate, DateType, Unset
<1>4. <<>> \in Seq(Words) /\ <<>> \in Seq(RowType) /\ <<>> \in Seq(BlockType)
  OBVIOUS
<1>3. NoFile \in FileType /\ NoFile.blocks = <<>> /\ NoFile.rows = <<>>
      /\ NoFile.date = NoDate /\ ~NoFile.good /\ NoFile.columns = <<>>
  BY <1>2, <1>4 DEF NoFile, FileType
<1> QED BY <1>1, <1>2, <1>3 DEF NewWriter, WriterType

\* What is known of a record that is being written, and of its row.
LEMMA GrownFacts ==
    ASSUME Agenda, FilesOK, NEW p \in AllOutputs, NEW rec \in RecordType, NEW first,
           first = FirstOf(writers[p], rec)
    PROVE  /\ first \in Nat
           /\ [first |-> first, count |-> writers[p].count + 1] \in WriterType
           /\ RowOf(p, rec, first) \in RowType
           /\ RowOf(p, rec, first).rec = rec
           /\ RowOf(p, rec, first).time = RowTime(rec.time, first)
           /\ RowOf(p, rec, first).number = writers[p].count
           /\ RowOf(p, rec, first).cells = Cells(tool, rec, fields)
           /\ Delimited4(Put(out[p].blocks, EnhancedPacketCAN(rec.length)))
<1>1. writers[p] \in WriterType
  BY DEF FilesOK, FilesTyped
<1>2. writers[p].count \in Nat /\ writers[p].first \in Nat \cup {Unset}
  BY <1>1 DEF WriterType
<1>3. rec.time \in Nat /\ rec.length \in Nat
  BY DEF RecordType
<1>4. first \in Nat
  BY <1>2, <1>3 DEF FirstOf, Unset
<1>5. RowTime(rec.time, first) \in Int
  <2>1. rec.time \in Int /\ first \in Int
    BY <1>3, <1>4
  <2> QED BY <2>1, TimeTypes
<1>6. Cells(tool, rec, fields) \in Seq(Words)
  BY RowCellTypes
<1>7. /\ RowOf(p, rec, first) \in RowType
      /\ RowOf(p, rec, first).rec = rec
      /\ RowOf(p, rec, first).time = RowTime(rec.time, first)
      /\ RowOf(p, rec, first).number = writers[p].count
      /\ RowOf(p, rec, first).cells = Cells(tool, rec, fields)
  BY <1>2, <1>5, <1>6 DEF RowOf, RowType
<1>8. Delimited4(Put(out[p].blocks, EnhancedPacketCAN(rec.length)))
  BY <1>3, PacketDelimits, PutDelimits DEF FilesOK
<1>9. [first |-> first, count |-> writers[p].count + 1] \in WriterType
  BY <1>2, <1>4 DEF WriterType
<1> QED BY <1>4, <1>7, <1>8, <1>9

LEMMA FilesStep ==
    ASSUME Agenda, QueueOK, FilesOK, [Next]_vars
    PROVE  FilesOK'
<1>1. ASSUME NEW p \in AllOutputs
      PROVE  writers'[p] \in WriterType /\ out'[p] \in FileType /\ Delimited4(out'[p].blocks)
  <2> DEFINE f == out[p]
  <2>1. /\ writers[p] \in WriterType /\ f \in FileType /\ Delimited4(f.blocks)
        /\ f.blocks \in Seq(BlockType)
    BY DEF FilesOK, FilesTyped, Delimited4
  <2>2. /\ f.exists \in BOOLEAN /\ f.good \in BOOLEAN /\ f.date \in DateType
        /\ f.columns \in Seq(Words) /\ f.rows \in Seq(RowType) /\ f.footer \in BOOLEAN
    BY <2>1, FileFields, Zenon
  <2>3. \A bs : Delimited4(bs) => bs \in Seq(BlockType)
    BY DEF Delimited4
  <2>4. CASE Same(p)
    BY <2>1, <2>4 DEF Same
  <2>5. CASE Begun(p)
    <3>1. PICK good \in BOOLEAN, columns \in {<<>>, HeaderColumns(tool, p[1], fields)},
               blocks \in {<<>>, FileHeader} :
              out'[p] = File(TRUE, good, NoDate, columns, <<>>, FALSE, blocks)
      BY <2>5, Zenon DEF Begun
    <3>2. columns \in Seq(Words)
      <4>1. HeaderColumns(tool, p[1], fields) \in Seq(Words)
        BY HeaderTypes
      <4>2. <<>> \in Seq(Words)
        OBVIOUS
      <4> QED BY <3>1, <4>1, <4>2
    <3>3. Delimited4(blocks) /\ blocks \in Seq(BlockType)
      BY <2>3, FileHeaderDelimits
    <3>4. NoDate \in DateType /\ <<>> \in Seq(RowType)
      BY NoFileFacts
    <3>5. out'[p] \in FileType /\ out'[p].blocks = blocks
      BY <3>1, <3>2, <3>3, <3>4 DEF File, FileType
    <3> QED BY <2>1, <2>5, <3>3, <3>5 DEF Begun
  <2>6. CASE Grown(p)
    <3>1. PICK rec, first, row, blocks :
          /\ rec = queue[next] /\ rec \in RecordType /\ InReport(rec, report[1])
          /\ first = FirstOf(writers[p], rec)
          /\ row = RowOf(p, rec, first)
          /\ writers'[p] = [first |-> first, count |-> writers[p].count + 1]
          /\ blocks \in {f.blocks, Put(f.blocks, EnhancedPacketCAN(rec.length))}
          /\ \/ out'[p] = f /\ ~f.good
             \/ out'[p] = File(f.exists, FALSE, f.date, f.columns, f.rows, f.footer, f.blocks)
             \/ /\ f.good
                /\ out'[p] = File(f.exists, f.good, f.date, f.columns,
                                  Append(f.rows, row), f.footer, blocks)
      BY <2>6, Zenon DEF Grown
    <3> HIDE DEF f
    <3>2. writers'[p] \in WriterType /\ row \in RowType /\ Delimited4(blocks)
      BY <2>1, <3>1, GrownFacts DEF f
    <3>3. Append(f.rows, row) \in Seq(RowType) /\ blocks \in Seq(BlockType)
      BY <2>2, <2>3, <3>2
    <3>4. CASE out'[p] = f
      BY <2>1, <3>2, <3>4
    <3>5. CASE out'[p] = File(f.exists, FALSE, f.date, f.columns, f.rows, f.footer, f.blocks)
      <4>1. out'[p] \in FileType /\ out'[p].blocks = f.blocks
        BY <2>1, <2>2, <3>5 DEF File, FileType
      <4> QED BY <2>1, <3>2, <4>1 DEF f
    <3>6. CASE out'[p] = File(f.exists, f.good, f.date, f.columns, Append(f.rows, row), f.footer, blocks)
      <4>1. out'[p] \in FileType /\ out'[p].blocks = blocks
        BY <2>1, <2>2, <3>3, <3>6 DEF File, FileType
      <4> QED BY <3>2, <4>1
    <3> QED BY <3>1, <3>4, <3>5, <3>6
  <2>7. CASE Ended(p)
    <3>1. CASE out'[p] = NoFile
      BY <2>1, <2>7, <3>1, NoFileFacts, FileHeaderDelimits DEF Ended
    <3>2. CASE \E good, footer \in BOOLEAN, date \in {f.date, HeaderDate(writers[p].first)} :
                  out'[p] = File(f.exists, good, date, f.columns, f.rows, footer, f.blocks)
      <4>1. PICK good \in BOOLEAN, footer \in BOOLEAN, date \in {f.date, HeaderDate(writers[p].first)} :
                  out'[p] = File(f.exists, good, date, f.columns, f.rows, footer, f.blocks)
        BY <3>2
      <4>2. writers[p].first \in Int
        BY <2>1 DEF WriterType, Unset
      <4>3. date \in DateType
        BY <2>2, <4>2, TimeTypes
      <4> HIDE DEF f
      <4>4. out'[p] \in FileType /\ out'[p].blocks = f.blocks
        BY <2>1, <2>2, <4>1, <4>3 DEF File, FileType
      <4> QED BY <2>1, <2>7, <4>4 DEF Ended
    <3> QED BY <2>7, <3>1, <3>2, Zenon DEF Ended
  <2> QED BY <2>4, <2>5, <2>6, <2>7, OutputStep DEF FilesOK
<1>2. /\ writers' = [p \in AllOutputs |-> writers'[p]]
      /\ out' = [p \in AllOutputs |-> out'[p]]
  BY StillFunctions DEF FilesOK
<1>3. writers' \in [AllOutputs -> WriterType]
  BY <1>1, <1>2
<1>4. out' \in [AllOutputs -> FileType]
  BY <1>1, <1>2
<1> QED BY <1>1, <1>3, <1>4 DEF FilesOK, FilesTyped

LEMMA FilesInv == Spec => []FilesOK
<1>1. Init => FilesOK
  <2> SUFFICES ASSUME Init PROVE FilesOK
    OBVIOUS
  <2>1. /\ writers = [o \in AllOutputs |-> NewWriter]
        /\ out = [o \in AllOutputs |-> NoFile]
    BY DEF Init
  <2> QED BY <2>1, NoFileFacts, FileHeaderDelimits DEF FilesOK, FilesTyped
<1>2. Agenda /\ QueueOK /\ FilesOK /\ [Next]_vars => FilesOK'
  BY FilesStep
<1> QED
  BY <1>1, <1>2, AgendaInv, QueueInv, PTL DEF Spec

\* The variables of convert() have their types.  (CLX000_Exporter.cpp,
\* CSV_Exporter.cpp, PCAP_Exporter.cpp: convert())
THEOREM TypeCorrect == Spec => []TypeOK
<1>1. Agenda /\ QueueOK /\ FilesOK => TypeOK
  <2> SUFFICES ASSUME Agenda, QueueOK, FilesOK PROVE TypeOK
    OBVIOUS
  <2>1. report \in Seq(Range(ReportsOf[tool])) /\ Len(report) <= 1
    <3>1. CASE report = <<>>
      BY <3>1
    <3>2. CASE report # <<>>
      <4>1. report = <<report[1]>> /\ report[1] \in Range(ReportsOf[tool])
        BY <3>2, CurrentReport
      <4> DEFINE r == report[1]
                 S == Range(ReportsOf[tool])
      <4> HIDE DEF r, S
      <4>2. report = <<r>> /\ r \in S
        BY <4>1 DEF r, S
      <4>3. report \in Seq(S) /\ Len(report) <= 1
        BY <4>2
      <4> QED BY <4>3 DEF S
    <3> QED BY <3>1, <3>2
  <2> QED BY <2>1 DEF TypeOK, Agenda, Settled, QueueOK, FilesOK, FilesTyped
<1> QED
  BY <1>1, AgendaInv, QueueInv, FilesInv, PTL

\* Every block of a pcapng file ends where it says, whatever writes failed, and
\* the next one begins there.  (PCAP_EnhancedPacket_CAN.cpp 60-69, PCAP_Option.cpp
\* 20-41)
THEOREM BlocksFindEachOther == Spec => []BlocksDelimited
<1>1. FilesOK => BlocksDelimited
  BY DEF FilesOK, BlocksDelimited, Delimited4
<1> QED
  BY <1>1, FilesInv, PTL

-----------------------------------------------------------------------------
(* The rows and the columns of a file.                                       *)

\* A row shows a record of the report its file belongs to.
RowKnown(row, p) ==
    /\ row.cells = Cells(tool, row.rec, fields)
    /\ row.rec \in RecordType
    /\ \E r \in Range(ReportsOf[tool]) :
          InReport(row.rec, r) /\ p \in OutputOf(r, row.rec) /\ ~Ignores(row.rec)

LEMMA RowKnownKept ==
    ASSUME input' = input, tool' = tool, fields' = fields, NEW row, NEW p
    PROVE  RowKnown(row, p)' = RowKnown(row, p)
BY DEF RowKnown, InReport, Ignores

RowsOK ==
    \A p \in AllOutputs :
        /\ out[p].columns \in {<<>>, HeaderColumns(tool, p[1], fields)}
        /\ \A i \in DOMAIN out[p].rows : RowKnown(out[p].rows[i], p)

\* What a step can do to the columns and the rows of a file: nothing, empty it,
\* or append one row.
LEMMA RowsStep ==
    ASSUME Agenda, QueueOK, FilesOK, [Next]_vars, NEW p \in AllOutputs
    PROVE  \/ out'[p].columns = out[p].columns /\ out'[p].rows = out[p].rows
           \/ /\ out'[p].columns \in {<<>>, HeaderColumns(tool, p[1], fields)}
              /\ out'[p].rows = <<>>
           \/ /\ out'[p].columns = out[p].columns
              /\ Grown(p)
              /\ out'[p].rows = Append(out[p].rows, RowOf(p, queue[next], FirstOf(writers[p], queue[next])))
<1>1. CASE Same(p) BY <1>1 DEF Same
<1>2. CASE Begun(p)
  <2>1. PICK good \in BOOLEAN, columns \in {<<>>, HeaderColumns(tool, p[1], fields)},
             blocks \in {<<>>, FileHeader} :
              out'[p] = File(TRUE, good, NoDate, columns, <<>>, FALSE, blocks)
    BY <1>2, Zenon DEF Begun
  <2>2. out'[p].columns = columns /\ out'[p].rows = <<>>
    BY <2>1 DEF File
  <2> QED BY <2>2
<1>3. CASE Grown(p)
  <2> DEFINE f == out[p]
  <2>1. PICK rec, first, row, blocks :
          /\ rec = queue[next] /\ first = FirstOf(writers[p], rec) /\ row = RowOf(p, rec, first)
          /\ \/ out'[p] = f /\ ~f.good
             \/ out'[p] = File(f.exists, FALSE, f.date, f.columns, f.rows, f.footer, f.blocks)
             \/ /\ f.good
                /\ out'[p] = File(f.exists, f.good, f.date, f.columns,
                                  Append(f.rows, row), f.footer, blocks)
    BY <1>3, Zenon DEF Grown
  <2> HIDE DEF f
  <2>2. CASE out'[p] = f
    BY <2>2 DEF f
  <2>3. CASE out'[p] = File(f.exists, FALSE, f.date, f.columns, f.rows, f.footer, f.blocks)
    <3>1. out'[p].columns = f.columns /\ out'[p].rows = f.rows
      BY <2>3 DEF File
    <3> QED BY <3>1 DEF f
  <2>4. CASE out'[p] = File(f.exists, f.good, f.date, f.columns, Append(f.rows, row), f.footer, blocks)
    <3>1. out'[p].columns = f.columns /\ out'[p].rows = Append(f.rows, row)
      BY <2>4 DEF File
    <3> QED BY <1>3, <2>1, <3>1 DEF f
  <2> QED BY <2>1, <2>2, <2>3, <2>4
<1>4. CASE Ended(p)
  <2> DEFINE f == out[p]
  <2>1. CASE out'[p] = NoFile
    BY <2>1, NoFileFacts
  <2>2. ASSUME NEW good, NEW footer, NEW date,
               out'[p] = File(f.exists, good, date, f.columns, f.rows, footer, f.blocks)
        PROVE  out'[p].columns = f.columns /\ out'[p].rows = f.rows
    BY <2>2 DEF File
  <2> QED BY <1>4, <2>1, <2>2, Zenon DEF Ended
<1> QED BY <1>1, <1>2, <1>3, <1>4, OutputStep DEF FilesOK

LEMMA Appended ==
    ASSUME NEW S, NEW s \in Seq(S), NEW e
    PROVE  /\ DOMAIN Append(s, e) = 1..(Len(s) + 1) /\ Len(Append(s, e)) = Len(s) + 1
           /\ Len(s) \in Nat /\ DOMAIN s = 1..Len(s)
           /\ Append(s, e)[Len(s) + 1] = e
           /\ \A i \in 1..Len(s) : Append(s, e)[i] = s[i]
           /\ Append(s, e) # <<>>
OBVIOUS

LEMMA RowsOKStep ==
    ASSUME Agenda, QueueOK, FilesOK, RowsOK, [Next]_vars
    PROVE  RowsOK'
<1>1. input' = input /\ tool' = tool /\ fields' = fields
  BY StepKeepsSettings
<1>2. ASSUME NEW p \in AllOutputs
      PROVE  /\ out'[p].columns \in {<<>>, HeaderColumns(tool, p[1], fields)}
             /\ \A i \in DOMAIN out'[p].rows : RowKnown(out'[p].rows[i], p)
  <2>1. CASE out'[p].columns = out[p].columns /\ out'[p].rows = out[p].rows
    BY <2>1 DEF RowsOK
  <2>2. CASE out'[p].columns \in {<<>>, HeaderColumns(tool, p[1], fields)} /\ out'[p].rows = <<>>
    BY <2>2
  <2>3. CASE /\ out'[p].columns = out[p].columns /\ Grown(p)
             /\ out'[p].rows = Append(out[p].rows, RowOf(p, queue[next], FirstOf(writers[p], queue[next])))
    <3> DEFINE rec == queue[next]
               row == RowOf(p, rec, FirstOf(writers[p], rec))
    <3>1. /\ rec \in RecordType /\ InReport(rec, report[1]) /\ report # <<>>
          /\ p \in OutputOf(report[1], rec) /\ ~Ignores(rec)
      BY <2>3, Zenon DEF Grown
    <3>2. report[1] \in Range(ReportsOf[tool])
      BY <3>1, CurrentReport
    <3>3. row.rec = rec /\ row.cells = Cells(tool, rec, fields)
      BY DEF RowOf
    <3> HIDE DEF rec, row
    <3>4. RowKnown(row, p)
      BY <3>1, <3>2, <3>3 DEF RowKnown
    <3>5. out[p].rows \in Seq(RowType)
      BY FileFields DEF FilesOK, FilesTyped
    <3> DEFINE rows == out[p].rows
    <3>6. out'[p].rows = Append(rows, row)
      BY <2>3 DEF row, rec
    <3>7. \A i \in DOMAIN rows : RowKnown(rows[i], p)
      BY DEF RowsOK
    <3> HIDE DEF rows
    <3>8. \A i \in DOMAIN out'[p].rows : RowKnown(out'[p].rows[i], p)
      <4>1. rows \in Seq(RowType)
        BY <3>5 DEF rows
      <4>2. /\ DOMAIN Append(rows, row) = 1..(Len(rows) + 1) /\ Len(rows) \in Nat
            /\ DOMAIN rows = 1..Len(rows)
            /\ Append(rows, row)[Len(rows) + 1] = row
            /\ \A i \in 1..Len(rows) : Append(rows, row)[i] = rows[i]
        BY <4>1, Appended
      <4> QED BY <3>4, <3>6, <3>7, <4>2
    <3> QED BY <2>3, <3>8 DEF RowsOK
  <2> QED BY <2>1, <2>2, <2>3, RowsStep
<1>3. \A row, p : RowKnown(row, p)' = RowKnown(row, p)
  BY <1>1, RowKnownKept
<1> QED BY <1>1, <1>2, <1>3 DEF RowsOK

LEMMA RowsInv == Spec => []RowsOK
<1>1. Init => RowsOK
  <2> SUFFICES ASSUME Init, NEW p \in AllOutputs
               PROVE  out[p].columns = <<>> /\ out[p].rows = <<>>
    BY DEF RowsOK
  <2>1. out[p] = NoFile
    BY DEF Init
  <2> QED BY <2>1, NoFileFacts
<1>2. Agenda /\ QueueOK /\ FilesOK /\ RowsOK /\ [Next]_vars => RowsOK'
  BY RowsOKStep
<1> QED
  BY <1>1, <1>2, AgendaInv, QueueInv, FilesInv, PTL DEF Spec

\* Every cell stands under its own name, or is empty.
Fits(columns, cells) ==
    \A c \in DOMAIN cells :
        cells[c] = "" \/ (c <= Len(columns) /\ cells[c] = columns[c])

LEMMA OwnCells ==
    ASSUME NEW S, NEW s \in Seq(S), NEW e
    PROVE  /\ \A c \in DOMAIN s : c <= Len(s) /\ s[c] = s[c]
           /\ \A c \in DOMAIN Append(s, e) :
                 Append(s, e)[c] = e \/ (c <= Len(s) /\ Append(s, e)[c] = s[c])
BY Appended

LEMMA FitsItself ==
    ASSUME NEW S, NEW s \in Seq(S)
    PROVE  Fits(s, s) /\ Fits(s, Append(s, ""))
BY OwnCells, Zenon DEF Fits

LEMMA CsvFits ==
    /\ Fits(CsvCanHeader, CsvDataFrame) /\ Fits(CsvCanHeader, CsvRemoteFrame)
    /\ Fits(CsvLinHeader, CsvLinFrame)
<1>1. CsvCanHeader \in Seq(Words) /\ CsvLinHeader \in Seq(Words)
  BY DEF Words, ClxColumns, CsvCanHeader, CsvLinHeader
<1>2. CsvCanHeader = CsvDataFrame /\ CsvLinHeader = CsvLinFrame
  BY DEF CsvCanHeader, CsvLinHeader, CsvDataFrame, CsvLinFrame
<1>3. Fits(CsvCanHeader, CsvRemoteFrame)
  <2> DEFINE h == CsvCanHeader
             t == CsvRemoteFrame
  <2>1. DOMAIN t = 1..10 /\ Len(h) = 10
    BY DEF CsvCanHeader, CsvRemoteFrame
  <2>2. /\ t[1] = h[1] /\ t[2] = h[2] /\ t[3] = h[3] /\ t[4] = h[4] /\ t[5] = h[5]
        /\ t[6] = h[6] /\ t[7] = h[7] /\ t[8] = h[8] /\ t[9] = h[9] /\ t[10] = ""
    BY DEF CsvCanHeader, CsvRemoteFrame
  <2> HIDE DEF h, t
  <2>3. ASSUME NEW c \in 1..10
        PROVE  t[c] = "" \/ (c <= 10 /\ t[c] = h[c])
    <3>1. c = 10 \/ (c \in 1..9 /\ c <= 10)
      OBVIOUS
    <3>3. ASSUME c \in 1..9 PROVE t[c] = h[c]
      <4>1. c = 1 \/ c = 2 \/ c = 3 \/ c = 4 \/ c = 5 \/ c = 6 \/ c = 7 \/ c = 8 \/ c = 9
        BY <3>3
      <4> QED BY <2>2, <4>1
    <3> QED BY <2>2, <3>1, <3>3, Zenon
  <2>4. Fits(h, t)
    BY <2>1, <2>3, Zenon DEF Fits
  <2> QED BY <2>4 DEF h, t
<1> QED BY <1>1, <1>2, <1>3, FitsItself

LEMMA PeakFits == Fits(Peak21Header, Peak21DataFrame) /\ Fits(Peak21Header, Peak21RemoteFrame)
<1>1. Peak21Header \in Seq(Words)
  BY DEF Words, ClxColumns, Peak21Header
<1>2. Peak21Header = Peak21DataFrame
  BY DEF Peak21Header, Peak21DataFrame
<1>3. Fits(Peak21Header, Peak21RemoteFrame)
  <2> DEFINE h == Peak21Header
             t == Peak21RemoteFrame
  <2>1. DOMAIN t = 1..7 /\ Len(h) = 8
    BY DEF Peak21Header, Peak21RemoteFrame
  <2>2. /\ t[1] = h[1] /\ t[2] = h[2] /\ t[3] = h[3] /\ t[4] = h[4] /\ t[5] = h[5]
        /\ t[6] = h[6] /\ t[7] = h[7]
    BY DEF Peak21Header, Peak21RemoteFrame
  <2> HIDE DEF h, t
  <2>3. ASSUME NEW c \in 1..7
        PROVE  c <= Len(h) /\ t[c] = h[c]
    BY <2>1, <2>2
  <2>4. Fits(h, t)
    BY <2>1, <2>3, Zenon DEF Fits
  <2> QED BY <2>4 DEF h, t
<1> QED BY <1>1, <1>2, <1>3, FitsItself

LEMMA ClxFits ==
    ASSUME NEW set
    PROVE  /\ Fits(ClxHeader(set), ClxCanRow(set))
           /\ "Type" \notin set => Fits(ClxHeader(set), ClxLinRow(set))
<1> DEFINE h == ClxHeader(set)
           t == Cell("Timestamp", set) \o Cell("ID", set)
                    \o Cell("Length", set) \o Cell("Data", set)
<1>1. h \in Seq(Words)
  BY ClxTypes
<1>2. "Type" \notin set => h = t
  <2> SUFFICES ASSUME "Type" \notin set PROVE h = t
    OBVIOUS
  <2>1. Cell("Type", set) = <<>>
    BY DEF Cell
  <2>2. Cell("Timestamp", set) \in Seq(Words)
    BY CellTypes DEF Words, ClxColumns
  <2>3. Cell("Timestamp", set) \o <<>> = Cell("Timestamp", set)
    BY <2>2
  <2> QED BY <2>1, <2>3 DEF ClxHeader
<1>3. ClxCanRow(set) = h \/ ClxCanRow(set) = Append(h, "")
  BY DEF ClxCanRow, Delimited
<1>4. ClxLinRow(set) = t \/ ClxLinRow(set) = Append(t, "")
  BY DEF ClxLinRow, Delimited
<1> HIDE DEF h, t
<1>5. Fits(h, h) /\ Fits(h, Append(h, ""))
  BY <1>1, FitsItself
<1> QED BY <1>2, <1>3, <1>4, <1>5 DEF h

LEMMA RowFits ==
    ASSUME Agenda, NEW row, NEW p, RowKnown(row, p), HeaderColumns(tool, p[1], fields) # <<>>,
           ~(p[1] = "LIN" /\ "Type" \in fields)
    PROVE  Fits(HeaderColumns(tool, p[1], fields), row.cells)
<1> DEFINE rec == row.rec
<1>1. PICK r \in Range(ReportsOf[tool]) : InReport(rec, r) /\ p \in OutputOf(r, rec)
  BY DEF RowKnown
<1>2. IsReport(r) /\ tool \in {"asc", "clx", "csv", "peak11", "peak21", "pcap", "socketcan"}
  BY <1>1, ReportFacts, ToolsAssumption DEF Agenda, Settled
<1>3. p[1] = r.bus /\ row.cells = Cells(tool, rec, fields) /\ rec.kind \in Range(r.kinds)
  BY <1>1, <1>2, OutputsOfReport DEF OutputOf, RowKnown, InReport
<1> HIDE DEF rec
<1>4. /\ p[1] \in {"CAN", "LIN"}
      /\ p[1] = "LIN" => rec.kind = "lin" /\ tool \notin {"peak11", "peak21", "pcap"}
      /\ p[1] = "CAN" => rec.kind \in {"data", "remote"}
      /\ p[1] = "CAN" /\ tool = "clx" => rec.kind = "data"
  <2>1. CASE r.bus = "LIN"
    BY <1>2, <1>3, <2>1, KindFacts, KindsDiffer DEF IsReport
  <2>2. CASE r.bus = "CAN"
    BY <1>2, <1>3, <2>2, KindFacts, KindsDiffer DEF IsReport
  <2> QED BY <1>2, <2>1, <2>2 DEF IsReport
<1>5. CASE tool = "csv"
  <2>1. CASE p[1] = "CAN" /\ rec.kind = "data"
    <3>1. Cells(tool, rec, fields) = CsvDataFrame /\ HeaderColumns(tool, p[1], fields) = CsvCanHeader
      BY <1>5, <2>1 DEF Cells, HeaderColumns
    <3> QED BY <1>3, <3>1, CsvFits
  <2>2. CASE p[1] = "CAN" /\ rec.kind = "remote"
    <3>1. Cells(tool, rec, fields) = CsvRemoteFrame /\ HeaderColumns(tool, p[1], fields) = CsvCanHeader
      BY <1>5, <2>2 DEF Cells, HeaderColumns
    <3> QED BY <1>3, <3>1, CsvFits
  <2>3. CASE p[1] = "LIN"
    <3>1. Cells(tool, rec, fields) = CsvLinFrame /\ HeaderColumns(tool, p[1], fields) = CsvLinHeader
      BY <1>4, <1>5, <2>3 DEF Cells, HeaderColumns
    <3> QED BY <1>3, <3>1, CsvFits
  <2> QED BY <1>4, <2>1, <2>2, <2>3
<1>6. CASE tool = "clx"
  <2>1. HeaderColumns(tool, p[1], fields) = ClxHeader(fields)
    BY <1>6 DEF HeaderColumns
  <2>2. p[1] = "CAN" => Cells(tool, rec, fields) = ClxCanRow(fields)
    BY <1>4, <1>6 DEF Cells
  <2>3. p[1] = "LIN" => Cells(tool, rec, fields) = ClxLinRow(fields)
    BY <1>4, <1>6 DEF Cells
  <2> QED BY <1>3, <1>4, <2>1, <2>2, <2>3, ClxFits
<1>7. CASE tool = "peak21"
  <2>1. HeaderColumns(tool, p[1], fields) = Peak21Header
    BY <1>7 DEF HeaderColumns
  <2>2. Cells(tool, rec, fields) \in {Peak21DataFrame, Peak21RemoteFrame}
    BY <1>4, <1>7 DEF Cells
  <2> QED BY <1>3, <2>1, <2>2, PeakFits
<1>8. CASE tool \notin {"csv", "clx", "peak21"}
  <2>1. HeaderColumns(tool, p[1], fields) = <<>>
    BY <1>2, <1>8 DEF HeaderColumns, Peak11Header, AscCanHeader, AscLinHeader
  <2> QED BY <2>1
<1> QED BY <1>5, <1>6, <1>7, <1>8

\* Every cell of every row stands under the name of its own column, for every log,
\* every choice of columns and whichever writes failed.
\* (CLX000_BaseExporter.cpp 188-215, CSV_CAN_Exporter.cpp 76-97)
THEOREM CellsFitColumns == Spec => []RowsFitHeader
<1>1. Agenda /\ RowsOK => RowsFitHeader
  <2> SUFFICES ASSUME Agenda, RowsOK, NEW p \in AllOutputs, NEW i \in DOMAIN out[p].rows,
                      out[p].columns # <<>>, ~(p[1] = "LIN" /\ "Type" \in fields)
               PROVE  Fits(out[p].columns, out[p].rows[i].cells)
    BY DEF RowsFitHeader, Fits
  <2>1. out[p].columns = HeaderColumns(tool, p[1], fields) /\ RowKnown(out[p].rows[i], p)
    BY DEF RowsOK
  <2> QED BY <2>1, RowFits
<1> QED
  BY <1>1, AgendaInv, RowsInv, PTL

-----------------------------------------------------------------------------
(* The numbers, times and dates in a file.                                   *)

\* What reaches the outputs of the reports that are left, and the date in the
\* files of the one being made.
Untouched ==
    /\ \A i \in DOMAIN todo : \A p \in Outputs(todo[i]) :
          writers[p] = NewWriter /\ out[p] = NoFile
    /\ report # <<>> => \A p \in Outputs(report[1]) : out[p].date = NoDate

LEMMA Elsewhere ==
    ASSUME Agenda, report # <<>>, NEW i \in DOMAIN todo, NEW p \in Outputs(todo[i])
    PROVE  p \notin Outputs(report[1]) /\ p \in AllOutputs
<1>1. todo[i].bus # report[1].bus /\ IsReport(report[1])
  BY CurrentReport
<1>2. todo[i] \in Range(ReportsOf[tool])
  BY DEF Agenda
<1>3. IsReport(todo[i])
  BY <1>2, ReportFacts DEF Agenda, Settled
<1> QED BY <1>1, <1>3, OutputsOfReport

\* Of the writer and the file of one output, before and after.
LEMMA GrownKeeps ==
    ASSUME NEW p, Grown(p)
    PROVE  /\ out'[p].date = out[p].date
           /\ \/ out'[p].rows = out[p].rows /\ (out'[p].good => FALSE)
              \/ /\ out[p].good /\ out'[p].good = out[p].good
                 /\ out'[p].rows = Append(out[p].rows, RowOf(p, queue[next], FirstOf(writers[p], queue[next])))
<1> DEFINE f == out[p]
<1>1. PICK rec, first, row, blocks :
          /\ rec = queue[next] /\ first = FirstOf(writers[p], rec) /\ row = RowOf(p, rec, first)
          /\ \/ out'[p] = f /\ ~f.good
             \/ out'[p] = File(f.exists, FALSE, f.date, f.columns, f.rows, f.footer, f.blocks)
             \/ /\ f.good
                /\ out'[p] = File(f.exists, f.good, f.date, f.columns,
                                  Append(f.rows, row), f.footer, blocks)
  BY Zenon DEF Grown
<1> HIDE DEF f
<1>2. CASE out'[p] = f /\ ~f.good
  BY <1>2 DEF f
<1>3. CASE out'[p] = File(f.exists, FALSE, f.date, f.columns, f.rows, f.footer, f.blocks)
  <2>1. out'[p].rows = f.rows /\ out'[p].good = FALSE /\ out'[p].date = f.date
    BY <1>3 DEF File
  <2> QED BY <2>1 DEF f
<1>4. CASE f.good /\ out'[p] = File(f.exists, f.good, f.date, f.columns, Append(f.rows, row), f.footer, blocks)
  <2>1. out'[p].rows = Append(f.rows, row) /\ out'[p].good = f.good /\ out'[p].date = f.date
    BY <1>4 DEF File
  <2> QED BY <1>1, <1>4, <2>1 DEF f
<1> QED BY <1>1, <1>2, <1>3, <1>4

LEMMA UntouchedStep ==
    ASSUME Agenda, QueueOK, FilesOK, Untouched, [Next]_vars
    PROVE  Untouched'
<1>0. tool' = tool
  BY StepKeepsSettings
<1>1. CASE UNCHANGED vars \/ Open \/ OpenThrows \/ MergeStep \/ MergeDone
           \/ Terminate \/ Throw \/ Return
  BY <1>1 DEF vars, Open, OpenThrows, MergeStep, MergeDone, Terminate, Throw, Return, Untouched
<1>2. CASE SkipReport
  <2>1. todo # <<>> /\ todo' = Tail(todo) /\ report' = report /\ writers' = writers /\ out' = out
    BY <1>2 DEF SkipReport
  <2>2. \A i \in DOMAIN Tail(todo) : i + 1 \in DOMAIN todo /\ Tail(todo)[i] = todo[i + 1]
    BY <2>1, HeadOfTodo
  <2> QED BY <2>1, <2>2 DEF Untouched
<1>3. CASE StartSome
  <2>1. todo # <<>> /\ todo' = Tail(todo) /\ report'[1] = Head(todo)
    BY <1>3, StartQueue DEF StartSome, StartReport
  <2>2. /\ \A i \in DOMAIN Tail(todo) : /\ i + 1 \in DOMAIN todo /\ Tail(todo)[i] = todo[i + 1]
                                       /\ Tail(todo)[i].bus # Head(todo).bus
        /\ 1 \in DOMAIN todo /\ todo[1] = Head(todo) /\ IsReport(Head(todo))
    BY <2>1, HeadOfTodo
  <2>3. \A i \in DOMAIN todo : IsReport(todo[i])
    BY ReportFacts DEF Agenda, Settled
  <2>4. ASSUME NEW i \in DOMAIN todo', NEW p \in Outputs(todo'[i])
        PROVE  writers'[p] = NewWriter /\ out'[p] = NoFile
    <3>1. i + 1 \in DOMAIN todo /\ todo'[i] = todo[i + 1] /\ todo'[i].bus # Head(todo).bus
      BY <2>1, <2>2
    <3>2. IsReport(todo'[i])
      BY <2>3, <3>1
    <3>3. p \in AllOutputs /\ p[1] # Head(todo).bus
      BY <3>1, <3>2, OutputsOfReport
    <3>4. ~Begun(p)
      BY <2>2, <3>3, OutputsOfReport DEF Begun
    <3>5. Same(p)
      BY <1>3, <3>3, <3>4, StartEffect DEF FilesOK
    <3> QED BY <3>1, <3>5 DEF Same, Untouched
  <2>5. ASSUME NEW p \in Outputs(Head(todo))
        PROVE  out'[p].date = NoDate
    <3>1. p \in AllOutputs
      BY <2>2, OutputsOfReport
    <3>2. CASE Same(p)
      BY <2>2, <3>2, NoFileFacts DEF Same, Untouched
    <3>3. CASE Begun(p)
      <4>1. PICK good, columns, blocks :
                  out'[p] = File(TRUE, good, NoDate, columns, <<>>, FALSE, blocks)
        BY <3>3, Zenon DEF Begun
      <4> QED BY <4>1 DEF File
    <3> QED BY <1>3, <3>1, <3>2, <3>3, StartEffect DEF FilesOK
  <2> QED BY <2>1, <2>4, <2>5 DEF Untouched
<1>4. CASE \E fits \in BOOLEAN : WriteRecord(fits)
  <2>1. todo' = todo /\ report' = report
    BY <1>4 DEF WriteRecord
  <2>2. ASSUME NEW p \in AllOutputs PROVE Same(p) \/ Grown(p)
    BY <1>4, WriteEffect DEF FilesOK
  <2>3. ASSUME NEW i \in DOMAIN todo, NEW p \in Outputs(todo[i])
        PROVE  writers'[p] = NewWriter /\ out'[p] = NoFile
    <3>1. report # <<>>
      BY <1>4 DEF WriteRecord, Agenda
    <3>2. p \in AllOutputs /\ p \notin Outputs(report[1])
      BY <3>1, Elsewhere
    <3>3. ~Grown(p)
      BY <3>2 DEF Grown, OutputOf
    <3> QED BY <2>2, <3>2, <3>3 DEF Same, Untouched
  <2>4. ASSUME report # <<>>, NEW p \in Outputs(report[1]) PROVE out'[p].date = NoDate
    <3>1. p \in AllOutputs
      BY <2>4, CurrentReport, OutputsOfReport
    <3> QED BY <2>2, <2>4, <3>1, GrownKeeps DEF Same, Untouched
  <2> QED BY <2>1, <2>3, <2>4 DEF Untouched
<1>5. CASE FinishSome
  <2>1. todo' = todo /\ report' = <<>> /\ report # <<>>
    BY <1>5 DEF FinishSome, FinishReport
  <2>2. ASSUME NEW i \in DOMAIN todo, NEW p \in Outputs(todo[i])
        PROVE  writers'[p] = NewWriter /\ out'[p] = NoFile
    <3>1. p \in AllOutputs /\ p \notin Outputs(report[1])
      BY <2>1, Elsewhere
    <3>2. ~Ended(p)
      BY <3>1 DEF Ended
    <3> QED BY <1>5, <3>1, <3>2, FinishEffect DEF Same, Untouched, FilesOK
  <2> QED BY <2>1, <2>2 DEF Untouched
<1> QED BY <1>1, <1>2, <1>3, <1>4, <1>5 DEF Next

LEMMA UntouchedInv == Spec => []Untouched
<1>1. Init => Untouched
  <2> SUFFICES ASSUME Init, NEW i \in DOMAIN todo, NEW p \in Outputs(todo[i])
               PROVE  writers[p] = NewWriter /\ out[p] = NoFile
    BY DEF Init, Untouched
  <2>1. /\ todo = ReportsOf[tool] /\ tool \in Tools
        /\ writers = [o \in AllOutputs |-> NewWriter]
        /\ out = [o \in AllOutputs |-> NoFile]
    BY DEF Init, InputInit
  <2>2. IsReport(todo[i])
    <3>1. todo \in Seq(Range(todo)) /\ \A r \in Range(todo) : IsReport(r)
      BY <2>1, ReportFacts
    <3> QED BY <3>1
  <2> QED BY <2>1, <2>2, OutputsOfReport
<1>2. Agenda /\ QueueOK /\ FilesOK /\ Untouched /\ [Next]_vars => Untouched'
  BY UntouchedStep
<1> QED
  BY <1>1, <1>2, AgendaInv, QueueInv, FilesInv, PTL DEF Spec

\* The rows of a file are numbered and timed from the first record its writer
\* has been given, and as long as the stream is good they are all of them.
FileMatches(w, f) ==
    /\ w.count = 0 <=> w.first = Unset
    /\ f.good => Len(f.rows) = w.count
    /\ f.rows # <<>> => f.rows[1].rec.time = w.first
    /\ \A i \in DOMAIN f.rows :
          /\ f.rows[i].number = i - 1
          /\ f.rows[i].time = RowTime(f.rows[i].rec.time, w.first)
    /\ f.date # NoDate => f.date = HeaderDate(w.first)

HeadersOK == \A p \in AllOutputs : \A w, f :
                w = writers[p] /\ f = out[p] => FileMatches(w, f)

LEMMA FileMatchesKept ==
    ASSUME input' = input, tool' = tool, format' = format, NEW w, NEW f
    PROVE  FileMatches(w, f)' = FileMatches(w, f)
<1>1. \A t, s : RowTime(t, s)' = RowTime(t, s) /\ HeaderDate(t)' = HeaderDate(t)
  BY TimesKept
<1> QED BY <1>1 DEF FileMatches

\* One more row.
LEMMA RowAppended ==
    ASSUME Agenda, FilesOK, NEW p \in AllOutputs, NEW rec \in RecordType, NEW first, NEW f,
           f = out[p], FileMatches(writers[p], f), f.date = NoDate, f.good,
           first = FirstOf(writers[p], rec), NEW w,
           w = [first |-> first, count |-> writers[p].count + 1],
           NEW g, g.date = NoDate, g.good = f.good,
           g.rows = Append(f.rows, RowOf(p, rec, first))
    PROVE  FileMatches(w, g)
<1> DEFINE row == RowOf(p, rec, first)
           rows == f.rows
           v == writers[p]
<1>1. /\ v \in WriterType /\ rows \in Seq(RowType)
  BY FileFields DEF FilesOK, FilesTyped
<1>2. /\ v.count \in Nat /\ v.first \in Nat \cup {Unset} /\ Unset \notin Nat
  BY <1>1 DEF WriterType, Unset
<1>3. /\ first \in Nat /\ row.rec = rec /\ row.number = v.count
      /\ row.time = RowTime(rec.time, first)
  BY GrownFacts
<1>4. w.first = first /\ w.count = v.count + 1
  OBVIOUS
<1>5. /\ Len(rows) = v.count
      /\ v.count = 0 <=> v.first = Unset
      /\ rows # <<>> => rows[1].rec.time = v.first
      /\ \A i \in DOMAIN rows :
            rows[i].number = i - 1 /\ rows[i].time = RowTime(rows[i].rec.time, v.first)
  BY DEF FileMatches
<1>6. g.rows = Append(rows, row)
  OBVIOUS
<1>7. v.first # Unset => first = v.first
  BY DEF FirstOf
<1>8. v.first = Unset => first = rec.time
  BY DEF FirstOf
<1> HIDE DEF row, rows, v
<1>9. /\ DOMAIN Append(rows, row) = 1..(Len(rows) + 1) /\ Len(Append(rows, row)) = Len(rows) + 1
      /\ DOMAIN rows = 1..Len(rows)
      /\ Append(rows, row)[Len(rows) + 1] = row
      /\ \A i \in 1..Len(rows) : Append(rows, row)[i] = rows[i]
  BY <1>1, Appended
<1>10. (w.count = 0 <=> w.first = Unset) /\ Len(g.rows) = w.count
  BY <1>2, <1>3, <1>4, <1>5, <1>6, <1>9
<1>11. g.rows[1].rec.time = w.first
  <2>1. CASE v.count = 0
    BY <1>3, <1>4, <1>5, <1>6, <1>8, <1>9, <2>1
  <2>2. CASE v.count # 0
    <3>1. 1 \in 1..Len(rows) /\ rows # <<>>
      BY <1>2, <1>5, <2>2, <1>1
    <3>2. g.rows[1] = rows[1]
      BY <1>6, <1>9, <3>1
    <3> QED BY <1>4, <1>5, <1>7, <2>2, <3>1, <3>2
  <2> QED BY <2>1, <2>2
<1>12. ASSUME NEW i \in DOMAIN g.rows
       PROVE  g.rows[i].number = i - 1 /\ g.rows[i].time = RowTime(g.rows[i].rec.time, w.first)
  <2>1. i \in 1..Len(rows) \/ i = Len(rows) + 1
    BY <1>2, <1>5, <1>6, <1>9
  <2>2. CASE i = Len(rows) + 1
    <3>1. g.rows[i] = row
      BY <1>6, <1>9, <2>2
    <3>2. i - 1 = v.count
      BY <1>2, <1>5, <2>2
    <3> QED BY <1>3, <1>4, <3>1, <3>2
  <2>3. CASE i \in 1..Len(rows)
    <3>1. g.rows[i] = rows[i] /\ i \in DOMAIN rows
      BY <1>6, <1>9, <2>3
    <3>2. v.count # 0
      BY <1>2, <1>5, <2>3
    <3>3. first = v.first
      BY <1>5, <1>7, <3>2
    <3> QED BY <1>4, <1>5, <3>1, <3>3
  <2> QED BY <2>1, <2>2, <2>3
<1> QED BY <1>10, <1>11, <1>12 DEF FileMatches

LEMMA HeadersStep ==
    ASSUME Agenda, QueueOK, FilesOK, Untouched, HeadersOK, [Next]_vars
    PROVE  HeadersOK'
<1>1. input' = input /\ tool' = tool /\ format' = format
  BY StepKeepsSettings
<1>2. ASSUME NEW p \in AllOutputs, NEW w, NEW f, w = writers'[p], f = out'[p]
      PROVE  FileMatches(w, f)
  <2>1. FileMatches(writers[p], out[p])
    BY DEF HeadersOK
  <2>2. CASE Same(p)
    BY <1>2, <2>1, <2>2 DEF Same
  <2>3. CASE Begun(p)
    <3>1. PICK good, columns, blocks :
              out'[p] = File(TRUE, good, NoDate, columns, <<>>, FALSE, blocks)
      BY <2>3, Zenon DEF Begun
    <3>2. f.rows = <<>> /\ f.date = NoDate
      BY <1>2, <3>1 DEF File
    <3>3. w = NewWriter
      <4>1. todo # <<>> /\ p \in Outputs(Head(todo)) /\ writers'[p] = writers[p]
        BY <2>3 DEF Begun
      <4>2. 1 \in DOMAIN todo /\ todo[1] = Head(todo)
        BY <4>1, HeadOfTodo
      <4> QED BY <1>2, <4>1, <4>2 DEF Untouched
    <3>4. w.first = Unset /\ w.count = 0
      BY <3>3, NoFileFacts
    <3>5. Len(f.rows) = 0 /\ DOMAIN f.rows = {}
      BY <3>2
    <3> QED BY <3>2, <3>4, <3>5 DEF FileMatches
  <2>4. CASE Grown(p)
    <3> DEFINE rec == queue[next]
               first == FirstOf(writers[p], rec)
    <3>1. /\ rec \in RecordType /\ report # <<>> /\ p \in Outputs(report[1])
          /\ writers'[p] = [first |-> first, count |-> writers[p].count + 1]
      BY <2>4, Zenon DEF Grown, OutputOf
    <3>2. out[p].date = NoDate /\ f.date = NoDate
      BY <1>2, <2>4, <3>1, GrownKeeps DEF Untouched
    <3>3. \/ f.rows = out[p].rows /\ ~f.good
          \/ out[p].good /\ f.good = out[p].good /\ f.rows = Append(out[p].rows, RowOf(p, rec, first))
      BY <1>2, <2>4, GrownKeeps
    <3> HIDE DEF rec, first
    <3>0. first = FirstOf(writers[p], rec)
      BY DEF first
    <3>4. CASE out[p].good /\ f.good = out[p].good /\ f.rows = Append(out[p].rows, RowOf(p, rec, first))
      BY <1>2, <2>1, <3>0, <3>1, <3>2, <3>4, RowAppended
    <3>5. CASE f.rows = out[p].rows /\ ~f.good
      <4>1. /\ first \in Nat /\ writers[p].count \in Nat /\ Unset \notin Nat
        BY <3>0, <3>1, GrownFacts DEF FilesOK, FilesTyped, WriterType, Unset
      <4>2. w.first = first /\ w.count = writers[p].count + 1
        BY <1>2, <3>1
      <4>3. f.rows # <<>> => first = writers[p].first
        <5>1. SUFFICES ASSUME f.rows # <<>> PROVE first = writers[p].first
          OBVIOUS
        <5>2. out[p].rows \in Seq(RowType)
          BY FileFields DEF FilesOK, FilesTyped
        <5>3. out[p].rows[1] \in RowType
          BY <3>5, <5>1, <5>2
        <5>4. out[p].rows[1].rec.time \in Nat
          BY <5>3 DEF RowType, RecordType
        <5>5. writers[p].first # Unset
          BY <2>1, <3>5, <4>1, <5>1, <5>4 DEF FileMatches
        <5> QED BY <3>0, <5>5 DEF FirstOf
      <4>4. \A i \in DOMAIN f.rows : f.rows # <<>>
        OBVIOUS
      <4> QED BY <2>1, <3>2, <3>5, <4>1, <4>2, <4>3, <4>4 DEF FileMatches
    <3> QED BY <3>3, <3>4, <3>5
  <2>5. CASE Ended(p)
    <3> DEFINE o == out[p]
    <3>0. w = writers[p]
      BY <1>2, <2>5 DEF Ended
    <3>1. CASE out'[p] = NoFile
      <4>1. f.rows = <<>> /\ f.date = NoDate /\ ~f.good
        BY <1>2, <3>1, NoFileFacts
      <4> QED BY <2>1, <3>0, <4>1 DEF FileMatches
    <3>2. ASSUME NEW good, NEW footer, NEW date \in {o.date, HeaderDate(writers[p].first)},
                 good => o.good,
                 out'[p] = File(o.exists, good, date, o.columns, o.rows, footer, o.blocks)
          PROVE  FileMatches(w, f)
      <4>1. f.rows = o.rows /\ f.date = date /\ f.good = good
        BY <1>2, <3>2 DEF File
      <4> QED BY <2>1, <3>0, <3>2, <4>1 DEF FileMatches
    <3> QED BY <2>5, <3>1, <3>2, Zenon DEF Ended
  <2> QED BY <2>2, <2>3, <2>4, <2>5, OutputStep DEF FilesOK
<1>3. \A w, f : FileMatches(w, f)' = FileMatches(w, f)
  BY <1>1, FileMatchesKept
<1> QED BY <1>2, <1>3 DEF HeadersOK

LEMMA HeadersInv == Spec => []HeadersOK
<1>1. Init => HeadersOK
  <2> SUFFICES ASSUME Init, NEW p \in AllOutputs
               PROVE  FileMatches(writers[p], out[p])
    BY DEF HeadersOK
  <2>1. writers[p] = NewWriter /\ out[p] = NoFile
    BY DEF Init
  <2>2. /\ writers[p].first = Unset /\ writers[p].count = 0 /\ out[p].rows = <<>>
        /\ out[p].date = NoDate /\ ~out[p].good
    BY <2>1, NoFileFacts
  <2> QED BY <2>2 DEF FileMatches
<1>2. Agenda /\ QueueOK /\ FilesOK /\ Untouched /\ HeadersOK /\ [Next]_vars => HeadersOK'
  BY HeadersStep
<1> QED
  BY <1>1, <1>2, AgendaInv, QueueInv, FilesInv, UntouchedInv, PTL DEF Spec

-----------------------------------------------------------------------------
(* The order of the records.                                                 *)

\* The logger writes the records of a kind in the order of their times; what is
\* merged must be sorted, and nothing in the exporters looks at that.
Chronological ==
    \A in \in Inputs : \A k \in Kinds : \A i, j \in DOMAIN in.log[k] :
        i < j => in.log[k][i].time <= in.log[k][j].time

LEMMA BeforeFacts ==
    ASSUME NEW a \in RecordType, NEW b \in RecordType
    PROVE  /\ ~Before(a, a)
           /\ Before(a, b) => ~Before(b, a) /\ a # b /\ a.time <= b.time
           /\ a.time < b.time => Before(a, b)
           /\ a.time <= b.time /\ a.kind = "data" /\ b.kind # "data" => Before(a, b)
           /\ a.time <= b.time /\ a.kind = b.kind /\ a.index < b.index => Before(a, b)
<1>1. a.time \in Nat /\ b.time \in Nat /\ a.index \in Nat /\ b.index \in Nat
  BY DEF RecordType
<1> DEFINE d(x) == x.kind = "data"
<1> HIDE DEF d
<1>2. /\ Before(a, b) <=> \/ a.time < b.time
                          \/ a.time = b.time /\ a.kind # b.kind /\ d(a)
                          \/ a.time = b.time /\ a.kind = b.kind /\ a.index < b.index
      /\ Before(b, a) <=> \/ b.time < a.time
                          \/ b.time = a.time /\ b.kind # a.kind /\ d(b)
                          \/ b.time = a.time /\ b.kind = a.kind /\ b.index < a.index
      /\ Before(a, a) <=> \/ a.time < a.time
                          \/ a.time = a.time /\ a.kind # a.kind /\ d(a)
                          \/ a.time = a.time /\ a.kind = a.kind /\ a.index < a.index
  BY Zenon DEF Before, d
<1>3. d(a) /\ d(b) => a.kind = b.kind
  BY DEF d
<1>4. ~Before(a, a)
  BY <1>1, <1>2
<1>5. Before(a, b) => ~Before(b, a) /\ a.time <= b.time
  BY <1>1, <1>2, <1>3
<1>6. Before(a, b) => a # b
  BY <1>4
<1>7. a.time < b.time => Before(a, b)
  BY <1>2
<1>8. a.time <= b.time => a.time < b.time \/ a.time = b.time
  BY <1>1
<1>9. a.time <= b.time /\ a.kind = "data" /\ b.kind # "data" => Before(a, b)
  BY <1>2, <1>8 DEF d
<1>10. a.time <= b.time /\ a.kind = b.kind /\ a.index < b.index => Before(a, b)
  BY <1>2, <1>8
<1> QED BY <1>4, <1>5, <1>6, <1>7, <1>9, <1>10

LEMMA LogOrder ==
    ASSUME Chronological, Agenda, NEW k \in Kinds,
           NEW i \in DOMAIN input.log[k], NEW j \in DOMAIN input.log[k], i < j
    PROVE  /\ input.log[k][i].time <= input.log[k][j].time
           /\ Before(input.log[k][i], input.log[k][j])
<1> DEFINE a == input.log[k][i]
           b == input.log[k][j]
<1>1. a \in RecordType /\ b \in RecordType /\ a.kind = b.kind /\ a.index = i /\ b.index = j
  BY InputFacts
<1>2. a.time <= b.time
  BY DEF Chronological, Agenda, Settled
<1> HIDE DEF a, b
<1>3. a.index < b.index
  BY <1>1
<1>4. Before(a, b)
  BY <1>1, <1>2, <1>3, BeforeFacts
<1> QED BY <1>2, <1>4 DEF a, b

\* What std::merge takes comes before everything it leaves.
LEMMA MergeOrder ==
    ASSUME Chronological, Agenda, QueueOK, phase = "merging",
           NEW i \in {1, 2}, i = (IF TakesSecond THEN 2 ELSE 1), Left(i),
           NEW s \in {1, 2}, NEW m \in DOMAIN Source(s),
           IF s = i THEN taken[s] + 1 < m ELSE taken[s] < m
    PROVE  Before(Source(i)[taken[i] + 1], Source(s)[m])
<1>1. /\ Source(1) = input.log["data"] /\ Source(2) = input.log["remote"]
      /\ \A n \in {1, 2} : /\ Len(Source(n)) \in Nat /\ DOMAIN Source(n) = 1..Len(Source(n))
                           /\ taken[n] \in Nat
  BY MergedSources DEF QueueOK
<1>2. \A n \in {1, 2} : \A x, y \in DOMAIN Source(n) : x < y =>
          Source(n)[x].time <= Source(n)[y].time /\ Before(Source(n)[x], Source(n)[y])
  <2>1. "data" \in Kinds /\ "remote" \in Kinds
    BY DEF Kinds
  <2>2. \A x, y \in DOMAIN input.log["data"] : x < y =>
            /\ input.log["data"][x].time <= input.log["data"][y].time
            /\ Before(input.log["data"][x], input.log["data"][y])
    BY <2>1, LogOrder
  <2>3. \A x, y \in DOMAIN input.log["remote"] : x < y =>
            /\ input.log["remote"][x].time <= input.log["remote"][y].time
            /\ Before(input.log["remote"][x], input.log["remote"][y])
    BY <2>1, LogOrder
  <2> QED BY <1>1, <2>2, <2>3
<1>3. /\ \A x \in DOMAIN Source(1) : Source(1)[x] \in RecordType /\ Source(1)[x].kind = "data"
      /\ \A x \in DOMAIN Source(2) : Source(2)[x] \in RecordType /\ Source(2)[x].kind # "data"
  <2>1. \A x \in DOMAIN Source(1) : Source(1)[x] \in RecordType /\ Source(1)[x].kind = "data"
    BY <1>1, InputFacts DEF Kinds
  <2>2. \A x \in DOMAIN Source(2) : Source(2)[x] \in RecordType /\ Source(2)[x].kind # "data"
    BY <1>1, InputFacts DEF Kinds
  <2> QED BY <2>1, <2>2
<1>4. taken[i] + 1 \in DOMAIN Source(i)
  BY <1>1 DEF Left
<1>5. CASE s = i
  <2>1. taken[i] + 1 < m
    BY <1>5
  <2> QED BY <1>2, <1>4, <1>5, <2>1
<1>6. CASE s # i
  <2> DEFINE e == Source(i)[taken[i] + 1]
             c == Source(s)[taken[s] + 1]
             x == Source(s)[m]
  <2>1. taken[s] + 1 \in DOMAIN Source(s) /\ Left(s) /\ (taken[s] + 1 = m \/ taken[s] + 1 < m)
    BY <1>1, <1>6 DEF Left
  <2>2. e \in RecordType /\ c \in RecordType /\ x \in RecordType
    BY <1>3, <1>4, <2>1
  <2>3. c.time <= x.time
    <3>1. c.time \in Nat
      BY <2>2 DEF RecordType
    <3>2. CASE taken[s] + 1 = m
      BY <3>1, <3>2
    <3>3. CASE taken[s] + 1 < m
      BY <1>2, <2>1, <3>3
    <3> QED BY <2>1, <3>2, <3>3
  <2>4. CASE i = 1
    <3>1. s = 2 /\ ~TakesSecond
      BY <1>6, <2>4
    <3>2. ~(c.time < e.time)
      BY <2>1, <2>4, <3>1 DEF TakesSecond, Current
    <3>3. e.kind = "data" /\ x.kind # "data"
      BY <1>3, <1>4, <2>4, <3>1
    <3> HIDE DEF e, c, x
    <3>4. e.time \in Nat /\ c.time \in Nat /\ x.time \in Nat
      BY <2>2 DEF RecordType
    <3>5. e.time <= x.time
      BY <2>3, <3>2, <3>4
    <3>6. Before(e, x)
      BY <2>2, <3>3, <3>5, BeforeFacts
    <3> QED BY <3>6 DEF e, x
  <2>5. CASE i = 2
    <3>1. s = 1 /\ TakesSecond
      BY <1>6, <2>5
    <3>2. e.time < c.time
      BY <2>1, <2>5, <3>1 DEF TakesSecond, Current
    <3> HIDE DEF e, c, x
    <3>3. e.time \in Nat /\ c.time \in Nat /\ x.time \in Nat
      BY <2>2 DEF RecordType
    <3>4. e.time < x.time
      BY <2>3, <3>2, <3>3
    <3>5. Before(e, x)
      BY <2>2, <3>4, BeforeFacts
    <3> QED BY <3>5 DEF e, x
  <2> QED BY <2>4, <2>5
<1> QED BY <1>5, <1>6

\* The queue is sorted; what has not been merged yet comes after it; once it is
\* written from, it holds every record of the report.
QueueOrder ==
    /\ \A i, j \in DOMAIN queue : i < j => Before(queue[i], queue[j])
    /\ phase = "merging" =>
          /\ next = 1
          /\ \A s \in {1, 2} : \A m \in DOMAIN Source(s) :
                /\ m <= taken[s] => \E j \in DOMAIN queue : queue[j] = Source(s)[m]
                /\ taken[s] < m => \A j \in DOMAIN queue : Before(queue[j], Source(s)[m])
    /\ phase = "writing" =>
          \A rec : InReport(rec, report[1]) => \E j \in DOMAIN queue : queue[j] = rec

LEMMA QueueOrderStep ==
    ASSUME Chronological, Agenda, QueueOK, QueueOrder, [Next]_vars
    PROVE  QueueOrder'
<1>1. input' = input
  BY StepKeepsSettings
<1>2. \A rec, r : InReport(rec, r)' = InReport(rec, r)
  BY <1>1, InReportKept
<1>3. CASE UNCHANGED vars
  BY <1>1, <1>2, <1>3 DEF vars, QueueOrder, Source
<1>4. CASE Open \/ OpenThrows \/ SkipReport \/ Terminate \/ Throw \/ Return
  <2>1. queue' = queue /\ phase' \notin {"merging", "writing"}
    BY <1>4 DEF Open, OpenThrows, SkipReport, Terminate, Throw, Return
  <2> QED BY <2>1 DEF QueueOrder
<1>5. CASE StartSome
  <2> DEFINE r == Head(todo)
             k == r.kinds[1]
  <2>1. /\ report'[1] = r /\ next' = 1 /\ taken' = <<0, 0>>
        /\ r.kinds = Both => phase' = "merging" /\ queue' = <<>>
        /\ r.kinds # Both => /\ phase' = "writing" /\ k \in Kinds /\ Range(r.kinds) = {k}
                             /\ queue' = input.log[k]
    BY <1>5, StartQueue
  <2> HIDE DEF r, k
  <2>2. CASE r.kinds = Both
    <3>1. phase' = "merging" /\ queue' = <<>> /\ DOMAIN queue' = {}
      BY <2>1, <2>2
    <3>2. Source(1)' = input.log["data"] /\ Source(2)' = input.log["remote"]
      BY <1>1, <2>1, <2>2, KindFacts DEF Source
    <3>3. \A s \in {1, 2} : \A m \in DOMAIN Source(s)' : ~(m <= taken'[s])
      <4>1. /\ DOMAIN input.log["data"] = 1..Len(input.log["data"]) /\ Len(input.log["data"]) \in Nat
            /\ DOMAIN input.log["remote"] = 1..Len(input.log["remote"]) /\ Len(input.log["remote"]) \in Nat
        BY InputFacts DEF Kinds
      <4>2. taken'[1] = 0 /\ taken'[2] = 0
        BY <2>1
      <4> QED BY <3>2, <4>1, <4>2
    <3> QED BY <2>1, <3>1, <3>3 DEF QueueOrder
  <2>3. CASE r.kinds # Both
    <3>1. phase' = "writing" /\ k \in Kinds /\ Range(r.kinds) = {k} /\ queue' = input.log[k]
      BY <2>1, <2>3
    <3>2. \A i, j \in DOMAIN queue' : i < j => Before(queue'[i], queue'[j])
      BY <3>1, LogOrder
    <3>3. ASSUME NEW rec, InReport(rec, r) PROVE \E j \in DOMAIN queue' : queue'[j] = rec
      BY <3>1, <3>3 DEF InReport
    <3> QED BY <1>2, <2>1, <3>1, <3>2, <3>3 DEF QueueOrder
  <2> QED BY <2>2, <2>3
<1>6. CASE MergeStep
  <2>1. PICK i \in {1, 2} :
             /\ i = (IF TakesSecond THEN 2 ELSE 1) /\ Left(i)
             /\ taken[i] + 1 \in DOMAIN Source(i)
             /\ queue' = Append(queue, Source(i)[taken[i] + 1])
             /\ taken' = [taken EXCEPT ![i] = taken[i] + 1]
             /\ queue' \in Seq(RecordType) /\ Len(queue') = Len(queue) + 1
             /\ \A j \in DOMAIN queue : j \in DOMAIN queue' /\ queue'[j] = queue[j]
             /\ Len(queue') \in DOMAIN queue' /\ queue'[Len(queue')] = Source(i)[taken[i] + 1]
             /\ \A j \in DOMAIN queue' : j \in DOMAIN queue \/ j = Len(queue')
    BY <1>6, MergeEffect
  <2> DEFINE e == Source(i)[taken[i] + 1]
             n == Len(queue')
  <2>2. phase = "merging" /\ phase' = phase /\ report' = report /\ next' = next
    BY <1>6 DEF MergeStep
  <2>3. \A s \in {1, 2} : Source(s)' = Source(s)
    BY <1>1, <2>2 DEF Source
  <2>4. /\ taken[1] \in Nat /\ taken[2] \in Nat /\ taken'[i] = taken[i] + 1
        /\ \A s \in {1, 2} : s # i => taken'[s] = taken[s]
        /\ \A s \in {1, 2} : \A m \in DOMAIN Source(s) : m \in Nat
    BY <2>1, <2>2, MergedSources DEF QueueOK
  <2>5. ASSUME NEW j \in DOMAIN queue PROVE Before(queue[j], e)
    BY <2>1, <2>2, <2>4, <2>5 DEF QueueOrder
  <2>6. ASSUME NEW s \in {1, 2}, NEW m \in DOMAIN Source(s), taken'[s] < m
        PROVE  Before(e, Source(s)[m])
    BY <2>1, <2>2, <2>4, <2>6, MergeOrder
  <2>7. DOMAIN queue = 1..Len(queue) /\ Len(queue) \in Nat /\ n = Len(queue) + 1 /\ DOMAIN queue' = 1..n
    BY <2>1 DEF QueueOK
  <2>8. queue'[n] = e /\ \A j \in DOMAIN queue : j \in DOMAIN queue' /\ queue'[j] = queue[j]
    BY <2>1
  <2> HIDE DEF e, n
  <2>9. ASSUME NEW x \in DOMAIN queue', NEW y \in DOMAIN queue', x < y
        PROVE  Before(queue'[x], queue'[y])
    <3>1. x \in DOMAIN queue
      BY <2>7, <2>9
    <3>2. CASE y \in DOMAIN queue
      BY <2>8, <2>9, <3>1, <3>2 DEF QueueOrder
    <3>3. CASE y = n
      BY <2>5, <2>8, <3>1, <3>3
    <3> QED BY <2>7, <3>2, <3>3
  <2>10. ASSUME NEW s \in {1, 2}, NEW m \in DOMAIN Source(s), m <= taken'[s]
         PROVE  \E j \in DOMAIN queue' : queue'[j] = Source(s)[m]
    <3>1. m <= taken[s] \/ (s = i /\ m = taken[i] + 1)
      BY <2>4, <2>10
    <3>2. CASE m <= taken[s]
      BY <2>2, <2>8, <3>2 DEF QueueOrder
    <3>3. CASE s = i /\ m = taken[i] + 1
      BY <2>7, <2>8, <3>3 DEF e
    <3> QED BY <3>1, <3>2, <3>3
  <2>11. ASSUME NEW s \in {1, 2}, NEW m \in DOMAIN Source(s), taken'[s] < m, NEW j \in DOMAIN queue'
         PROVE  Before(queue'[j], Source(s)[m])
    <3>1. taken[s] < m
      BY <2>4, <2>11
    <3>2. CASE j \in DOMAIN queue
      BY <2>2, <2>8, <3>1, <3>2 DEF QueueOrder
    <3>3. CASE j = n
      BY <2>6, <2>8, <2>11, <3>3
    <3> QED BY <2>7, <3>2, <3>3
  <2> QED BY <2>2, <2>3, <2>9, <2>10, <2>11 DEF QueueOrder
<1>7. CASE MergeDone
  <2>1. /\ phase = "merging" /\ ~Left(1) /\ ~Left(2) /\ phase' = "writing"
        /\ queue' = queue /\ report' = report
    BY <1>7 DEF MergeDone
  <2>2. ASSUME NEW rec, InReport(rec, report[1]) PROVE \E j \in DOMAIN queue : queue[j] = rec
    <3>1. PICK s \in {1, 2} : Source(s) = input.log[rec.kind]
      BY <2>1, <2>2, MergedSources, KindFacts DEF InReport
    <3>2. rec.index \in DOMAIN Source(s) /\ rec = Source(s)[rec.index]
      BY <2>2, <3>1 DEF InReport
    <3>3. rec.index <= taken[s]
      BY <2>1, <3>2, MergedSources DEF Left, QueueOK
    <3> QED BY <2>1, <3>2, <3>3 DEF QueueOrder
  <2> QED BY <1>2, <2>1, <2>2 DEF QueueOrder
<1>8. CASE \E fits \in BOOLEAN : WriteRecord(fits)
  <2>1. queue' = queue /\ phase' = phase /\ phase = "writing" /\ report' = report
    BY <1>8 DEF WriteRecord
  <2> QED BY <1>2, <2>1 DEF QueueOrder
<1>9. CASE FinishSome
  <2>1. queue' = <<>> /\ phase' = "open"
    BY <1>9 DEF FinishSome, FinishReport
  <2> QED BY <2>1 DEF QueueOrder
<1> QED BY <1>3, <1>4, <1>5, <1>6, <1>7, <1>8, <1>9 DEF Next

LEMMA QueueOrderInv == ASSUME Chronological PROVE Spec => []QueueOrder
<1>1. Init => QueueOrder
  BY DEF Init, QueueOrder
<1>2. Agenda /\ QueueOK /\ QueueOrder /\ [Next]_vars => QueueOrder'
  BY QueueOrderStep
<1> QED
  BY <1>1, <1>2, AgendaInv, QueueInv, PTL DEF Spec

-----------------------------------------------------------------------------
(* The records that belong into a file.                                      *)

LEMMA DueIs ==
    ASSUME Agenda, NEW r \in Range(ReportsOf[tool]), NEW p \in Outputs(r), NEW rec
    PROVE  rec \in Due(p) <=> InReport(rec, r) /\ p \in OutputOf(r, rec) /\ ~Ignores(rec)
<1>1. IsReport(r) /\ \A s \in Range(ReportsOf[tool]) : IsReport(s) /\ (s.bus = r.bus => s = r)
  BY ReportFacts DEF Agenda, Settled
<1>2. p[1] = r.bus
  BY <1>1, OutputsOfReport
<1>3. ReportFor(p) = r
  BY <1>1, <1>2 DEF ReportFor
<1>4. Range(r.kinds) \subseteq Kinds
  BY <1>1, KindsAreKinds
<1>5. rec \in UNION {Range(input.log[k]) : k \in Range(r.kinds)} <=> InReport(rec, r)
  <2>1. ASSUME NEW k \in Range(r.kinds), rec \in Range(input.log[k])
        PROVE  InReport(rec, r)
    <3>1. k \in Kinds
      BY <1>4, <2>1
    <3>2. PICK i \in DOMAIN input.log[k] : rec = input.log[k][i]
      BY <2>1 DEF Range
    <3> QED BY <2>1, <3>1, <3>2, ElementInReport
  <2>2. ASSUME InReport(rec, r)
        PROVE  rec.kind \in Range(r.kinds) /\ rec \in Range(input.log[rec.kind])
    BY <2>2 DEF InReport, Range
  <2> QED BY <2>1, <2>2
<1> HIDE DEF InReport
<1>6. Due(p) = {x \in UNION {Range(input.log[k]) : k \in Range(r.kinds)} :
                   p \in OutputOf(r, x) /\ ~Ignores(x)}
  BY <1>3 DEF Due
<1> QED BY <1>5, <1>6

LEMMA DueKept ==
    ASSUME input' = input, tool' = tool, NEW p
    PROVE  Due(p)' = Due(p)
BY DEF Due, ReportFor, Ignores

\* The records that belong into file p before record rec, and those that have
\* been written or lost so far.
Rank(p, rec) == {other \in Due(p) : Before(other, rec)}
Passed(p) == {rec \in Due(p) : \E j \in DOMAIN queue : j < next /\ queue[j] = rec}

\* A row has as many records before it as its number says.
Ranked(row, p) ==
    /\ row.rec \in Due(p)
    /\ IsFiniteSet(Rank(p, row.rec)) /\ Cardinality(Rank(p, row.rec)) = row.number

LEMMA RankedKept ==
    ASSUME input' = input, tool' = tool, NEW row, NEW p
    PROVE  Ranked(row, p)' = Ranked(row, p)
<1>1. Due(p)' = Due(p)
  BY DueKept
<1> QED BY <1>1 DEF Ranked, Rank

\* Report r has been made.
Made(r) ==
    /\ Messages(r.bus) > 0 /\ report # <<r>>
    /\ \A i \in DOMAIN todo : todo[i] # r

Counted ==
    /\ report # <<>> => \A p \in Outputs(report[1]) :
          IsFiniteSet(Passed(p)) /\ writers[p].count = Cardinality(Passed(p))
    /\ \A r \in Range(ReportsOf[tool]) : Made(r) => \A p \in Outputs(r) :
          /\ IsFiniteSet(Due(p)) /\ writers[p].count = Cardinality(Due(p))
          /\ tool = "clx" /\ out[p].good => writers[p].count # 0
    /\ \A p \in AllOutputs : \A i \in DOMAIN out[p].rows : Ranked(out[p].rows[i], p)

\* What comes before the record that is written next is what has been written.
LEMMA RankIsPassed ==
    ASSUME Agenda, QueueOK, QueueOrder, report # <<>>, phase = "writing",
           next \in DOMAIN queue, NEW p \in Outputs(report[1])
    PROVE  /\ queue[next] \in Due(p) <=> p \in OutputOf(report[1], queue[next]) /\ ~Ignores(queue[next])
           /\ Rank(p, queue[next]) = Passed(p) /\ queue[next] \notin Passed(p)
<1> DEFINE rec == queue[next]
           r == report[1]
           D == Due(p)
<1>1. /\ r \in Range(ReportsOf[tool]) /\ InReport(rec, r)
      /\ \A j \in DOMAIN queue : queue[j] \in RecordType /\ j \in Nat
      /\ next \in Nat
  BY CurrentReport DEF QueueOK
<1>2. rec \in D <=> p \in OutputOf(r, rec) /\ ~Ignores(rec)
  BY <1>1, DueIs
<1>3. ASSUME NEW x \in D PROVE \E j \in DOMAIN queue : queue[j] = x
  <2>1. InReport(x, r)
    BY <1>1, DueIs
  <2> QED BY <2>1 DEF QueueOrder
<1>4. \A i, j \in DOMAIN queue : i < j => Before(queue[i], queue[j])
  BY DEF QueueOrder
<1>5. ASSUME NEW j \in DOMAIN queue PROVE Before(queue[j], rec) <=> j < next
  <2>1. j < next => Before(queue[j], rec)
    BY <1>4
  <2>2. j = next \/ next < j => ~Before(queue[j], rec)
    <3>1. queue[j] \in RecordType /\ rec \in RecordType
      BY <1>1
    <3>2. next < j => Before(rec, queue[j])
      BY <1>4
    <3> QED BY <3>1, <3>2, BeforeFacts
  <2>3. j < next \/ j = next \/ next < j
    BY <1>1
  <2> QED BY <2>1, <2>2, <2>3
<1>6. ASSUME NEW j \in DOMAIN queue, queue[j] = rec PROVE ~(j < next)
  <2>1. ~Before(queue[j], rec)
    BY <1>1, <1>6, BeforeFacts
  <2> QED BY <1>5, <2>1
<1>7. Passed(p) = {x \in D : \E j \in DOMAIN queue : j < next /\ queue[j] = x}
  BY DEF Passed
<1>8. Rank(p, rec) = {x \in D : Before(x, rec)}
  BY DEF Rank
<1> HIDE DEF rec, r, D
<1>9. Rank(p, rec) = Passed(p)
  BY <1>3, <1>5, <1>7, <1>8
<1>10. rec \notin Passed(p)
  BY <1>6, <1>7
<1> QED BY <1>2, <1>9, <1>10 DEF rec, r, D

\* What writing a record adds.
LEMMA PassedWrites ==
    ASSUME next \in Nat, next \in DOMAIN queue, \A j \in DOMAIN queue : j \in Nat,
           next' = next + 1, queue' = queue, input' = input, tool' = tool, NEW p
    PROVE  Passed(p)' = IF queue[next] \in Due(p) THEN Passed(p) \cup {queue[next]} ELSE Passed(p)
<1> DEFINE rec == queue[next]
           D == Due(p)
<1>1. Passed(p)' = {x \in D : \E j \in DOMAIN queue : j < next + 1 /\ queue[j] = x}
  BY DueKept DEF Passed
<1>2. Passed(p) = {x \in D : \E j \in DOMAIN queue : j < next /\ queue[j] = x}
  BY DEF Passed
<1>3. \A j \in DOMAIN queue : j < next + 1 <=> (j < next \/ j = next)
  OBVIOUS
<1> HIDE DEF rec, D
<1>4. queue[next] = rec
  BY DEF rec
<1>5. rec \in D => Passed(p)' = Passed(p) \cup {rec}
  BY <1>1, <1>2, <1>3, <1>4
<1>6. rec \notin D => Passed(p)' = Passed(p)
  BY <1>1, <1>2, <1>3, <1>4
<1> QED BY <1>5, <1>6 DEF rec, D

\* Once the whole queue has been written from, everything has been passed.
LEMMA AllPassed ==
    ASSUME Agenda, QueueOK, QueueOrder, phase = "writing", next > Len(queue),
           NEW p \in Outputs(report[1])
    PROVE  Passed(p) = Due(p)
<1>1. report[1] \in Range(ReportsOf[tool])
  BY CurrentReport DEF Agenda
<1>2. \A j \in DOMAIN queue : j < next
  BY DEF QueueOK
<1>3. ASSUME NEW x \in Due(p) PROVE \E j \in DOMAIN queue : queue[j] = x
  <2>1. InReport(x, report[1])
    BY <1>1, DueIs
  <2> QED BY <2>1 DEF QueueOrder
<1> QED BY <1>2, <1>3 DEF Passed

\* The rows, by what a step does to them.
LEMMA RankedStep ==
    ASSUME Agenda, QueueOK, FilesOK, QueueOrder, Counted, HeadersOK, [Next]_vars,
           NEW p \in AllOutputs, NEW i \in DOMAIN out'[p].rows
    PROVE  Ranked(out'[p].rows[i], p)
<1>1. \A j \in DOMAIN out[p].rows : Ranked(out[p].rows[j], p)
  BY DEF Counted
<1>2. CASE out'[p].rows = out[p].rows
  BY <1>1, <1>2
<1>3. CASE out'[p].rows = <<>>
  BY <1>3
<1>4. CASE /\ Grown(p)
           /\ out'[p].rows = Append(out[p].rows, RowOf(p, queue[next], FirstOf(writers[p], queue[next])))
  <2> DEFINE rec == queue[next]
             row == RowOf(p, rec, FirstOf(writers[p], rec))
             rows == out[p].rows
  <2>1. /\ report # <<>> /\ phase = "writing" /\ next \in DOMAIN queue
        /\ p \in OutputOf(report[1], rec) /\ ~Ignores(rec)
    BY <1>4, Zenon DEF Grown
  <2>2. p \in Outputs(report[1])
    BY <2>1 DEF OutputOf
  <2>3. row.rec = rec /\ row.number = writers[p].count
    BY DEF RowOf
  <2>4. rec \in Due(p) /\ Rank(p, rec) = Passed(p)
    BY <2>1, <2>2, RankIsPassed
  <2>5. IsFiniteSet(Passed(p)) /\ writers[p].count = Cardinality(Passed(p))
    BY <2>1, <2>2 DEF Counted
  <2> HIDE DEF rec, row
  <2>6. Ranked(row, p)
    BY <2>3, <2>4, <2>5 DEF Ranked
  <2>7. out'[p].rows = Append(rows, row) /\ rows \in Seq(RowType)
    BY <1>4, FileFields DEF row, rec, FilesOK, FilesTyped
  <2> HIDE DEF rows
  <2>8. /\ DOMAIN Append(rows, row) = 1..(Len(rows) + 1) /\ Len(rows) \in Nat
        /\ DOMAIN rows = 1..Len(rows)
        /\ Append(rows, row)[Len(rows) + 1] = row
        /\ \A j \in 1..Len(rows) : Append(rows, row)[j] = rows[j]
    BY <2>7, Appended
  <2>9. \A j \in DOMAIN rows : Ranked(rows[j], p)
    BY <1>1 DEF rows
  <2>10. i \in 1..Len(rows) \/ i = Len(rows) + 1
    BY <2>7, <2>8
  <2> QED BY <2>6, <2>7, <2>8, <2>9, <2>10
<1> QED BY <1>2, <1>3, <1>4, RowsStep

\* The report being made: what its outputs have been given.
CurrentCounted ==
    report # <<>> => \A p \in Outputs(report[1]) :
        IsFiniteSet(Passed(p)) /\ writers[p].count = Cardinality(Passed(p))
MadeCounted ==
    \A r \in Range(ReportsOf[tool]) : Made(r) => \A p \in Outputs(r) :
        /\ IsFiniteSet(Due(p)) /\ writers[p].count = Cardinality(Due(p))
        /\ tool = "clx" /\ out[p].good => writers[p].count # 0

LEMMA PassedKept ==
    ASSUME input' = input, tool' = tool, queue' = queue, next' = next, NEW p
    PROVE  Passed(p)' = Passed(p)
<1>1. Due(p)' = Due(p)
  BY DueKept
<1> QED BY <1>1 DEF Passed

LEMMA NothingPassed ==
    ASSUME next = 1, queue \in Seq(RecordType), NEW p
    PROVE  Passed(p) = {}
<1>1. \A j \in DOMAIN queue : ~(j < next)
  OBVIOUS
<1> QED BY <1>1 DEF Passed

LEMMA CurrentStep ==
    ASSUME Agenda, QueueOK, FilesOK, QueueOrder, Untouched, Counted, [Next]_vars, QueueOK'
    PROVE  CurrentCounted'
<1>1. input' = input /\ tool' = tool
  BY StepKeepsSettings
<1>2. ASSUME report' = report, queue' = queue, next' = next, writers' = writers PROVE CurrentCounted'
  <2>1. \A p : Passed(p)' = Passed(p)
    BY <1>1, <1>2, PassedKept
  <2> QED BY <1>2, <2>1 DEF Counted, CurrentCounted
<1>3. CASE UNCHANGED vars \/ Open \/ OpenThrows \/ SkipReport \/ MergeDone \/ Terminate \/ Throw \/ Return
  BY <1>2, <1>3 DEF vars, Open, OpenThrows, SkipReport, MergeDone, Terminate, Throw, Return
<1>4. CASE MergeStep
  <2>1. /\ phase = "merging" /\ report' = report /\ next' = next /\ writers' = writers
        /\ next = 1 /\ report # <<>>
    BY <1>4 DEF MergeStep, QueueOrder, Agenda
  <2>2. \A p : Passed(p) = {}
    BY <2>1, NothingPassed DEF QueueOK
  <2>3. \A p : Passed(p)' = {}
    <3>1. next' = 1 /\ queue' \in Seq(RecordType)
      BY <2>1 DEF QueueOK
    <3>2. \A j \in DOMAIN queue' : ~(j < next')
      BY <3>1
    <3> QED BY <3>2 DEF Passed
  <2> QED BY <2>1, <2>2, <2>3 DEF Counted, CurrentCounted
<1>5. CASE StartSome
  <2>1. todo # <<>> /\ report' = <<Head(todo)>> /\ report'[1] = Head(todo) /\ next' = 1
        /\ queue' \in Seq(RecordType)
    BY <1>5, StartQueue
  <2>2. \A j \in DOMAIN queue' : ~(j < next')
    BY <2>1
  <2>3. \A p : Passed(p)' = {}
    BY <2>2 DEF Passed
  <2>4. writers' = writers
    BY <1>5 DEF StartSome, StartReport
  <2>5. \A p \in Outputs(Head(todo)) : writers[p].count = 0
    <3>1. 1 \in DOMAIN todo /\ todo[1] = Head(todo)
      BY <2>1, HeadOfTodo
    <3> QED BY <3>1, NoFileFacts DEF Untouched
  <2>6. IsFiniteSet({}) /\ Cardinality({}) = 0
    BY FS_EmptySet
  <2> QED BY <2>1, <2>3, <2>4, <2>5, <2>6 DEF CurrentCounted
<1>6. CASE \E fits \in BOOLEAN : WriteRecord(fits)
  <2>1. PICK fits \in BOOLEAN : WriteRecord(fits)
    BY <1>6
  <2>2. /\ report' = report /\ next' = next + 1 /\ queue' = queue /\ phase = "writing"
        /\ next <= Len(queue)
    BY <2>1 DEF WriteRecord
  <2>3. /\ report # <<>> /\ next \in Nat /\ next \in DOMAIN queue
        /\ \A j \in DOMAIN queue : j \in Nat
    BY <2>2 DEF QueueOK, Agenda
  <2>4. ASSUME NEW p \in Outputs(report[1])
        PROVE  IsFiniteSet(Passed(p)') /\ writers'[p].count = Cardinality(Passed(p)')
    <3> DEFINE rec == queue[next]
    <3>1. p \in AllOutputs
      BY <2>3, CurrentReport, OutputsOfReport
    <3>2. /\ rec \in Due(p) <=> p \in OutputOf(report[1], rec) /\ ~Ignores(rec)
          /\ rec \notin Passed(p)
      BY <2>2, <2>3, RankIsPassed
    <3>3. Passed(p)' = IF rec \in Due(p) THEN Passed(p) \cup {rec} ELSE Passed(p)
      BY <1>1, <2>2, <2>3, PassedWrites
    <3>4. IsFiniteSet(Passed(p)) /\ writers[p].count = Cardinality(Passed(p))
      BY <2>3 DEF Counted
    <3>5. /\ Same(p) \/ Grown(p)
          /\ ~Ignores(rec) /\ p \in OutputOf(report[1], rec) => Grown(p)
      BY <2>1, <3>1, WriteEffect DEF FilesOK
    <3>6. Grown(p) => /\ writers'[p].count = writers[p].count + 1
                      /\ ~Ignores(rec) /\ p \in OutputOf(report[1], rec)
      <4> SUFFICES ASSUME Grown(p)
                   PROVE  /\ writers'[p].count = writers[p].count + 1
                          /\ ~Ignores(rec) /\ p \in OutputOf(report[1], rec)
        OBVIOUS
      <4>1. PICK first : writers'[p] = [first |-> first, count |-> writers[p].count + 1]
        BY Zenon DEF Grown
      <4>2. writers'[p].count = writers[p].count + 1
        BY <4>1
      <4> QED BY <4>2 DEF Grown
    <3> HIDE DEF rec
    <3>7. CASE rec \in Due(p)
      <4>1. Passed(p)' = Passed(p) \cup {rec} /\ writers'[p].count = writers[p].count + 1
        BY <3>2, <3>3, <3>5, <3>6, <3>7
      <4>2. /\ IsFiniteSet(Passed(p) \cup {rec})
            /\ Cardinality(Passed(p) \cup {rec}) = Cardinality(Passed(p)) + 1
        BY <3>2, <3>4, FS_AddElement
      <4> QED BY <3>4, <4>1, <4>2
    <3>8. CASE rec \notin Due(p)
      <4>1. Passed(p)' = Passed(p) /\ writers'[p] = writers[p]
        BY <3>2, <3>3, <3>5, <3>6, <3>8 DEF Same
      <4> QED BY <3>4, <4>1
    <3> QED BY <3>7, <3>8
  <2> QED BY <2>2, <2>4 DEF CurrentCounted
<1>7. CASE FinishSome
  BY <1>7 DEF FinishSome, FinishReport, CurrentCounted
<1> QED BY <1>3, <1>4, <1>5, <1>6, <1>7 DEF Next

\* A report that has been made is none of those left, and neither has the outputs
\* of the other.
LEMMA OthersOutputs ==
    ASSUME Agenda, NEW r \in Range(ReportsOf[tool]), NEW s \in Range(ReportsOf[tool]), r # s,
           NEW p \in Outputs(r)
    PROVE  p \in AllOutputs /\ p \notin Outputs(s)
<1>1. r.bus # s.bus /\ IsReport(r) /\ IsReport(s)
  BY ReportFacts DEF Agenda, Settled
<1> QED BY <1>1, OutputsOfReport

LEMMA MadeStep ==
    ASSUME Agenda, QueueOK, FilesOK, QueueOrder, Untouched, Counted, [Next]_vars
    PROVE  MadeCounted'
<1>1. input' = input /\ tool' = tool
  BY StepKeepsSettings
<1>2. \A p : Due(p)' = Due(p)
  BY <1>1, DueKept
<1>3. ASSUME NEW r \in Range(ReportsOf[tool]), Made(r)', NEW p \in Outputs(r)
      PROVE  /\ IsFiniteSet(Due(p)) /\ writers'[p].count = Cardinality(Due(p))
             /\ tool = "clx" /\ out'[p].good => writers'[p].count # 0
  <2>1. Messages(r.bus) > 0
    BY <1>1, <1>3, MessagesKept DEF Made
  <2>2. p \in AllOutputs
    <3>1. IsReport(r)
      BY ReportFacts DEF Agenda, Settled
    <3> QED BY <3>1, OutputsOfReport
  <2>3. ASSUME Made(r), Same(p)
        PROVE  /\ IsFiniteSet(Due(p)) /\ writers'[p].count = Cardinality(Due(p))
               /\ tool = "clx" /\ out'[p].good => writers'[p].count # 0
    BY <2>3 DEF Same, Counted
  <2>4. ASSUME todo' = todo, report' = report PROVE Made(r)
    BY <1>3, <2>1, <2>4 DEF Made
  <2>5. CASE UNCHANGED vars \/ Open \/ OpenThrows \/ MergeStep \/ MergeDone \/ Terminate \/ Throw \/ Return
    <3>1. todo' = todo /\ report' = report /\ writers' = writers /\ out' = out
      BY <2>5 DEF vars, Open, OpenThrows, MergeStep, MergeDone, Terminate, Throw, Return
    <3> QED BY <2>3, <2>4, <3>1 DEF Same
  <2>6. CASE SkipReport
    <3>1. /\ todo # <<>> /\ todo' = Tail(todo) /\ report' = report /\ writers' = writers /\ out' = out
          /\ Messages(Head(todo).bus) = 0
      BY <2>6 DEF SkipReport
    <3>2. \A i \in DOMAIN todo : i = 1 \/ (i - 1 \in DOMAIN Tail(todo) /\ Tail(todo)[i - 1] = todo[i])
      BY <3>1, HeadOfTodo
    <3>3. r # Head(todo)
      BY <2>1, <3>1
    <3>4. \A i \in DOMAIN todo : todo[i] # r
      <4>1. \A i \in DOMAIN Tail(todo) : Tail(todo)[i] # r
        BY <1>3, <3>1 DEF Made
      <4>2. todo[1] = Head(todo)
        BY <3>1, HeadOfTodo
      <4> QED BY <3>2, <3>3, <4>1, <4>2
    <3>5. Made(r)
      BY <1>3, <2>1, <3>1, <3>4 DEF Made
    <3> QED BY <2>3, <3>1, <3>5 DEF Same
  <2>7. CASE StartSome
    <3>1. /\ todo # <<>> /\ todo' = Tail(todo) /\ report' = <<Head(todo)>> /\ report = <<>>
      BY <2>7, StartQueue DEF StartSome, StartReport
    <3>2. \A i \in DOMAIN todo : i = 1 \/ (i - 1 \in DOMAIN Tail(todo) /\ Tail(todo)[i - 1] = todo[i])
      BY <3>1, HeadOfTodo
    <3>3. r # Head(todo) /\ Head(todo) \in Range(ReportsOf[tool])
      BY <1>3, <3>1, HeadOfTodo DEF Made
    <3>4. \A i \in DOMAIN todo : todo[i] # r
      <4>1. \A i \in DOMAIN Tail(todo) : Tail(todo)[i] # r
        BY <1>3, <3>1 DEF Made
      <4>2. todo[1] = Head(todo)
        BY <3>1, HeadOfTodo
      <4> QED BY <3>2, <3>3, <4>1, <4>2
    <3>5. Made(r)
      BY <2>1, <3>1, <3>4 DEF Made
    <3>6. p \notin Outputs(Head(todo))
      BY <3>3, OthersOutputs
    <3>7. Same(p)
      BY <2>2, <2>7, <3>6, StartEffect DEF Begun, FilesOK
    <3> QED BY <2>3, <3>5, <3>7
  <2>8. CASE \E fits \in BOOLEAN : WriteRecord(fits)
    <3>1. todo' = todo /\ report' = report /\ phase = "writing"
      BY <2>8 DEF WriteRecord
    <3>2. Made(r)
      BY <2>4, <3>1
    <3>3. report # <<>>
      BY <3>1 DEF Agenda
    <3>4. report = <<report[1]>> /\ report[1] \in Range(ReportsOf[tool])
      BY <3>3, CurrentReport
    <3>5. r # report[1]
      BY <3>2, <3>4 DEF Made
    <3>6. p \notin Outputs(report[1])
      BY <3>4, <3>5, OthersOutputs
    <3>7. Same(p)
      BY <2>2, <2>8, <3>6, WriteEffect DEF Grown, OutputOf, FilesOK
    <3> QED BY <2>3, <3>2, <3>7
  <2>9. CASE FinishSome
    <3>1. /\ todo' = todo /\ report' = <<>> /\ report # <<>> /\ phase = "writing" /\ next > Len(queue)
      BY <2>9 DEF FinishSome, FinishReport
    <3>2. report = <<report[1]>> /\ report[1] \in Range(ReportsOf[tool])
      BY <3>1, CurrentReport
    <3>3. CASE r # report[1]
      <4>1. Made(r)
        BY <1>3, <2>1, <3>1, <3>2, <3>3 DEF Made
      <4>2. p \notin Outputs(report[1])
        BY <3>2, <3>3, OthersOutputs
      <4>3. Same(p)
        BY <2>2, <2>9, <4>2, FinishEffect DEF FilesOK
      <4> QED BY <2>3, <4>1, <4>3
    <3>4. CASE r = report[1]
      <4>1. p \in Outputs(report[1])
        BY <3>4
      <4>2. Passed(p) = Due(p)
        BY <3>1, <4>1, AllPassed
      <4>3. IsFiniteSet(Due(p)) /\ writers[p].count = Cardinality(Due(p))
        BY <3>1, <4>1, <4>2 DEF Counted
      <4>4. Ended(p)
        BY <2>2, <2>9, <4>1, FinishEffect DEF FilesOK
      <4>5. writers'[p] = writers[p]
        BY <4>4 DEF Ended
      <4>6. tool = "clx" /\ out'[p].good => writers[p].count # 0
        <5> DEFINE o == out[p]
        <5>1. CASE out'[p] = NoFile
          BY <5>1, NoFileFacts
        <5>2. ASSUME NEW good \in BOOLEAN, NEW footer, NEW date,
                     good => o.good /\ (tool = "clx" => writers[p].count # 0),
                     out'[p] = File(o.exists, good, date, o.columns, o.rows, footer, o.blocks)
              PROVE  tool = "clx" /\ out'[p].good => writers[p].count # 0
          <6>1. out'[p].good = good
            BY <5>2 DEF File
          <6> QED BY <5>2, <6>1
        <5> QED BY <4>4, <5>1, <5>2, Zenon DEF Ended
      <4> QED BY <4>3, <4>5, <4>6
    <3> QED BY <3>3, <3>4
  <2> QED BY <2>5, <2>6, <2>7, <2>8, <2>9 DEF Next
<1> QED BY <1>1, <1>2, <1>3 DEF MadeCounted

LEMMA CountedInv == ASSUME Chronological PROVE Spec => []Counted
<1>1. Init => Counted
  <2> SUFFICES ASSUME Init PROVE Counted
    OBVIOUS
  <2>1. /\ todo = ReportsOf[tool] /\ report = <<>> /\ out = [o \in AllOutputs |-> NoFile]
    BY DEF Init
  <2>2. \A r \in Range(ReportsOf[tool]) : ~Made(r)
    BY <2>1 DEF Made, Range
  <2>3. \A p \in AllOutputs : DOMAIN out[p].rows = {}
    <3> SUFFICES ASSUME NEW p \in AllOutputs PROVE DOMAIN out[p].rows = {}
      OBVIOUS
    <3>1. out[p].rows = <<>>
      BY <2>1, NoFileFacts
    <3> QED BY <3>1
  <2> QED BY <2>1, <2>2, <2>3 DEF Counted
<1>2. ASSUME Agenda, QueueOK, QueueOK', FilesOK, QueueOrder, Untouched, HeadersOK, Counted, [Next]_vars
      PROVE  Counted'
  <2>1. CurrentCounted' /\ MadeCounted'
    BY <1>2, CurrentStep, MadeStep
  <2>2. \A p \in AllOutputs : \A i \in DOMAIN out'[p].rows : Ranked(out'[p].rows[i], p)
    BY <1>2, RankedStep
  <2>3. \A row, p : Ranked(row, p)' = Ranked(row, p)
    BY <1>2, StepKeepsSettings, RankedKept
  <2> QED BY <2>1, <2>2, <2>3 DEF Counted, CurrentCounted, MadeCounted
<1> QED
  BY <1>1, <1>2, AgendaInv, QueueInv, FilesInv, QueueOrderInv, UntouchedInv, HeadersInv, PTL DEF Spec

\* Whatever writes fail, a file holds a beginning of the records that belong into
\* it, each once and in the order of their times, and once convert() has returned
\* true a file whose stream is good holds them all; mdf2clx leaves no file without
\* records.  (CSV_Exporter.cpp 68-75, CLX000_Exporter.cpp 96-139)
THEOREM FilesHoldTheLog == ASSUME Chronological PROVE Spec => []FilesAreTheLog
<1>1. Agenda /\ FilesOK /\ HeadersOK /\ Counted => FilesAreTheLog
  <2> SUFFICES ASSUME Agenda, FilesOK, HeadersOK, Counted PROVE FilesAreTheLog
    OBVIOUS
  <2>1. ASSUME NEW o \in AllOutputs, NEW i \in DOMAIN out[o].rows
        PROVE  /\ out[o].rows[i].rec \in Due(o)
               /\ Cardinality({other \in Due(o) : Before(other, out[o].rows[i].rec)}) = i - 1
    <3>1. Ranked(out[o].rows[i], o)
      BY DEF Counted
    <3>2. out[o].rows[i].number = i - 1
      BY DEF HeadersOK, FileMatches
    <3> QED BY <3>1, <3>2 DEF Ranked, Rank
  <2>2. ASSUME status = "true", NEW o \in Started
        PROVE  /\ writers[o].count = Cardinality(Due(o))
               /\ out[o].good => Len(out[o].rows) = writers[o].count
               /\ tool = "clx" /\ out[o].good => Due(o) # {}
    <3>1. PICK r \in Range(ReportsOf[tool]) : o \in Outputs(r) /\ Messages(r.bus) > 0
      BY DEF Started
    <3>2. todo = <<>> /\ report = <<>>
      BY <2>2 DEF Agenda
    <3>3. Made(r)
      BY <3>1, <3>2 DEF Made
    <3>4. /\ writers[o].count = Cardinality(Due(o))
          /\ tool = "clx" /\ out[o].good => writers[o].count # 0
      BY <3>1, <3>3 DEF Counted
    <3>5. out[o].good => Len(out[o].rows) = writers[o].count
      BY DEF HeadersOK, FileMatches, Started
    <3> QED BY <3>4, <3>5, FS_EmptySet
  <2> QED BY <2>1, <2>2 DEF FilesAreTheLog
<1> QED
  BY <1>1, AgendaInv, FilesInv, HeadersInv, CountedInv, PTL

-----------------------------------------------------------------------------
(* What the times of a file mean.                                            *)

LEMMA BeforeTransitive ==
    ASSUME NEW a \in RecordType, NEW b \in RecordType, NEW c \in RecordType,
           Before(a, b), b.time < c.time
    PROVE  Before(a, c)
<1>1. a.time <= b.time
  BY BeforeFacts
<1>2. a.time < c.time
  BY <1>1 DEF RecordType
<1> QED BY <1>2, BeforeFacts

\* The records of the rows of a file are in the order of their times.
LEMMA RowsInOrder ==
    ASSUME Agenda, FilesOK, RowsOK, HeadersOK, Counted, NEW p \in AllOutputs,
           NEW i \in DOMAIN out[p].rows, NEW j \in DOMAIN out[p].rows, i < j
    PROVE  out[p].rows[i].rec.time <= out[p].rows[j].rec.time
<1> DEFINE a == out[p].rows[i].rec
           b == out[p].rows[j].rec
<1>1. /\ IsFiniteSet(Rank(p, a)) /\ Cardinality(Rank(p, a)) = i - 1 /\ a \in Due(p)
      /\ IsFiniteSet(Rank(p, b)) /\ Cardinality(Rank(p, b)) = j - 1 /\ b \in Due(p)
  BY DEF Counted, Ranked, HeadersOK, FileMatches
<1>2. a \in RecordType /\ b \in RecordType /\ i \in Nat /\ j \in Nat
  <2>1. out[p].rows \in Seq(RowType)
    BY FileFields DEF FilesOK, FilesTyped
  <2>2. /\ out[p].rows[i] \in RowType /\ out[p].rows[j] \in RowType
        /\ i \in Nat /\ j \in Nat
    BY <2>1
  <2>3. \A row \in RowType : row.rec \in RecordType
    BY DEF RowType
  <2> QED BY <2>2, <2>3
<1>3. \A x \in Due(p) : x \in RecordType
  <2> SUFFICES ASSUME NEW x \in Due(p) PROVE x \in RecordType
    OBVIOUS
  <2>1. PICK r \in Range(ReportsOf[tool]) : p \in OutputOf(r, a)
    BY DEF RowsOK, RowKnown
  <2>2. InReport(x, r)
    BY <2>1, DueIs DEF OutputOf
  <2> QED BY <2>2, InputFacts DEF InReport
<1> HIDE DEF a, b
<1>4. CASE b.time < a.time
  <2>1. Rank(p, b) \subseteq Rank(p, a)
    BY <1>2, <1>3, <1>4, BeforeTransitive DEF Rank
  <2>2. Cardinality(Rank(p, b)) <= Cardinality(Rank(p, a))
    BY <1>1, <2>1, FS_Subset
  <2> QED BY <1>1, <1>2, <2>2
<1>5. ~(b.time < a.time) => a.time <= b.time
  BY <1>2 DEF RecordType
<1> QED BY <1>4, <1>5 DEF a, b

LEMMA TimesOrder ==
    ASSUME NEW a \in Int, NEW b \in Int, NEW m \in Nat \ {0}
    PROVE  /\ a <= b => a * m <= b * m
           /\ a * m < b * m => a < b
           /\ a * m \in Int /\ (a + 1) * m = a * m + m /\ a * m = m * a
<1>1. a <= b => a * m <= b * m
  OBVIOUS
<1>2. b <= a => b * m <= a * m
  OBVIOUS
<1>3. a * m \in Int /\ b * m \in Int
  OBVIOUS
<1>4. a * m < b * m => a < b
  BY <1>2, <1>3
<1> QED BY <1>1, <1>4

LEMMA DivisionOrder ==
    ASSUME NEW x \in Int, NEW y \in Int, NEW m \in Nat \ {0}, x <= y
    PROVE  x \div m <= y \div m /\ (x \div m = y \div m => x % m <= y % m)
<1> DEFINE q == x \div m
           r == x % m
           s == y \div m
           t == y % m
<1>1. /\ q \in Int /\ r \in Int /\ x = m * q + r /\ 0 <= r /\ r < m
      /\ s \in Int /\ t \in Int /\ y = m * s + t /\ 0 <= t /\ t < m
  BY DivisionFacts
<1> HIDE DEF q, r, s, t
<1>2. /\ q * m \in Int /\ s * m \in Int /\ m * q = q * m /\ m * s = s * m
      /\ (s + 1) * m = s * m + m
  BY <1>1, TimesOrder
<1>3. q <= s
  <2>1. CASE s + 1 <= q
    <3>1. (s + 1) * m <= q * m
      BY <1>1, <2>1, TimesOrder
    <3> QED BY <1>1, <1>2, <3>1
  <2> QED BY <1>1, <2>1
<1>4. q = s => r <= t
  BY <1>1, <1>2
<1> QED BY <1>3, <1>4 DEF q, r, s, t

\* What mdf2clx shows of the part of a second keeps the order, and is no more
\* than a second.
LEMMA Rounding ==
    ASSUME NEW x \in Int, NEW y \in Int, 0 <= x, x <= y, y < Second
    PROVE  /\ Rounded(x) \in Int /\ Rounded(y) \in Int
           /\ Rounded(x) * Milli <= Rounded(y) * Milli
           /\ 0 <= Rounded(x) * Milli /\ Rounded(y) * Milli <= Second
<1>1. Milli \in Nat \ {0} /\ Second \in Nat \ {0} /\ Second % Milli = 0
  BY SecondAssumption
<1> DEFINE q == x \div Milli
           r == x % Milli
           s == y \div Milli
           t == y % Milli
           k == Second \div Milli
<1>2. /\ q \in Int /\ r \in Int /\ 0 <= r /\ r < Milli /\ x = Milli * q + r
      /\ s \in Int /\ t \in Int /\ 0 <= t /\ t < Milli /\ y = Milli * s + t
      /\ k \in Int /\ Second = Milli * k + 0
  BY <1>1, DivisionFacts
<1>3. q <= s /\ (q = s => r <= t)
  BY <1>1, DivisionOrder
<1>4. /\ Rounded(x) = IF 2 * r > Milli \/ (2 * r = Milli /\ q % 2 = 1) THEN q + 1 ELSE q
      /\ Rounded(y) = IF 2 * t > Milli \/ (2 * t = Milli /\ s % 2 = 1) THEN s + 1 ELSE s
  BY DEF Rounded
<1>5. 0 <= q /\ s < k
  <2>1. /\ (q + 1) * Milli = q * Milli + Milli /\ q * Milli = Milli * q /\ q * Milli \in Int
        /\ s * Milli = Milli * s /\ s * Milli \in Int /\ k * Milli = Milli * k /\ 0 * Milli = 0
    <3> HIDE DEF q, r, s, t, k
    <3> QED BY <1>1, <1>2, TimesOrder
  <2> HIDE DEF q, r, s, t, k
  <2>2. s < k
    BY <1>1, <1>2, <2>1, TimesOrder
  <2>3. 0 * Milli < (q + 1) * Milli
    BY <1>1, <1>2, <2>1
  <2>4. 0 < q + 1
    BY <1>1, <1>2, <2>3, TimesOrder
  <2> QED BY <1>2, <2>2, <2>4
<1> DEFINE a == Rounded(x)
           b == Rounded(y)
<1> HIDE DEF q, r, s, t, k, a, b
<1>6. /\ a \in {q, q + 1} /\ b \in {s, s + 1}
      /\ q = s /\ a = q + 1 => b = s + 1
  <2>1. a \in {q, q + 1} /\ b \in {s, s + 1}
    BY <1>4 DEF a, b
  <2>2. q = s /\ a = q + 1 => b = s + 1
    <3> SUFFICES ASSUME q = s, a = q + 1 PROVE b = s + 1
      OBVIOUS
    <3>1. 2 * r > Milli \/ (2 * r = Milli /\ q % 2 = 1)
      BY <1>2, <1>4 DEF a
    <3>2. 2 * t > Milli \/ (2 * t = Milli /\ s % 2 = 1)
      BY <1>1, <1>2, <1>3, <3>1
    <3> QED BY <1>4, <3>2 DEF b
  <2> QED BY <2>1, <2>2
<1>7. a \in Int /\ b \in Int /\ 0 <= a /\ a <= b /\ b <= k
  BY <1>2, <1>3, <1>5, <1>6
<1>8. /\ a * Milli <= b * Milli /\ 0 * Milli <= a * Milli /\ b * Milli <= k * Milli
      /\ k * Milli = Milli * k /\ 0 * Milli = 0
  BY <1>1, <1>2, <1>7, TimesOrder
<1> QED BY <1>1, <1>2, <1>7, <1>8 DEF a, b

LEMMA ClxTimeOrder ==
    ASSUME Agenda, NEW x \in Int, NEW y \in Int, x <= y
    PROVE  ClxTime(x) <= ClxTime(y)
<1>1. Milli \in Nat \ {0} /\ Second \in Nat \ {0}
  BY SecondAssumption
<1> DEFINE d == CASE format = "l" -> input.zone * 60 * Second
                  [] format = "u" -> 0
                  [] OTHER -> MinuteDifference * 60 * Second
           u == x + d
           v == y + d
<1>2. ConvertTicks(x) = u /\ ConvertTicks(y) = v
  BY DEF ConvertTicks
<1>3. d \in Int
  <2>1. ConvertTicks(0) = 0 + d /\ format \in {"l", "u", "p"}
    BY DEF ConvertTicks, Agenda, Settled
  <2>2. CASE format = "l"
    <3>1. d = input.zone * 60 * Second
      BY <2>2
    <3> HIDE DEF d
    <3> QED BY <1>1, <3>1, ShiftFacts
  <2>3. CASE format = "u"
    <3>1. d = 0
      BY <2>3
    <3> HIDE DEF d
    <3> QED BY <3>1
  <2>4. CASE format = "p"
    <3>1. d = MinuteDifference * 60 * Second
      BY <2>4
    <3> HIDE DEF d
    <3> QED BY <1>1, <3>1, ShiftFacts
  <2> QED BY <2>1, <2>2, <2>3, <2>4
<1> HIDE DEF d
<1>4. u \in Int /\ v \in Int /\ u <= v
  BY <1>3
<1> DEFINE q == u \div Second
           r == u % Second
           s == v \div Second
           t == v % Second
           a == Rounded(r) * Milli
           b == Rounded(t) * Milli
<1>5. ClxTime(x) = q * Second + a /\ ClxTime(y) = s * Second + b
  BY <1>2 DEF ClxTime
<1> HIDE DEF u, v
<1>6. /\ q \in Int /\ r \in Int /\ 0 <= r /\ r < Second
      /\ s \in Int /\ t \in Int /\ 0 <= t /\ t < Second
  BY <1>1, <1>4, DivisionFacts
<1>7. q <= s /\ (q = s => r <= t)
  BY <1>1, <1>4, DivisionOrder
<1> HIDE DEF q, r, s, t
<1>8. /\ a \in Int /\ b \in Int /\ a <= Second /\ 0 <= b /\ (r <= t => a <= b)
  <2>1. /\ Rounded(r) \in Int /\ Rounded(t) \in Int /\ a <= Second /\ 0 <= b
        /\ r <= t => a <= b
    <3>1. /\ Rounded(r) \in Int /\ a <= Second
      BY <1>6, Rounding
    <3>2. /\ Rounded(t) \in Int /\ 0 <= b
      BY <1>6, Rounding
    <3>3. r <= t => a <= b
      BY <1>6, Rounding
    <3> QED BY <3>1, <3>2, <3>3
  <2> QED BY <1>1, <2>1
<1> HIDE DEF a, b
<1>9. /\ q * Second \in Int /\ s * Second \in Int /\ (q + 1) * Second = q * Second + Second
      /\ q + 1 <= s => (q + 1) * Second <= s * Second
  BY <1>1, <1>6, TimesOrder
<1>10. CASE q = s
  BY <1>5, <1>7, <1>8, <1>9, <1>10
<1>11. CASE q + 1 <= s
  BY <1>1, <1>5, <1>8, <1>9, <1>11
<1> QED BY <1>6, <1>7, <1>10, <1>11

\* The dates as the option means them.
LEMMA DatesMean ==
    ASSUME Agenda, NEW start \in Int,
           format # "p" \/ (input.here >= 0 /\ input.here % 60 = 0)
    PROVE  ConvertSeconds(start \div Second) * Second = Second * (start \div Second) + Shift
<1> DEFINE q == start \div Second
           d == CASE format = "l" -> input.zone * 60
                  [] format = "u" -> 0
                  [] OTHER -> HourDifference * 60 * 60
           e == CASE format = "l" -> input.zone
                  [] format = "u" -> 0
                  [] OTHER -> input.here
<1>1. Second \in Nat \ {0}
  BY SecondAssumption
<1>2. q \in Int
  BY <1>1, DivisionFacts
<1>3. ConvertSeconds(q) = q + d /\ Shift = Second * 60 * e
  BY DEF ConvertSeconds, Shift
<1>4. d = e * 60 /\ e \in Int
  <2>1. format \in {"l", "u", "p"}
    BY DEF Agenda, Settled
  <2>2. CASE format = "l"
    <3>1. d = input.zone * 60 /\ e = input.zone
      BY <2>2
    <3> HIDE DEF d, e
    <3> QED BY <3>1, ShiftFacts
  <2>3. CASE format = "u"
    <3>1. d = 0 /\ e = 0
      BY <2>3
    <3> HIDE DEF d, e
    <3> QED BY <3>1
  <2>4. CASE format = "p"
    <3>1. d = HourDifference * 60 * 60 /\ e = input.here
      BY <2>4
    <3> DEFINE h == input.here
    <3>2. h \in Int /\ 0 <= h /\ h < 1440 /\ h % 60 = 0
      BY <2>4, ShiftFacts
    <3>3. HourDifference = ((24 * 60 + h) \div 60) % 24
      BY DEF HourDifference
    <3> HIDE DEF d, e, h
    <3>4. HourDifference * 60 = h
      BY <3>2, <3>3
    <3>5. e = h
      BY <3>1 DEF h
    <3> QED BY <3>1, <3>2, <3>4, <3>5
  <2> QED BY <2>1, <2>2, <2>3, <2>4
<1> HIDE DEF q, d, e
<1>5. (q + e * 60) * Second = Second * q + Second * 60 * e
  BY <1>1, <1>2, <1>4
<1> QED BY <1>3, <1>4, <1>5 DEF q

\* The offset of the code is the number of days from 31 December 1899.
LEMMA PeakDateFacts ==
    ASSUME NEW t \in Int, tool \in {"peak11", "peak21"}
    PROVE  TimeOf(HeaderDate(t), IF tool \in {"asc", "clx"} THEN 0 ELSE DaysTo1970) = PeakTicks(t)
<1>1. HeaderDate(t) = DateFrom(daysBetweenCenturyAndEpoch, PeakTicks(t))
  BY DEF HeaderDate, PeakDate, PeakTicks
<1>2. daysBetweenCenturyAndEpoch = DaysTo1970 /\ DaysTo1970 \in Int
  BY DEF daysBetweenCenturyAndEpoch, DaysTo1970
<1>3. (IF tool \in {"asc", "clx"} THEN 0 ELSE DaysTo1970) = DaysTo1970
  OBVIOUS
<1>4. PeakTicks(t) \in Int
  BY PeakTicksFacts
<1>5. TimeOf(DateFrom(DaysTo1970, PeakTicks(t)), DaysTo1970) = PeakTicks(t)
  BY <1>2, <1>4, DateFacts
<1> QED BY <1>1, <1>2, <1>3, <1>5

LEMMA ZonedDateFacts ==
    ASSUME Agenda, NEW t \in Int, tool \in {"asc", "clx"}
    PROVE  TimeOf(HeaderDate(t), 0) = ConvertSeconds(t \div Second) * Second
<1> DEFINE whole == ConvertSeconds(t \div Second)
<1>1. HeaderDate(t) = DateFrom(0, whole * Second)
  BY DEF HeaderDate, AscDate, ClxDate
<1>2. Second \in Nat \ {0}
  BY SecondAssumption
<1>3. whole \in Int
  BY <1>2, DivisionFacts, ConvertFacts
<1> HIDE DEF whole
<1>4. whole * Second \in Int
  BY <1>2, <1>3
<1>5. TimeOf(DateFrom(0, whole * Second), 0) = whole * Second
  BY <1>4, DateFacts
<1> QED BY <1>1, <1>5 DEF whole

\* Only format 1.1 prints more characters than it has reserved.
LEMMA DateEnds ==
    ASSUME tool \in {"asc", "clx", "peak21"}, NEW t
    PROVE  HeaderDate(t).ended
<1>1. HeaderDate(t).ended = (Printed[tool] <= Placeholder[tool])
  BY DEF HeaderDate, AscDate, ClxDate, PeakDate, DateFrom
<1>2. Printed[tool] <= Placeholder[tool]
  BY DEF Printed, Placeholder
<1> QED BY <1>1, <1>2

\* The date in a header is that of the first record of the file to the digits it
\* is written with, in the zone asked for, or for mdf2peak in days counted from 31
\* December 1899, and keeps to its line except in trace format 1.1; the rows are
\* numbered from nought without a gap, timed from the first one, and what mdf2clx
\* shows of their times never goes back.  (PEAK_CAN_Exporter_1_1.cpp 15-37,
\* PEAK_CAN_Exporter_2_1.cpp 15-33, ASC_CAN_Exporter.cpp 36-39,
\* CLX000_BaseExporter.cpp 297-303)
THEOREM HeadersTellTheRows == ASSUME Chronological PROVE Spec => []HeadersMatchRows
<1>1. Agenda /\ FilesOK /\ RowsOK /\ HeadersOK /\ Counted => HeadersMatchRows
  <2> SUFFICES ASSUME Agenda, FilesOK, RowsOK, HeadersOK, Counted, NEW o \in AllOutputs, NEW f,
                      f = out[o], NEW w, w = writers[o]
               PROVE  LET start == f.rows[1].rec.time
                          said == format # "p" \/ (input.here >= 0 /\ input.here % 60 = 0)
                          shown == TimeOf(f.date, IF tool \in {"asc", "clx"} THEN 0
                                                  ELSE DaysTo1970)
                      IN  /\ f.date # NoDate /\ f.rows # <<>> =>
                                 /\ tool = "peak11" => shown <= start /\ start < shown + Digit
                                 /\ tool = "peak21" => 2 * start - Digit < 2 * shown
                                                      /\ 2 * shown <= 2 * start + Digit
                                 /\ tool \in {"asc", "clx"} /\ said =>
                                        shown = Second * (start \div Second) + Shift
                                 /\ tool \in {"asc", "clx", "peak21"} => f.date.ended
                          /\ \A i \in DOMAIN f.rows :
                                 /\ f.rows[i].number = i - 1
                                 /\ tool \in {"asc", "peak11", "peak21"} =>
                                        f.rows[i].time = f.rows[i].rec.time - start
                                 /\ tool = "clx" /\ i > 1 => f.rows[i - 1].time <= f.rows[i].time
    BY DEF HeadersMatchRows
  <2> DEFINE start == f.rows[1].rec.time
             shown == TimeOf(f.date, IF tool \in {"asc", "clx"} THEN 0 ELSE DaysTo1970)
             said == format # "p" \/ (input.here >= 0 /\ input.here % 60 = 0)
  <2>1. /\ f.rows # <<>> => start = w.first
        /\ f.date # NoDate => f.date = HeaderDate(w.first)
        /\ \A i \in DOMAIN f.rows :
              f.rows[i].number = i - 1 /\ f.rows[i].time = RowTime(f.rows[i].rec.time, w.first)
    <3> HIDE DEF shown, said
    <3>1. FileMatches(w, f)
      BY Zenon DEF HeadersOK
    <3> QED BY <3>1 DEF FileMatches
  <2>2. f.rows \in Seq(RowType)
    BY FileFields DEF FilesOK, FilesTyped
  <2>3. \A i \in DOMAIN f.rows : i \in Nat /\ f.rows[i].rec.time \in Int /\ f.rows # <<>>
    <3> SUFFICES ASSUME NEW i \in DOMAIN f.rows
                 PROVE  i \in Nat /\ f.rows[i].rec.time \in Int /\ f.rows # <<>>
      OBVIOUS
    <3>1. f.rows[i] \in RowType /\ i \in Nat /\ f.rows # <<>>
      BY <2>2
    <3> QED BY <3>1 DEF RowType, RecordType
  <2>4. ASSUME f.date # NoDate, f.rows # <<>>
        PROVE  /\ tool = "peak11" => shown <= start /\ start < shown + Digit
               /\ tool = "peak21" => 2 * start - Digit < 2 * shown
                                    /\ 2 * shown <= 2 * start + Digit
               /\ tool \in {"asc", "clx"} /\ said => shown = Second * (start \div Second) + Shift
               /\ tool \in {"asc", "clx", "peak21"} => f.date.ended
    <3>1. f.date = HeaderDate(start)
      BY <2>1, <2>4
    <3>2. 1 \in DOMAIN f.rows
      BY <2>2, <2>4
    <3>3. start \in Int
      BY <2>3, <3>2
    <3>4. shown = TimeOf(HeaderDate(start), IF tool \in {"asc", "clx"} THEN 0 ELSE DaysTo1970)
      BY <3>1
    <3> HIDE DEF start, shown
    <3>5. ASSUME tool \in {"peak11", "peak21"} PROVE shown = PeakTicks(start)
      BY <3>3, <3>4, <3>5, PeakDateFacts
    <3>6. ASSUME tool \in {"asc", "clx"}, said
          PROVE  shown = Second * (start \div Second) + Shift
      <4>1. shown = TimeOf(HeaderDate(start), 0)
        BY <3>4, <3>6
      <4>2. TimeOf(HeaderDate(start), 0) = ConvertSeconds(start \div Second) * Second
        BY <3>3, <3>6, ZonedDateFacts
      <4> QED BY <3>3, <3>6, <4>1, <4>2, DatesMean
    <3>7. tool \in {"asc", "clx", "peak21"} => f.date.ended
      BY <3>1, DateEnds
    <3> QED BY <3>3, <3>5, <3>6, <3>7, PeakTicksFacts
  <2>5. ASSUME NEW i \in DOMAIN f.rows, tool \in {"asc", "peak11", "peak21"}
        PROVE  f.rows[i].time = f.rows[i].rec.time - start
    <3>1. f.rows[i].time = RowTime(f.rows[i].rec.time, start)
      BY <2>1, <2>3
    <3> HIDE DEF start
    <3> QED BY <2>5, <3>1 DEF RowTime, AscTime, convertTimestampToRelative
  <2>6. ASSUME NEW i \in DOMAIN f.rows, tool = "clx", i > 1
        PROVE  f.rows[i - 1].time <= f.rows[i].time
    <3> DEFINE a == f.rows[i - 1].rec.time
               b == f.rows[i].rec.time
    <3>1. i - 1 \in DOMAIN f.rows /\ i - 1 < i
      BY <2>2, <2>6
    <3>2. a <= b /\ a \in Int /\ b \in Int
      BY <2>3, <3>1, RowsInOrder
    <3>3. f.rows[i - 1].time = RowTime(a, w.first) /\ f.rows[i].time = RowTime(b, w.first)
      BY <2>1, <3>1
    <3> HIDE DEF a, b
    <3>4. RowTime(a, w.first) = ClxTime(a) /\ RowTime(b, w.first) = ClxTime(b)
      BY <2>6 DEF RowTime
    <3> QED BY <3>2, <3>3, <3>4, ClxTimeOrder
  <2> QED BY <2>1, <2>4, <2>5, <2>6
<1> QED
  BY <1>1, AgendaInv, FilesInv, RowsInv, HeadersInv, CountedInv, PTL
=============================================================================
