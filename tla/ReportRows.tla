------------------------------ MODULE ReportRows ------------------------------
(***************************************************************************)
(* What the writers of the exporters print: the columns a header announces *)
(* and the cells of the row of a record, each named for the column or the  *)
(* field of the record it shows.  A report without named columns announces *)
(* none.  Times and numbers are the exporter's (Exporter).                 *)
(***************************************************************************)
EXTENDS Naturals, Sequences, SequencesExt

\* mdf2csv, bus CAN: a remote frame prints zeroes for EDL and BRS, and a last
\* cell with nothing in it.
CsvCanHeader ==
    <<"TimestampEpoch", "BusChannel", "ID", "IDE", "DLC", "DataLength", "Dir",
      "EDL", "BRS", "DataBytes">>
CsvDataFrame ==
    <<"TimestampEpoch", "BusChannel", "ID", "IDE", "DLC", "DataLength", "Dir",
      "EDL", "BRS", "DataBytes">>
\* Mutant of CsvRemoteFrame: the cells of EDL and BRS are left out.
CsvRemoteFrameShort ==
    <<"TimestampEpoch", "BusChannel", "ID", "IDE", "DLC", "DataLength", "Dir",
      "DataBytes">>
CsvRemoteFrame ==
    <<"TimestampEpoch", "BusChannel", "ID", "IDE", "DLC", "DataLength", "Dir",
      "EDL", "BRS", "">>

\* mdf2csv, bus LIN.
CsvLinHeader ==
    <<"TimestampEpoch", "BusChannel", "ID", "DataLength", "Dir", "DataBytes">>
CsvLinFrame ==
    <<"TimestampEpoch", "BusChannel", "ID", "DataLength", "Dir", "DataBytes">>

\* mdf2clx: the configured fields, in this order.  Each cell but the data ends
\* with a delimiter, so that without the data there is one cell more.
ClxColumns == {"Timestamp", "Type", "ID", "Length", "Data"}
Cell(column, fields) == IF column \in fields THEN <<column>> ELSE <<>>
Delimited(cells, fields) == IF "Data" \in fields THEN cells ELSE Append(cells, "")

ClxHeader(fields) ==
    Cell("Timestamp", fields) \o Cell("Type", fields) \o Cell("ID", fields)
        \o Cell("Length", fields) \o Cell("Data", fields)
ClxCanRow(fields) == Delimited(ClxHeader(fields), fields)
\* A LIN frame has no type, whatever the header announces.
ClxLinRow(fields) ==
    Delimited(Cell("Timestamp", fields) \o Cell("ID", fields)
                  \o Cell("Length", fields) \o Cell("Data", fields), fields)

\* mdf2peak: number, offset, type, bus, identifier, direction, length, data;
\* version 1.1 has a line of its own and names no columns.
Peak21Header == <<"N", "O", "T", "B", "I", "d", "L", "D">>
Peak21DataFrame == <<"N", "O", "T", "B", "I", "d", "L", "D">>
Peak21RemoteFrame == <<"N", "O", "T", "B", "I", "d", "L">>
Peak11Header == <<>>
Peak11DataFrame == <<"N", "O", "d", "I", "L", "D">>
Peak11RemoteFrame == <<"N", "O", "d", "I", "L", "RTR">>

\* mdf2asc.
AscCanHeader == <<>>
AscDataFrame ==
    <<"time", "CANFD", "BusChannel", "Dir", "ID", "BRS", "ESI", "DLC",
      "DataLength", "DataBytes", "flags">>
AscRemoteFrame ==
    <<"time", "CANFD", "BusChannel", "Dir", "ID", "0", "0", "DLC", "DataLength",
      "flags">>
AscLinHeader == <<>>
AscLinFrame == <<"time", "BusChannel", "ID", "Dir", "DataLength", "DataBytes">>

\* mdf2socketcan: one line per frame and no header; an FD frame has its flags
\* before the data.
SocketCanDataFrame(fd) ==
    <<"time", "interface", "ID">> \o (IF fd THEN <<"flags">> ELSE <<>>)
        \o <<"DataBytes">>
SocketCanLinFrame == <<"time", "interface", "ID", "DataBytes">>

\* mdf2pcap: the interface of a frame is the first for channel 1 and the
\* second for any other.
PcapPacket(channel) ==
    <<"time", IF channel = 1 THEN "CAN 1" ELSE "CAN 2", "ID", "DataLength",
      "flags", "DataBytes">>

\* What a header or a row can be made of.
Words ==
    ClxColumns \cup
    {"TimestampEpoch", "BusChannel", "IDE", "DLC", "DataLength", "Dir", "EDL", "BRS",
     "DataBytes", "N", "O", "T", "B", "I", "d", "L", "D", "RTR", "time", "CANFD", "ESI",
     "flags", "0", "interface", "CAN 1", "CAN 2", ""}

-----------------------------------------------------------------------------
\* The header of a file of a tool on a bus.
HeaderColumns(tool, bus, fields) ==
    CASE tool = "csv" -> IF bus = "CAN" THEN CsvCanHeader ELSE CsvLinHeader
      [] tool = "clx" -> ClxHeader(fields)
      [] tool = "peak21" -> Peak21Header
      [] tool = "peak11" -> Peak11Header
      [] tool = "asc" -> IF bus = "CAN" THEN AscCanHeader ELSE AscLinHeader
      [] OTHER -> <<>>

\* writeRecord(): the row of a record, by its kind.
Cells(tool, rec, fields) ==
    CASE rec.kind = "lin" ->
             (CASE tool = "csv" -> CsvLinFrame
                [] tool = "clx" -> ClxLinRow(fields)
                [] tool = "asc" -> AscLinFrame
                [] OTHER -> SocketCanLinFrame)
      [] rec.kind = "remote" ->
             (CASE tool = "csv" -> CsvRemoteFrame
                [] tool = "peak21" -> Peak21RemoteFrame
                [] tool = "peak11" -> Peak11RemoteFrame
                [] OTHER -> AscRemoteFrame)
      [] OTHER ->
             (CASE tool = "csv" -> CsvDataFrame
                [] tool = "clx" -> ClxCanRow(fields)
                [] tool = "peak21" -> Peak21DataFrame
                [] tool = "peak11" -> Peak11DataFrame
                [] tool = "asc" -> AscDataFrame
                [] tool = "pcap" -> PcapPacket(rec.channel)
                [] OTHER -> SocketCanDataFrame(rec.fd))
=============================================================================
