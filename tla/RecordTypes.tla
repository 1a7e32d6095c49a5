----------------------------- MODULE RecordTypes -----------------------------
(***************************************************************************)
(* The eight kinds of records, their fields, and the Python objects made   *)
(* of them.  A wrapper copies some fields of the record it is made from    *)
(* and lists some, its own or those left at their defaults, as attributes. *)
(***************************************************************************)

Common == {"TimeStamp", "BusChannel"}
CanFrame == Common \cup {"ID", "IDE", "DLC", "DataLength", "Dir"}
LinFrame == Common \cup {"ID", "Dir", "ReceivedDataByteCount", "DataLength"}

\* The fields a channel of the file can be mapped to, by their names.
Fields ==
    [CAN_DataFrame |-> CanFrame \cup {"EDL", "BRS", "ESI", "DataBytes"},
     CAN_ErrorFrame |-> Common \cup {"ErrorType"},
     CAN_RemoteFrame |-> CanFrame,
     LIN_ChecksumError |-> LinFrame \cup {"Checksum", "DataBytes"},
     LIN_Frame |-> LinFrame \cup {"DataBytes"},
     LIN_ReceiveError |-> Common \cup {"ID"},
     LIN_SyncError |-> Common \cup {"Baudrate"},
     LIN_TransmissionError |-> Common \cup {"ID"}]

\* The names findBUSBlock() looks for.
Kinds == DOMAIN Fields

Wrapper(listed, copied) == [listed |-> listed, copied |-> copied]

CAN_DataFrameWrapper ==
    Wrapper(CanFrame \cup {"EDL", "BRS", "DataBytes"},
            CanFrame \cup {"EDL", "BRS", "DataBytes"})
CAN_ErrorFrameWrapper ==
    Wrapper(Common \cup {"ErrorType"}, Common \cup {"ErrorType"})
CAN_RemoteFrameWrapper ==
    Wrapper(CanFrame \cup {"DataBytes"}, CanFrame)
LIN_ChecksumErrorWrapper ==
    Wrapper(LinFrame \cup {"Checksum", "DataBytes"}, Common \cup {"ID"})
LIN_FrameWrapper ==
    Wrapper(LinFrame \cup {"DataBytes"}, LinFrame \cup {"DataBytes"})
LIN_ReceiveErrorWrapper ==
    Wrapper(Common \cup {"ID"}, Common \cup {"ID"})
LIN_SyncErrorWrapper ==
    Wrapper(Common \cup {"Baudrate"}, Common)
LIN_TransmissionErrorWrapper ==
    Wrapper(Common \cup {"ID"}, Common \cup {"ID"})

\* The iterators Python is given: the records they run over, and what they
\* make of each.
PythonIterator(kind, wrapper) == [kind |-> kind, makes |-> wrapper]

CAN_DataFrameIterator == PythonIterator("CAN_DataFrame", CAN_DataFrameWrapper)
CAN_ErrorFrameIterator == PythonIterator("CAN_ErrorFrame", CAN_ErrorFrameWrapper)
CAN_RemoteFrameIterator == PythonIterator("CAN_RemoteFrame", CAN_RemoteFrameWrapper)
LIN_ChecksumErrorIterator == PythonIterator("LIN_ChecksumError", LIN_ChecksumErrorWrapper)
LIN_FrameIterator == PythonIterator("LIN_Frame", LIN_FrameWrapper)
LIN_ReceiveErrorIterator == PythonIterator("LIN_ReceiveError", LIN_ReceiveErrorWrapper)
LIN_SyncErrorIterator == PythonIterator("LIN_SyncError", LIN_SyncErrorWrapper)
LIN_TransmissionErrorIterator ==
    PythonIterator("LIN_TransmissionError", LIN_TransmissionErrorWrapper)

\* The methods of mdf_iter.MdfFile that make them.
CanGetters ==
    [get_can_iterator |-> CAN_DataFrameIterator,
     get_can_error_iterator |-> CAN_ErrorFrameIterator,
     get_can_remote_iterator |-> CAN_RemoteFrameIterator]
LinGetters ==
    [get_lin_checksum_iterator |-> LIN_ChecksumErrorIterator,
     get_lin_iterator |-> LIN_FrameIterator,
     get_lin_receive_iterator |-> LIN_ReceiveErrorIterator,
     get_lin_sync_iterator |-> LIN_SyncErrorIterator,
     get_lin_transmission_iterator |-> LIN_TransmissionErrorIterator]
Methods == DOMAIN CanGetters \cup DOMAIN LinGetters
PythonGetters ==
    [m \in Methods |-> IF m \in DOMAIN CanGetters THEN CanGetters[m] ELSE LinGetters[m]]

\* The columns of the data frames, the index included: the type of the numpy
\* array, and the type of the pointer it is filled through.  The data bytes
\* are set as lists, through numpy.
Column(dtype, pointer) == [dtype |-> dtype, pointer |-> pointer]
Times == Column("datetime64[ns]", "uint64_t")
Bytes == Column("uint8", "uint8_t")
Words == Column("uint32", "uint32_t")
Flags == Column("bool", "bool")
Lists == Column("object", "none")

CanColumns ==
    [TimeStamp |-> Times, BusChannel |-> Bytes, ID |-> Words, IDE |-> Flags,
     DLC |-> Bytes, DataLength |-> Bytes, Dir |-> Flags, BRS |-> Flags,
     ESI |-> Flags, EDL |-> Flags, DataBytes |-> Lists]
LinColumns ==
    [TimeStamp |-> Times, BusChannel |-> Bytes, ID |-> Words,
     ReceivedDataByteCount |-> Bytes, DataLength |-> Bytes, Dir |-> Flags,
     DataBytes |-> Lists]
FrameColumns == [CAN_DataFrame |-> CanColumns, LIN_Frame |-> LinColumns]
FrameKinds == DOMAIN FrameColumns

\* What numpy says of its arrays: the letter of the type and the bytes of an
\* element; and what getDataPointer() insists on before it hands out a pointer.
NumpyType ==
    [dt \in {"datetime64[ns]", "uint8", "uint32", "bool", "object"} |->
        CASE dt = "datetime64[ns]" -> <<"M", 8>>
          [] dt = "uint8" -> <<"u", 1>>
          [] dt = "uint32" -> <<"u", 4>>
          [] dt = "bool" -> <<"b", 1>>
          [] OTHER -> <<"O", 8>>]
Letters(pointer) == IF pointer = "bool" THEN {"b"} ELSE {"u", "M"}
Width(pointer) ==
    CASE pointer = "uint64_t" -> 8 [] pointer = "uint32_t" -> 4 [] OTHER -> 1
PointerGiven(column) ==
    LET type == NumpyType[column.dtype]
    IN  column.pointer = "none"
        \/ (type[1] \in Letters(column.pointer) /\ type[2] = Width(column.pointer))
=============================================================================
