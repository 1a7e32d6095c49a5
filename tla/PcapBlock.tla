------------------------------ MODULE PcapBlock ------------------------------
(***************************************************************************)
(* The blocks of a pcapng file as mdf2pcap writes them: the length a block *)
(* declares, computed when it is built, and the bytes its serialization    *)
(* puts into the stream, whose padding depends on where the stream stands. *)
(* A reader of the file finds each block by the length of the one before.  *)
(***************************************************************************)
EXTENDS Naturals, Sequences, SequencesExt

\* The bytes that bring n to the next multiple of four.
Padding(n) == IF n % 4 = 0 THEN 0 ELSE 4 - (n % 4)

\* An option is the number of bytes of its data behind a header of four.
OptionSize(data) == 4 + data

\* Behind an option written at `at', padded to a multiple of four.
AfterOption(at, data) ==
    LET end == at + OptionSize(data) IN end + Padding(end)

\* Behind the options of a list; no block of mdf2pcap has more than three.
Nth(at, options, n) == IF n <= Len(options) THEN AfterOption(at, options[n]) ELSE at
AfterOptions(at, options) ==
    Nth(Nth(Nth(at, options, 1), options, 2), options, 3)

\* getSize() of a list: each sum rounded up, and the option that ends it.
ListSize(options) == AfterOptions(0, options) + 4

\* Where the stream stands once the list is written from `at': every option
\* is padded by the position in the stream, the one that ends the list too.
ListEnd(options, at) == AfterOption(AfterOptions(at, options), 0)

\* A block: its fixed fields, the packet with its padding, and its options.
Block(fields, packet, padding, options, declared) ==
    [fields |-> fields, packet |-> packet, padding |-> padding,
     options |-> options, declared |-> declared]

\* The type and the length, the block's own data, the length once more.
BlockEnd(b, at) ==
    ListEnd(b.options, at + 8 + b.fields + b.packet + b.padding) + 4

\* A file is the sequence of what its blocks declare and where they stand.
EndOf(blocks) == IF blocks = <<>> THEN 0 ELSE Last(blocks).end
Put(blocks, b) ==
    Append(blocks, [declared |-> b.declared, begin |-> EndOf(blocks),
                    end |-> BlockEnd(b, EndOf(blocks))])

\* The header of the section, with the name of the program ("mdf2pcap") in one
\* option.
SectionHeader ==
    Block(4 + 2 + 2 + 8, 0, 0, <<8>>, 12 + (4 + 2 + 2 + 8) + ListSize(<<8>>))

\* An interface: bit rate, description ("CAN Bus 1") and name ("CAN 1") are
\* options, in this order.
InterfaceDescription ==
    Block(2 + 2 + 4, 0, 0, <<8, 9, 5>>, 12 + (2 + 4 + 2) + ListSize(<<8, 9, 5>>))

\* The four buses behind what is there already.
Interfaces(blocks) ==
    Put(Put(Put(Put(blocks, InterfaceDescription), InterfaceDescription),
            InterfaceDescription), InterfaceDescription)

\* The blocks writeHeader() puts at the start of the file.
FileHeader == Interfaces(Put(<<>>, SectionHeader))

\* updateBlockLength() of a packet, which knows nothing of its data yet.
PacketLength(options) == 12 + (4 + 4 + 4 + 4 + 4) + ListSize(options)

\* What serializePacket() writes: the pseudo header byte by byte (packet
\* type, device type, address length, address, protocol), the identifier,
\* the length, three flags, the data.
SerializedPacket(length) == (2 + 2 + 2 + 8 + 2) + (4 + 1 + 3) + length

\* Mutant of EnhancedPacketCAN: the padding is not added to the length.
EnhancedPacketUnaligned(length) ==
    LET unpadded == PacketLength(<<4>>) + 16 + 8 + length
    IN  Block(4 + 4 + 4 + 4 + 4, SerializedPacket(length), Padding(unpadded),
              <<4>>, unpadded)

\* A frame with `length' bytes of data: the pseudo header of Linux, the CAN
\* header and the data, padded so that the whole block ends at a multiple
\* of four; the flags are its one option.
EnhancedPacketCAN(length) ==
    LET capturedPacketLength == 16 + 8 + length
        unpadded == PacketLength(<<4>>) + capturedPacketLength
    IN  Block(4 + 4 + 4 + 4 + 4, SerializedPacket(length), Padding(unpadded),
              <<4>>, unpadded + Padding(unpadded))
=============================================================================
