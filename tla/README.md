# A verification development for the MDF4 converters

`src/` holds a C++ library that opens MDF4 log files (possibly encrypted, possibly
compressed, possibly cut off by a power loss), makes them regular, and iterates over their
records; a set of command line tools that convert such files; and a Python extension module.
The modules here model the parts of it that keep state, and check and prove what
those parts promise. Nothing is derived from documentation: each definition stands for the lines
`PROJECT.json` gives for it under `map`.

Run a model with `tlc -config MCMdfFile.cfg MCMdfFile.tla`, check the proofs of a module with
`tlapm RecordIndex_proofs.tla`.

## 1. The system

### 1.1 Components

| Component | State it keeps | Operations | Hard because |
|---|---|---|---|
| Index of unsorted data blocks, `Library/Source/Blocks/DTBlockMultipleRecordIDs.cpp` | `recordIndices`, `recordSizes`, the length in the header | `index`, `findFirstMatching`, `saveBlockData` | called over and over in an order nobody fixes, any call may throw half way, state is partly reset |
| Opened log file, `Library/Source/MdfFileImplementation.cpp`, `FileInfo/*` | the chain of data groups, their channel groups and data blocks, finalization flags, counters | `finalize`, `sort`, `getFileInfo`, eight iterator getters, `getFirstMeasurement`, `save` | chains of loops that throw and are entered again, linked blocks rearranged while they are walked |
| Caching stream buffer, `Library/Source/CachingStreamBuffer.cpp` | window, its offset, three pointers, the position of the parent | `seekoff`, `seekpos`, `xsgetn`, `underflow` | several caches over one parent; the position is derived from pieces that are updated apart |
| Decoding streams, `Library/Source/Streams/*`, `Python/Source/CallbackBuffer.cpp` | decoded data so far, position in the encoded data, state of the decoder | the same four | data appears on demand, ends with an authentication that may throw out of any read |
| Opening, `Library/Source/MdfFile.cpp` | a stack of streams, each owning the one below | `Create` | ownership moves before what may throw |
| Block storage and blocks, `Library/Source/BlockStorage.cpp`, `Blocks/*` | address -> block, the links between blocks | `load`, `getBlockAt`, `save` | recursion along links, blocks that replace their children, addresses rewritten by `save` |
| Record iterators, `Library/Source/Iterators/*` | position, current record, two caches | copy, move, `begin`, `end`, `++`, `*`, the loops over them | a record is read into the one before it, records are damaged, share the file's stream with everything else |
| Whole-file decryption and decompression, `GenericFiles/Source/*` | none between calls | `decryptFile`, `decompressFile` | leave files behind when they fail |
| Converter main loop, `Tools/Shared/Source/ExecutableInterface.cpp` | exit code, options, files in the temporary, the input and the output folder | `main`, `cleanUpFile` | each of five steps may fail or the process end, and inputs may be deleted |
| MDF tool, `Tools/MDF/Source/MDFTool.cpp` | none | `convert` | its result decides about the deletion |
| Exporters, `Tools/{ASC,CLX000,CSV,PCAP,PEAK,SocketCAN}/Source/*` | the open output files, time of the first record, counts | `convert`, `writeRecord`, the correction of headers | merging of two record types by time, headers written before what they tell of is known, two conversions of time |
| Passwords, `Tools/Shared/Source/PasswordStorage.cpp` | serial number -> password | `storePassword`, `getPasswordFor` | small |
| Record types, `Library/Source/Records/*`, `Python/Source/*Wrapper.cpp` | none | the fields, and which of them become attributes or columns | eight kinds in four places that have to agree |
| Time conversion, `Tools/Shared/Source/TimeConverter.cpp` | none | two overloads | two ways to move a time into a zone |
| Metadata, progress, file names | none, or counters for display | - | text |
| Python module, `Python/Source/*` | one iterator per wrapper, the callbacks' stream | iterator protocol, `get_first_measurement` | reference counts, exceptions across the language border |

### 1.2 How they interact

Everything runs in one thread and every interaction is a call. A tool's `main` calls the
whole-file filters, then `convert`, which calls `MdfFile::Create`; this stacks
`filebuf -> CachingStreamBuffer -> AESGCMStream -> HeatshrinkStream` as far as the file needs
it and loads the blocks through the top of the stack. `getFileInfo` and the getters first call
`finalize` and `sort`, which call `index` of every unsorted data block; each of these walks the
stream. An iterator puts two more caches over the same stream. What would be concurrency elsewhere is here
the *order of calls*: which of several users of a stream or of a file moved it last, which of
the calls before threw and how far it had come. The models therefore let a caller make any
calls in any order, let each throw where the code can, and let the caller go on.

### 1.3 What has to hold

* Index: exactly the records of an ID, in order, once; totals that cover them; the loops end on
  damaged files.
* File: finalization and sorting lose, duplicate and reorder nothing however often they are
  entered; a flag goes only with its work done; iterators that were handed out stay right.
* Streams: any number of caches over a parent look like as many independent streams.
* Main loop: an input is deleted only for a complete output; the exit code says what happened;
  nothing decrypted stays behind; one bad file does not stop the others.

* Iterators: a handle holds the record it is at; a loop is given all of them, in order, once.
* Opening: a file opens exactly when it is whole and its password is there; the blocks in memory
  are those of the file; what is saved reads back as what was in memory.
* Exporters: a report is the log merged by time; headers tell what is in their own file; rows stand
  under their columns; blocks are as long as they say.

The hazards behind these, each at its line, are `hazards` in `PROJECT.json`, with the properties that
would show them going wrong; the few without a property say why.

## 2. The modules

| Module | Models | Abstracts |
|---|---|---|
| `RecordIndex` | `DTBlockMultipleRecordIDs::index` and `findFirstMatching`, a record a step, with `finalize` and the soft finalization as their callers | addresses, the bytes of records |
| `MdfFile` | `MdfFileImplementation`: `finalize`, `sort`, `getFileInfo`, the iterator getters, `getFirstMeasurement`, an iteration of a loop a step | block contents beyond IDs, sizes and counts |
| `SeekableStream` | abstract: what a reader takes a `std::streambuf` for | - |
| `DecodingStream` | `AESGCMStream`, `HeatshrinkStream`, `CallbackBuffer`: a call of `underflow`, that is a block, a step, and the loops around it | the bytes; a source is what its blocks come to |
| `CachingStream` | `CachingStreamBuffer`, a branch of a method a step | the bytes: each is named by its place |
| `Converter` | `ExecutableInterface::main`, the exporters' and the MDF tool's `convert` as far as their result | decoding and formatting |
| `Cursor` | abstract: what a user takes record iterators for | - |
| `RecordTypes` | the eight record kinds, their Python wrappers, getters and data frame columns | the types' widths |
| `RecordIterator` | `GenericIterator`, `EmptyIterator`, the handle `RecordIterator`, C++ loops, Python's `next()` and data frames | bits of a channel; the streams below |
| `ReportRows` | what `writeRecord` and the headers print, by column | the text of a cell |
| `PcapBlock` | the pcapng blocks: declared length and bytes written | the bytes |
| `Exporter` | `convert()` of the six exporters (PEAK in two versions), a record a step | progress, names of output files |
| `BlockStorage` | `BlockStorage::getBlockAt` and the blocks' `load`, a link a step | fields no link or size depends on |
| `FileSaving` | what `sort()` makes of the blocks, `getPackedBlockMap`, `save()` | the same |
| `Opening` | both `MdfFile::Create`, the filter functions, `load()`, `loadFileInfo()` | the bytes behind a layer |

`MdfFile` uses the *result* of `index` and `findFirstMatching` in one step each; `RecordIndex`
is where those results are established. `CachingStream` and `DecodingStream` both implement
`SeekableStream`, which has two constants for what tells them apart: `StopsAtEnd` (a seek past
the end ends there) and `MayFail` (a call may throw). `MdfFile`, `RecordIterator` and `BlockStorage` take the
stream below them for granted.

`Opening` extends `FileSaving`, which extends `BlockStorage`: one state, in which a source is
peeled, its blocks are loaded, sorted and saved. `FileSaving!Sort` does in a step, and only for
files on which it succeeds, what `MdfFile` takes apart; it is there for the objects it makes, whose links and
locations decide what is saved. `RecordIterator` implements `Cursor`. `Exporter` reads its
records through iterators as `RecordIterator` shows them, and `Converter` takes of an exporter
only how it ended.

### 2.1 RecordIndex

A block is `recs` (the records in file order, with ID and size) and `torn` (the file ends in the
last record's length field). Both loops visit records in file order and use an address only to
compare it with the end, so records are named by ordinals; the record ID is taken to have one
byte. `limit` is the length in the header counted in records: 0 on a file whose last length
was never written, and one or more records, or past the last, after the soft finalization, which makes room for
one record of the largest size. Actions:
`CallFinalize`, `SoftFinalize`, `CallFindFirstMatching` start a call; `IndexRecord`, `IndexTorn`,
`IndexUnknown`, `IndexDone` and `FindMatch`, `FindSkip`, `FindThrow`, `FindEnd` are the ways
through one iteration of the two loops. A caller finalizes a file only as a whole, so a
pass outside `load` follows the length update. `recordSizes` is *not* reset by `StartIndex`
and grows in `FindSkip` - that is what the code does.

### 2.2 MdfFile

`file` is what is on disk: data groups in chain order, which is also address order, with their
channel groups and records; which groups have variable length and which group refers to them;
which have a time master; whether a block follows the last DT block. `chain` is the list of DG
blocks as it is in memory, each with its channel groups and one of four kinds of data block (or
none). A call sets `pc` to its first loop:

    getFileInfo / getters: length -> count -> bytes -> toSD -> toDG -> (find)
    getFirstMeasurement:   (soft) -> measure

`at` is `dgBlock` of the loop that is running, `todo` the list `cgBlocks` that
`sort_VLSDCGtoSD` makes before it unlinks anything. `Throw` ends a call with everything in
the state it has at that line; the next call starts from there. `Crash` is a null pointer followed.
The flag `"other"` stands for every finalization bit the library does not handle: it is never
cleared, so such a file is finalized again by each call. `MeasureUninitialised` is a read of the
member `recordLength` that one constructor never sets: an exception or a crash.

### 2.3 CachingStream

A byte is its place in the parent. The buffer was read in one piece, so `held`, the place of its first
byte, describes it. The parent is a file (seeks anywhere) or a decoded stream (stops at its
end). *One* cache is modelled; `OthersMoveParent` puts the parent anywhere between two calls,
which is all that other caches, iterators and the file's own readers can do to it. `xsgetn` has
an action per branch. The `istreambuf_iterator` reads (text blocks, saved records) go through
`CharInWindow` and `CharUnderflow`, because the inherited `sbumpc` calls `underflow` and nothing else.

`Next` is every call in every state. `LibraryNext` is the discipline of the library's own
readers, for which the cache does implement `SeekableStream`:

* no request over the window's size (nothing in the library reads 1 MiB at once) nor over half
  of it: after a direct read `bufferOffset` is not advanced;
* a request reaching past the end of the file only when the window has nothing left, which
  with requests of at most half a window is what happens past the middle of a window;
* characters are read one at a time inside the window or straight after a seek. A text block or
  a saved record that straddles the end of a window breaks this: `bufferOffset` is then stale;
* a relative seek is followed by an absolute one before the next read. `FinalizedFileInfo.cpp:115`
  and `UnfinalizedFileInfo.cpp:98` break this for channels with a byte offset other than 0;
* absolute seeks into a decoded stream stay inside it.

The abstraction leaves the position after a relative seek open for the same reason.

### 2.4 DecodingStream

The three classes share one design: everything decoded stays in `buffer`, which is the get area
too, and `underflow` adds a block to it. They differ in how the end is noticed and in what throws,
so each has its own actions for `underflow` and all share the calls around it. `source.ends[i]` is the
length of the decoded data after `i` blocks; `source.fails` says that what follows them throws: a tag that does
not match, a stream below that throws, a `read` method that raises. A call begins
(`BeginSeek`, `BeginSeekForward`, `BeginSeekEnd`, `BeginRead`), asks for blocks while it is
`Wanting`, and lands or finishes; a throw ends it where it is.

* AES-GCM: `endFound` is set only behind a tag that matched, while the end is told by position.
  Data is handed out before the tag is checked; the optional check of the constructor is never
  asked for by the library. `DecryptThrows` happens once: asked again, the stream is at its end.
* Heatshrink: an `underflow` whose block decodes to nothing looks at a character that is not
  there (`UnpackNothing`).
* Callback: the comparison of the relative seek is the other way round
  (`LandCallbackForward`); past the data it leaves `gptr` behind the buffer, and a read from there
  copies a negative length (`CopyBeyond`).

`Next` is every call on every source. `OrdinaryNext` leaves out reads and relative seeks from
behind the buffer, and `OrdinarySpec` the compressed sources with a block that decodes to nothing
(a last block of one or two bytes can be one). Lemma `NothingLeftOut` shows that on those
sources `OrdinaryStep` leaves out no step that could be taken. The abstract stream leaves open where a
relative seek lands, as for the cache.

### 2.5 Converter

A file is what the loop can tell about it: its layers, whether each comes off, whether the rest
decodes (`"yes"`, `"null"` when `MdfFile::Create` answers null, `"throws"`), and the name of
its output. `stage` follows `main` through one iteration; every action is one exit or one
transition of it. Curating the arguments is folded into `Init` (a missing argument has set its
flag and is not among the files); the files are taken in any order, a superset of the order of
paths. `Terminate` ends the process anywhere, which is also what an exception that
nobody catches does, and may cut an output short. Options are parsed elsewhere. What a failed write
leaves in an output is in `Exporter`.

### 2.6 RecordIterator

`log` is one channel group: its kind, which fields have a channel, whether the data bytes lie in the
record or in an SD block, and for every record whether the file has all of it. A field in memory is the *number
of the record it was read from*, 0 if it was never written, and so is each data byte: that is
what shows a record that is half that of its predecessor. `it` maps each handle to its iterator, as the
unique pointer in `RecordIterator` does; `null` is the handle without one.

* `Read` is `mapDataToRecord`: fields without a channel keep what they have; data bytes are read into what the
  last record left (`Resized`, `Filled`: bytes the file lacks stay); a LIN frame is cut to `DataLength`.
* A record that is cut off ends the process (`throw;` with no exception alive, `Terminate`); one
  whose data cannot be found throws, after the position has moved (`Increment`).
* `Begin` sets the copy back and keeps its record. `sound` is history: the handles for which the record was
  read where they stand. It is written by the rules of the *code*, and `RecordIsOwn` says it is right.
* `LoopBody` is a turn of a range-for: an exception leaves a C++ loop, and ends the process in a Python
  data frame or `next()`, whose C functions have no handler.

`Cursor` is the abstract side: handles that are each at a place, `sure` of it or not, and `told`,
the place a dereference promises. The mapping is `at <- current` (an empty iterator is at 0 of 0
records), `sure <- sound`, `told <-` the time stamp of what was dereferenced.

### 2.7 Exporter, ReportRows, PcapBlock

`todo` is the sequence of reports a tool makes (`ReportsOf`), `report` the one that is made. `Open` is
`Create`, `getFileInfo` and the getters; `SkipReport` leaves out a bus without messages; `StartReport`
opens an output for every channel (`mdf2clx`) or one for all and writes the header;
`MergeStep` is one comparison of `std::merge`; `WriteRecord` is one `writeRecord`; `FinishReport`
corrects the header, writes the footer, or removes a file in which nothing came. `out[o].good` is the state
of the output's stream: once a write failed (`WriteRecord(FALSE)`, a full disk) nothing reaches the file and *the
writer goes on counting*, because no exporter looks. A log with damaged records throws out of the
loop (`Throw`), and out of `std::merge` for the tools that fill a vector.

Times are ticks, `Second` of them a second and `Milli` a millisecond, which are small in the runs: the
arithmetic is the code's, its units are not. `ConvertSeconds` and `ConvertTicks` are the two overloads of
`convertTimeStamp`; `HourDifference` and `MinuteDifference` are what each takes for the zone of this computer.

The date of a header is a day, the part of it that has passed (`Day` ticks make one), and whether its line still `ended` behind
it: it is written over a `Placeholder` and has `Printed` characters. `mdf2asc` and `mdf2clx` write whole seconds.
`mdf2peak` writes days since a day that `daysBetweenCenturyAndEpoch` fixes, to ten digits of a day (`Digit` ticks are the last of
them), cut off in trace format 1.1 and rounded in 2.1. The error of a `double`, about a tenth of that digit, is
left out. `TimeOf` reads a date back; `HeadersMatchRows` compares what it says with the time of the first row, and takes the
day from which `mdf2peak` counts to be 31 December 1899 (`DaysTo1970`), which is not what the comment in the code says (see 5).

`ReportRows` gives each cell the name of the column it was written for, `PcapBlock` gives each
block both its declared length and where the stream stands after it was written.

### 2.8 BlockStorage, FileSaving, Opening

`disk` maps addresses to blocks, each with its links and how much of it the file has (`read`: nothing, the
header, the links, all). `heap` is the sequence of block objects, a reference being an index, and
`blockMap` the storage's map. `stack` holds the calls of `getBlockAt` that run, each with the links
it has so far, over *one* stream whose place is `pos`: a level goes on from where the inner one left it
(`FollowLink`, `LinkLoadedThere`, `LinkLoaded`). `Depth` is the depth at which the C++ stack overflows.
`MakeDataGroup` makes the data block that replaces the one loaded, by the number of channel groups.

`FileSaving` makes `DataFor` some groups of a block, an SD block for a channel, and a data group with
64 links. A new block has a location nobody set: `Garbage` are the values it may have. `Pack` orders the
blocks by these and gives each its address, `WriteBlock` writes one over what is there at that address.

`Opening` is `Create` as stages: open, look for an encrypted file (`NotEncrypted`, `Encrypted`, `FilterThrows`), for
a compressed one, then the ID block, the blocks, the metadata. A source is its layers from the outside in; the
passwords are those for the device and the default. `garbled` is a layer peeled with a wrong password,
`at` the place of the stream, since looking for one layer has to seek back before the next looks.

## 3. What is checked

Deadlock checking is off where what is modelled comes to an end: `main`, `convert` and `Create` return,
the number of calls is bounded by `MaxCalls`, or the process may be terminated; it is on for `CachingStream` and
`DecodingStream`.

| Run | Question and answer |
|---|---|
| `record_index` | Every block of up to 3 records (2 groups, one of variable length, sizes 0 and 2, an unknown ID, a torn end) and every 3 calls: the index is exact at every step, a search finds the first record, a pass files every record under one group, totals never fall short, and the loops end. |
| `mdf_file` | Files as the loggers write them (one data group with four groups, two with a variable-length group each, sorted files; finalized or not; with an unhandled flag; with a damaged record; with a block after the last DT block), files on which sorting *throws* after `getFirstMeasurement` has counted records, and finalized files with a group without time master; every 3 calls: the nine properties hold, over the retries too. `IteratorComplete` and `NeverCrashes` are said of files in which every group that needs one has a time master. |
| `caching_stream` | Window 4, file of 6 bytes, any offsets and requests 1, 2, 3 and 5, file and decoded parent, other users at any time: under the library's discipline the cache implements `SeekableStream`. |
| `caching_stream_short` | Does any request that fits the window deliver what is there, whatever came before? No: see 5. |
| `decoding_stream` | 15 sources - encrypted (a tag alone, a partial last block, a bad tag), compressed (empty, several blocks, a failing stream below), callback (empty, several blocks, raising at once or later) - offsets 0 to 6, requests 1 to 3: each stream implements `SeekableStream`, a failure is never told as the end, and every call on a whole source returns. |
| `decoding_stream_damaged` | Do the loops of the seeks end where the data does on damaged sources too? No: see 5. |
| `converter` | Every batch of up to 3 of 10 files, one for every way through the loop, exporter or finalizer, deletion on or off, a kill anywhere: inputs are safe with exporters, temporaries go, the exit code is exact, the good files are converted, `main` returns. |
| `converter_delete` | Are inputs deleted only on success with *every* tool? No: the finalizer always reports success. |
| `exporter` | Seven tools on 8 logs (data, remote and LIN records, equal times, unknown channels, frames of odd lengths; unreadable in the middle, not to be loaded, not to be sorted), the three time formats, 3 choices of columns, a failing write anywhere: every file is a beginning of the merged log and all of it unless its stream failed, headers match, rows fit, blocks are delimited. |
| `record_iterator` | Two handles over groups of up to 3 records, whole or damaged in one place (cut record, cut data, an offset nobody has, too many bytes), six kinds, absent groups: the handles implement `Cursor`, hold their own records, a pass is complete and ends. |
| `opening` | 612 sources: logs of up to 2 data groups and 3 channel groups with and without variable-length data, each block cut in each way, cycles of links, unknown and missing blocks; and a small log behind no, one and two layers in each order, with every choice of passwords, bad parameters, a bad tag, read in one piece or not: `Create` opens exactly what it should, what is loaded is the file, what is saved reads back. |
| `opening_save` | Is a data block saved with the records its header announces? No: one of the four classes writes none. |

**Bounds.** Three records are enough for an order, a gap and a repetition inside a group;
three calls give each pair of calls a third that sees what they left, and the shortest
sequences found that go wrong take two. The window of the cache is shorter than the file and longer than
twice a request, so windows start everywhere, end early, and are missed and hit. `Furthest`
only bounds how far a file is sought past its end. Three blocks give a first, a middle and a last
one, with offsets in, between and behind them. Batches of three have a file before and
after the one that fails. Two handles are all that a copy, a move or a comparison takes, and three records give a
damaged one a neighbour on each side. `Capacity` 2 lets data be short, full and too long. Second = 8 and Milli = 2
make a remainder of both in a handful of ticks; Digit = 4 makes dates that have to be cut and rounded, with a half among them; the zones are minutes east and west, whole hours
and not. `Depth` 16 has room for a call for each block of the largest file, and is met by files with a cycle; `Garbage`
is one location before all blocks and one among them. Two data groups and three channel groups give `save` a
group to move, one to split off and one that stays. No symmetry is used: IDs, groups, records and files all differ.

No run checks `TypeOK` of `MdfFile`, `Exporter` and `Opening`: it is written down as the
documentation of their variables. That of `Exporter` is proved (`TypeCorrect`), and `ChainIsSound` proves what the
proofs about `MdfFile` need of its types.

**Fairness** is weak fairness on the steps of the loops that run (`IndexStep`, `FindStep`, `Step`,
`OrdinaryStep`, `MainStep`, `LoopStep`): the program has one thread, its loops wait for nobody, and a call that was made runs on.
Nothing is assumed of the caller: that a call *begins* is never fair.

Each property has a *mutant*: an operator of the module that changes one definition as a
plausible bug would (a counter taken before the index, a window not noted empty, `=` for
`|=`) and breaks the property. Mutants stand before the definition they change.

## 4. What is proved

For every value of the constants, with tlapm 1.4.5 (Z3, Zenon, LS4):

* **`RecordIndex_proofs`** - `TypeCorrect`, `IndexIsExact`, `SizesAreEnough`, `FirstMatchCorrect` and
  `IndexCoversEveryBlock`, from `RecordIndexAssumption`. `IndexExact` relates the entry of an
  ID to `cursor`; it is inductive together with the type invariant, once "sorted without repetition" and
  "contains exactly" are kept for the entry, because the record appended, `cursor`, is
  larger than all that is there; lemmas on `Append` carry this. `FirstMatchIsFirst` needs the strengthening that *while* the search
  runs, no record before `probe` has a wanted ID, and that the record at `probe` has not been passed when
  it ends. `IndexCoversBlock` is a property of the step that ends a pass: `cursor > limit` and
  the exact index give at least one group, the function `recs[k].id` gives at most one.
  `SizesAreEnough` is about sums over sets of any size. That the sum of a set is that of the set with one element less,
  plus that element's, is shown by a smallest set for which there is no such sum (`Smallest`); then a record
  that is filed adds its own bytes on both sides, and everything else the code does to `recordSizes` only adds.
* **`MdfFile_proofs`** - `ChainIsSound`, `FlagsAreHonest`, `NoRecordIsLost`, `GroupsAreKept`, `NothingIsTwice`,
  `SortedGroupsRemain`, `FirstMeasurementCorrect`, `CallsNeverCrash` and `IteratorsAreComplete`, from `MdfFileAssumption`, for
  chains and logs of any length. See 4.1.
* **`Exporter_proofs`** - `TypeCorrect`, `FilesHoldTheLog`, `HeadersTellTheRows`, `CellsFitColumns` and
  `BlocksFindEachOther`, from the assumptions on its constants, for logs of any length and any set of outputs. See 4.2.
* **`CachingStream_proofs`** - `TypeCorrect`, `WindowCorrect` and `CacheImplementsStream`, from
  `CachingStreamAssumption`: the refinement of `SeekableStream` with `pos <- bufferOffset + gptr`,
  an action at a time. The invariant needed is `WindowMirrors`: a window that is not
  empty holds the bytes from `bufferOffset` on *and* is full or ends the file - the
  second half is what lets a short answer be taken for the end of the file.
* **`DecodingStream_proofs`** - `TypeCorrect`, `FailuresAreSeen` and `StreamIsImplemented`, from
  `DecodingStreamAssumption`: the refinement of `SeekableStream` with `pos <- from` during a read
  and `gptr` otherwise. The invariant says that `buffered` is exactly what the blocks taken come to,
  that `endFound`, and `sawEnd` while a call runs, imply that the buffer is whole (`BufferExact`, `CallInOrder`),
  and that a read has copied no more than it was asked for; without the second a seek that stops early
  would be taken for one that met the end. `FailuresAreSeen` rests on one small invariant more,
  `FailureSeen`.
* **`RecordIterator_proofs`** - `TypeCorrect`, `EveryRecordIsOwn`, `EveryPassComplete` and
  `CursorsAreImplemented`, from `RecordIteratorAssumption`, for any number of handles and groups of any length, however
  damaged. The invariant says that every iterator is `Sane` (in its bounds, an empty one without records), that
  every handle in `sound` owns the record it is at, and that a loop from the start has been given as many
  records as it has passed, its end being the group's. What it rests on is one lemma on `Read`: read over *any*
  record, it leaves a record that owns its place if it does not throw. The refinement maps every action to an action of
  `Cursor`, `PythonNext` to one that tells and advances at once.
* **`Converter_proofs`** - `TypeCorrect`, `InputsAreSafe`, `TemporariesAreRemoved`, `ExitCodeIsExact` and
  `OthersAreConverted`, from `ConverterAssumption`, for batches of any size. For `InputsAreSafe` the strengthening says
  that a file judged successful has its output whole, that pending files are untouched, and that the
  output of a finished file is not written again. `Clean` says for each stage which temporaries may be there.
  `Ledger` keeps the books of the exit code: `mainStatus` is the flags of the files *behind* the loop, `Progress` says what the
  current one has shown so far. `Kept` is `OthersConverted` for the files behind. `InputsAreSafe` and
  `OthersAreConverted` have the assumption `DistinctOutputs`: two inputs with one stem overwrite each other's output.
* **`Opening_proofs`** - `LoadsTheFile`, `SavesTheFile` and `OpensTheFile`, from `InputsAssumption`, `DepthAssumption` and
  `GarbageAssumption`, for files of any number of blocks and links. See 4.3 and 4.4.

### 4.1 The opened file

`Shape` is the type invariant, with what each loop may be looking at: the loop that makes SD blocks visits groups that
are linked in its data group or have their SD block already. On it rest, in this order:

* Until a file has been sorted once (`Unsorted`), the chain is the one that was loaded, but for what is in the data blocks
  (`AsLoaded`); from then on the chain only divides (`Divided`) and unlinks (`Unlinked`).
* `FlagsHonest`: `LengthKnown` says that in the loops behind `SetLength` the last block reaches the end;
  `CountsKnown` says which data groups the counting loop has behind it, and what their counters are.
* `NothingLost`: `IndexKnown` says the same of the indices of the data blocks while the chain is as it was loaded. Once it is not,
  `AllHeld` says that each group is `Held`, by a data block or an SD block with all of its records; every step
  either leaves what holds a group alone or hands the index on whole.
* `NothingTwice`: `Apart` (no two data blocks index the same group) and `HoldersLinked` (a block indexes groups
  linked in its own data group only).
* `GroupsKept`: an order of the groups of the new chain is one of the old, for each of the two steps that
  change the chain. Where a group stands after `RemoveAt` and `InsertAt` is `RemovedSeq` and `InsertedSeq`.
* `SortedGroupsStay` and `MeasuredIsFirst` follow step by step from `Shape` and `AsLoaded`.

* `NeverCrashes` and `IteratorComplete` rest on one invariant, `Sound`, for files whose groups of fixed size all have a time
  master. Its parts: `Regular`, that each data group `Fits` (a variable-length group stands behind its own, and the data block is the
  one for its groups, never none) and is `EvenGroup` (the byte total of a group of fixed size is a multiple of the
  number of its records, so that dividing the block does not throw); `ToSD` and `ToDG`, that behind either
  half of `sort()` nothing is left for it; `Unlisted`, `Subsets` and `Handed`. That a total is even is a sum over a log of any length:
  `RecordsOf` and `BytesOf` are recursive functions, which `Recursion` shows to exist and `CountUp` unfolds. A walk that
  measures adds nothing to the total of a group of fixed size: it stops at the first record of a group it looks for, and what it
  does not look for has, by `CountsRight`, no records. A complete iterator is then a matter of `AllHeld`, `Apart` and `Regular`.

`FlagsAreHonest` and `NoRecordIsLost` have the assumption `SortedLast`: no data group with one channel group stands before
one with several, where the counting loop would stop (see 5). `NoRecordIsLost` needs `CountedWithLength` too: a
file whose length was never written has counters that were never written. Both are true of what a logger leaves: it writes the flags together, and
one data group. `CallsNeverCrash` and `IteratorsAreComplete` need two more facts of this kind. `Paired`: a variable-length group is
listed right behind the group that refers to it. The loop that makes SD blocks compares neighbours only and passes over any other; then
dividing may leave a variable-length group alone in a data block whose total is no multiple. `CountsOnDisk`: where `finalize()` makes no
counter (the file has no such flag, or the data group one channel group only) the one on disk is right; it is what `IteratorComplete` says
of such a group. All four hold in every logger file of the runs. Without time masters (the property's own condition, `AllTimed`) a first measurement
counts bytes that sorting then takes for the group's, see 5.

### 4.2 The exporters

Six invariants, each from those before it. A step does one of four things to an output - nothing, begin it, add a row to
it, end it (`Same`, `Begun`, `Grown`, `Ended`; `OutputStep`) - and what keeps them is shown for these, not for the actions.

* `Agenda`: the reports made and to be made are those of the tool, each bus once, so no output is written in two reports.
* `QueueOK`: what the merge has put out are records of the report being made. `FilesOK`: the types of the outputs and their
  writers, and the blocks of each delimited; `BlocksDelimited` is its second half.
* `RowsOK`: a row has the cells of a record that belongs into its output, and the columns are those of
  its header or none; with `RowFits`, a fact about the text of each tool's rows, this gives `RowsFitHeader`.
* `Untouched`: the outputs of the reports to come are as they were. `HeadersOK`: what the header and the rows
  of one file say fits what its writer knows: the count, the time of the first record, the numbers.
* `QueueOrder`: the queue is strictly sorted by `Before` (time, then data frames first), what has
  not been merged yet comes after all of it, and once it is written from it is complete. This takes the assumption
  `Chronological`: the logger writes the records of a kind in order of time. `std::merge` asks for it and no exporter
  checks it.
* `Counted`: a writer has counted the records of its output that have passed, and a row has as many records of
  its output before it as its number says. So two rows are in the order of their numbers, no record is left out between
  them, and a file whose stream stayed good holds as many rows as there are records.

`FilesHoldTheLog` and `HeadersTellTheRows` (the times that `mdf2clx` rounds do not go back) assume `Chronological`; the others hold
of any log. That a date stands for the time it was made from, whatever the length of a day, is `DateFacts`; what its digits lose
of a time is `PeakTicksFacts`; that the offset of the code counts from 31 December 1899 is a step of `PeakDateFacts`.

### 4.3 The blocks of a file

`Loading` says what the loader keeps from call to call of `getBlockAt`, of the file, its calls, the map and the objects:

* `Calls`: the calls that run are a path of links, each at the link that leads to the next, and each knows where the stream goes on
  behind it; of two calls for one block the inner one is not further. No block of a running call is in the map.
* `Innermost`: the innermost call wants the block its link leads to, has got it, or stands at its next link.
* `Mapped`: each address of the map has the object of the block there (`Faithful`), whose pointers are those of its links
  (`Right`); or, if a data group replaced it, no object, and then that data group is in the map.

Each step of `getBlockAt` is a lemma of its own. The hard ones are those that store a block: inserting it under its address must
not undo what is right of the blocks whose pointers lead there, and a data group that replaces its data block must be the only one
that has a pointer to it. That is the assumption of `LoadsTheFile`, `DataOnce`: the data block of a data group is linked from
nowhere else, which the format requires and `MCDataAssumption` checks of the files of the runs; without it the code does leave pointers
to the block that was replaced. What is linked from the header then is in the map (`LiveIsMapped`), because everything `Reachable`
finds is in every set of objects that holds where it starts and is closed (`ClosureIsLeast`).

From there `SaveInv` goes on to `SavesTheFile`:

* `Objects`: every pointer leads to an object or is null. Loading keeps it (`LoaderObjects`); a step of `sort()` relinks three
  pointers, two of them to objects that are appended only in the same step, so `Pointing` says it with the length that will be
  (`MoveKeeps`, `SplitKeeps`).
* `Listed`: what is packed is the header and then each other block that is linked from it, once. That the sorting order lists all of
  them, whatever locations they have, rests on its being a total order (`BeforeOrders`, `InOrderLists`): blocks with the same
  location, or with one nobody set, are told apart by their memory.
* `Placed`: each block is behind the whole of the one before it and on a word boundary. The second block is not aligned by
  `getPackedBlockMap`, but it follows the header; hence the assumption `EvenHeader`, that the header takes whole words. It takes 104
  bytes in every file of the format, and `MCDataAssumption` checks it of the runs'.
* `Saved`: what has been written is a beginning of the list, each block as `WrittenFrom` the objects, which do not change any more.

The reserved sizes never overlap (`BehindAll`): where the written form of a block is longer than its size (`WrittenLength`), what
is too much lies where later blocks are, and they are written after it.

### 4.4 What can be opened

`OpensExactly` compares a whole run of `Create` with what is said of the file alone (`Opens`). `OpenInv` does it in three parts.

* The layers. `PeeledInv` says of each stage what is known of the layers: behind the first filter that the file is not encrypted or
  has no password to try (`Untouched`), or that a key, right or wrong, is over it (`Decrypted`); behind the second
  that all layers are off exactly where `LayersFit` says so, the tag aside. `LastFilter` is the step between the two, by cases
  on how many layers there are, and `FilterRefuses` says that nothing is turned away that could be opened.
* What is loaded fits. `Checked` says of the loader, beside `Loading`, that there is a set of addresses that holds those of the map and
  is `Solid`: each of its blocks can be read, has the data it needs (`Fits`), leads to blocks of the set only, and not back to
  itself. A call that returns adds its block (`CallChecked`), which is not reached from the blocks its links lead to because it
  was not in the set before, and the set is closed (`FromLeast`). When the outermost call returns, the set
  holds all that the header leads to (`LoadedFits`). What `load()` of a data group asks of its objects is what `DataFits` asks
  of the file (`LoadsFits`), because channel groups that are loaded are linked as there.
* What fits is loaded. The calls that run are a path of links from the header; where no block leads back to itself, they are
  for different blocks (`NoWayBack`), so they are not more than there are blocks, and each is for one that can be read (`CallsWithin`).
  No step of the loader fails then (`LoaderFails`), nor is there no header behind it (`HeaderThere`).

`OpensTheFile` assumes `DataOnce` and `RoomForAll`: that the stack has room for a call for each block of the file. Recursion goes as
deep as the longest path of links, so that a log with a long list of data groups does exhaust a small stack, and how
deep a stack is the code leaves to the system. `MCDataAssumption` checks both of the files of the runs.

### 4.5 What is only model-checked

The liveness properties (`CallsReturn`, `MainReturns`, `PassEnds`), which no prover here reaches. The induction theorems of the library, which take an operator, cannot be used here; where an argument of this
kind was needed (`SizesAreEnough`, the bytes of a group, the rank of a row), it is made by a least number or a smallest set.

## 5. What the checks show of the code

Found by a run that expects a violation:

* A request for more than the window has left is filled from wherever the parent stands
  (`caching_stream_short`).
* A seek past the decoded data of an encrypted file whose tag check has thrown, or that ends with
  its header, never returns (`decoding_stream_damaged`); for the latter `MdfFile::Create` itself does not return.
* `MDFTool::convert` returns true for a file it could not load, and `main` deletes it (`converter_delete`).
* A data group that is sorted when it is loaded is saved without its records (`opening_save`).

Met while modelling; the properties are stated so that they say what does hold:

* `index()` clears `recordIndices` but not `recordSizes`, and `findFirstMatching()` adds to it: totals are
  multiples after finalization (`SizesCoverIndex` is an inequality), block lengths written from them are too large, and
  a search before sorting can make sorting throw. A sort that throws leaves a data group without data block in the
  chain and the next `getFileInfo` takes it for sorted; a move to an SD block that throws leaves the group linked *and* with its
  SD block, which is why `NothingTwice` speaks of data blocks and of groups that are no longer linked.
* Counters of data groups behind a sorted one are not made, and the flag is cleared: the counting loop
  stops at the first sorted group (`MdfFileImplementation.cpp:198`). `FlagsHonest` is therefore
  checked on files with no sorted group before an unsorted one.
* Iterators of finalized but unsorted files are empty until `getFileInfo` is called. Likewise
  `getFirstMeasurement` of such a file, once sorted, reads the start of the *original* data block;
  `MeasuredIsFirst` is therefore stated for files still to be finalized.
* A broken `passwords.json` leaves a file out with exit code 0, which is how `ExitCodeExact` states it.
* A record that is cut off ends the process, not the iterator (`GenericIterator.cpp:239`); an exception in a
  Python `next()` or data frame does too. `begin()` of a moved iterator shows the record it came from.
* `Create` returns null when a filter throws but lets exceptions of `load()` through. A cycle of links exhausts the
  stack; data lists (DL) and data groups with no group are followed as null pointers; both are in `OpensExactly` and
  `LoadedIsTheFile` as they are.
* `DGBlock`'s default constructor makes 64 links where it means 64 bytes (`DGBlock.cpp:35`); a saved one overruns its place and reads
  back only because later blocks are written over it. `save()` always returns false.
* No exporter looks at the state of its stream: on a full disk `convert()` returns true and the file is short, which is why `FilesAreTheLog`
  is said of `good` streams and of beginnings.
* `getFileInfo().CANMessages` counts data frames only: a log with nothing but remote frames yields no CAN report.
* The zone of this computer is wrong west of UTC (a day late), and the overload for seconds ignores its minutes
  (`TimeConverter.cpp`); `HeadersMatchRows` says it for whole hours east. `mdf2socketcan` gives nanoseconds to the
  overload for seconds (`SocketCAN_CAN_Exporter.cpp:30`).
* `mdf2peak` writes the start of a log a day early by its own comment: "Convert the time to days since 30th December, 1899. Utilize
  that there are 25568.0 days between this and epoch start time" (`PEAK_CAN_Exporter_1_1.cpp:22`,
  `PEAK_CAN_Exporter_2_1.cpp:22`). There are 25569; 25568 is the number from 31 December 1899. The data of the system tests has the
  value of the code: `single_can_bus_1_CAN.trc` has 43873.3534336152 for a log of 13 February 2020, which is day 43874 from 30 December
  1899. `HeadersMatchRows` is stated with the day of the code.
* Trace format 1.1 reserves 16 characters for the date and writes 17, a blank behind the last digit
  (`PEAK_CAN_Exporter_1_1.cpp:33-34` and `47`). The blank takes the end of the line, so the first row stands on the line of
  `;$STARTTIME`. `HeadersMatchRows` says of the other formats only that the date keeps to its line.
* `mdf2asc` writes the whole second of the first record as the date, and that record at 0 (`ASC_CAN_Exporter.cpp:36-39` and `91-96`):
  the sum of both is up to a second early for every row. `HeadersMatchRows` says both of these, and so nothing of the sum. The `.asc`
  files in the data of the system tests are by another exporter: `single_can_bus_1_CAN.asc` has the date 08:27:45, its first row at
  71.664350 and neither `CANFD` rows nor a trigger block, where the log's first record is of 08:28:56.664350 (the same record in the
  data of `mdf2socketcan`). Its date is that of the start of the log. `Common_Test.py` compares whole files, and
  nothing in `ASC_CAN_Exporter` can write this one.
* The LIN header of `mdf2clx` names a column of types that its rows lack (`CLX000_BaseExporter.cpp:193`), and rows
  end in a delimiter when the data column is off; `RowsFitHeader` leaves out the former. Its milliseconds can be
  rounded to 1000.
* Two Python wrappers list fields they never copy (`MDF_LIN_ChecksumErrorWrapper.cpp:4`, `MDF_LIN_SyncErrorWrapper.cpp:4`);
  that of a CAN data frame has no `ESI`.

**Hazards that no property covers.** `PROJECT.json` lists them with the reason: totals that grow with every pass, counters behind a
sorted group, iterators of finalized but unsorted files, a `recordLength` that was never set, characters read over the end of a
cache's window, a compressed block that decodes to nothing, the first measurement of a sorted file, `begin()` of a moved iterator,
two inputs with one output, and the stale bytes of a record that is cut short. The models
have these steps; the properties next to them are said of the other cases.

## 6. Plan

Done: the streams (`CachingStream`, `DecodingStream` over `SeekableStream`), the index and the file (`RecordIndex`,
`MdfFile`), opening, loading and saving (`BlockStorage`, `FileSaving`, `Opening`), the iterators (`RecordIterator` over
`Cursor`), the exporters and the main loop; proofs of the safety properties of all of these.

Next, in this order:

1. An abstract specification for saving - a graph of blocks that is the same after `save` and `load` - with
   `Opening` as its refinement.
2. The main loop's options and its walk over folders, which `Init` of `Converter` stands for; looking up a
   serial number in `PasswordStorage`.

Not modelled: metadata text, progress bars and names taken from a path, the text of each export format -
functions without state; the reference counts and the logger of the Python module, which the interpreter's rules and not this
code's order of steps decide; the file formats' fields that no link or size depends on. The cipher, the decompressor and the
standard library's streams are external: what this code sees of them is in the models.
