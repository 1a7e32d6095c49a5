------------------------- MODULE CachingStream_proofs -------------------------
(***************************************************************************)
(* Proofs about CachingStream, for windows, files and requests of every    *)
(* size.                                                                   *)
(***************************************************************************)
EXTENDS CachingStream, TLAPS

\* The window lies in the file, and a decoded stream is never left behind: a
\* parent that is sent to the current position arrives there.
InsideFile ==
    /\ egptr > 0 => bufferOffset + egptr <= FileLen
    /\ parentKind = "decoded" => bufferOffset <= FileLen

Inv == TypeOK /\ WindowMirrors /\ InsideFile

USE DEF Told, Delivered, Calls, Replies

\* A request the library makes never finds its current position in a window too
\* small for it: the refill that drops the rest of the window does not happen,
\* and neither does the direct read.
LEMMA LittleReads ==
    ASSUME Inv, NEW n \in Requests, ReadLittle(n)
    PROVE  ReadRefill(n) \/ ReadWindow(n)
<1> USE CachingStreamAssumption
<1>1. n \in Nat /\ n > 0 /\ n <= CacheSize /\ 2 * n <= CacheSize
  BY DEF ReadLittle
<1>2. ~ReadDirect(n)
  BY <1>1 DEF ReadDirect
<1>3. ASSUME ReadDropping(n) PROVE FALSE
  <2>1. available < n /\ gptr < available
    BY <1>3, <1>1 DEF ReadDropping, InWindow, currentPosition, available, Inv, TypeOK
  <2>2. currentPosition + n <= FileLen
    BY <2>1 DEF ReadLittle, available, Inv, TypeOK
  <2>3. egptr > 0
    BY <2>1 DEF available, Inv, TypeOK
  <2>4. CASE egptr = CacheSize
    BY <2>1, <2>4, <1>1 DEF available, Inv, TypeOK
  <2>5. CASE bufferOffset + egptr = FileLen
    BY <2>1, <2>2, <2>5, <1>1 DEF available, currentPosition, Inv, TypeOK
  <2> QED
    BY <2>3, <2>4, <2>5 DEF Inv, WindowMirrors
<1> QED
  BY <1>2, <1>3 DEF ReadLittle, Read

\* The parent goes where seekBeginning and xsgetn send it.
LEMMA ParentArrives ==
    ASSUME Inv
    PROVE  /\ currentPosition \in Nat
           /\ Landing(currentPosition) = currentPosition
<1> USE CachingStreamAssumption
<1>1. currentPosition \in Nat
  BY DEF currentPosition, Inv, TypeOK
<1>2. parentKind = "decoded" => currentPosition <= FileLen
  BY DEF currentPosition, Inv, TypeOK, InsideFile
<1> QED
  BY <1>1, <1>2 DEF Landing, SeekParent, Inv, TypeOK

\* What a refill from `from` leaves in the window and hands out.
LEMMA RefillFills ==
    ASSUME NEW from \in Nat, NEW n \in Nat, n > 0, Refill(from, n)
    PROVE  /\ parentPos' \in Nat /\ held' = from
           /\ egptr' \in 0..CacheSize /\ gptr' \in 0..egptr' /\ gptr' <= n
           /\ egptr' > 0 => from + egptr' <= FileLen
           /\ egptr' = CacheSize \/ egptr' = 0 \/ from + egptr' = FileLen
           /\ egptr' = 0 => from >= FileLen
           /\ gptr' = n \/ gptr' = egptr'
           /\ reply' = Delivered(from..(from + gptr' - 1))
<1> USE CachingStreamAssumption
<1>1. ReadParent(from, CacheSize) \in Nat
  BY DEF ReadParent, BytesLeft
<1> QED
  BY <1>1 DEF Refill, ReadParent, BytesLeft

\* An answer is of the type of answers.
LEMMA ReplyTypes ==
    /\ \A call \in Calls, o \in Nat : Told(call, o) \in Replies
    /\ \A a, b \in Int : a >= 0 =>
        Delivered(a..b) \in Replies
  OBVIOUS

\* A refill of the window from the position the stream is said to be at leaves
\* the window in order.
LEMMA RefillKeeps ==
    ASSUME Inv, NEW from \in Nat, NEW n \in Nat, n > 0, Refill(from, n),
           bufferOffset' = from, UNCHANGED parentKind,
           parentKind = "decoded" => from <= FileLen
    PROVE  Inv'
<1> USE CachingStreamAssumption
<1>1. TypeOK'
  <2>1. reply' = Delivered(from..(from + gptr' - 1))
    BY RefillFills
  <2>2. from + gptr' - 1 \in Int
    BY RefillFills
  <2>3. reply' \in Replies
    BY <2>1, <2>2, ReplyTypes
  <2> QED
    BY <2>3, RefillFills DEF Inv, TypeOK
<1>2. WindowMirrors'
  BY RefillFills DEF WindowMirrors
<1>3. InsideFile'
  BY RefillFills DEF InsideFile
<1> QED
  BY <1>1, <1>2, <1>3 DEF Inv

LEMMA Initially == Init => Inv
<1> SUFFICES ASSUME Init PROVE Inv
  OBVIOUS
<1> USE CachingStreamAssumption
<1>1. TypeOK
  BY ReplyTypes DEF Init, TypeOK
<1> QED
  BY <1>1 DEF Init, Inv, WindowMirrors, InsideFile

LEMMA Preserved == Inv /\ [LibraryNext]_vars => Inv'
<1> SUFFICES ASSUME Inv, [LibraryNext]_vars PROVE Inv'
  OBVIOUS
<1> USE CachingStreamAssumption
<1>1. CASE OthersMoveParent
  BY <1>1 DEF OthersMoveParent, windowVars, Inv, TypeOK, WindowMirrors, InsideFile
<1>2. ASSUME NEW offset \in Offsets, SeekInside(offset) PROVE Inv'
  <2>1. offset \in Nat /\ Told("seek", offset) \in Replies
    BY ReplyTypes
  <2>2. CASE SeekHit(offset)
    <3>1. gptr' \in 0..egptr
      BY <2>1, <2>2 DEF SeekHit, InWindow, available, Inv, TypeOK
    <3> QED
      BY <2>1, <2>2, <3>1
      DEF SeekHit, parentVars, Inv, TypeOK, WindowMirrors, InsideFile
  <2>3. CASE SeekMiss(offset)
    <3>1. parentPos' \in Nat
      BY <2>1, <2>3 DEF SeekMiss, Landing
    <3>2. parentKind' = "decoded" => bufferOffset' <= FileLen
      BY <1>2, <2>3 DEF SeekInside, SeekMiss, Inv, TypeOK
    <3> QED
      BY <2>1, <2>3, <3>1, <3>2
      DEF SeekMiss, EmptyWindow, Inv, TypeOK, WindowMirrors, InsideFile
  <2> QED
    BY <1>2, <2>2, <2>3 DEF SeekInside
<1>3. ASSUME NEW offset \in Offsets, SeekForward(offset) PROVE Inv'
  <2>1. parentPos' \in Nat
    BY <1>3 DEF SeekForward, SeekParent, Inv, TypeOK
  <2> QED
    BY <1>3, <2>1, ReplyTypes
    DEF SeekForward, EmptyWindow, Inv, TypeOK, WindowMirrors, InsideFile
<1>4. CASE SeekEnd
  BY <1>4, ReplyTypes
  DEF SeekEnd, EmptyWindow, Inv, TypeOK, WindowMirrors, InsideFile
<1>5. CASE Tell
  BY <1>5, ReplyTypes, ParentArrives
  DEF Tell, parentVars, windowVars, Inv, TypeOK, WindowMirrors, InsideFile
<1>6. ASSUME NEW n \in Requests, ReadLittle(n) PROVE Inv'
  <2>1. CASE ReadRefill(n)
    <3>1. Refill(currentPosition, n) /\ bufferOffset' = currentPosition
      BY <2>1, ParentArrives DEF ReadRefill
    <3>2. parentKind = "decoded" => currentPosition <= FileLen
      BY DEF Inv, TypeOK, InsideFile, currentPosition
    <3> QED
      BY <2>1, <3>1, <3>2, ParentArrives, RefillKeeps DEF ReadRefill
  <2>2. CASE ReadWindow(n)
    <3>1. gptr' \in 0..egptr
      BY <2>2 DEF ReadWindow, available, Inv, TypeOK
    <3>2. reply' \in Replies
      BY <2>2, ReplyTypes DEF ReadWindow, Inv, TypeOK
    <3> QED
      BY <2>2, <3>1, <3>2
      DEF ReadWindow, parentVars, Inv, TypeOK, WindowMirrors, InsideFile
  <2> QED
    BY <1>6, <2>1, <2>2, LittleReads
<1>7. CASE CharInside
  <2>1. CASE CharInWindow
    <3>1. gptr' \in 0..egptr
      BY <2>1 DEF CharInWindow, Inv, TypeOK
    <3>2. reply' \in Replies
      BY <2>1 DEF CharInWindow, Inv, TypeOK
    <3> QED
      BY <2>1, <3>1, <3>2
      DEF CharInWindow, parentVars, Inv, TypeOK, WindowMirrors, InsideFile
  <2>2. CASE egptr = 0 /\ parentPos = bufferOffset /\ CharUnderflow
    <3>1. Refill(bufferOffset, 1) /\ bufferOffset' = bufferOffset /\ UNCHANGED parentKind
      BY <2>2 DEF CharUnderflow
    <3> QED
      BY <3>1, RefillKeeps DEF Inv, TypeOK, InsideFile
  <2> QED
    BY <1>7, <2>1, <2>2 DEF CharInside
<1>8. CASE UNCHANGED vars
  BY <1>8 DEF vars, parentVars, windowVars, Inv, TypeOK, WindowMirrors, InsideFile
<1> QED
  BY <1>1, <1>2, <1>3, <1>4, <1>5, <1>6, <1>7, <1>8 DEF LibraryNext

LEMMA Invariance == LibrarySpec => []Inv
<1> QED
  BY Initially, Preserved, PTL DEF LibrarySpec

\* The pointers into the window stay in order for every window and file size.
THEOREM TypeCorrect == LibrarySpec => []TypeOK
<1>1. Inv => TypeOK
  BY DEF Inv
<1> QED
  BY <1>1, Invariance, PTL

\* However the parent is moved, a window that holds something holds the bytes it
\* says it holds.
THEOREM WindowCorrect == LibrarySpec => []WindowMirrors
<1>1. Inv => WindowMirrors
  BY DEF Inv
<1> QED
  BY <1>1, Invariance, PTL

-----------------------------------------------------------------------------
\* What a stream hands out at a position, as the interval the cache delivers.
LEMMA DeliveredIsAvailable ==
    ASSUME NEW from \in Nat, NEW n \in Nat, NEW m \in 0..n,
           m = n \/ from + m = FileLen \/ (m = 0 /\ from >= FileLen),
           m > 0 => from + m <= FileLen
    PROVE  Stream!Available(from, n) = from..(from + m - 1)
  BY CachingStreamAssumption DEF Stream!Available

\* A read that hands out what there is and moves the position on by as much is
\* the stream's.
LEMMA ReadIsRead ==
    ASSUME Inv, NEW n \in Nat, NEW m \in 0..n,
           m = n \/ currentPosition + m = FileLen
                 \/ (m = 0 /\ currentPosition >= FileLen),
           m > 0 => currentPosition + m <= FileLen,
           reply' = Delivered(currentPosition..(currentPosition + m - 1)),
           currentPosition' = currentPosition + m
    PROVE  Stream!Read(n)
<1>1. Stream!Available(currentPosition, n)
        = currentPosition..(currentPosition + m - 1)
  BY ParentArrives, DeliveredIsAvailable
<1> QED
  BY <1>1 DEF Stream!Read, Stream!Delivered

LEMMA RefillIsRead ==
    ASSUME Inv, NEW n \in 1..CacheSize, Refill(currentPosition, n),
           bufferOffset' = currentPosition
    PROVE  Stream!Read(n)
<1>1. currentPosition \in Nat
  BY ParentArrives
<1>2. currentPosition' = currentPosition + gptr'
  BY DEF currentPosition
<1>3. gptr' \in 0..n
  BY <1>1, RefillFills
<1>4. /\ gptr' = n \/ currentPosition + gptr' = FileLen
                   \/ (gptr' = 0 /\ currentPosition >= FileLen)
      /\ gptr' > 0 => currentPosition + gptr' <= FileLen
  BY <1>1, RefillFills, CachingStreamAssumption
<1>5. reply' = Delivered(currentPosition..(currentPosition + gptr' - 1))
  BY <1>1, RefillFills
<1> QED
  BY <1>2, <1>3, <1>4, <1>5, ReadIsRead

LEMMA MapsToInit == Init => Stream!Init
  BY CachingStreamAssumption DEF Init, Stream!Init, Stream!Told, currentPosition

LEMMA MapsToNext ==
    Inv /\ [LibraryNext]_vars => [Stream!Next]_Stream!streamVars
<1> SUFFICES ASSUME Inv, [LibraryNext]_vars
             PROVE  Stream!Next \/ UNCHANGED <<currentPosition, reply>>
  BY DEF Stream!streamVars
<1> USE CachingStreamAssumption
<1>1. CASE OthersMoveParent
  BY <1>1 DEF OthersMoveParent, windowVars, currentPosition
<1>2. ASSUME NEW offset \in Offsets, SeekInside(offset)
      PROVE  Stream!Seek(offset)
  <2>1. CASE SeekHit(offset)
    BY <2>1 DEF SeekHit, Stream!Seek, Stream!Told, currentPosition, Inv, TypeOK
  <2>2. CASE SeekMiss(offset)
    <3>1. offset \in Nat
      OBVIOUS
    <3>2. currentPosition' = offset
      BY <2>2, <3>1 DEF SeekMiss, EmptyWindow, currentPosition
    <3> QED
      BY <2>2, <3>2 DEF SeekMiss, Stream!Seek, Stream!Told
  <2> QED
    BY <1>2, <2>1, <2>2 DEF SeekInside
<1>3. ASSUME NEW offset \in Offsets, SeekForward(offset)
      PROVE  Stream!SeekForward
  BY <1>3 DEF SeekForward, EmptyWindow, Stream!SeekForward, Stream!Told,
              currentPosition, Inv, TypeOK
<1>4. ASSUME SeekEnd PROVE Stream!SeekEnd
  BY <1>4 DEF SeekEnd, EmptyWindow, Stream!SeekEnd, Stream!Told,
              currentPosition, Inv, TypeOK
<1>5. ASSUME Tell PROVE Stream!Tell
  BY <1>5 DEF Tell, windowVars, Stream!Tell, Stream!Told, currentPosition
<1>6. ASSUME NEW n \in Requests, ReadLittle(n) PROVE Stream!Read(n)
  <2>1. n \in 1..CacheSize
    BY <1>6 DEF ReadLittle
  <2>2. CASE ReadRefill(n)
    BY <2>1, <2>2, ParentArrives, RefillIsRead DEF ReadRefill
  <2>3. CASE ReadWindow(n)
    <3>1. n <= available /\ egptr > 0
      BY <2>1, <2>3 DEF ReadWindow, available, Inv, TypeOK
    <3>2. held = bufferOffset /\ bufferOffset + egptr <= FileLen
      BY <3>1 DEF Inv, WindowMirrors, InsideFile
    <3>3. currentPosition + n <= FileLen /\ held + gptr = currentPosition
      BY <2>1, <3>1, <3>2 DEF available, currentPosition, Inv, TypeOK
    <3>4. currentPosition' = currentPosition + n
      BY <2>1, <2>3 DEF ReadWindow, currentPosition, Inv, TypeOK
    <3>5. reply' = Delivered(currentPosition..(currentPosition + n - 1))
      BY <2>3, <3>3 DEF ReadWindow
    <3> QED
      BY <2>1, <3>3, <3>4, <3>5, ReadIsRead
  <2> QED
    BY <1>6, <2>2, <2>3, LittleReads
<1>7. ASSUME CharInside PROVE Stream!Read(1)
  <2>1. CASE CharInWindow
    <3>1. egptr > 0
      BY <2>1 DEF CharInWindow, Inv, TypeOK
    <3>2. held = bufferOffset /\ bufferOffset + egptr <= FileLen
      BY <3>1 DEF Inv, WindowMirrors, InsideFile
    <3>3. currentPosition + 1 <= FileLen /\ held + gptr = currentPosition
      BY <2>1, <3>2 DEF CharInWindow, currentPosition, Inv, TypeOK
    <3>4. currentPosition' = currentPosition + 1
      BY <2>1 DEF CharInWindow, currentPosition, Inv, TypeOK
    <3>5. currentPosition..(currentPosition + 1 - 1) = {currentPosition}
      BY ParentArrives
    <3>6. reply' = Delivered(currentPosition..(currentPosition + 1 - 1))
      BY <2>1, <3>3, <3>5 DEF CharInWindow
    <3> QED
      BY <3>3, <3>4, <3>6, ReadIsRead
  <2>2. CASE egptr = 0 /\ parentPos = bufferOffset /\ CharUnderflow
    <3>1. currentPosition = bufferOffset
      BY <2>2 DEF currentPosition, Inv, TypeOK
    <3>2. Refill(currentPosition, 1) /\ bufferOffset' = currentPosition
      BY <2>2, <3>1 DEF CharUnderflow
    <3> QED
      BY <3>2, RefillIsRead
  <2> QED
    BY <1>7, <2>1, <2>2 DEF CharInside
<1>8. CASE UNCHANGED vars
  BY <1>8 DEF vars, windowVars, currentPosition
<1> QED
  BY <1>1, <1>2, <1>3, <1>4, <1>5, <1>6, <1>7, <1>8 DEF LibraryNext, Stream!Next

\* Used the way the library uses it, a cache of any size over a file of any
\* length implements a stream of its own.
THEOREM CacheImplementsStream == LibrarySpec => LooksLikeAStream
<1> QED
  BY MapsToInit, MapsToNext, Invariance, PTL
  DEF LibrarySpec, LooksLikeAStream, Stream!Spec
=============================================================================
