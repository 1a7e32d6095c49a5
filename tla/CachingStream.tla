---------------------------- MODULE CachingStream ----------------------------
(***************************************************************************)
(* CachingStreamBuffer: a std::streambuf that reads its parent through a   *)
(* window of cacheSize bytes.  The library puts one over every file it     *)
(* opens, and every iterator puts two more over the stream of the file, so *)
(* that several caches share one parent: between two calls to a cache the  *)
(* parent's position may be anywhere.                                      *)
(*                                                                         *)
(* A byte is named by its place in the parent.  The buffer then is known   *)
(* from the place of its first byte: the parent is read in one piece.      *)
(***************************************************************************)
EXTENDS Integers, FiniteSetsExt

CONSTANTS
    CacheSize,  \* cacheSize
    FileLen,    \* bytes the parent has
    Offsets,    \* the absolute offsets its users seek to
    Requests,   \* the numbers of bytes they ask for at once
    Furthest    \* bound on how far the parent is sought past its end, for TLC

ASSUME CachingStreamAssumption ==
    /\ CacheSize \in Nat \ {0} /\ FileLen \in Nat /\ Furthest \in Nat
    /\ Offsets \subseteq Nat
    /\ Requests \subseteq Nat \ {0} /\ 1 \in Requests

VARIABLES
    parentKind,    \* "file": a filebuf; "decoded": a decrypting or unpacking stream
    parentPos,     \* where the parent stands
    bufferOffset,  \* bufferOffset
    held,          \* the place of buffer[0]
    gptr,          \* gptr() - eback()
    egptr,         \* egptr() - eback()
    reply          \* what was called last, and the answer

parentVars == <<parentKind, parentPos>>
windowVars == <<bufferOffset, held, gptr, egptr>>
vars == <<parentVars, windowVars, reply>>

Calls == {"seek", "tell", "end", "forward", "read"}
Told(call, o) == [call |-> call, bytes |-> {}, at |-> o]
Delivered(B) == [call |-> "read", bytes |-> B, at |-> 0]
Replies == [call : Calls, bytes : SUBSET Nat, at : Nat]

-----------------------------------------------------------------------------
(***************************************************************************)
(* The parent.  A filebuf seeks wherever it is told; a decoding stream     *)
(* stops at the end of its data.  Both deliver what is left.               *)
(***************************************************************************)
SeekParent(o) == IF parentKind = "file" \/ o <= FileLen THEN o ELSE FileLen
BytesLeft(o) == IF o < FileLen THEN FileLen - o ELSE 0
ReadParent(o, n) == IF n < BytesLeft(o) THEN n ELSE BytesLeft(o)

\* setg(buffer, buffer, buffer)
EmptyWindow == gptr' = 0 /\ egptr' = 0 /\ UNCHANGED held

currentPosition == bufferOffset + gptr
available == egptr - gptr

\* Mutant of InWindow: the whole buffer is taken to be filled.
InBuffer(offset) ==
    bufferOffset <= offset /\ offset < bufferOffset + CacheSize

InWindow(offset) ==
    bufferOffset <= offset /\ offset < bufferOffset + available

\* Where seekBeginning leaves the parent: at the start when it could not go
\* where it was sent.
Landing(offset) == IF SeekParent(offset) = offset THEN offset ELSE 0

\* underflow() with the parent at `from`; the first `taken` bytes, or what there
\* is of them, go to the caller at once.
Refill(from, taken) ==
    LET got == ReadParent(from, CacheSize)
        n == IF taken < got THEN taken ELSE got
    IN /\ parentPos' = from + got
       /\ held' = from
       /\ gptr' = n /\ egptr' = got
       /\ reply' = Delivered(from..(from + n - 1))

-----------------------------------------------------------------------------
\* The constructor takes the position of the parent over.
Init ==
    /\ parentKind \in {"file", "decoded"}
    /\ parentPos \in 0..FileLen
    /\ bufferOffset = parentPos
    /\ held = 0 /\ gptr = 0 /\ egptr = 0
    /\ reply = Told("tell", 0)

\* Another cache over the same parent, or a user of the parent itself.
OthersMoveParent ==
    /\ parentPos' \in 0..FileLen
    /\ UNCHANGED <<parentKind, windowVars, reply>>

\* seekBeginning
SeekHit(offset) ==
    /\ InWindow(offset)
    /\ gptr' = offset - bufferOffset
    /\ reply' = Told("seek", offset)
    /\ UNCHANGED <<parentVars, bufferOffset, held, egptr>>

\* Mutant of SeekMiss: the window is emptied but still said to start where it did.
SeekMissUnnoted(offset) ==
    /\ ~InWindow(offset)
    /\ parentPos' = Landing(offset)
    /\ EmptyWindow
    /\ reply' = Told("seek", offset)
    /\ UNCHANGED <<parentKind, bufferOffset>>

SeekMiss(offset) ==
    /\ ~InWindow(offset)
    /\ parentPos' = Landing(offset)
    /\ bufferOffset' = offset
    /\ EmptyWindow
    /\ reply' = Told("seek", offset)
    /\ UNCHANGED parentKind

\* seekEnd(0): bufferOffset stays, and so does what currentPosition() says.
SeekEnd ==
    /\ parentPos' = FileLen
    /\ EmptyWindow
    /\ reply' = Told("end", FileLen)
    /\ UNCHANGED <<parentKind, bufferOffset>>

\* seekCurrent: 0 asks for the position, anything else is counted from where
\* the parent stands, which is at the end of the window or elsewhere.
Tell ==
    /\ reply' = Told("tell", currentPosition)
    /\ UNCHANGED <<parentVars, windowVars>>

SeekForward(offset) ==
    /\ offset > 0 /\ parentPos + offset <= Furthest
    /\ parentPos' = SeekParent(parentPos + offset)
    /\ EmptyWindow
    /\ reply' = Told("forward", parentPos')
    /\ UNCHANGED <<parentKind, bufferOffset>>

(***************************************************************************)
(* xsgetn, one action per branch.  More than the window can ever hold is   *)
(* read past it.  More than it holds now makes seekoff() look for the      *)
(* current position: not found, the parent is sent there before the        *)
(* refill; found, it is not, and the refill takes what comes next in it.   *)
(***************************************************************************)
ReadDirect(n) ==
    /\ n > CacheSize
    /\ LET from == SeekParent(currentPosition)
           got == ReadParent(from, n)
       IN /\ parentPos' = from + got
          /\ reply' = Delivered(from..(from + got - 1))
    /\ EmptyWindow
    /\ UNCHANGED <<parentKind, bufferOffset>>

\* Mutant of ReadRefill: the parent is read where it stands.
ReadRefillInPlace(n) ==
    /\ available < n /\ n <= CacheSize
    /\ ~InWindow(currentPosition)
    /\ bufferOffset' = currentPosition
    /\ Refill(parentPos, n)
    /\ UNCHANGED parentKind

ReadRefill(n) ==
    /\ available < n /\ n <= CacheSize
    /\ ~InWindow(currentPosition)
    /\ bufferOffset' = currentPosition
    /\ Refill(Landing(currentPosition), n)
    /\ UNCHANGED parentKind

ReadDropping(n) ==
    /\ available < n /\ n <= CacheSize
    /\ InWindow(currentPosition)
    /\ Refill(parentPos, n)
    /\ UNCHANGED <<parentKind, bufferOffset>>

ReadWindow(n) ==
    /\ n <= available /\ n <= CacheSize
    /\ reply' = Delivered((held + gptr)..(held + gptr + n - 1))
    /\ gptr' = gptr + n
    /\ UNCHANGED <<parentVars, bufferOffset, held, egptr>>

Read(n) == ReadDirect(n) \/ ReadRefill(n) \/ ReadDropping(n) \/ ReadWindow(n)

(***************************************************************************)
(* One step of an istreambuf_iterator, the way text blocks are loaded and  *)
(* records are saved: at the end of the window the inherited sbumpc()      *)
(* calls underflow() with nobody looking at bufferOffset.                  *)
(***************************************************************************)
CharInWindow ==
    /\ gptr < egptr
    /\ reply' = Delivered({held + gptr})
    /\ gptr' = gptr + 1
    /\ UNCHANGED <<parentVars, bufferOffset, held, egptr>>

CharUnderflow ==
    /\ gptr = egptr
    /\ Refill(parentPos, 1)
    /\ UNCHANGED <<parentKind, bufferOffset>>

Next ==
    \/ OthersMoveParent
    \/ \E offset \in Offsets :
        SeekHit(offset) \/ SeekMiss(offset) \/ SeekForward(offset)
    \/ SeekEnd
    \/ Tell
    \/ \E n \in Requests : Read(n)
    \/ CharInWindow
    \/ CharUnderflow

-----------------------------------------------------------------------------
(***************************************************************************)
(* How the library uses a cache over a whole file.  It seeks to places     *)
(* inside a decoded stream.  It asks for little at a time: blocks, record  *)
(* IDs and records are small beside a window of 1 or 10 MiB, and a request *)
(* that reaches past the end comes from a reader past the middle of its    *)
(* window.  Characters are read one by one inside the window, or where an  *)
(* absolute seek has just left the parent.                                 *)
(***************************************************************************)
SeekInside(offset) ==
    /\ parentKind = "file" \/ offset <= FileLen
    /\ SeekHit(offset) \/ SeekMiss(offset)

ReadLittle(n) ==
    /\ 2 * n <= CacheSize
    /\ currentPosition + n <= FileLen \/ available <= gptr
    /\ Read(n)

CharInside ==
    \/ CharInWindow
    \/ egptr = 0 /\ parentPos = bufferOffset /\ CharUnderflow

LibraryNext ==
    \/ OthersMoveParent
    \/ \E offset \in Offsets : SeekInside(offset) \/ SeekForward(offset)
    \/ SeekEnd
    \/ Tell
    \/ \E n \in Requests : ReadLittle(n)
    \/ CharInside

Spec == Init /\ [][Next]_vars
LibrarySpec == Init /\ [][LibraryNext]_vars

-----------------------------------------------------------------------------
TypeOK ==
    /\ parentKind \in {"file", "decoded"}
    /\ parentPos \in Nat /\ bufferOffset \in Nat /\ held \in Nat
    /\ egptr \in 0..CacheSize /\ gptr \in 0..egptr
    /\ reply \in Replies

\* A window that holds something holds the bytes of the file from bufferOffset
\* on, and stops short of its size only at the end of the file
\* (CachingStreamBuffer::seekBeginning decides on bufferOffset alone whether a
\* place is in the window).
WindowMirrors ==
    egptr > 0 =>
        /\ held = bufferOffset
        /\ egptr = CacheSize \/ bufferOffset + egptr = FileLen

\* Used that way a cache cannot be told from a stream of its own: every read
\* delivers the bytes at the position, as many as were asked for or are left,
\* whatever the other users of the parent do in between, the position asked for
\* is the one the next read starts at, and the end is the length of the file.
Stream == INSTANCE SeekableStream WITH
    len <- FileLen, pos <- currentPosition, StopsAtEnd <- FALSE, MayFail <- FALSE
LooksLikeAStream == Stream!Spec

\* "Determine how many of the requested bytes are available": whatever was done
\* before, a request no larger than the window delivers what the file has at the
\* current position, short only at its end (CachingStreamBuffer::xsgetn).
ReadsWhatIsThere ==
    [][\A n \in Requests :
        n <= CacheSize /\ Read(n) =>
            reply' = Delivered(Stream!Available(currentPosition, n))]_vars
=============================================================================
