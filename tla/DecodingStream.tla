---------------------------- MODULE DecodingStream ----------------------------
(***************************************************************************)
(* The three streams that make their data as it is asked for: AESGCMStream *)
(* decrypts and HeatshrinkStream unpacks another stream, CallbackBuffer    *)
(* calls the read method of a Python object.  All keep everything they     *)
(* made in one growing buffer, which is the get area too; underflow() adds *)
(* the next block to it and the seeks call underflow() in a loop until the *)
(* place asked for is there.                                               *)
(*                                                                         *)
(* A byte is named by its place in the decoded data.  A source is          *)
(* described by what its blocks come to: ends[i] is the length of the      *)
(* decoded data after i of them.  The reading of a stream by bytes,        *)
(* std::streambuf::sgetn, is that of the standard library.                 *)
(***************************************************************************)
EXTENDS Integers, Sequences

CONSTANTS
    Sources,   \* the sources considered
    Offsets,   \* the absolute and relative offsets sought
    Requests   \* the numbers of bytes asked for

Kinds == {"decrypting", "unpacking", "callback"}

(***************************************************************************)
(* fails: the tag does not match, or less than a tag is left behind the    *)
(* header (decrypting); the stream below is one that fails so (unpacking); *)
(* the read method raises an exception (callback).  What ends then lists   *)
(* is what comes before that.  The last block of an encrypted file may     *)
(* hold its tag alone, the last block of a compressed one less than it     *)
(* takes for a byte.                                                       *)
(***************************************************************************)
ASSUME DecodingStreamAssumption ==
    /\ Offsets \subseteq Nat /\ Requests \subseteq Nat \ {0}
    /\ \A s \in Sources :
        /\ s.kind \in Kinds /\ s.fails \in BOOLEAN
        /\ s.ends \in Seq(Nat)
        /\ \A i, j \in DOMAIN s.ends : i <= j => s.ends[i] <= s.ends[j]

VARIABLES
    source,    \* the encoded data, never written
    taken,     \* blocks read of it
    buffered,  \* buffer.size(), egptr() - eback()
    gptr,      \* gptr() - eback()
    endFound,  \* endFound
    pc,        \* "idle", "busy" in a call, or "crashed"
    call,      \* the call: its name and its argument, a relative one added up
    from,      \* gptr when the read began
    sawEnd,    \* underflow() has answered eof in this call
    reply      \* what was called last, and the answer

sourceVars == <<source, taken, buffered, endFound>>
callVars == <<pc, call, from, sawEnd>>
vars == <<sourceVars, gptr, callVars, reply>>

Replies == {"seek", "tell", "end", "forward", "read", "threw"}
Told(c, o) == [call |-> c, bytes |-> {}, at |-> o]
Delivered(B) == [call |-> "read", bytes |-> B, at |-> 0]

Blocks == Len(source.ends)
UsedUp == taken = Blocks + (IF source.fails THEN 1 ELSE 0)
Total == IF Blocks = 0 THEN 0 ELSE source.ends[Blocks]

Init ==
    /\ source \in Sources
    /\ taken = 0 /\ buffered = 0 /\ gptr = 0 /\ endFound = FALSE
    /\ pc = "idle" /\ call = [op |-> "tell", n |-> 0] /\ from = 0
    /\ sawEnd = FALSE
    /\ reply = Told("tell", 0)

-----------------------------------------------------------------------------
(***************************************************************************)
(* The calls.                                                              *)
(***************************************************************************)
Begin(op, n) ==
    /\ pc = "idle" /\ pc' = "busy"
    /\ call' = [op |-> op, n |-> n]
    /\ from' = gptr /\ sawEnd' = FALSE
    /\ UNCHANGED <<sourceVars, gptr, reply>>

Answer(r) == pc' = "idle" /\ reply' = r /\ UNCHANGED <<call, from, sawEnd>>

BeginSeek(o) == Begin("seek", o)
BeginSeekForward(o) == o > 0 /\ Begin("forward", gptr + o)
BeginSeekEnd == Begin("end", 0)
BeginRead(n) == Begin("read", n)

Tell ==
    /\ pc = "idle" /\ Answer(Told("tell", gptr))
    /\ UNCHANGED <<sourceVars, gptr>>

\* What the running call still asks of underflow().
Wanting ==
    /\ pc = "busy"
    /\ \/ call.op \in {"seek", "forward"} /\ ~endFound /\ call.n >= buffered
       \/ call.op = "end" /\ ~sawEnd
       \/ call.op = "read" /\ ~sawEnd /\ gptr = buffered /\ gptr - from < call.n

-----------------------------------------------------------------------------
(***************************************************************************)
(* underflow() of AESGCMStream.  The end of the encrypted data is told by  *)
(* position, before endFound is asked for anything.                        *)
(***************************************************************************)
TakeBlock ==
    /\ Wanting /\ taken < Blocks
    /\ taken' = taken + 1 /\ buffered' = source.ends[taken + 1]
    /\ UNCHANGED <<source, gptr, pc, call, from, reply>>

Last == taken + 1 = Blocks /\ ~source.fails

\* Mutant of DecryptBlock: the end is taken to be found with the last whole block.
DecryptBlockEarly ==
    /\ source.kind = "decrypting"
    /\ TakeBlock
    /\ endFound' = (taken + 2 >= Blocks)
    /\ sawEnd' = (Last /\ buffered' = buffered)

DecryptBlock ==
    /\ source.kind = "decrypting"
    /\ TakeBlock
    /\ endFound' = Last
    /\ sawEnd' = (Last /\ buffered' = buffered)

\* An incomplete block, or a tag that does not match: the data is used up.
DecryptThrows ==
    /\ source.kind = "decrypting"
    /\ Wanting /\ taken = Blocks /\ source.fails
    /\ taken' = taken + 1
    /\ Answer(Told("threw", 0))
    /\ UNCHANGED <<source, buffered, gptr, endFound>>

DecryptEnded ==
    /\ source.kind = "decrypting"
    /\ Wanting /\ UsedUp
    /\ sawEnd' = TRUE
    /\ UNCHANGED <<sourceVars, gptr, pc, call, from, reply>>

(***************************************************************************)
(* underflow() of HeatshrinkStream: 16 KiB at a time go through the        *)
(* decoder.  The character at gptr is looked at even if the block came to  *)
(* nothing and there is none: a crash, or a character that is not one.     *)
(***************************************************************************)
UnpackBlock ==
    /\ source.kind = "unpacking"
    /\ TakeBlock
    /\ buffered' > gptr
    /\ UNCHANGED <<endFound, sawEnd>>

UnpackNothing ==
    /\ source.kind = "unpacking"
    /\ Wanting /\ taken < Blocks /\ source.ends[taken + 1] <= gptr
    /\ taken' = taken + 1 /\ buffered' = source.ends[taken + 1]
    /\ \/ pc' = "crashed" /\ UNCHANGED gptr
       \/ /\ gptr' = IF call.op = "read" THEN gptr + 1 ELSE gptr
          /\ UNCHANGED pc
    /\ UNCHANGED <<source, endFound, call, from, sawEnd, reply>>

\* The stream below throws, once: asked again it has no more data.
UnpackThrows ==
    /\ source.kind = "unpacking"
    /\ Wanting /\ taken = Blocks /\ source.fails
    /\ taken' = taken + 1
    /\ Answer(Told("threw", 0))
    /\ UNCHANGED <<source, buffered, gptr, endFound>>

\* Mutant of UnpackEnd: the end is not noted.
UnpackEndUnnoted ==
    /\ source.kind = "unpacking"
    /\ Wanting /\ UsedUp /\ ~endFound
    /\ sawEnd' = (gptr >= buffered)
    /\ UNCHANGED <<sourceVars, gptr, pc, call, from, reply>>

UnpackEnd ==
    /\ source.kind = "unpacking"
    /\ Wanting /\ UsedUp /\ ~endFound
    /\ endFound' = TRUE
    /\ sawEnd' = (gptr >= buffered)
    /\ UNCHANGED <<source, taken, buffered, gptr, pc, call, from, reply>>

\* underflow() of CallbackBuffer: read answers up to 1024 bytes, 0 at the end.
CallbackBlock ==
    /\ source.kind = "callback"
    /\ TakeBlock
    /\ UNCHANGED <<endFound, sawEnd>>

CallbackEnd ==
    /\ source.kind = "callback"
    /\ Wanting /\ taken = Blocks /\ ~endFound /\ ~source.fails
    /\ endFound' = TRUE /\ sawEnd' = TRUE
    /\ UNCHANGED <<source, taken, buffered, gptr, pc, call, from, reply>>

\* Mutant of CallbackThrows: the exception is taken for the end.
CallbackSwallows ==
    /\ source.kind = "callback"
    /\ Wanting /\ taken = Blocks /\ source.fails
    /\ endFound' = TRUE /\ sawEnd' = TRUE
    /\ UNCHANGED <<source, taken, buffered, gptr, pc, call, from, reply>>

CallbackThrows ==
    /\ source.kind = "callback"
    /\ Wanting /\ taken = Blocks /\ source.fails
    /\ Answer(Told("threw", 0))
    /\ UNCHANGED <<sourceVars, gptr>>

\* `if(endFound)` of the two: only a search for the end comes here.
AfterEnd ==
    /\ source.kind # "decrypting"
    /\ Wanting /\ endFound
    /\ sawEnd' = TRUE
    /\ UNCHANGED <<sourceVars, gptr, pc, call, from, reply>>

Underflow ==
    \/ DecryptBlock \/ DecryptThrows \/ DecryptEnded
    \/ UnpackBlock \/ UnpackNothing \/ UnpackThrows \/ UnpackEnd
    \/ CallbackBlock \/ CallbackEnd \/ CallbackThrows
    \/ AfterEnd

-----------------------------------------------------------------------------
(***************************************************************************)
(* What the calls do when their loop has ended.                            *)
(***************************************************************************)
Ready(op) == pc = "busy" /\ call.op = op /\ ~Wanting

\* Mutant of Land: a place behind the end is gone to.
LandAnywhere(op) ==
    /\ gptr' = call.n
    /\ Answer(Told(op, gptr'))
    /\ UNCHANGED sourceVars

Land(op) ==
    /\ gptr' = IF call.n < buffered THEN call.n ELSE buffered
    /\ Answer(Told(op, gptr'))
    /\ UNCHANGED sourceVars

LandSeek == Ready("seek") /\ Land("seek")

LandForward == source.kind # "callback" /\ Ready("forward") /\ Land("forward")

\* The comparison of CallbackBuffer is the other way round.
LandCallbackForward ==
    /\ source.kind = "callback" /\ Ready("forward")
    /\ gptr' = IF call.n >= buffered THEN call.n ELSE buffered
    /\ Answer(Told("forward", gptr'))
    /\ UNCHANGED sourceVars

LandEnd ==
    /\ Ready("end")
    /\ gptr' = buffered
    /\ Answer(Told("end", buffered))
    /\ UNCHANGED sourceVars

\* sgetn(): copy what there is, make more, until there is enough or no more.
Copy ==
    /\ pc = "busy" /\ call.op = "read" /\ gptr < buffered /\ gptr - from < call.n
    /\ gptr' = IF from + call.n < buffered THEN from + call.n ELSE buffered
    /\ UNCHANGED <<sourceVars, callVars, reply>>

\* A get area that ends before it begins is copied in its negative length.
CopyBeyond ==
    /\ pc = "busy" /\ call.op = "read" /\ gptr > buffered /\ gptr - from < call.n
    /\ pc' = "crashed"
    /\ UNCHANGED <<sourceVars, gptr, call, from, sawEnd, reply>>

FinishRead ==
    /\ pc = "busy" /\ call.op = "read"
    /\ gptr - from = call.n \/ sawEnd
    /\ Answer(Delivered(from..(gptr - 1)))
    /\ UNCHANGED <<sourceVars, gptr>>

Step ==
    \/ Underflow
    \/ LandSeek \/ LandForward \/ LandCallbackForward \/ LandEnd
    \/ Copy \/ CopyBeyond \/ FinishRead

Next ==
    \/ \E o \in Offsets : BeginSeek(o) \/ BeginSeekForward(o)
    \/ BeginSeekEnd
    \/ Tell
    \/ \E n \in Requests : BeginRead(n)
    \/ Step

-----------------------------------------------------------------------------
(***************************************************************************)
(* Sources whose every block comes to something, and readers that seek to  *)
(* an absolute offset after a relative one has left the data.              *)
(***************************************************************************)
Ordinary(s) ==
    s.kind = "unpacking" =>
        \A i \in DOMAIN s.ends : s.ends[i] > (IF i = 1 THEN 0 ELSE s.ends[i - 1])

OrdinaryStep ==
    \/ DecryptBlock \/ DecryptThrows \/ DecryptEnded
    \/ UnpackBlock \/ UnpackThrows \/ UnpackEnd
    \/ CallbackBlock \/ CallbackEnd \/ CallbackThrows
    \/ AfterEnd
    \/ LandSeek \/ LandForward \/ LandCallbackForward \/ LandEnd
    \/ Copy \/ FinishRead

OrdinaryNext ==
    \/ \E o \in Offsets : BeginSeek(o)
    \/ BeginSeekEnd
    \/ Tell
    \/ /\ gptr <= buffered
       /\ \/ \E o \in Offsets : BeginSeekForward(o)
          \/ \E n \in Requests : BeginRead(n)
    \/ OrdinaryStep

Spec == Init /\ [][Next]_vars
FairSpec == Spec /\ WF_vars(Step)
OrdinaryInit == Init /\ Ordinary(source)
OrdinarySpec == OrdinaryInit /\ [][OrdinaryNext]_vars
FairOrdinarySpec == OrdinarySpec /\ WF_vars(OrdinaryStep)

-----------------------------------------------------------------------------
TypeOK ==
    /\ source \in Sources
    /\ taken \in 0..(Blocks + 1)
    /\ buffered \in 0..Total
    /\ gptr \in Nat
    /\ source.kind # "callback" => gptr <= buffered
    /\ endFound \in BOOLEAN /\ sawEnd \in BOOLEAN
    /\ pc \in {"idle", "busy", "crashed"}
    /\ call \in [op : {"seek", "forward", "end", "read", "tell"}, n : Nat]
    /\ from \in Nat
    /\ reply \in [call : Replies, bytes : SUBSET Nat, at : Nat]

\* However it makes its data, and whatever was asked of it before or failed, the
\* stream is a file of its decoded bytes: a read delivers the bytes at its
\* position and not another number of them, an absolute seek goes where it is
\* sent or to the end, the length is told truly (the three seekoff and
\* underflow).  A call that throws moves the position and nothing else.
position == IF pc = "busy" /\ call.op = "read" THEN from ELSE gptr
Stream == INSTANCE SeekableStream WITH
    len <- Total, pos <- position,
    StopsAtEnd <- TRUE, MayFail <- TRUE
LooksLikeAStream == Stream!Spec

\* A reader is never told that the data ends when the Python object has failed,
\* by a length or by a read that falls short: it gets the exception
\* (CallbackBuffer::underflow sets endFound only for an answer of 0).
EndIsTrue ==
    [][source.kind = "callback" /\ source.fails /\ reply' # reply =>
        /\ reply'.call # "end"
        /\ reply'.call = "read" => gptr - from = call.n]_vars

\* A source is whole when its tag matches and the read method does not raise.
Whole(s) == ~s.fails /\ (s.kind = "decrypting" => s.ends # <<>>)

\* On a whole source every loop comes to an end, whatever the offset.
CallsReturn == pc = "busy" /\ Whole(source) ~> pc # "busy"

\* "Read to end", "Read the parent stream to the end": the loops of the seeks
\* end where the data does, on a source that is not whole too.
LoopsEnd == pc = "busy" ~> pc # "busy"
=============================================================================
