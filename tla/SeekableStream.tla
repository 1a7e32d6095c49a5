---------------------------- MODULE SeekableStream ----------------------------
(***************************************************************************)
(* What the readers of the library take a std::streambuf to be: a file, a  *)
(* position in it, and reads that deliver the bytes at the position and    *)
(* move it on.  A byte is named by its place in the file, so that a read   *)
(* delivers a set of places.  Where a relative seek leaves the position is *)
(* not promised: every reader seeks to an absolute offset after one.       *)
(***************************************************************************)
EXTENDS Integers

CONSTANTS
    Offsets,     \* the absolute offsets readers seek to
    Requests,    \* the numbers of bytes readers ask for
    StopsAtEnd,  \* a seek past the end ends at the end
    MayFail      \* a call may throw

VARIABLES
    len,    \* the bytes that can be read, fixed
    pos,    \* the position
    reply   \* what was called last, and the answer

streamVars == <<len, pos, reply>>

Calls == {"seek", "tell", "end", "forward", "read", "threw"}
Told(call, o) == [call |-> call, bytes |-> {}, at |-> o]
Delivered(B) == [call |-> "read", bytes |-> B, at |-> 0]

Available(o, n) == {p \in o..(o + n - 1) : p < len}

Init == len \in Nat /\ pos \in 0..len /\ reply = Told("tell", 0)

Seek(o) ==
    /\ pos' = IF StopsAtEnd /\ o > len THEN len ELSE o
    /\ reply' = Told("seek", pos')

Tell == reply' = Told("tell", pos) /\ UNCHANGED pos

\* The end is asked for to learn the length of the file.
SeekEnd == pos' \in Nat /\ reply' = Told("end", len)

SeekForward == pos' \in Nat /\ reply' = Told("forward", reply'.at)

Read(n) ==
    /\ reply' = Delivered(Available(pos, n))
    /\ \E m \in 0..n :
        /\ Available(pos, n) = pos..(pos + m - 1)
        /\ pos' = pos + m

\* What was read before the exception is lost, the position has moved.
Fail == MayFail /\ pos' \in Nat /\ reply' = Told("threw", 0)

Next ==
    /\ UNCHANGED len
    /\ \/ \E o \in Offsets : Seek(o)
       \/ Tell
       \/ SeekEnd
       \/ SeekForward
       \/ \E n \in Requests : Read(n)
       \/ Fail

Spec == Init /\ [][Next]_streamVars
=============================================================================
