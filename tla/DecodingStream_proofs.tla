------------------------ MODULE DecodingStream_proofs ------------------------
(***************************************************************************)
(* Proofs about DecodingStream, for sources, offsets and requests of every *)
(* size.                                                                   *)
(***************************************************************************)
EXTENDS DecodingStream, TLAPS

\* The length of the decoded data of s after k blocks.
EndOf(s, k) == IF k = 0 THEN 0 ELSE s.ends[k]

\* The buffer holds what the blocks read come to, and the end is only found
\* where it is.
BufferExact ==
    /\ buffered = EndOf(source, IF taken <= Blocks THEN taken ELSE Blocks)
    /\ endFound => buffered = Total

\* What is known of the call that is running.
CallInOrder ==
    pc = "busy" =>
        /\ call.op \in {"seek", "forward", "end", "read"}
        /\ call.op = "seek" => call.n \in Offsets
        /\ call.op = "read" =>
            /\ call.n \in Requests
            /\ from <= gptr /\ gptr <= buffered /\ gptr - from <= call.n
        /\ sawEnd => buffered = Total /\ (call.op = "read" => gptr = buffered)

Inv == TypeOK /\ Ordinary(source) /\ pc # "crashed" /\ BufferExact /\ CallInOrder

LEMMA SourceFacts ==
    ASSUME source \in Sources
    PROVE  /\ Blocks \in Nat /\ Total \in Nat
           /\ source.ends \in Seq(Nat)
           /\ EndOf(source, Blocks) = Total /\ EndOf(source, 0) = 0
           /\ \A k \in 0..Blocks : EndOf(source, k) \in Nat /\ EndOf(source, k) <= Total
           /\ \A k \in 1..Blocks : EndOf(source, k - 1) <= EndOf(source, k)
           /\ \A k \in 1..Blocks : EndOf(source, k) = source.ends[k]
<1>1. source.ends \in Seq(Nat)
  BY DecodingStreamAssumption
<1>2. \A i, j \in DOMAIN source.ends : i <= j => source.ends[i] <= source.ends[j]
  BY DecodingStreamAssumption
<1>3. Blocks \in Nat /\ DOMAIN source.ends = 1..Blocks
  BY <1>1 DEF Blocks
<1>4. \A k \in 1..Blocks : source.ends[k] \in Nat
  BY <1>1, <1>3
<1>5. Total \in Nat
  BY <1>3, <1>4 DEF Total
<1>6. \A k \in 1..Blocks : source.ends[k] <= Total
  BY <1>2, <1>3, <1>4 DEF Total
<1>7. \A k \in 0..Blocks : EndOf(source, k) \in Nat /\ EndOf(source, k) <= Total
  BY <1>3, <1>4, <1>5, <1>6 DEF EndOf
<1>8. \A k \in 1..Blocks : EndOf(source, k - 1) <= EndOf(source, k)
  <2> SUFFICES ASSUME NEW k \in 1..Blocks PROVE EndOf(source, k - 1) <= EndOf(source, k)
    OBVIOUS
  <2>1. CASE k = 1
    BY <1>3, <1>4, <2>1 DEF EndOf
  <2>2. CASE k > 1
    <3>1. k - 1 \in 1..Blocks /\ k - 1 <= k
      BY <1>3, <2>2
    <3>2. source.ends[k - 1] <= source.ends[k]
      BY <1>2, <1>3, <3>1
    <3> QED
      BY <1>3, <2>2, <3>1, <3>2 DEF EndOf
  <2> QED
    BY <1>3, <2>1, <2>2
<1> QED
  BY <1>1, <1>3, <1>5, <1>7, <1>8 DEF EndOf, Total, Blocks

\* An answer is of the type of answers.
LEMMA ReplyTypes ==
    /\ \A c \in Replies, o \in Nat :
        Told(c, o) \in [call : Replies, bytes : SUBSET Nat, at : Nat]
    /\ \A a \in Nat, b \in Int :
        Delivered(a..b) \in [call : Replies, bytes : SUBSET Nat, at : Nat]
  BY DEF Told, Delivered, Replies

LEMMA Initially == Init /\ Ordinary(source) => Inv
<1> SUFFICES ASSUME Init, Ordinary(source) PROVE Inv
  OBVIOUS
<1>1. source \in Sources
  BY DEF Init
<1>2. Blocks \in Nat /\ Total \in Nat /\ EndOf(source, 0) = 0
  BY <1>1, SourceFacts
<1>3. reply \in [call : Replies, bytes : SUBSET Nat, at : Nat]
  BY ReplyTypes DEF Init, Replies
<1>4. taken \in 0..(Blocks + 1) /\ buffered \in 0..Total
  BY <1>2 DEF Init
<1>5. call \in [op : {"seek", "forward", "end", "read", "tell"}, n : Nat]
  BY DEF Init
<1>6. TypeOK
  <2>1. gptr \in Nat /\ gptr <= buffered /\ from \in Nat
    BY DEF Init
  <2>2. endFound \in BOOLEAN /\ sawEnd \in BOOLEAN /\ pc \in {"idle", "busy", "crashed"}
    BY DEF Init
  <2> QED
    BY <1>1, <1>3, <1>4, <1>5, <2>1, <2>2 DEF TypeOK
<1>7. BufferExact
  BY <1>2 DEF Init, BufferExact
<1> QED
  BY <1>6, <1>7 DEF Init, Inv, CallInOrder

\* A block more keeps the buffer exact; what is left to each kind of stream is
\* to say truly whether that was the end.
LEMMA BlockKeeps ==
    ASSUME Inv, TakeBlock, endFound' \in BOOLEAN, sawEnd' \in BOOLEAN,
           endFound' => endFound \/ taken + 1 = Blocks,
           sawEnd' => sawEnd \/ (taken + 1 = Blocks /\ buffered' = buffered)
    PROVE  Inv'
<1>1. source \in Sources /\ source' = source
  BY DEF Inv, TypeOK, TakeBlock
<1>2. Blocks' = Blocks /\ Total' = Total
  BY <1>1 DEF Blocks, Total
<1>3. taken \in Nat /\ taken < Blocks /\ taken' = taken + 1 /\ Blocks \in Nat
  BY <1>1, SourceFacts DEF Inv, TypeOK, TakeBlock
<1>4. buffered = EndOf(source, taken)
  BY <1>3 DEF Inv, BufferExact
<1>5. buffered' = EndOf(source, taken + 1)
  BY <1>1, <1>3 DEF TakeBlock, EndOf
<1>6. /\ taken + 1 \in 1..Blocks /\ taken \in 0..Blocks /\ taken + 1 \in 0..Blocks
      /\ (taken + 1) - 1 = taken
  BY <1>3
<1>7. buffered \in Nat /\ buffered' \in Nat /\ buffered <= buffered'
        /\ buffered' <= Total /\ Total \in Nat
  BY <1>1, <1>4, <1>5, <1>6, SourceFacts
<1>8. taken + 1 = Blocks => buffered' = Total
  BY <1>1, <1>5, SourceFacts
<1>9. endFound \/ sawEnd => buffered' = Total
  BY <1>7 DEF Inv, BufferExact, CallInOrder, TakeBlock, Wanting
<1>10. TypeOK'
  BY <1>1, <1>2, <1>3, <1>7 DEF Inv, TypeOK, TakeBlock
<1>11. BufferExact'
  BY <1>1, <1>2, <1>3, <1>5, <1>8, <1>9 DEF BufferExact
<1>12. CallInOrder'
  <2>1. call.op = "read" => gptr = buffered /\ ~sawEnd
    BY DEF TakeBlock, Wanting
  <2>2. gptr \in Nat /\ from \in Nat
    BY DEF Inv, TypeOK
  <2> QED
    BY <1>2, <1>7, <1>8, <1>9, <2>1, <2>2 DEF CallInOrder, Inv, TakeBlock
<1> QED
  BY <1>1, <1>10, <1>11, <1>12 DEF Inv, Ordinary, TakeBlock

\* A call that ends keeps the rest, if it leaves the position in order.
LEMMA AnswerKeeps ==
    ASSUME Inv, NEW r \in [call : Replies, bytes : SUBSET Nat, at : Nat],
           Answer(r), UNCHANGED <<source, buffered, endFound>>,
           taken' = taken \/ (taken = Blocks /\ taken' = taken + 1),
           gptr' \in Nat, source.kind # "callback" => gptr' <= buffered
    PROVE  Inv'
<1>1. Blocks' = Blocks /\ Total' = Total /\ Blocks \in Nat
  BY SourceFacts DEF Blocks, Total, Inv, TypeOK
<1>2. TypeOK'
  BY <1>1 DEF Inv, TypeOK, Answer
<1>3. BufferExact'
  BY <1>1, SourceFacts DEF Inv, TypeOK, BufferExact, EndOf
<1>4. CallInOrder'
  BY DEF CallInOrder, Answer
<1> QED
  BY <1>2, <1>3, <1>4 DEF Inv, Answer, Ordinary

\* So does finding the end where it is.
LEMMA EndKeeps ==
    ASSUME Inv, Wanting, buffered = Total,
           UNCHANGED <<source, taken, buffered, gptr, pc, call, from, reply>>,
           endFound' \in BOOLEAN, sawEnd' \in BOOLEAN
    PROVE  Inv'
<1>1. Blocks' = Blocks /\ Total' = Total
  BY DEF Blocks, Total
<1>2. TypeOK'
  BY <1>1 DEF Inv, TypeOK
<1>3. BufferExact'
  BY <1>1 DEF Inv, BufferExact, EndOf
<1>4. CallInOrder'
  BY <1>1 DEF Inv, CallInOrder, Wanting
<1> QED
  BY <1>2, <1>3, <1>4 DEF Inv, Ordinary

\* With no block left the buffer is whole.
LEMMA UsedUpWhole ==
    ASSUME Inv, taken = Blocks \/ UsedUp PROVE buffered = Total
<1>1. Blocks \in Nat /\ EndOf(source, Blocks) = Total
  BY SourceFacts DEF Inv, TypeOK
<1>2. taken = Blocks \/ taken = Blocks + 1
  BY <1>1 DEF UsedUp
<1> QED
  BY <1>1, <1>2 DEF Inv, BufferExact

LEMMA BeginKeeps ==
    ASSUME Inv, NEW op \in {"seek", "forward", "end", "read"}, NEW n \in Nat,
           Begin(op, n), op = "seek" => n \in Offsets,
           op = "read" => n \in Requests /\ gptr <= buffered
    PROVE  Inv'
<1>1. Blocks' = Blocks /\ Total' = Total
  BY DEF Blocks, Total, Begin, sourceVars
<1>2. TypeOK'
  BY <1>1 DEF Inv, TypeOK, Begin, sourceVars
<1>3. BufferExact'
  BY <1>1 DEF Inv, BufferExact, Begin, sourceVars, EndOf
<1>4. CallInOrder'
  <2>1. gptr \in Nat /\ gptr' = gptr /\ from' = gptr /\ buffered' = buffered
    BY DEF Inv, TypeOK, Begin, sourceVars
  <2>2. op = "read" => n \in Nat
    OBVIOUS
  <2> QED
    BY <2>1, <2>2 DEF CallInOrder, Begin
<1> QED
  BY <1>2, <1>3, <1>4 DEF Inv, Begin, sourceVars, Ordinary

LEMMA Preserved == Inv /\ [OrdinaryNext]_vars => Inv'
<1> SUFFICES ASSUME Inv, [OrdinaryNext]_vars PROVE Inv'
  OBVIOUS
<1> USE DecodingStreamAssumption
<1>1. ASSUME NEW o \in Offsets, BeginSeek(o) PROVE Inv'
  BY <1>1, BeginKeeps DEF BeginSeek
<1>2. ASSUME NEW o \in Offsets, BeginSeekForward(o) PROVE Inv'
  <2>1. gptr + o \in Nat
    BY DEF Inv, TypeOK
  <2> QED
    BY <1>2, <2>1, BeginKeeps DEF BeginSeekForward
<1>3. CASE BeginSeekEnd
  BY <1>3, BeginKeeps DEF BeginSeekEnd
<1>4. CASE Tell
  <2>1. Told("tell", gptr) \in [call : Replies, bytes : SUBSET Nat, at : Nat]
    BY ReplyTypes DEF Inv, TypeOK, Replies
  <2> QED
    BY <1>4, <2>1, AnswerKeeps DEF Tell, sourceVars, Inv, TypeOK
<1>5. ASSUME gptr <= buffered, NEW n \in Requests, BeginRead(n) PROVE Inv'
  BY <1>5, BeginKeeps DEF BeginRead
<1>6. Told("threw", 0) \in [call : Replies, bytes : SUBSET Nat, at : Nat]
  BY ReplyTypes DEF Replies
<1>7. CASE DecryptBlock
  <2>1. source.fails \in BOOLEAN
    BY DEF Inv, TypeOK
  <2>2. endFound' \in BOOLEAN /\ sawEnd' \in BOOLEAN
    BY <1>7 DEF DecryptBlock, Last
  <2> QED
    BY <1>7, <2>2, BlockKeeps DEF DecryptBlock, Last
<1>8. CASE DecryptThrows
  BY <1>6, <1>8, AnswerKeeps DEF DecryptThrows, Inv, TypeOK
<1>9. CASE DecryptEnded
  <2>1. endFound \in BOOLEAN
    BY DEF Inv, TypeOK
  <2> QED
    BY <1>9, <2>1, EndKeeps, UsedUpWhole DEF DecryptEnded, sourceVars
<1>10. CASE UnpackBlock
  BY <1>10, BlockKeeps DEF UnpackBlock, Inv, TypeOK
<1>11. CASE UnpackThrows
  BY <1>6, <1>11, AnswerKeeps DEF UnpackThrows, Inv, TypeOK
<1>12. CASE UnpackEnd
  <2>1. sawEnd' \in BOOLEAN
    BY <1>12 DEF UnpackEnd
  <2> QED
    BY <1>12, <2>1, EndKeeps, UsedUpWhole DEF UnpackEnd
<1>13. CASE CallbackBlock
  BY <1>13, BlockKeeps DEF CallbackBlock, Inv, TypeOK
<1>14. CASE CallbackEnd
  BY <1>14, EndKeeps, UsedUpWhole DEF CallbackEnd
<1>15. CASE CallbackThrows
  BY <1>6, <1>15, AnswerKeeps DEF CallbackThrows, sourceVars, Inv, TypeOK
<1>16. CASE AfterEnd
  <2>1. endFound \in BOOLEAN /\ buffered = Total
    BY <1>16 DEF Inv, TypeOK, BufferExact, AfterEnd
  <2> QED
    BY <1>16, <2>1, EndKeeps DEF AfterEnd, sourceVars
<1>17. ASSUME NEW op \in {"seek", "forward"}, Land(op) PROVE Inv'
  <2>1. gptr' \in Nat /\ gptr' <= buffered
    <3>1. buffered \in Nat /\ call.n \in Nat
      BY SourceFacts DEF Inv, TypeOK
    <3> QED
      BY <1>17, <3>1 DEF Land
  <2>2. Told(op, gptr') \in [call : Replies, bytes : SUBSET Nat, at : Nat]
    BY <2>1, ReplyTypes DEF Replies
  <2> QED
    BY <1>17, <2>1, <2>2, AnswerKeeps DEF Land, sourceVars
<1>18. CASE LandCallbackForward
  <2>1. gptr' \in Nat
    <3>1. buffered \in Nat /\ call.n \in Nat
      BY SourceFacts DEF Inv, TypeOK
    <3> QED
      BY <1>18, <3>1 DEF LandCallbackForward
  <2>2. Told("forward", gptr') \in [call : Replies, bytes : SUBSET Nat, at : Nat]
    BY <2>1, ReplyTypes DEF Replies
  <2> QED
    BY <1>18, <2>1, <2>2, AnswerKeeps DEF LandCallbackForward, sourceVars
<1>19. CASE LandEnd
  <2>1. buffered \in Nat
    BY SourceFacts DEF Inv, TypeOK
  <2>2. Told("end", buffered) \in [call : Replies, bytes : SUBSET Nat, at : Nat]
    BY <2>1, ReplyTypes DEF Replies
  <2> QED
    BY <1>19, <2>1, <2>2, AnswerKeeps DEF LandEnd, sourceVars
<1>20. CASE Copy
  <2>1. /\ Blocks' = Blocks /\ Total' = Total /\ source' = source
        /\ buffered \in Nat /\ gptr \in Nat /\ from \in Nat /\ call.n \in Nat
    BY <1>20, SourceFacts DEF Copy, sourceVars, Blocks, Total, Inv, TypeOK
  <2>2. /\ gptr' \in Nat /\ gptr < gptr' /\ gptr' <= buffered
        /\ gptr' - from <= call.n
    BY <1>20, <2>1 DEF Copy, Inv, CallInOrder
  <2>3. ~sawEnd
    BY <1>20, <2>1 DEF Copy, Inv, CallInOrder
  <2>4. TypeOK'
    BY <1>20, <2>1, <2>2 DEF Copy, sourceVars, callVars, Inv, TypeOK
  <2>5. BufferExact'
    BY <1>20, <2>1 DEF Copy, sourceVars, Inv, BufferExact, EndOf
  <2>6. CallInOrder'
    BY <1>20, <2>1, <2>2, <2>3 DEF Copy, sourceVars, callVars, Inv, CallInOrder
  <2> QED
    BY <1>20, <2>4, <2>5, <2>6 DEF Copy, sourceVars, callVars, Inv, Ordinary
<1>21. CASE FinishRead
  <2>1. gptr - 1 \in Int /\ from \in Nat
    BY DEF Inv, TypeOK
  <2>2. Delivered(from..(gptr - 1)) \in [call : Replies, bytes : SUBSET Nat, at : Nat]
    BY <2>1, ReplyTypes
  <2> QED
    BY <1>21, <2>2, AnswerKeeps DEF FinishRead, sourceVars, Inv, TypeOK
<1>22. CASE UNCHANGED vars
  BY <1>22 DEF vars, sourceVars, callVars, Inv, TypeOK, BufferExact, CallInOrder,
     EndOf, Blocks, Total, Ordinary
<1> QED
  BY <1>1, <1>2, <1>3, <1>4, <1>5, <1>7, <1>8, <1>9, <1>10, <1>11, <1>12, <1>13,
     <1>14, <1>15, <1>16, <1>17, <1>18, <1>19, <1>20, <1>21, <1>22
  DEF OrdinaryNext, OrdinaryStep, LandSeek, LandForward

LEMMA Invariance == OrdinarySpec => []Inv
<1> QED
  BY Initially, Preserved, PTL DEF OrdinarySpec, OrdinaryInit

\* The get area lies in the buffer, and the buffer in the data.
THEOREM TypeCorrect == OrdinarySpec => []TypeOK
<1>1. Inv => TypeOK
  BY DEF Inv
<1> QED
  BY <1>1, Invariance, PTL

\* What OrdinaryNext leaves out of the steps cannot be taken: on an ordinary
\* source no block comes to nothing, and no read begins behind the buffer.
LEMMA NothingLeftOut == Inv /\ Step => OrdinaryStep
<1>1. ASSUME Inv, UnpackNothing PROVE FALSE
  <2>1. source \in Sources /\ source.kind = "unpacking" /\ taken < Blocks
    BY <1>1 DEF Inv, TypeOK, UnpackNothing
  <2>2. taken \in Nat /\ Blocks \in Nat /\ taken + 1 \in 1..Blocks /\ taken \in 0..Blocks
    BY <1>1, <2>1, SourceFacts DEF Inv, TypeOK
  <2>3. taken + 1 \in DOMAIN source.ends
    BY <2>1, <2>2, SourceFacts DEF Blocks
  <2>4. source.ends[taken + 1] > (IF taken + 1 = 1 THEN 0 ELSE source.ends[taken + 1 - 1])
    <3>1. Ordinary(source)
      BY <1>1 DEF Inv
    <3>2. \A i \in DOMAIN source.ends :
            source.ends[i] > (IF i = 1 THEN 0 ELSE source.ends[i - 1])
      BY <2>1, <3>1 DEF Ordinary
    <3>3. DOMAIN source.ends = 1..Blocks
      BY <2>1, SourceFacts DEF Blocks
    <3>4. \A i \in 1..Blocks :
            source.ends[i] > (IF i = 1 THEN 0 ELSE source.ends[i - 1])
      BY ONLY <3>2, <3>3
    <3> QED
      BY <2>2, <3>4
  <2>5. buffered = EndOf(source, taken)
    BY <1>1, <2>1, <2>2 DEF Inv, BufferExact
  <2>6. source.ends[taken + 1] > buffered
    BY <2>2, <2>4, <2>5 DEF EndOf
  <2>7. gptr \in Nat /\ gptr <= buffered /\ buffered \in Nat
    BY <1>1, <2>1, <2>2, <2>5, SourceFacts DEF Inv, TypeOK
  <2>8. source.ends[taken + 1] \in Nat
    BY <2>1, <2>3, SourceFacts
  <2> QED
    BY <1>1, <2>6, <2>7, <2>8 DEF UnpackNothing
<1>2. ASSUME Inv, CopyBeyond PROVE FALSE
  <2>1. gptr \in Nat /\ buffered \in Nat /\ gptr <= buffered
    BY <1>2, SourceFacts DEF Inv, TypeOK, CallInOrder, CopyBeyond
  <2> QED
    BY <1>2, <2>1 DEF CopyBeyond
<1> QED
  BY <1>1, <1>2 DEF Step, Underflow, OrdinaryStep

-----------------------------------------------------------------------------
\* The end of a failed source is never found.
FailureSeen == source.kind = "callback" /\ source.fails => ~endFound /\ ~sawEnd

LEMMA FailureStaysSeen == FailureSeen /\ [OrdinaryNext]_vars => FailureSeen'
  BY DEF FailureSeen, OrdinaryNext, OrdinaryStep, vars, sourceVars, callVars, Begin,
     BeginSeek, BeginSeekForward, BeginSeekEnd, BeginRead, Tell, Answer, TakeBlock,
     DecryptBlock, DecryptThrows, DecryptEnded, UnpackBlock, UnpackThrows, UnpackEnd,
     CallbackBlock, CallbackEnd, CallbackThrows, AfterEnd, Land, LandSeek,
     LandForward, LandCallbackForward, LandEnd, Copy, FinishRead

LEMMA EndIsTrueStep ==
    ASSUME FailureSeen, [OrdinaryNext]_vars,
           source.kind = "callback", source.fails, reply' # reply
    PROVE  /\ reply'.call # "end"
           /\ reply'.call = "read" => gptr - from = call.n
<1>1. ~sawEnd
  BY DEF FailureSeen
<1>2. CASE FinishRead
  BY <1>1, <1>2 DEF FinishRead, Answer, Delivered
<1>3. CASE LandEnd
  BY <1>1, <1>3 DEF LandEnd, Ready, Wanting
<1>4. CASE LandCallbackForward \/ LandForward \/ LandSeek
  BY <1>4 DEF LandCallbackForward, LandForward, LandSeek, Land, Answer, Told
<1>5. CASE Tell
  BY <1>5 DEF Tell, Answer, Told
<1>6. CASE CallbackThrows \/ DecryptThrows \/ UnpackThrows
  BY <1>6 DEF CallbackThrows, DecryptThrows, UnpackThrows, Answer, Told
<1> QED
  BY <1>2, <1>3, <1>4, <1>5, <1>6
  DEF OrdinaryNext, OrdinaryStep, vars, sourceVars, callVars, Begin, BeginSeek,
      BeginSeekForward, BeginSeekEnd, BeginRead, TakeBlock, DecryptBlock,
      DecryptEnded, UnpackBlock, UnpackEnd, CallbackBlock, CallbackEnd, AfterEnd, Copy

\* The failure of a Python object is never taken for the end of its data.
THEOREM FailuresAreSeen == OrdinarySpec => EndIsTrue
<1>1. Init => FailureSeen
  BY DEF Init, FailureSeen
<1>2. FailureSeen /\ [OrdinaryNext]_vars =>
        [source.kind = "callback" /\ source.fails /\ reply' # reply =>
            /\ reply'.call # "end"
            /\ reply'.call = "read" => gptr - from = call.n]_vars
  BY EndIsTrueStep
<1> QED
  BY <1>1, <1>2, FailureStaysSeen, PTL DEF OrdinarySpec, OrdinaryInit, EndIsTrue

-----------------------------------------------------------------------------
\* What a read of n bytes hands out, as the interval it copied.
LEMMA CopiedIsAvailable ==
    ASSUME NEW a \in Nat, NEW n \in Nat, NEW m \in 0..n, Total \in Nat,
           a + m <= Total, m = n \/ a + m = Total
    PROVE  Stream!Available(a, n) = a..(a + m - 1)
  BY DEF Stream!Available

\* Work inside a call does not show.
LEMMA WorkIsHidden ==
    ASSUME UNCHANGED <<source, gptr, pc, call, from, reply>>
    PROVE  UNCHANGED <<Total, position, reply>>
  BY DEF Total, Blocks, position

LEMMA BeginIsHidden ==
    ASSUME NEW op, NEW n, Begin(op, n)
    PROVE  UNCHANGED <<Total, position, reply>>
  BY DEF Begin, sourceVars, Total, Blocks, position

LEMMA ThrowIsFail ==
    ASSUME Inv, Answer(Told("threw", 0)), UNCHANGED <<source, gptr>>
    PROVE  Stream!Next
<1>1. position' \in Nat /\ UNCHANGED Total
  BY DEF Answer, position, Inv, TypeOK, Total, Blocks
<1>2. Stream!Fail
  BY <1>1 DEF Answer, Told, Stream!Told, Stream!Fail
<1> QED
  BY <1>1, <1>2 DEF Stream!Next

LEMMA LandIsSeek ==
    ASSUME Inv, LandSeek
    PROVE  Stream!Next
<1>1. call.n \in Offsets /\ call.n \in Nat
  BY DEF Inv, TypeOK, CallInOrder, LandSeek, Ready
<1>2. buffered \in Nat /\ Total \in Nat /\ buffered <= Total
  BY SourceFacts DEF Inv, TypeOK
<1>3. call.n < buffered \/ buffered = Total
  BY <1>1, <1>2 DEF LandSeek, Ready, Wanting, Inv, BufferExact
<1>4. gptr' = IF call.n > Total THEN Total ELSE call.n
  BY <1>1, <1>2, <1>3 DEF LandSeek, Land
<1>5. UNCHANGED Total /\ position' = gptr'
  BY DEF LandSeek, Land, Answer, sourceVars, Total, Blocks, position
<1>6. Stream!Seek(call.n)
  BY <1>4, <1>5 DEF Stream!Seek, Stream!Told, LandSeek, Land, Answer, Told
<1> QED
  BY <1>1, <1>5, <1>6 DEF Stream!Next

LEMMA FinishIsRead ==
    ASSUME Inv, FinishRead
    PROVE  Stream!Next
<1>1. /\ call.n \in Requests /\ call.n \in Nat
      /\ from \in Nat /\ gptr \in Nat /\ buffered \in Nat /\ Total \in Nat
      /\ from <= gptr /\ gptr <= buffered /\ buffered <= Total
      /\ gptr - from <= call.n
  BY SourceFacts DEF Inv, TypeOK, CallInOrder, FinishRead
<1>2. gptr - from = call.n \/ gptr = Total
  BY <1>1 DEF Inv, CallInOrder, FinishRead
<1> DEFINE m == gptr - from
<1>3. /\ m \in 0..call.n /\ from + m = gptr
      /\ from + m <= Total /\ (m = call.n \/ from + m = Total)
  BY <1>1, <1>2
<1> HIDE DEF m
<1>4. Stream!Available(from, call.n) = from..(from + m - 1)
  <2>1. call.n \in Nat /\ from \in Nat /\ Total \in Nat
    BY <1>1
  <2> QED
    BY ONLY <2>1, <1>3, CopiedIsAvailable
<1>5. position = from /\ position' = from + m /\ UNCHANGED Total
  BY <1>3 DEF FinishRead, Answer, sourceVars, Total, Blocks, position
<1>6. reply' = Stream!Delivered(Stream!Available(from, call.n))
  <2>1. reply' = Delivered(from..(gptr - 1))
    BY DEF FinishRead, Answer
  <2>2. gptr - 1 = from + m - 1
    BY <1>1, <1>3
  <2>3. Stream!Available(from, call.n) = from..(gptr - 1)
    BY <1>4, <2>2
  <2> QED
    BY <2>1, <2>3 DEF Delivered, Stream!Delivered
<1>7. Stream!Read(call.n)
  BY <1>3, <1>4, <1>5, <1>6 DEF Stream!Read
<1> QED
  BY <1>1, <1>5, <1>7 DEF Stream!Next

LEMMA MapsToInit == Init => Stream!Init
<1> SUFFICES ASSUME Init PROVE Stream!Init
  OBVIOUS
<1>1. Total \in Nat
  BY SourceFacts DEF Init
<1>2. position = 0
  BY DEF Init, position
<1>3. position \in 0..Total
  BY <1>1, <1>2
<1> QED
  BY <1>1, <1>3 DEF Init, Stream!Init, Stream!Told, Told

LEMMA MapsToNext == Inv /\ [OrdinaryNext]_vars => [Stream!Next]_Stream!streamVars
<1> SUFFICES ASSUME Inv, [OrdinaryNext]_vars
             PROVE  Stream!Next \/ UNCHANGED <<Total, position, reply>>
  BY DEF Stream!streamVars
<1>1. ASSUME NEW o \in Offsets, BeginSeek(o) \/ BeginSeekForward(o)
      PROVE  UNCHANGED <<Total, position, reply>>
  BY <1>1, BeginIsHidden DEF BeginSeek, BeginSeekForward
<1>2. ASSUME NEW n \in Requests, BeginRead(n)
      PROVE  UNCHANGED <<Total, position, reply>>
  BY <1>2, BeginIsHidden DEF BeginRead
<1>3. CASE BeginSeekEnd
  BY <1>3, BeginIsHidden DEF BeginSeekEnd
<1>4. CASE Tell
  <2>1. position' = gptr /\ position = gptr /\ UNCHANGED Total
    BY <1>4 DEF Tell, Answer, sourceVars, Total, Blocks, position
  <2>2. Stream!Tell
    BY <1>4, <2>1 DEF Tell, Answer, Told, Stream!Tell, Stream!Told
  <2> QED
    BY <2>1, <2>2 DEF Stream!Next
<1>5. CASE DecryptBlock \/ UnpackBlock \/ CallbackBlock
  BY <1>5, WorkIsHidden DEF DecryptBlock, UnpackBlock, CallbackBlock, TakeBlock
<1>6. CASE DecryptEnded \/ UnpackEnd \/ CallbackEnd \/ AfterEnd
  BY <1>6, WorkIsHidden DEF DecryptEnded, UnpackEnd, CallbackEnd, AfterEnd, sourceVars
<1>7. CASE DecryptThrows \/ UnpackThrows \/ CallbackThrows
  BY <1>7, ThrowIsFail DEF DecryptThrows, UnpackThrows, CallbackThrows, sourceVars
<1>8. CASE LandSeek
  BY <1>8, LandIsSeek
<1>9. CASE LandForward \/ LandCallbackForward
  <2>1. gptr' \in Nat
    <3>1. buffered \in Nat /\ call.n \in Nat
      BY SourceFacts DEF Inv, TypeOK
    <3> QED
      BY <1>9, <3>1 DEF LandForward, Land, LandCallbackForward
  <2>2. position' = gptr' /\ UNCHANGED Total
    BY <1>9 DEF LandForward, Land, LandCallbackForward, Answer, sourceVars, Total,
       Blocks, position
  <2>3. reply' = Stream!Told("forward", gptr')
    BY <1>9 DEF LandForward, Land, LandCallbackForward, Answer, Told, Stream!Told
  <2>4. Stream!SeekForward
    BY <2>1, <2>2, <2>3 DEF Stream!SeekForward, Stream!Told
  <2> QED
    BY <2>2, <2>4 DEF Stream!Next
<1>10. CASE LandEnd
  <2>1. buffered = Total /\ Total \in Nat
    BY <1>10, SourceFacts DEF LandEnd, Ready, Wanting, Inv, TypeOK, CallInOrder
  <2>2. position' = Total /\ UNCHANGED Total
    BY <1>10, <2>1 DEF LandEnd, Answer, sourceVars, Total, Blocks, position
  <2>3. Stream!SeekEnd
    BY <1>10, <2>1, <2>2 DEF LandEnd, Answer, Told, Stream!SeekEnd, Stream!Told
  <2> QED
    BY <2>2, <2>3 DEF Stream!Next
<1>11. CASE Copy
  BY <1>11 DEF Copy, sourceVars, callVars, Total, Blocks, position
<1>12. CASE FinishRead
  BY <1>12, FinishIsRead
<1>13. CASE UNCHANGED vars
  BY <1>13, WorkIsHidden DEF vars, sourceVars, callVars
<1> QED
  BY <1>1, <1>2, <1>3, <1>4, <1>5, <1>6, <1>7, <1>8, <1>9, <1>10, <1>11, <1>12, <1>13
  DEF OrdinaryNext, OrdinaryStep

\* On an ordinary source of any number of blocks each of the three streams
\* implements a stream that stops at its end, and whose calls may throw.
THEOREM StreamIsImplemented == OrdinarySpec => LooksLikeAStream
<1> QED
  BY MapsToInit, MapsToNext, Invariance, PTL
  DEF OrdinarySpec, OrdinaryInit, LooksLikeAStream, Stream!Spec
=============================================================================
