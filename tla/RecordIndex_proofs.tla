------------------------- MODULE RecordIndex_proofs -------------------------
(***************************************************************************)
(* Proofs about RecordIndex for every table of record IDs, every set of    *)
(* blocks, damaged ones included, and every number of calls.               *)
(*                                                                         *)
(* TypeOK and IndexExact are inductive together with three facts:          *)
(*   - index() never runs on a length beyond the end of the file, which    *)
(*     only the soft finalization of an empty block sets (LengthReal);     *)
(*   - every record index() has passed belongs to a registered group, or   *)
(*     at() would have thrown on it (PassedRegistered);                    *)
(*   - while findFirstMatching() runs, no record it passed was wanted      *)
(*     (SkippedUnwanted).                                                  *)
(* SizesCoverIndex needs of a sum only that one more element adds its      *)
(* weight.  The library's induction over finite sets takes an operator;    *)
(* what takes its place is that sets which lack a property have a smallest *)
(* one (Smallest).                                                         *)
(***************************************************************************)
EXTENDS RecordIndex, FiniteSetTheorems, TLAPS

USE DEF fileVars, indexVars, findVars

LengthReal ==
    pc = "indexing" \/ ~lengthFlag => limit <= Len(recs)

PassedRegistered == \A k \in 1..(cursor - 1) : Registered(k)

SkippedUnwanted ==
    pc = "finding" =>
        /\ outcome = "none"
        /\ \A k \in 1..(probe - 1) : recs[k].id \notin targets

IInv ==
    /\ TypeOK
    /\ LengthReal
    /\ IndexExact
    /\ PassedRegistered
    /\ FirstMatchIsFirst
    /\ SkippedUnwanted

-----------------------------------------------------------------------------
\* A block is a finite sequence of records, each with an ID and a size.
LEMMA BlockRecords ==
    ASSUME block \in DataBlocks
    PROVE  /\ recs \in Seq([id : RecordIDs \cup {UnknownID}, size : Nat])
           /\ Len(recs) \in Nat
           /\ \A k \in 1..Len(recs) : recs[k].size \in Nat
<1>1. block.recs \in Seq([id : RecordIDs \cup {UnknownID}, size : Nat])
  BY RecordIndexAssumption, Zenon
<1> DEFINE R == [id : RecordIDs \cup {UnknownID}, size : Nat]
<1> HIDE DEF R
<1>2. ASSUME NEW s \in Seq(R)
      PROVE  Len(s) \in Nat /\ \A k \in 1..Len(s) : s[k] \in R
  OBVIOUS
<1>3. ASSUME NEW r \in R PROVE r.size \in Nat
  BY DEF R
<1> QED
  BY <1>1, <1>2, <1>3, Zenon DEF recs, R

\* Filing a record behind those already filed keeps an entry ascending and adds
\* just that record to it.
LEMMA FileRecord ==
    ASSUME NEW s \in Seq(Nat), NEW n \in Nat,
           \A i, j \in DOMAIN s : i < j => s[i] < s[j],
           \A i \in DOMAIN s : s[i] < n
    PROVE  /\ Append(s, n) \in Seq(Nat)
           /\ \A i, j \in DOMAIN Append(s, n) :
                i < j => Append(s, n)[i] < Append(s, n)[j]
           /\ {Append(s, n)[i] : i \in DOMAIN Append(s, n)} =
                {s[i] : i \in DOMAIN s} \cup {n}
<1> DEFINE t == Append(s, n)
<1>1. /\ t \in Seq(Nat)
      /\ DOMAIN s = 1..Len(s) /\ DOMAIN t = 1..(Len(s) + 1)
      /\ Len(s) \in Nat
      /\ t[Len(s) + 1] = n
      /\ \A i \in 1..Len(s) : t[i] = s[i]
  OBVIOUS
<1> HIDE DEF t
<1>2. ASSUME NEW i \in DOMAIN t, NEW j \in DOMAIN t, i < j
      PROVE  t[i] < t[j]
  <2>1. i \in 1..Len(s)
    BY <1>1, <1>2
  <2>2. CASE j \in 1..Len(s)
    BY <1>1, <1>2, <2>1, <2>2
  <2>3. CASE j = Len(s) + 1
    BY <1>1, <2>1, <2>3
  <2> QED
    BY <1>1, <2>2, <2>3
<1>3. {t[i] : i \in DOMAIN t} = {s[i] : i \in DOMAIN s} \cup {n}
  BY <1>1
<1> QED
  BY <1>1, <1>2, <1>3 DEF t
-----------------------------------------------------------------------------
\* The file is never written.
LEMMA BlockFixed == [Next]_vars => block' = block /\ recs' = recs
BY DEF Next, IndexStep, FindStep, CallFinalize, IndexRecord, IndexTorn,
       IndexUnknown, IndexDone, SoftFinalize, CallFindFirstMatching,
       FindMatch, FindSkip, FindThrow, FindEnd, vars, recs

LEMMA TypeInit == Init => TypeOK /\ LengthReal
<1> SUFFICES ASSUME Init PROVE TypeOK /\ LengthReal
  OBVIOUS
<1>1. block \in DataBlocks /\ Len(recs) \in Nat
  BY BlockRecords DEF Init
<1>2. limit \in 0..Len(recs)
  BY <1>1 DEF Init, recs
<1>3. recordIndices \in [RecordIDs -> Seq(Nat)]
  BY DEF Init
<1> QED
  BY <1>1, <1>2, <1>3, RecordIndexAssumption DEF Init, TypeOK, LengthReal

\* Typing is inductive together with LengthReal.
LEMMA TypeStep ==
    TypeOK /\ LengthReal /\ [Next]_vars => TypeOK' /\ LengthReal'
<1> SUFFICES ASSUME TypeOK, LengthReal, [Next]_vars
             PROVE  TypeOK' /\ LengthReal'
  OBVIOUS
<1>1. /\ block' = block /\ recs' = recs
      /\ block \in DataBlocks
      /\ Len(recs) \in Nat
      /\ \A k \in 1..Len(recs) : recs[k].size \in Nat
  BY BlockFixed, BlockRecords DEF TypeOK
<1>2. ASSUME NEW id \in RecordIDs, NEW n \in Nat
      PROVE  [recordIndices EXCEPT ![id] = Append(recordIndices[id], n)]
                \in [RecordIDs -> Seq(Nat)]
  <2>1. Append(recordIndices[id], n) \in Seq(Nat)
    BY <1>2 DEF TypeOK
  <2> QED
    BY <1>2, <2>1 DEF TypeOK
<1>3. ASSUME NEW id \in RecordIDs, NEW n \in Nat
      PROVE  [recordSizes EXCEPT ![id] = recordSizes[id] + n]
                \in [RecordIDs -> Nat]
  BY <1>3 DEF TypeOK
<1> HIDE DEF recs
<1>4. CASE CallFinalize
  BY <1>1, <1>4, RecordIndexAssumption
  DEF CallFinalize, StartIndex, TypeOK, LengthReal
<1>5. CASE IndexRecord
  <2>1. cursor \in 1..Len(recs) /\ recs[cursor].id \in RecordIDs
    BY <1>1, <1>5 DEF IndexRecord, Registered, TypeOK, LengthReal
  <2>2. recordIndices' \in [RecordIDs -> Seq(Nat)]
    <3>1. cursor \in Nat
      BY <1>1, <2>1
    <3>2. recordIndices' = [recordIndices EXCEPT
            ![recs[cursor].id] = Append(recordIndices[recs[cursor].id], cursor)]
      BY <1>5, Zenon DEF IndexRecord
    <3> QED
      BY <1>2, <2>1, <3>1, <3>2, Zenon
  <2>3. recordSizes' \in [RecordIDs -> Nat]
    BY <1>1, <1>3, <1>5, <2>1 DEF IndexRecord
  <2> QED
    BY <1>1, <1>5, <2>1, <2>2, <2>3 DEF IndexRecord, TypeOK, LengthReal
<1>6. CASE IndexTorn
  <2>1. cursor \in 1..Len(recs) /\ recs[cursor].id \in RecordIDs
    BY <1>1, <1>6 DEF IndexTorn, Registered, Torn, TypeOK
  <2>2. recordIndices' \in [RecordIDs -> Seq(Nat)]
    <3>1. cursor \in Nat
      BY <1>1, <2>1
    <3>2. recordIndices' = [recordIndices EXCEPT
            ![recs[cursor].id] = Append(recordIndices[recs[cursor].id], cursor)]
      BY <1>6, Zenon DEF IndexTorn
    <3> QED
      BY <1>2, <2>1, <3>1, <3>2, Zenon
  <2> QED
    BY <1>1, <1>6, <2>1, <2>2 DEF IndexTorn, Throw, TypeOK, LengthReal
<1>7. CASE IndexUnknown
  BY <1>1, <1>7 DEF IndexUnknown, Throw, TypeOK, LengthReal
<1>8. CASE IndexDone
  BY <1>1, <1>8 DEF IndexDone, TypeOK, LengthReal
<1>9. CASE SoftFinalize
  <2>1. limit' \in 0..(Len(recs) + 1)
    BY <1>1, <1>9 DEF SoftFinalize
  <2> QED
    BY <1>1, <1>9, <2>1, RecordIndexAssumption
    DEF SoftFinalize, TypeOK, LengthReal
<1>10. ASSUME NEW T \in SUBSET RecordIDs, CallFindFirstMatching(T)
       PROVE  TypeOK' /\ LengthReal'
  BY <1>1, <1>10, RecordIndexAssumption
  DEF CallFindFirstMatching, TypeOK, LengthReal
<1>11. CASE FindMatch
  BY <1>1, <1>11 DEF FindMatch, TypeOK, LengthReal
<1>12. CASE FindSkip
  <2>1. probe \in 1..Len(recs) /\ recs[probe].id \in RecordIDs
    BY <1>1, <1>12 DEF FindSkip, Registered, TypeOK
  <2>2. PICK size \in {recs[probe].size} \cup (IF Torn(probe) THEN {0} ELSE {}) :
            recordSizes' = [recordSizes EXCEPT ![recs[probe].id] = @ + size]
    BY <1>12 DEF FindSkip
  <2>3. size \in Nat
    BY <1>1, <2>1, <2>2
  <2>4. recordSizes' \in [RecordIDs -> Nat]
    BY <1>3, <2>1, <2>2, <2>3
  <2> QED
    BY <1>1, <1>12, <2>1, <2>4 DEF FindSkip, TypeOK, LengthReal
<1>13. CASE FindThrow
  BY <1>1, <1>13 DEF FindThrow, TypeOK, LengthReal
<1>14. CASE FindEnd
  BY <1>1, <1>14 DEF FindEnd, TypeOK, LengthReal
<1>15. CASE UNCHANGED vars
  BY <1>1, <1>15 DEF vars, TypeOK, LengthReal
<1> QED
  BY <1>4, <1>5, <1>6, <1>7, <1>8, <1>9, <1>10, <1>11, <1>12, <1>13, <1>14,
     <1>15 DEF Next, IndexStep, FindStep

\* Every state of the index is well typed, for every block and table of IDs:
\* in particular no call leaves an entry for an ID outside the table, and
\* index() never reads past the end of the file (DTBlockMultipleRecordIDs).
THEOREM TypeCorrect == Spec => []TypeOK
<1>1. Init => TypeOK /\ LengthReal
  BY TypeInit
<1>2. (TypeOK /\ LengthReal) /\ [Next]_vars => (TypeOK /\ LengthReal)'
  BY TypeStep
<1> QED
  BY <1>1, <1>2, PTL DEF Spec
-----------------------------------------------------------------------------
\* The facts about the types that the steps below share.
LEMMA Shapes ==
    ASSUME TypeOK
    PROVE  /\ Len(recs) \in Nat
           /\ cursor \in 1..(Len(recs) + 1) /\ probe \in 1..(Len(recs) + 1)
           /\ limit \in 0..(Len(recs) + 1)
           /\ \A id \in RecordIDs : recordIndices[id] \in Seq(Nat)
BY BlockRecords DEF TypeOK

\* Filing record n = cursor under its own ID, in a table that is exact up to
\* it, gives a table that is exact up to the next record.
LEMMA FilingKeepsExact ==
    ASSUME TypeOK, IndexExact,
           recs' = recs, cursor' = cursor + 1, cursor \in 1..Len(recs),
           NEW own \in RecordIDs, own = recs[cursor].id,
           recordIndices' = [recordIndices EXCEPT
                                ![own] = Append(recordIndices[own], cursor)]
    PROVE  IndexExact'
<1> HIDE DEF recs
<1>1. /\ Len(recs) \in Nat
      /\ \A id \in RecordIDs : recordIndices[id] \in Seq(Nat)
      /\ recordIndices \in [RecordIDs -> Seq(Nat)]
  BY Shapes DEF TypeOK
<1>2. cursor \in Nat /\ 1..(cursor' - 1) = 1..(cursor - 1) \cup {cursor}
  BY <1>1
<1>3. ASSUME NEW id \in RecordIDs, id # own
      PROVE  /\ recordIndices'[id] = recordIndices[id]
             /\ {k \in 1..(cursor' - 1) : recs'[k].id = id} =
                {k \in 1..(cursor - 1) : recs[k].id = id}
  BY <1>1, <1>2, <1>3
<1>4. /\ \A i, j \in DOMAIN recordIndices'[own] :
            i < j => recordIndices'[own][i] < recordIndices'[own][j]
      /\ Indexed(own)' = Indexed(own) \cup {cursor}
  <2>1. \A i \in DOMAIN recordIndices[own] : recordIndices[own][i] < cursor
    <3> SUFFICES ASSUME NEW i \in DOMAIN recordIndices[own]
                 PROVE  recordIndices[own][i] < cursor
      OBVIOUS
    <3>1. recordIndices[own][i] \in Indexed(own)
      BY DEF Indexed
    <3>2. Indexed(own) = {k \in 1..(cursor - 1) : recs[k].id = own}
      BY DEF IndexExact
    <3>3. recordIndices[own][i] \in 1..(cursor - 1)
      BY <3>1, <3>2
    <3> QED
      BY <1>2, <3>3
  <2>2. recordIndices'[own] = Append(recordIndices[own], cursor)
    BY <1>1, Zenon
  <2>3. \A i, j \in DOMAIN recordIndices[own] :
            i < j => recordIndices[own][i] < recordIndices[own][j]
    BY DEF IndexExact
  <2>4. recordIndices[own] \in Seq(Nat)
    BY <1>1
  <2> DEFINE s == recordIndices[own]
             t == Append(s, cursor)
  <2>5. /\ \A i, j \in DOMAIN t : i < j => t[i] < t[j]
        /\ {t[i] : i \in DOMAIN t} = {s[i] : i \in DOMAIN s} \cup {cursor}
    <3> HIDE DEF s
    <3> QED
      BY <1>2, <2>1, <2>3, <2>4, FileRecord, Zenon DEF s
  <2> QED
    BY <2>2, <2>5, Zenon DEF Indexed
<1>5. {k \in 1..(cursor' - 1) : recs'[k].id = own} =
        {k \in 1..(cursor - 1) : recs[k].id = own} \cup {cursor}
  BY <1>2
<1>6. Indexed(own)' = {k \in 1..(cursor' - 1) : recs'[k].id = own}
  BY <1>4, <1>5, Zenon DEF IndexExact
<1>7. ASSUME NEW id \in RecordIDs, id # own
      PROVE  /\ \A i, j \in DOMAIN recordIndices'[id] :
                i < j => recordIndices'[id][i] < recordIndices'[id][j]
             /\ Indexed(id)' = {k \in 1..(cursor' - 1) : recs'[k].id = id}
  <2>1. recordIndices'[id] = recordIndices[id]
    BY <1>3, <1>7
  <2>2. Indexed(id)' = Indexed(id)
    BY <2>1 DEF Indexed
  <2>3. Indexed(id) = {k \in 1..(cursor - 1) : recs[k].id = id}
    BY DEF IndexExact
  <2>4. \A i, j \in DOMAIN recordIndices[id] :
            i < j => recordIndices[id][i] < recordIndices[id][j]
    BY DEF IndexExact
  <2> QED
    BY <1>3, <1>7, <2>1, <2>2, <2>3, <2>4, Zenon
<1> QED
  BY <1>4, <1>6, <1>7, Zenon DEF IndexExact
\* What every step does to the four parts of IInv beyond the types.
LEMMA IndexStepKeepsInv ==
    ASSUME IInv, [Next]_vars
    PROVE  IndexExact' /\ PassedRegistered' /\ FirstMatchIsFirst'
           /\ SkippedUnwanted'
<1> HIDE DEF recs
<1>1. /\ TypeOK /\ LengthReal /\ IndexExact /\ PassedRegistered
      /\ FirstMatchIsFirst /\ SkippedUnwanted
  BY DEF IInv
<1>2. /\ block' = block /\ recs' = recs
      /\ Len(recs) \in Nat
      /\ cursor \in 1..(Len(recs) + 1) /\ probe \in 1..(Len(recs) + 1)
  BY <1>1, BlockFixed, Shapes
\* A step that leaves the index alone.
<1>3. ASSUME UNCHANGED <<recordIndices, cursor>>
      PROVE  IndexExact' /\ PassedRegistered'
  BY <1>1, <1>2, <1>3 DEF IndexExact, Indexed, PassedRegistered, Registered
\* A step that leaves the search alone and does not end one.
<1>4. ASSUME UNCHANGED <<targets, probe>>, outcome' \notin {"found", "notfound"},
             pc' # "finding"
      PROVE  FirstMatchIsFirst' /\ SkippedUnwanted'
  BY <1>4 DEF FirstMatchIsFirst, SkippedUnwanted
<1>5. CASE CallFinalize
  <2>1. IndexExact' /\ PassedRegistered'
    BY <1>5 DEF CallFinalize, StartIndex, IndexExact, Indexed, PassedRegistered
  <2> QED
    BY <1>4, <1>5, <2>1 DEF CallFinalize, StartIndex
<1>6. CASE IndexRecord
  <2>1. cursor \in 1..Len(recs) /\ recs[cursor].id \in RecordIDs
    BY <1>1, <1>2, <1>6 DEF IndexRecord, Registered, LengthReal, TypeOK
  <2>2. IndexExact'
    BY <1>1, <1>2, <1>6, <2>1, FilingKeepsExact, Zenon DEF IndexRecord
  <2>3. PassedRegistered'
    BY <1>1, <1>2, <1>6, <2>1 DEF IndexRecord, PassedRegistered, Registered
  <2> QED
    BY <1>1, <1>2, <1>6, <2>2, <2>3
    DEF IndexRecord, FirstMatchIsFirst, SkippedUnwanted
<1>7. CASE IndexTorn
  <2>1. cursor \in 1..Len(recs) /\ recs[cursor].id \in RecordIDs
    BY <1>1, <1>2, <1>7 DEF IndexTorn, Registered, LengthReal, TypeOK
  <2>2. IndexExact'
    BY <1>1, <1>2, <1>7, <2>1, FilingKeepsExact, Zenon DEF IndexTorn
  <2>3. PassedRegistered'
    BY <1>1, <1>2, <1>7, <2>1 DEF IndexTorn, PassedRegistered, Registered
  <2> QED
    BY <1>4, <1>7, <2>2, <2>3 DEF IndexTorn, Throw
<1>8. CASE IndexUnknown
  BY <1>3, <1>4, <1>8 DEF IndexUnknown, Throw
<1>9. CASE IndexDone
  BY <1>3, <1>4, <1>9 DEF IndexDone
<1>10. CASE SoftFinalize
  BY <1>1, <1>2, <1>3, <1>10
  DEF SoftFinalize, FirstMatchIsFirst, SkippedUnwanted
<1>11. ASSUME NEW T \in SUBSET RecordIDs, CallFindFirstMatching(T)
       PROVE  IndexExact' /\ PassedRegistered' /\ FirstMatchIsFirst'
              /\ SkippedUnwanted'
  BY <1>2, <1>3, <1>11
  DEF CallFindFirstMatching, FirstMatchIsFirst, SkippedUnwanted
<1>12. CASE FindMatch
  BY <1>1, <1>2, <1>3, <1>12 DEF FindMatch, FirstMatchIsFirst, SkippedUnwanted
<1>13. CASE FindSkip
  BY <1>1, <1>2, <1>3, <1>13 DEF FindSkip, FirstMatchIsFirst, SkippedUnwanted
<1>14. CASE FindThrow
  BY <1>3, <1>4, <1>14 DEF FindThrow
<1>15. CASE FindEnd
  BY <1>1, <1>2, <1>3, <1>15 DEF FindEnd, FirstMatchIsFirst, SkippedUnwanted
<1>16. CASE UNCHANGED vars
  BY <1>1, <1>2, <1>3, <1>16 DEF vars, FirstMatchIsFirst, SkippedUnwanted
<1> QED
  BY <1>5, <1>6, <1>7, <1>8, <1>9, <1>10, <1>11, <1>12, <1>13, <1>14, <1>15,
     <1>16 DEF Next, IndexStep, FindStep

LEMMA InvHolds == Spec => []IInv
<1>1. Init => IInv
  <2> SUFFICES ASSUME Init PROVE IInv
    OBVIOUS
  <2>1. TypeOK /\ LengthReal
    BY TypeInit
  <2>2. IndexExact /\ PassedRegistered
    BY DEF Init, IndexExact, Indexed, PassedRegistered
  <2>3. FirstMatchIsFirst /\ SkippedUnwanted
    BY DEF Init, FirstMatchIsFirst, SkippedUnwanted
  <2> QED
    BY <2>1, <2>2, <2>3 DEF IInv
<1>2. IInv /\ [Next]_vars => IInv'
  BY TypeStep, IndexStepKeepsInv DEF IInv
<1> QED
  BY <1>1, <1>2, PTL DEF Spec

\* Whatever calls came before, the entry of an ID lists exactly the records of
\* that ID that index() has passed, in file order (DTBlockMultipleRecordIDs::
\* index), for every block and every table of IDs.
THEOREM IndexIsExact == Spec => []IndexExact
<1>1. IInv => IndexExact
  BY DEF IInv
<1> QED
  BY <1>1, InvHolds, PTL

\* findFirstMatching returns the first record of the wanted groups, or none
\* because there is none, for every block and every set of targets.
THEOREM FirstMatchCorrect == Spec => []FirstMatchIsFirst
<1>1. IInv => FirstMatchIsFirst
  BY DEF IInv
<1> QED
  BY <1>1, InvHolds, PTL

\* Each pass of index() that returns has put every record of the block into the
\* index of one and only one channel group.
THEOREM IndexCoversEveryBlock == Spec => IndexCoversBlock
<1> DEFINE A == outcome' = "indexed" /\ pc = "indexing" /\ pc' = "idle" =>
                  \A k \in 1..limit :
                    \E id \in RecordIDs :
                      /\ k \in Indexed(id)
                      /\ \A other \in RecordIDs \ {id} : k \notin Indexed(other)
<1>1. IInv /\ [Next]_vars => [A]_vars
  <2> SUFFICES ASSUME IInv, Next, outcome' = "indexed", pc = "indexing",
                      pc' = "idle", NEW k \in 1..limit
               PROVE  \E id \in RecordIDs :
                        /\ k \in Indexed(id)
                        /\ \A other \in RecordIDs \ {id} : k \notin Indexed(other)
    BY DEF vars
  <2>1. cursor > limit
    BY DEF Next, IndexStep, FindStep, CallFinalize, IndexRecord, IndexTorn,
           IndexUnknown, Throw, IndexDone, SoftFinalize, CallFindFirstMatching,
           FindMatch, FindSkip, FindThrow, FindEnd
  <2>2. k \in 1..(cursor - 1)
    BY <2>1, Shapes DEF IInv
  <2>3. recs[k].id \in RecordIDs
    BY <2>2 DEF IInv, PassedRegistered, Registered
  <2>4. \A id \in RecordIDs : k \in Indexed(id) <=> recs[k].id = id
    BY <2>2 DEF IInv, IndexExact
  <2> QED
    BY <2>3, <2>4
<1> QED
  BY <1>1, InvHolds, PTL DEF Spec, IndexCoversBlock
-----------------------------------------------------------------------------
(* Sums over finite sets.                                                    *)

\* The subsets of a finite set that are not good have a smallest one.
LEMMA Smallest ==
    ASSUME NEW S, IsFiniteSet(S), NEW Bad, Bad \subseteq SUBSET S, Bad # {}
    PROVE  \E T \in Bad : \A x \in T : T \ {x} \notin Bad
<1>1. IsWellFoundedOn(StrictSubsetOrdering(S), FiniteSubsetsOf(S))
  BY FS_StrictSubsetOrderingWellFounded
<1>2. FiniteSubsetsOf(S) = SUBSET S
  BY FS_FiniteSubsetsOfFinite
<1>3. PICK T \in Bad : \A U \in Bad : <<U, T>> \notin StrictSubsetOrdering(S)
  <2>1. IsWellFoundedOn(StrictSubsetOrdering(S), SUBSET S)
    BY <1>1, <1>2, Zenon
  <2> QED BY <2>1, WFMin
<1>4. ASSUME NEW x \in T PROVE <<T \ {x}, T>> \in StrictSubsetOrdering(S)
  <2>1. T \in SUBSET S /\ T \ {x} \in SUBSET S
    OBVIOUS
  <2>2. <<T \ {x}, T>> \in (SUBSET S) \X (SUBSET S)
    BY <2>1
  <2>3. T \ {x} \subseteq T /\ T \ {x} # T
    BY <1>4
  <2> QED BY <2>2, <2>3 DEF StrictSubsetOrdering
<1> QED BY <1>3, <1>4

\* A measure adds up the weights of a set's elements, in whatever order.
Measures(m, w, S) ==
    /\ m \in [SUBSET S -> Nat] /\ m[{}] = 0
    /\ \A T \in SUBSET S : \A x \in S \ T : m[T \cup {x}] = m[T] + w[x]

LEMMA MeasureExists ==
    ASSUME NEW S, IsFiniteSet(S), NEW w, \A x \in S : w[x] \in Nat
    PROVE  \E m : Measures(m, w, S)
<1> DEFINE Good == {T \in SUBSET S : \E m : Measures(m, w, T)}
           Bad == (SUBSET S) \ Good
<1>1. {} \in Good
  <2> DEFINE m == [T \in SUBSET {} |-> 0]
  <2>1. Measures(m, w, {})
    BY DEF Measures
  <2> QED BY <2>1
<1>2. ASSUME NEW T \in SUBSET S, NEW y \in T, T \ {y} \in Good
      PROVE  T \in Good
  <2>1. PICK m : Measures(m, w, T \ {y})
    BY <1>2
  <2> DEFINE n == [U \in SUBSET T |-> m[U \ {y}] + (IF y \in U THEN w[y] ELSE 0)]
  <2>2. \A U \in SUBSET T : U \ {y} \in SUBSET (T \ {y}) /\ m[U \ {y}] \in Nat
    BY <2>1 DEF Measures
  <2>3. w[y] \in Nat
    OBVIOUS
  <2>4. n \in [SUBSET T -> Nat]
    BY <2>2, <2>3
  <2>5. n[{}] = 0
    <3>1. {} \in SUBSET T /\ {} \ {y} = {} /\ y \notin {}
      OBVIOUS
    <3>2. m[{}] = 0
      BY <2>1 DEF Measures
    <3>3. n[{}] = m[{} \ {y}] + 0
      BY <3>1
    <3> QED BY <3>1, <3>2, <3>3
  <2>6. ASSUME NEW U \in SUBSET T, NEW x \in T \ U
        PROVE  n[U \cup {x}] = n[U] + w[x]
    <3>1. /\ U \cup {x} \in SUBSET T
          /\ n[U] = m[U \ {y}] + (IF y \in U THEN w[y] ELSE 0)
          /\ n[U \cup {x}] = m[(U \cup {x}) \ {y}]
                               + (IF y \in U \cup {x} THEN w[y] ELSE 0)
      BY <2>6
    <3>2. CASE x = y
      <4>1. (U \cup {x}) \ {y} = U \ {y} /\ y \notin U /\ y \in U \cup {x}
        BY <2>6, <3>2
      <4>2. m[U \ {y}] \in Nat
        BY <2>2
      <4>3. n[U] = m[U \ {y}] + 0
        BY <3>1, <4>1, Zenon
      <4>4. n[U \cup {x}] = m[U \ {y}] + w[y]
        BY <3>1, <4>1, Zenon
      <4> HIDE DEF n
      <4> QED BY <2>3, <3>2, <4>2, <4>3, <4>4
    <3>3. CASE x # y
      <4>1. /\ (U \cup {x}) \ {y} = (U \ {y}) \cup {x} /\ (y \in U \cup {x} <=> y \in U)
            /\ U \ {y} \in SUBSET (T \ {y}) /\ x \in (T \ {y}) \ (U \ {y})
        BY <2>6, <3>3
      <4>2. m[(U \ {y}) \cup {x}] = m[U \ {y}] + w[x]
        BY <2>1, <4>1 DEF Measures
      <4>3. m[U \ {y}] \in Nat /\ w[x] \in Nat
        BY <2>2, <2>6
      <4> HIDE DEF n
      <4>4. CASE y \in U
        <5>1. n[U] = m[U \ {y}] + w[y] /\ n[U \cup {x}] = (m[U \ {y}] + w[x]) + w[y]
          BY <3>1, <4>1, <4>2, <4>4, Zenon
        <5> HIDE DEF n
        <5> QED BY <2>3, <4>3, <5>1
      <4>5. CASE y \notin U
        <5>1. n[U] = m[U \ {y}] + 0 /\ n[U \cup {x}] = (m[U \ {y}] + w[x]) + 0
          BY <3>1, <4>1, <4>2, <4>5, Zenon
        <5> HIDE DEF n
        <5> QED BY <2>3, <4>3, <5>1
      <4> QED BY <4>4, <4>5
    <3> QED BY <3>2, <3>3
  <2>7. Measures(n, w, T)
    <3> HIDE DEF n
    <3> QED BY <2>4, <2>5, <2>6 DEF Measures
  <2> QED BY <2>7
<1>3. Bad = {}
  <2> SUFFICES ASSUME Bad # {} PROVE FALSE
    OBVIOUS
  <2>1. Bad \subseteq SUBSET S
    OBVIOUS
  <2> HIDE DEF Bad
  <2>2. PICK T \in Bad : \A x \in T : T \ {x} \notin Bad
    BY <2>1, Smallest
  <2> USE DEF Bad
  <2>3. PICK y \in T : TRUE
    <3>1. T # {}
      BY <1>1
    <3> QED BY <3>1
  <2>4. T \ {y} \in Good
    BY <2>1, <2>2
  <2> QED BY <1>2, <2>1, <2>2, <2>4
<1> QED
  <2>1. S \in Good
    BY <1>3
  <2> QED BY <2>1

\* What folding a function over a set comes to.
Fold(w, S) ==
    CHOOSE g : g = [s \in SUBSET S |->
        IF s = {} THEN 0 ELSE w[CHOOSE x \in s : TRUE] + g[s \ {CHOOSE x \in s : TRUE}]]

LEMMA FoldIs ==
    ASSUME NEW w, NEW S PROVE SumFunctionOnSet(w, S) = Fold(w, S)[S]
BY DEF Fold, SumFunctionOnSet, FoldFunctionOnSet, MapThenFoldSet

LEMMA FoldMeasures ==
    ASSUME NEW S, IsFiniteSet(S), NEW w, NEW m, Measures(m, w, S), \A x \in S : w[x] \in Nat
    PROVE  SumFunctionOnSet(w, S) = m[S]
<1> DEFINE pick(s) == CHOOSE x \in s : TRUE
           body(g, s) == IF s = {} THEN 0 ELSE w[pick(s)] + g[s \ {pick(s)}]
           Folds(g) == g = [s \in SUBSET S |-> body(g, s)]
<1>1. ASSUME NEW s \in SUBSET S, s # {}
      PROVE  pick(s) \in s /\ m[s] = w[pick(s)] + m[s \ {pick(s)}]
  <2>1. pick(s) \in s
    BY <1>1
  <2> HIDE DEF pick
  <2>2. /\ s \ {pick(s)} \in SUBSET S /\ pick(s) \in S \ (s \ {pick(s)})
        /\ (s \ {pick(s)}) \cup {pick(s)} = s
    BY <2>1
  <2>3. m[(s \ {pick(s)}) \cup {pick(s)}] = m[s \ {pick(s)}] + w[pick(s)]
    BY <2>2 DEF Measures
  <2>4. m[s \ {pick(s)}] \in Nat /\ w[pick(s)] \in Nat
    BY <2>2 DEF Measures
  <2>5. m[s] = m[s \ {pick(s)}] + w[pick(s)]
    BY <2>2, <2>3, Zenon
  <2>6. \A i, j \in Nat : i + j = j + i
    OBVIOUS
  <2> QED BY <2>1, <2>4, <2>5, <2>6, Zenon
<1>2. Folds(m)
  <2>1. m = [s \in SUBSET S |-> m[s]]
    BY DEF Measures
  <2>2. ASSUME NEW s \in SUBSET S PROVE m[s] = body(m, s)
    <3>1. CASE s = {}
      BY <3>1 DEF Measures
    <3>2. CASE s # {}
      BY <1>1, <3>2
    <3> QED BY <3>1, <3>2
  <2> HIDE DEF body
  <2> QED BY <2>1, <2>2
<1>3. Fold(w, S) = CHOOSE g : Folds(g)
  BY DEF Fold
<1> DEFINE g == Fold(w, S)
<1>4. Folds(g)
  <2>1. Folds(CHOOSE h : Folds(h))
    <3> HIDE DEF Folds
    <3> QED BY <1>2
  <2> HIDE DEF Folds
  <2> QED BY <1>3, <2>1
<1>5. \A s \in SUBSET S : g[s] = body(g, s)
  <2> HIDE DEF g, body
  <2> QED BY <1>4
<1> HIDE DEF g
<1> DEFINE Bad == {s \in SUBSET S : g[s] # m[s]}
<1>6. Bad = {}
  <2> SUFFICES ASSUME Bad # {} PROVE FALSE
    OBVIOUS
  <2>1. Bad \subseteq SUBSET S
    OBVIOUS
  <2> HIDE DEF Bad
  <2>2. PICK s \in Bad : \A x \in s : s \ {x} \notin Bad
    BY <2>1, Smallest
  <2>3. s \in SUBSET S /\ g[s] # m[s]
    BY <2>2 DEF Bad
  <2>4. CASE s = {}
    BY <1>5, <2>3, <2>4 DEF Measures
  <2>5. CASE s # {}
    <3>1. pick(s) \in s /\ m[s] = w[pick(s)] + m[s \ {pick(s)}]
      BY <1>1, <2>3, <2>5
    <3>2. g[s] = w[pick(s)] + g[s \ {pick(s)}]
      BY <1>5, <2>3, <2>5
    <3> HIDE DEF pick
    <3>3. s \ {pick(s)} \in SUBSET S /\ s \ {pick(s)} \notin Bad
      BY <2>2, <2>3, <3>1
    <3>4. g[s \ {pick(s)}] = m[s \ {pick(s)}]
      BY <3>3 DEF Bad
    <3> QED BY <2>3, <3>1, <3>2, <3>4
  <2> QED BY <2>4, <2>5
<1>7. g[S] = m[S]
  <2>1. S \in SUBSET S
    OBVIOUS
  <2> QED BY <1>6, <2>1
<1> QED
  BY <1>7, FoldIs DEF g

\* Sums of functions over finite sets.
LEMMA SumEmpty ==
    ASSUME NEW w PROVE SumFunctionOnSet(w, {}) = 0
<1> DEFINE m == [T \in SUBSET {} |-> 0]
<1>1. Measures(m, w, {})
  BY DEF Measures
<1>2. m[{}] = 0
  OBVIOUS
<1>3. IsFiniteSet({})
  BY FS_EmptySet
<1> HIDE DEF m
<1> QED BY <1>1, <1>2, <1>3, FoldMeasures

LEMMA SumNatural ==
    ASSUME NEW S, IsFiniteSet(S), NEW w, \A x \in S : w[x] \in Nat
    PROVE  SumFunctionOnSet(w, S) \in Nat
<1>1. PICK m : Measures(m, w, S)
  BY MeasureExists
<1>2. SumFunctionOnSet(w, S) = m[S]
  BY <1>1, FoldMeasures
<1>3. m[S] \in Nat
  BY <1>1 DEF Measures
<1> QED BY <1>2, <1>3

LEMMA SumAdd ==
    ASSUME NEW S, IsFiniteSet(S), NEW y, y \notin S, NEW w,
           \A x \in S \cup {y} : w[x] \in Nat
    PROVE  /\ SumFunctionOnSet(w, S) \in Nat
           /\ SumFunctionOnSet(w, S \cup {y})
                = SumFunctionOnSet(w, S) + w[y]
<1>1. IsFiniteSet(S \cup {y})
  BY FS_AddElement
<1>2. PICK m : Measures(m, w, S \cup {y})
  BY <1>1, MeasureExists
<1>3. SumFunctionOnSet(w, S \cup {y}) = m[S \cup {y}]
  BY <1>1, <1>2, FoldMeasures
<1> DEFINE n == [T \in SUBSET S |-> m[T]]
<1>4. Measures(n, w, S)
  <2>1. n \in [SUBSET S -> Nat]
    <3>1. \A T \in SUBSET S : T \in SUBSET (S \cup {y})
      OBVIOUS
    <3> QED BY <1>2, <3>1 DEF Measures
  <2>2. n[{}] = 0
    BY <1>2 DEF Measures
  <2>3. ASSUME NEW T \in SUBSET S, NEW x \in S \ T
        PROVE  n[T \cup {x}] = n[T] + w[x]
    <3>1. T \in SUBSET (S \cup {y}) /\ x \in (S \cup {y}) \ T /\ T \cup {x} \in SUBSET S
      BY <2>3
    <3>2. m[T \cup {x}] = m[T] + w[x]
      BY <1>2, <3>1 DEF Measures
    <3> QED BY <3>1, <3>2
  <2> HIDE DEF n
  <2> QED BY <2>1, <2>2, <2>3 DEF Measures
<1>5. SumFunctionOnSet(w, S) = n[S]
  <2> HIDE DEF n
  <2> QED BY <1>4, FoldMeasures
<1>6. n[S] = m[S] /\ n[S] \in Nat
  BY <1>4 DEF Measures
<1>7. m[S \cup {y}] = m[S] + w[y]
  <2>1. S \in SUBSET (S \cup {y}) /\ y \in (S \cup {y}) \ S
    OBVIOUS
  <2> QED BY <1>2, <2>1 DEF Measures
<1> QED BY <1>3, <1>5, <1>6, <1>7
-----------------------------------------------------------------------------
(* The byte totals.                                                          *)

\* The records in the index of an ID are finitely many, each with a size.
LEMMA IndexedRecords ==
    ASSUME TypeOK, IndexExact, NEW id \in RecordIDs
    PROVE  /\ Indexed(id) = {k \in 1..(cursor - 1) : recs[k].id = id}
           /\ Indexed(id) \subseteq 1..Len(recs) /\ IsFiniteSet(Indexed(id))
<1>1. Indexed(id) = {k \in 1..(cursor - 1) : recs[k].id = id}
  BY DEF IndexExact
<1>2. Len(recs) \in Nat /\ cursor \in 1..(Len(recs) + 1)
  BY Shapes
<1>3. Indexed(id) \in SUBSET (1..Len(recs))
  BY <1>1, <1>2
<1>4. IsFiniteSet(1..Len(recs))
  BY <1>2, FS_Interval
<1>5. IsFiniteSet(Indexed(id))
  BY <1>3, <1>4, FS_Subset
<1> QED BY <1>1, <1>3, <1>5

LEMMA CountedSizes ==
    ASSUME TypeOK
    PROVE  \A k \in 1..Len(recs) :
             /\ Counted[k] \in Nat
             /\ Counted[k] = IF Torn(k) THEN 0 ELSE recs[k].size
<1>1. /\ recs \in Seq([id : RecordIDs \cup {UnknownID}, size : Nat])
      /\ \A k \in 1..Len(recs) : recs[k].size \in Nat
  BY BlockRecords DEF TypeOK
<1>2. DOMAIN recs = 1..Len(recs)
  BY <1>1
<1> QED BY <1>1, <1>2 DEF Counted

\* A record that is filed adds what was counted of it.
LEMMA FilingAddsBytes ==
    ASSUME TypeOK, IndexExact, IndexExact', TypeOK', block' = block,
           cursor' = cursor + 1, cursor \in 1..Len(recs), NEW id \in RecordIDs
    PROVE  IndexedBytes(id)'
             = IndexedBytes(id) + (IF id = recs[cursor].id THEN Counted[cursor] ELSE 0)
           /\ IndexedBytes(id) \in Nat
<1> DEFINE S == Indexed(id)
<1>1. recs' = recs /\ Counted' = Counted
  BY DEF recs, Counted, Torn
<1>2. /\ S = {k \in 1..(cursor - 1) : recs[k].id = id}
      /\ S \subseteq 1..Len(recs) /\ IsFiniteSet(S)
  BY IndexedRecords
<1>3. Len(recs) \in Nat
  BY Shapes
<1> HIDE DEF recs
<1>4. Indexed(id)' = {k \in 1..(cursor' - 1) : recs'[k].id = id}
  BY DEF IndexExact
<1>5. cursor \notin S
  BY <1>2, <1>3
<1>6. Indexed(id)' = IF id = recs[cursor].id THEN S \cup {cursor} ELSE S
  BY <1>1, <1>2, <1>3, <1>4
<1> DEFINE w == Counted
<1>7. \A k \in S \cup {cursor} : w[k] \in Nat
  BY <1>2, CountedSizes
<1> HIDE DEF S, w
<1>8. /\ SumFunctionOnSet(w, S) \in Nat
      /\ SumFunctionOnSet(w, S \cup {cursor}) = SumFunctionOnSet(w, S) + w[cursor]
  BY <1>2, <1>5, <1>7, SumAdd
<1>9. IndexedBytes(id)' = SumFunctionOnSet(w, Indexed(id)')
  BY <1>1, Zenon DEF IndexedBytes, w
<1>10. IndexedBytes(id) = SumFunctionOnSet(w, S)
  BY DEF IndexedBytes, w, S
<1>11. CASE id = recs[cursor].id
  <2>1. IndexedBytes(id)' = SumFunctionOnSet(w, S) + w[cursor]
    BY <1>6, <1>8, <1>9, <1>11, Zenon
  <2> QED BY <1>8, <1>10, <1>11, <2>1, Zenon DEF w
<1>12. CASE id # recs[cursor].id
  <2>1. IndexedBytes(id)' = SumFunctionOnSet(w, S)
    BY <1>6, <1>9, <1>12, Zenon
  <2>2. IndexedBytes(id)' = IndexedBytes(id) + 0
    BY <1>8, <1>10, <2>1
  <2> QED BY <1>8, <1>10, <1>12, <2>2, Zenon
<1> QED BY <1>11, <1>12

\* The totals cover the index, in the middle of a pass, after one that threw and
\* after any number of passes and searches, which count records again
\* (DTBlockMultipleRecordIDs::index and findFirstMatching), so that a block made
\* with a total as its size has room for all its records.
THEOREM SizesAreEnough == Spec => []SizesCoverIndex
<1>1. Init => SizesCoverIndex
  <2> SUFFICES ASSUME Init, NEW id \in RecordIDs
               PROVE  recordSizes[id] >= IndexedBytes(id)
    BY DEF SizesCoverIndex
  <2>1. Indexed(id) = {} /\ recordSizes[id] = 0
    BY DEF Init, Indexed
  <2>2. IndexedBytes(id) = 0
    BY <2>1, SumEmpty DEF IndexedBytes
  <2> QED BY <2>1, <2>2
<1>2. SizesCoverIndex /\ IInv /\ IInv' /\ [Next]_vars => SizesCoverIndex'
  <2> SUFFICES ASSUME SizesCoverIndex, IInv, IInv', [Next]_vars, NEW id \in RecordIDs
               PROVE  recordSizes'[id] >= IndexedBytes(id)'
    BY DEF SizesCoverIndex
  <2>1. /\ TypeOK /\ TypeOK' /\ IndexExact /\ IndexExact' /\ LengthReal
        /\ block' = block /\ recs' = recs
    BY BlockFixed DEF IInv
  <2>2. recordSizes[id] \in Nat /\ recordSizes'[id] \in Nat
    BY <2>1 DEF TypeOK
  <2>3. Counted' = Counted
    BY <2>1 DEF Counted, Torn
  <2>4. IndexedBytes(id) \in Nat /\ recordSizes[id] >= IndexedBytes(id)
    <3>1. SumFunctionOnSet(Counted, Indexed(id)) \in Nat
      <4>1. IsFiniteSet(Indexed(id)) /\ \A x \in Indexed(id) : Counted[x] \in Nat
        BY <2>1, IndexedRecords, CountedSizes
      <4> QED BY <4>1, SumNatural
    <3> QED BY <3>1 DEF IndexedBytes, SizesCoverIndex
  <2> HIDE DEF recs
  <2>5. ASSUME UNCHANGED recordIndices, recordSizes'[id] >= recordSizes[id]
        PROVE  recordSizes'[id] >= IndexedBytes(id)'
    <3>1. IndexedBytes(id)' = IndexedBytes(id)
      BY <2>3, <2>5 DEF IndexedBytes, Indexed
    <3> QED BY <2>2, <2>4, <2>5, <3>1
  <2>6. CASE CallFinalize
    <3>1. Indexed(id)' = {}
      BY <2>6 DEF CallFinalize, StartIndex, Indexed
    <3>2. IndexedBytes(id)' = 0
      BY <3>1, SumEmpty DEF IndexedBytes
    <3> QED BY <2>2, <3>2
  <2>7. CASE IndexRecord
    <3>1. cursor \in 1..Len(recs) /\ ~Torn(cursor) /\ cursor' = cursor + 1
      BY <2>1, <2>7, Shapes DEF IndexRecord, LengthReal
    <3>2. IndexedBytes(id)'
            = IndexedBytes(id) + (IF id = recs[cursor].id THEN Counted[cursor] ELSE 0)
      BY <2>1, <3>1, FilingAddsBytes
    <3>3. Counted[cursor] = recs[cursor].size /\ Counted[cursor] \in Nat
      BY <2>1, <3>1, CountedSizes
    <3>4. recordSizes' = [recordSizes EXCEPT
                            ![recs[cursor].id] = recordSizes[recs[cursor].id] + recs[cursor].size]
      BY <2>7 DEF IndexRecord
    <3>5. recordSizes'[id] = IF id = recs[cursor].id
                             THEN recordSizes[id] + Counted[cursor] ELSE recordSizes[id]
      BY <2>1, <3>3, <3>4 DEF TypeOK
    <3>6. CASE id = recs[cursor].id
      BY <2>2, <2>4, <3>2, <3>3, <3>5, <3>6
    <3>7. CASE id # recs[cursor].id
      BY <2>2, <2>4, <3>2, <3>5, <3>7
    <3> QED BY <3>6, <3>7
  <2>8. CASE IndexTorn
    <3>1. cursor \in 1..Len(recs) /\ Torn(cursor) /\ cursor' = cursor + 1
      BY <2>1, <2>8, Shapes DEF IndexTorn, LengthReal
    <3>2. IndexedBytes(id)'
            = IndexedBytes(id) + (IF id = recs[cursor].id THEN Counted[cursor] ELSE 0)
      BY <2>1, <3>1, FilingAddsBytes
    <3>3. Counted[cursor] = 0
      BY <2>1, <3>1, CountedSizes
    <3>4. IndexedBytes(id)' = IndexedBytes(id) + 0
      BY <3>2, <3>3, Zenon
    <3>5. recordSizes'[id] = recordSizes[id]
      BY <2>8 DEF IndexTorn
    <3> QED BY <2>2, <2>4, <3>4, <3>5
  <2>9. CASE FindSkip
    <3>1. probe \in 1..Len(recs)
      BY <2>1, <2>9, Shapes DEF FindSkip
    <3>2. PICK size \in {recs[probe].size} \cup (IF Torn(probe) THEN {0} ELSE {}) :
              recordSizes' = [recordSizes EXCEPT ![recs[probe].id] = @ + size]
      BY <2>9 DEF FindSkip
    <3>3. size \in Nat
      <4>1. recs[probe].size \in Nat
        BY <2>1, <3>1, BlockRecords DEF TypeOK
      <4>2. size = recs[probe].size \/ size = 0
        BY <3>2
      <4> QED BY <4>1, <4>2
    <3>4. recordSizes'[id] = recordSizes[id] \/ recordSizes'[id] = recordSizes[id] + size
      BY <2>1, <3>2 DEF TypeOK
    <3>5. recordSizes'[id] >= recordSizes[id]
      BY <2>2, <3>3, <3>4
    <3> QED BY <2>5, <2>9, <3>5 DEF FindSkip
  <2>10. CASE recordIndices' = recordIndices /\ recordSizes' = recordSizes
    BY <2>2, <2>5, <2>10
  <2>11. CASE IndexUnknown \/ IndexDone \/ SoftFinalize
    BY <2>10, <2>11 DEF IndexUnknown, IndexDone, SoftFinalize
  <2>12. CASE \E T \in SUBSET RecordIDs : CallFindFirstMatching(T)
    BY <2>10, <2>12 DEF CallFindFirstMatching
  <2>13. CASE FindMatch \/ FindThrow \/ FindEnd
    BY <2>10, <2>13 DEF FindMatch, FindThrow, FindEnd
  <2>14. CASE UNCHANGED vars
    BY <2>10, <2>14 DEF vars
  <2> QED
    BY <2>6, <2>7, <2>8, <2>9, <2>11, <2>12, <2>13, <2>14
    DEF Next, IndexStep, FindStep
<1> QED
  BY <1>1, <1>2, InvHolds, PTL DEF Spec
=============================================================================
