--------------------------- MODULE MdfFile_proofs ----------------------------
(***************************************************************************)
(* Proofs about MdfFile, for files of any number of data groups, channel   *)
(* groups and records, and any number of calls.                            *)
(***************************************************************************)
EXTENDS MdfFile, SequenceTheorems, FiniteSetTheorems, WellFoundedInduction, TLAPS

-----------------------------------------------------------------------------
(* Numbers and sequences.                                                    *)

\* A set of naturals has a least element.
LEMMA LeastNatural ==
    ASSUME NEW T, T \subseteq Nat, T # {}
    PROVE  \E m \in T : \A n \in T : m <= n
<1>1. IsWellFoundedOn(OpToRel(<, Nat), Nat)
  BY NatLessThanWellFounded
<1>2. PICK m \in T : \A n \in T : ~(<<n, m>> \in OpToRel(<, Nat))
  BY <1>1, WFMin
<1>3. \A n \in T : ~(n < m)
  BY <1>2 DEF OpToRel
<1> QED
  BY <1>3

LEMMA MinIsLeast ==
    ASSUME NEW T, T \subseteq Nat, T # {}
    PROVE  Min(T) \in T /\ \A n \in T : Min(T) <= n
BY LeastNatural DEF Min

LEMMA Glued ==
    ASSUME NEW S, NEW a \in Seq(S), NEW b \in Seq(S)
    PROVE  /\ a \o b \in Seq(S) /\ Len(a \o b) = Len(a) + Len(b)
           /\ \A j \in 1..Len(a) : (a \o b)[j] = a[j]
           /\ \A j \in 1..Len(b) : (a \o b)[Len(a) + j] = b[j]
<1>1. /\ a \o b \in Seq(S) /\ Len(a \o b) = Len(a) + Len(b)
      /\ \A i \in 1..(Len(a) + Len(b)) :
            (a \o b)[i] = IF i <= Len(a) THEN a[i] ELSE b[i - Len(a)]
  BY ConcatProperties
<1>2. Len(a) \in Nat /\ Len(b) \in Nat
  OBVIOUS
<1>3. ASSUME NEW j \in 1..Len(a) PROVE (a \o b)[j] = a[j]
  BY <1>1, <1>2
<1>4. ASSUME NEW j \in 1..Len(b) PROVE (a \o b)[Len(a) + j] = b[j]
  <2>1. /\ Len(a) + j \in 1..(Len(a) + Len(b)) /\ ~(Len(a) + j <= Len(a))
        /\ (Len(a) + j) - Len(a) = j
    BY <1>2
  <2> QED BY <1>1, <2>1
<1> QED BY <1>1, <1>3, <1>4

\* A piece of a sequence.
LEMMA PieceOf ==
    ASSUME NEW S, NEW s \in Seq(S), NEW m \in Nat, NEW n \in Nat,
           1 <= m, m <= n + 1, n <= Len(s)
    PROVE  /\ SubSeq(s, m, n) \in Seq(S) /\ Len(SubSeq(s, m, n)) = n + 1 - m
           /\ \A j \in 1..(n + 1 - m) : SubSeq(s, m, n)[j] = s[m + j - 1]
<1>1. \A i \in m..n : s[i] \in S
  OBVIOUS
<1>2. /\ SubSeq(s, m, n) \in Seq(S)
      /\ Len(SubSeq(s, m, n)) = IF m <= n THEN n - m + 1 ELSE 0
      /\ \A i \in 1..(n - m + 1) : SubSeq(s, m, n)[i] = s[m + i - 1]
  BY <1>1, SubSeqProperties
<1>3. (IF m <= n THEN n - m + 1 ELSE 0) = n + 1 - m /\ n - m + 1 = n + 1 - m
  OBVIOUS
<1> QED BY <1>2, <1>3

\* The sequence without the element at position p.
LEMMA RemovedSeq ==
    ASSUME NEW S, NEW s \in Seq(S), NEW p \in DOMAIN s
    PROVE  RemoveAt(s, p)
             = [j \in 1..(Len(s) - 1) |-> IF j < p THEN s[j] ELSE s[j + 1]]
<1> DEFINE r == RemoveAt(s, p)
           f == [j \in 1..(Len(s) - 1) |-> IF j < p THEN s[j] ELSE s[j + 1]]
           a == SubSeq(s, 1, p - 1)
           b == SubSeq(s, p + 1, Len(s))
<1>0. p \in 1..Len(s) /\ Len(s) \in Nat
  OBVIOUS
<1>1. /\ a \in Seq(S) /\ Len(a) = p - 1
      /\ \A j \in 1..(p - 1) : a[j] = s[j]
  <2>1. /\ a \in Seq(S) /\ Len(a) = p - 1 + 1 - 1
        /\ \A j \in 1..(p - 1 + 1 - 1) : a[j] = s[1 + j - 1]
    <3>1. 1 \in Nat /\ p - 1 \in Nat /\ 1 <= p - 1 + 1 /\ p - 1 <= Len(s)
      BY <1>0
    <3> QED BY <3>1, PieceOf
  <2> HIDE DEF a
  <2>2. p - 1 + 1 - 1 = p - 1 /\ \A j \in 1..(p - 1) : 1 + j - 1 = j
    BY <1>0
  <2> QED BY <2>1, <2>2
<1>2. /\ b \in Seq(S) /\ Len(b) = Len(s) - p
      /\ \A j \in 1..(Len(s) - p) : b[j] = s[(p + 1) + j - 1]
  <2>1. /\ b \in Seq(S) /\ Len(b) = Len(s) + 1 - (p + 1)
        /\ \A j \in 1..(Len(s) + 1 - (p + 1)) : b[j] = s[(p + 1) + j - 1]
    BY <1>0, PieceOf
  <2> HIDE DEF b
  <2>2. Len(s) + 1 - (p + 1) = Len(s) - p
    BY <1>0
  <2> QED BY <2>1, <2>2
<1>3. r = a \o b
  BY DEF RemoveAt
<1> HIDE DEF a, b
<1>4. /\ r \in Seq(S) /\ Len(r) = Len(a) + Len(b)
      /\ \A j \in 1..Len(a) : r[j] = a[j]
      /\ \A j \in 1..Len(b) : r[Len(a) + j] = b[j]
  <2>1. /\ a \o b \in Seq(S) /\ Len(a \o b) = Len(a) + Len(b)
        /\ \A j \in 1..Len(a) : (a \o b)[j] = a[j]
        /\ \A j \in 1..Len(b) : (a \o b)[Len(a) + j] = b[j]
    <3>1. a \in Seq(S) /\ b \in Seq(S)
      BY <1>1, <1>2
    <3> QED BY <3>1, Glued
  <2> QED BY <1>3, <2>1
<1>5. ASSUME NEW j \in p..(Len(s) - 1) PROVE r[j] = s[j + 1]
  <2>1. PICK k \in 1..(Len(s) - p) : k = j - (p - 1)
    BY <1>0
  <2>2. (p - 1) + k = j /\ (p + 1) + k - 1 = j + 1
    <3>1. j \in Int /\ p \in Int
      BY <1>0
    <3> HIDE <1>0
    <3> QED BY <2>1, <3>1
  <2>3. b[k] = s[(p + 1) + k - 1]
    BY <1>2
  <2>4. r[Len(a) + k] = b[k]
    <3>1. k \in 1..Len(b)
      BY <1>2
    <3> QED BY <1>4, <3>1
  <2> QED BY <1>1, <2>2, <2>3, <2>4
<1>6. \A j \in p..(Len(s) - 1) : r[j] = s[j + 1]
  BY <1>5
<1>7. Len(r) = Len(s) - 1
  BY <1>0, <1>1, <1>2, <1>4
<1>8. \A j \in 1..(p - 1) : r[j] = s[j]
  BY <1>1, <1>4
<1>9. f \in [1..(Len(s) - 1) -> S] /\ Len(s) - 1 \in Nat
  BY <1>0
<1>10. f \in Seq(S) /\ Len(f) = Len(s) - 1
  BY <1>9
<1>11. \A j \in 1..(Len(s) - 1) : r[j] = f[j]
  BY <1>0, <1>6, <1>8
<1> HIDE DEF r, f
<1>12. r = f
  BY <1>4, <1>7, <1>10, <1>11, SeqEqual
<1> QED BY <1>12 DEF r, f

\* The sequence with e inserted behind position i.
LEMMA InsertedSeq ==
    ASSUME NEW S, NEW s \in Seq(S), NEW i \in DOMAIN s, NEW e \in S
    PROVE  InsertAt(s, i + 1, e)
             = [j \in 1..(Len(s) + 1) |->
                  IF j <= i THEN s[j] ELSE IF j = i + 1 THEN e ELSE s[j - 1]]
<1> DEFINE r == InsertAt(s, i + 1, e)
           f == [j \in 1..(Len(s) + 1) |->
                  IF j <= i THEN s[j] ELSE IF j = i + 1 THEN e ELSE s[j - 1]]
           a == SubSeq(s, 1, (i + 1) - 1)
           b == SubSeq(s, i + 1, Len(s))
           c == a \o <<e>>
<1>0. i \in 1..Len(s) /\ Len(s) \in Nat
  OBVIOUS
<1>1. /\ a \in Seq(S) /\ Len(a) = i
      /\ \A j \in 1..i : a[j] = s[j]
  <2>1. /\ a \in Seq(S) /\ Len(a) = ((i + 1) - 1) + 1 - 1
        /\ \A j \in 1..(((i + 1) - 1) + 1 - 1) : a[j] = s[1 + j - 1]
    BY <1>0, PieceOf
  <2> HIDE DEF a
  <2> QED BY <1>0, <2>1
<1>2. /\ b \in Seq(S) /\ Len(b) = Len(s) - i
      /\ \A j \in 1..(Len(s) - i) : b[j] = s[(i + 1) + j - 1]
  <2>1. /\ b \in Seq(S) /\ Len(b) = Len(s) + 1 - (i + 1)
        /\ \A j \in 1..(Len(s) + 1 - (i + 1)) : b[j] = s[(i + 1) + j - 1]
    BY <1>0, PieceOf
  <2> HIDE DEF b
  <2>2. Len(s) + 1 - (i + 1) = Len(s) - i
    BY <1>0
  <2> QED BY <2>1, <2>2
<1>3. <<e>> \in Seq(S) /\ Len(<<e>>) = 1 /\ <<e>>[1] = e
  OBVIOUS
<1>4. r = c \o b
  BY Zenon DEF InsertAt
<1> HIDE DEF a, b
<1>5. /\ c \in Seq(S) /\ Len(c) = i + 1
      /\ \A j \in 1..i : c[j] = a[j]
      /\ c[i + 1] = e
  <2>1. /\ c \in Seq(S) /\ Len(c) = Len(a) + Len(<<e>>)
        /\ \A j \in 1..Len(a) : c[j] = a[j]
        /\ \A j \in 1..Len(<<e>>) : c[Len(a) + j] = <<e>>[j]
    BY <1>1, <1>3, Glued
  <2>2. c[Len(a) + 1] = e
    BY <1>3, <2>1
  <2> HIDE DEF c
  <2> QED BY <1>0, <1>1, <1>3, <2>1, <2>2
<1> HIDE DEF c
<1>6. /\ r \in Seq(S) /\ Len(r) = Len(c) + Len(b)
      /\ \A j \in 1..Len(c) : r[j] = c[j]
      /\ \A j \in 1..Len(b) : r[Len(c) + j] = b[j]
  <2>1. /\ c \o b \in Seq(S) /\ Len(c \o b) = Len(c) + Len(b)
        /\ \A j \in 1..Len(c) : (c \o b)[j] = c[j]
        /\ \A j \in 1..Len(b) : (c \o b)[Len(c) + j] = b[j]
    <3>1. c \in Seq(S) /\ b \in Seq(S)
      BY <1>2, <1>5
    <3> QED BY <3>1, Glued
  <2> QED BY <1>4, <2>1
<1>7. r[i + 1] = e /\ \A j \in 1..i : r[j] = s[j]
  <2>1. i + 1 \in 1..Len(c) /\ \A j \in 1..i : j \in 1..Len(c) /\ j \in 1..Len(a)
    BY <1>0, <1>1, <1>5
  <2> QED BY <1>1, <1>5, <1>6, <2>1
<1>8. ASSUME NEW j \in (i + 1)..Len(s) PROVE r[j + 1] = s[j]
  <2>1. PICK k \in 1..(Len(s) - i) : k = j - i
    BY <1>0
  <2>2. (i + 1) + k = j + 1 /\ (i + 1) + k - 1 = j
    <3>1. i + k = j
      BY <1>0, <2>1
    <3> QED BY <1>0, <3>1
  <2>3. b[k] = s[(i + 1) + k - 1]
    BY <1>2
  <2>4. r[Len(c) + k] = b[k]
    <3>1. k \in 1..Len(b)
      BY <1>2
    <3> QED BY <1>6, <3>1
  <2> QED BY <1>5, <2>2, <2>3, <2>4
<1>9. \A j \in (i + 1)..Len(s) : r[j + 1] = s[j]
  BY <1>8
<1>10. Len(r) = Len(s) + 1
  BY <1>0, <1>2, <1>5, <1>6
<1>11. f \in Seq(S) /\ Len(f) = Len(s) + 1
  <2>1. f \in [1..(Len(s) + 1) -> S] /\ Len(s) + 1 \in Nat
    BY <1>0
  <2> QED BY <2>1
<1>12. ASSUME NEW j \in 1..(Len(s) + 1) PROVE r[j] = f[j]
  <2>1. CASE j <= i
    BY <1>0, <1>7, <2>1
  <2>2. CASE j = i + 1
    BY <1>0, <1>7, <2>2
  <2>3. CASE j > i + 1
    <3>1. j - 1 \in (i + 1)..Len(s) /\ (j - 1) + 1 = j
      BY <1>0, <2>3
    <3>2. r[j] = s[j - 1]
      BY <1>9, <3>1
    <3> QED BY <1>0, <2>3, <3>2
  <2> QED BY <1>0, <2>1, <2>2, <2>3
<1> HIDE DEF r, f
<1>13. r = f
  BY <1>6, <1>10, <1>11, <1>12, SeqEqual
<1> QED BY <1>13 DEF r, f

\* What is where after the element at position i was replaced.
LEMMA ReplacedSeq ==
    ASSUME NEW S, NEW s \in Seq(S), NEW i \in DOMAIN s, NEW e,
           NEW r, r = [s EXCEPT ![i] = e]
    PROVE  /\ r \in Seq(S \cup {e}) /\ Len(r) = Len(s) /\ DOMAIN r = DOMAIN s
           /\ r[i] = e
           /\ \A j \in DOMAIN s : j # i => r[j] = s[j]
<1>1. s \in Seq(S \cup {e}) /\ i \in 1..Len(s)
  BY SeqMonotonic
<1> QED
  BY <1>1, ExceptSeq

-----------------------------------------------------------------------------
(* The file, its data groups and data blocks.                                *)

DataBlockOK(dt) ==
    /\ dt = [kind |-> dt.kind, indices |-> dt.indices, sizes |-> dt.sizes]
    /\ DOMAIN dt.indices = DOMAIN dt.sizes
    /\ DOMAIN dt.indices \subseteq Groups

DataGroupOK(f, dg) ==
    /\ dg = [src |-> dg.src, cgs |-> dg.cgs, hasIDs |-> dg.hasIDs, dt |-> dg.dt]
    /\ dg.src \in DOMAIN f.dgs
    /\ dg.cgs \in Seq(Groups) /\ dg.cgs # <<>>
    /\ \A i, j \in DOMAIN dg.cgs : dg.cgs[i] = dg.cgs[j] => i = j
    /\ DataBlockOK(dg.dt)
    /\ IsMultiple(dg.dt) => GroupsIn(dg) \subseteq DOMAIN dg.dt.indices

Shape ==
    /\ file \in Files
    /\ flags \subseteq file.flags
    /\ \E S : chain \in Seq(S)
    /\ chain # <<>>
    /\ \A i \in DOMAIN chain : DataGroupOK(file, chain[i])
    /\ at \in Nat \ {0}
    /\ reach \in Nat
    /\ todo \in Seq(Groups)
    /\ DOMAIN sd \subseteq file.vlsd
    \* The loop that makes SD blocks visits groups of its data group only.
    /\ pc = "toSD" =>
        /\ at <= Len(chain)
        /\ \A k \in DOMAIN todo :
            todo[k] \in DOMAIN sd \cup GroupsIn(chain[at])

\* What the assumption says of a file.
LEMMA FileFacts ==
    ASSUME file \in Files
    PROVE  /\ file.flags \subseteq Flags
           /\ file.vlsd \subseteq Groups /\ file.timed \subseteq Groups
           /\ Unknown \notin Groups
           /\ \A v \in file.vlsd : file.refers[v] \in Groups \ file.vlsd
           /\ DOMAIN file.dgs = 1..Len(file.dgs) /\ Len(file.dgs) \in Nat \ {0}
           /\ \A s \in DOMAIN file.dgs :
                /\ file.dgs[s].cgs \in Seq(Groups) /\ file.dgs[s].cgs # <<>>
                /\ Len(file.dgs[s].cgs) \in Nat
                /\ Log(s) \in Seq(Records) /\ Len(Log(s)) \in Nat
                /\ \A k \in DOMAIN Log(s) :
                    Log(s)[k].id \in GroupsIn(file.dgs[s]) \cup {Unknown}
                /\ \A i, j \in DOMAIN file.dgs[s].cgs :
                    file.dgs[s].cgs[i] = file.dgs[s].cgs[j] => i = j
           /\ \A s, t \in DOMAIN file.dgs :
                s # t => GroupsIn(file.dgs[s]) \cap GroupsIn(file.dgs[t]) = {}
<1>1. FileOK(file) /\ Unknown \notin Groups
  BY MdfFileAssumption
<1>2. file.dgs \in Seq([cgs : Seq(Groups), log : Seq(Records)]) /\ file.dgs # <<>>
  BY <1>1 DEF FileOK
<1>3. DOMAIN file.dgs = 1..Len(file.dgs) /\ Len(file.dgs) \in Nat \ {0}
  BY <1>2, EmptySeq, LenProperties
<1>4. ASSUME NEW s \in DOMAIN file.dgs
      PROVE  /\ file.dgs[s].cgs \in Seq(Groups) /\ file.dgs[s].cgs # <<>>
             /\ Len(file.dgs[s].cgs) \in Nat
             /\ Log(s) \in Seq(Records) /\ Len(Log(s)) \in Nat
             /\ \A k \in DOMAIN Log(s) :
                 Log(s)[k].id \in GroupsIn(file.dgs[s]) \cup {Unknown}
             /\ \A i, j \in DOMAIN file.dgs[s].cgs :
                 file.dgs[s].cgs[i] = file.dgs[s].cgs[j] => i = j
  <2>1. file.dgs[s] \in [cgs : Seq(Groups), log : Seq(Records)]
    BY <1>2, <1>3, ElementOfSeq
  <2>2. file.dgs[s].cgs \in Seq(Groups) /\ file.dgs[s].log \in Seq(Records)
    BY <2>1
  <2>3. Len(file.dgs[s].cgs) \in Nat /\ Len(file.dgs[s].log) \in Nat
    BY <2>2, LenProperties
  <2> QED BY <1>1, <2>2, <2>3 DEF FileOK, Log
<1>5. \A s, t \in DOMAIN file.dgs :
        s # t => GroupsIn(file.dgs[s]) \cap GroupsIn(file.dgs[t]) = {}
  BY <1>1 DEF FileOK
<1>6. /\ file.flags \subseteq Flags
      /\ file.vlsd \subseteq Groups /\ file.timed \subseteq Groups
      /\ \A v \in file.vlsd : file.refers[v] \in Groups \ file.vlsd
  BY <1>1 DEF FileOK
<1> QED
  BY <1>1, <1>3, <1>4, <1>5, <1>6

\* A group belongs to one data group of the file.
LEMMA SourceOfGroup ==
    ASSUME file \in Files, NEW s \in DOMAIN file.dgs, NEW c \in GroupsIn(file.dgs[s])
    PROVE  SourceOf(c) = s
<1>1. \A t \in DOMAIN file.dgs : c \in GroupsIn(file.dgs[t]) => t = s
  BY FileFacts
<1> QED
  BY <1>1 DEF SourceOf

\* A walk passes no more records than it is told to and than there are, and
\* stops early at the end of the log or at a record with an unknown ID only.
LEMMA PassableIs ==
    ASSUME file \in Files, NEW s \in DOMAIN file.dgs, NEW n \in Nat
    PROVE  /\ Passable(s, n) \in 0..n
           /\ \A k \in 1..Passable(s, n) :
                k <= Len(Log(s)) /\ Log(s)[k].id # Unknown
           /\ Passable(s, n) < n =>
                \/ Passable(s, n) = Len(Log(s))
                \/ Log(s)[Passable(s, n) + 1].id = Unknown
<1> DEFINE L == Len(Log(s))
           Stops(k) == k = n \/ k = L \/ Log(s)[k + 1].id = Unknown
           T == {k \in 0..n : Stops(k)}
<1>1. L \in Nat
  BY FileFacts
<1>2. PICK m \in T : \A k \in T : m <= k
  <2>1. n \in T /\ T \subseteq Nat
    OBVIOUS
  <2> QED BY <2>1, LeastNatural
<1>3. m \in 0..n /\ Stops(m) /\ \A k \in 0..n : k < m => ~Stops(k)
  BY <1>2
<1> HIDE DEF T
<1>4. m <= L
  <2>1. CASE m > L
    <3>1. L \in 0..n /\ L < m /\ Stops(L)
      BY <1>1, <1>3, <2>1
    <3> QED BY <1>3, <3>1
  <2> QED BY <1>1, <1>3, <2>1
<1>5. \A k \in 1..m : k <= L /\ Log(s)[k].id # Unknown
  <2>1. SUFFICES ASSUME NEW k \in 1..m PROVE k <= L /\ Log(s)[k].id # Unknown
    OBVIOUS
  <2>2. k - 1 \in 0..n /\ k - 1 < m /\ (k - 1) + 1 = k
    BY <1>3
  <2>3. ~Stops(k - 1)
    BY <1>3, <2>2
  <2> QED BY <1>1, <1>3, <1>4, <2>2, <2>3
<1>6. m < n => m = L \/ Log(s)[m + 1].id = Unknown
  BY <1>3
<1>7. \E x \in 0..n :
        /\ \A k \in 1..x : k <= Len(Log(s)) /\ Log(s)[k].id # Unknown
        /\ x < n => x = Len(Log(s)) \/ Log(s)[x + 1].id = Unknown
  BY <1>3, <1>5, <1>6
<1> QED
  BY <1>7 DEF Passable

\* The length the walk over a data block is told is a number.
LEMMA ReachIs ==
    ASSUME file \in Files, reach \in Nat, NEW s \in DOMAIN file.dgs
    PROVE  Reach(s) \in Nat
BY FileFacts DEF Reach

-----------------------------------------------------------------------------
(* What the steps do to the chain.                                           *)

\* Which steps change what.
LEMMA Changes ==
    ASSUME [Next]_vars
    PROVE  /\ file' = file
           /\ chain' = chain \/ CountRecords \/ MoveVLSD \/ SplitGroup \/ MeasureWalk
           /\ flags' = flags \/ CountBytes
           /\ cycles' = cycles \/ CountRecords
           /\ sd' = sd \/ MoveVLSD
           /\ reach' = reach \/ SetLength \/ SoftSetLength
           /\ measured' = measured \/ MeasureWalk \/ MeasureStart \/ measured' = {}
<1> QED
  BY DEF Next, Step, FinalizeStep, SortStep, MeasureStep, CallGetFileInfo,
         CallGetIterator, CallGetFirstMeasurement, SetLength, CountRecords,
         CountDone, CountBytes, MoveVLSD, KeepGroup, NextToSD, SplitGroup,
         NextToDG, SortCrash, SortDone, FindBUSBlock, SoftSetLength,
         MeasureWalk, MeasureUninitialised, MeasureStart, MeasureSkip,
         MeasureDone, vars, sortVars, loopVars

\* What indexing and measuring leave of the chain.
SameButBlock(ch) ==
    /\ at \in DOMAIN chain /\ IsMultiple(chain[at].dt)
    /\ Len(ch) = Len(chain) /\ DOMAIN ch = DOMAIN chain
    /\ \E S : ch \in Seq(S)
    /\ \A j \in DOMAIN chain : j # at => ch[j] = chain[j]
    /\ ch[at] = [chain[at] EXCEPT !.dt = ch[at].dt]
    /\ ch[at].dt.kind = chain[at].dt.kind
    /\ DOMAIN ch[at].dt.indices = DOMAIN chain[at].dt.indices
    /\ DataBlockOK(ch[at].dt)

LEMMA BytesAdded ==
    ASSUME NEW dt, DataBlockOK(dt), NEW s, NEW n
    PROVE  /\ DataBlockOK(AddBytes(dt, s, n))
           /\ AddBytes(dt, s, n).indices = dt.indices
           /\ AddBytes(dt, s, n).kind = dt.kind
           /\ DOMAIN AddBytes(dt, s, n).sizes = DOMAIN dt.sizes
<1> DEFINE z == [c \in DOMAIN dt.sizes |-> dt.sizes[c] + BytesOf(Log(s), c, n)]
<1>1. DOMAIN z = DOMAIN dt.sizes
  OBVIOUS
<1>2. AddBytes(dt, s, n) = [dt EXCEPT !.sizes = z]
  BY DEF AddBytes
<1> HIDE DEF z
<1>3. AddBytes(dt, s, n) = [kind |-> dt.kind, indices |-> dt.indices, sizes |-> z]
  BY <1>2 DEF DataBlockOK
<1> QED
  BY <1>1, <1>3 DEF DataBlockOK

LEMMA CountedBlock ==
    ASSUME NEW dt, DataBlockOK(dt), NEW s, NEW n
    PROVE  /\ DataBlockOK(Indexed(dt, s, n))
           /\ Indexed(dt, s, n).kind = dt.kind
           /\ DOMAIN Indexed(dt, s, n).indices = DOMAIN dt.indices
           /\ \A c \in DOMAIN dt.indices :
                Indexed(dt, s, n).indices[c] = RecordsOf(Log(s), c, Passable(s, n))
<1> DEFINE b == AddBytes(dt, s, Passable(s, n))
           x == [c \in DOMAIN b.indices |-> RecordsOf(Log(s), c, Passable(s, n))]
<1>1. /\ DataBlockOK(b) /\ b.indices = dt.indices /\ b.kind = dt.kind
  BY BytesAdded
<1>2. Indexed(dt, s, n) = [b EXCEPT !.indices = x]
  BY DEF Indexed
<1>3. /\ DOMAIN x = DOMAIN b.indices
      /\ \A c \in DOMAIN b.indices : x[c] = RecordsOf(Log(s), c, Passable(s, n))
  OBVIOUS
<1> HIDE DEF b, x
<1>4. Indexed(dt, s, n) = [kind |-> b.kind, indices |-> x, sizes |-> b.sizes]
  BY <1>1, <1>2 DEF DataBlockOK
<1> QED
  BY <1>1, <1>3, <1>4 DEF DataBlockOK

LEMMA BlockReplaced ==
    ASSUME Shape, at \in DOMAIN chain, IsMultiple(chain[at].dt), NEW x,
           DataBlockOK(x), x.kind = chain[at].dt.kind,
           DOMAIN x.indices = DOMAIN chain[at].dt.indices,
           NEW ch, ch = [chain EXCEPT ![at].dt = x]
    PROVE  SameButBlock(ch) /\ ch[at].dt = x
<1>1. PICK S : chain \in Seq(S)
  BY DEF Shape
<1> DEFINE e == [chain[at] EXCEPT !.dt = x]
<1>2. ch = [chain EXCEPT ![at] = e]
  OBVIOUS
<1>3. e.dt = x
  BY DEF Shape, DataGroupOK
<1> HIDE DEF e
<1>4. /\ ch \in Seq(S \cup {e}) /\ Len(ch) = Len(chain) /\ DOMAIN ch = DOMAIN chain
      /\ ch[at] = e
      /\ \A j \in DOMAIN chain : j # at => ch[j] = chain[j]
  BY <1>1, <1>2, ReplacedSeq
<1>5. ch[at] = [chain[at] EXCEPT !.dt = ch[at].dt]
  BY <1>3, <1>4 DEF e
<1> QED
  BY <1>3, <1>4, <1>5 DEF SameButBlock

LEMMA CountEffect ==
    ASSUME Shape, CountRecords
    PROVE  /\ SameButBlock(chain')
           /\ \A c \in DOMAIN chain[at].dt.indices :
                chain'[at].dt.indices[c]
                  = RecordsOf(Log(chain[at].src), c,
                              Passable(chain[at].src, Reach(chain[at].src)))
<1> DEFINE s == chain[at].src
           x == Indexed(chain[at].dt, s, Reach(s))
<1>1. at \in DOMAIN chain
  BY LenProperties DEF CountRecords, Shape
<1>2. chain' = [chain EXCEPT ![at].dt = x] /\ IsMultiple(chain[at].dt)
  BY DEF CountRecords, CurrentDT
<1>3. DataBlockOK(chain[at].dt)
  BY <1>1 DEF Shape, DataGroupOK
<1>4. /\ DataBlockOK(x) /\ x.kind = chain[at].dt.kind
      /\ DOMAIN x.indices = DOMAIN chain[at].dt.indices
      /\ \A c \in DOMAIN chain[at].dt.indices :
            x.indices[c] = RecordsOf(Log(s), c, Passable(s, Reach(s)))
  BY <1>3, CountedBlock
<1> HIDE DEF x
<1>5. SameButBlock(chain') /\ chain'[at].dt = x
  BY <1>1, <1>2, <1>4, BlockReplaced
<1> QED
  BY <1>4, <1>5

LEMMA WalkEffect ==
    ASSUME Shape, MeasureWalk
    PROVE  /\ SameButBlock(chain')
           /\ chain'[at].dt.indices = chain[at].dt.indices
<1>1. at \in DOMAIN chain
  BY LenProperties DEF MeasureWalk, Shape
<1>2. IsMultiple(chain[at].dt)
  BY DEF MeasureWalk, IsWalk, CurrentDT
<1>3. PICK s, n : chain' = [chain EXCEPT ![at].dt = AddBytes(chain[at].dt, s, n)]
  BY DEF MeasureWalk
<1> DEFINE x == AddBytes(chain[at].dt, s, n)
<1>4. DataBlockOK(chain[at].dt)
  BY <1>1 DEF Shape, DataGroupOK
<1>5. /\ DataBlockOK(x) /\ x.kind = chain[at].dt.kind
      /\ x.indices = chain[at].dt.indices
  BY <1>4, BytesAdded
<1>6. chain' = [chain EXCEPT ![at].dt = x]
  BY <1>3
<1> HIDE DEF x
<1> QED
  BY <1>1, <1>2, <1>5, <1>6, BlockReplaced

LEMMA DerivedBlock ==
    ASSUME NEW dt, DataBlockOK(dt), NEW ids, ids \subseteq DOMAIN dt.indices
    PROVE  /\ DataBlockOK(Derived(dt, ids))
           /\ DOMAIN Derived(dt, ids).indices = ids
           /\ \A c \in ids : Derived(dt, ids).indices[c] = dt.indices[c]
<1>1. CASE ids = {}
  <2>1. Derived(dt, ids) = [kind |-> "none", indices |-> <<>>, sizes |-> <<>>]
    BY <1>1 DEF Derived, NoDT
  <2>2. DOMAIN <<>> = {}
    OBVIOUS
  <2> QED BY <1>1, <2>1, <2>2 DEF DataBlockOK
<1>2. CASE ids # {}
  <2> DEFINE ix == [c \in ids |-> dt.indices[c]]
             sz == [c \in ids |-> dt.sizes[c]]
             kd == IF Cardinality(ids) > 1 THEN "subset" ELSE "disc"
  <2>1. Derived(dt, ids) = [kind |-> kd, indices |-> ix, sizes |-> sz]
    BY <1>2 DEF Derived, Restrict
  <2>2. DOMAIN ix = ids /\ DOMAIN sz = ids /\ \A c \in ids : ix[c] = dt.indices[c]
    OBVIOUS
  <2> HIDE DEF ix, sz, kd
  <2> QED BY <2>1, <2>2 DEF DataBlockOK
<1> QED
  BY <1>1, <1>2

\* A record of this shape with other fields.
LEMMA OneFieldReplaced ==
    ASSUME NEW a, NEW b, NEW c, NEW d, NEW g, NEW x,
           g = [src |-> a, cgs |-> b, hasIDs |-> c, dt |-> d]
    PROVE  /\ [g EXCEPT !.cgs = x] = [src |-> a, cgs |-> x, hasIDs |-> c, dt |-> d]
           /\ [g EXCEPT !.dt = x] = [src |-> a, cgs |-> b, hasIDs |-> c, dt |-> x]
           /\ [g EXCEPT !.hasIDs = x] = [src |-> a, cgs |-> b, hasIDs |-> x, dt |-> d]
<1>1. [g EXCEPT !.cgs = x] = [src |-> a, cgs |-> x, hasIDs |-> c, dt |-> d]
  OBVIOUS
<1>2. [g EXCEPT !.dt = x] = [src |-> a, cgs |-> b, hasIDs |-> c, dt |-> x]
  OBVIOUS
<1>3. [g EXCEPT !.hasIDs = x] = [src |-> a, cgs |-> b, hasIDs |-> x, dt |-> d]
  OBVIOUS
<1> QED BY <1>1, <1>2, <1>3

\* A data group with other channel groups and another data block.
LEMMA ExceptGroup ==
    ASSUME NEW dg, NEW cg, NEW dt,
           dg = [src |-> dg.src, cgs |-> dg.cgs, hasIDs |-> dg.hasIDs, dt |-> dg.dt]
    PROVE  [dg EXCEPT !.cgs = cg, !.dt = dt]
                = [src |-> dg.src, cgs |-> cg, hasIDs |-> dg.hasIDs, dt |-> dt]
<1> DEFINE x == [dg EXCEPT !.cgs = cg]
           y == [x EXCEPT !.dt = dt]
<1>1. [dg EXCEPT !.cgs = cg, !.dt = dt] = y
  BY Zenon
<1>2. x = [src |-> dg.src, cgs |-> cg, hasIDs |-> dg.hasIDs, dt |-> dg.dt]
  BY OneFieldReplaced
<1> HIDE DEF x
<1>3. y = [src |-> dg.src, cgs |-> cg, hasIDs |-> dg.hasIDs, dt |-> dt]
  BY <1>2, OneFieldReplaced
<1> HIDE DEF y
<1> QED BY <1>1, <1>3

\* Group v is unlinked from the data group the loop is at, at position p.
Unlinked(ch, v, p) ==
    /\ Len(ch) = Len(chain) /\ DOMAIN ch = DOMAIN chain
    /\ \E S : ch \in Seq(S)
    /\ \A j \in DOMAIN chain : j # at => ch[j] = chain[j]
    /\ ch[at] = [src |-> chain[at].src, cgs |-> RemoveAt(chain[at].cgs, p),
                 hasIDs |-> chain[at].hasIDs, dt |-> ch[at].dt]
    /\ ch[at].dt = Derived(chain[at].dt, DOMAIN chain[at].dt.indices \ {v})
    /\ DataBlockOK(ch[at].dt)
    /\ DOMAIN ch[at].dt.indices = DOMAIN chain[at].dt.indices \ {v}
    /\ \A c \in DOMAIN ch[at].dt.indices :
          ch[at].dt.indices[c] = chain[at].dt.indices[c]

LEMMA MoveEffect ==
    ASSUME Shape, MoveVLSD
    PROVE  \E v \in file.vlsd, p \in DOMAIN chain[at].cgs :
             /\ at \in DOMAIN chain /\ IsMultiple(chain[at].dt)
             /\ v = todo[2] /\ v \notin DOMAIN sd /\ chain[at].cgs[p] = v
             /\ v \in DOMAIN chain[at].dt.indices
             /\ todo[1] = file.refers[v] /\ Len(todo) > 1
             /\ DOMAIN sd' = DOMAIN sd \cup {v}
             /\ sd'[v] = chain[at].dt.indices[v]
             /\ \A w \in DOMAIN sd : sd'[w] = sd[w]
             /\ \/ /\ chain' = chain /\ pc' = "idle" /\ todo' = todo
                   /\ Throws(chain[at].dt, DOMAIN chain[at].dt.indices \ {v})
                \/ Unlinked(chain', v, p) /\ pc' = "toSD" /\ todo' = Tail(todo)
<1> DEFINE v == todo[2]
           gs == chain[at].cgs
           p == CHOOSE k \in DOMAIN gs : gs[k] = v
           ids == DOMAIN chain[at].dt.sizes \ {v}
<1>1. /\ pc = "toSD" /\ Len(todo) > 1 /\ v \in file.vlsd
      /\ file.refers[v] = todo[1] /\ v \notin DOMAIN sd
      /\ IsMultiple(chain[at].dt)
  BY DEF MoveVLSD, IsMove, CurrentDT
<1>2. at \in DOMAIN chain
  BY <1>1, LenProperties DEF Shape
<1>3. DataGroupOK(file, chain[at])
  BY <1>2 DEF Shape
<1>4. v \in GroupsIn(chain[at])
  <2>1. 2 \in DOMAIN todo
    BY <1>1, LenProperties DEF Shape
  <2> QED BY <1>1, <2>1 DEF Shape
<1>5. p \in DOMAIN gs /\ gs[p] = v
  BY <1>4 DEF GroupsIn
<1>6. v \in DOMAIN chain[at].dt.indices /\ DataBlockOK(chain[at].dt)
  BY <1>1, <1>3, <1>4 DEF DataGroupOK
<1>7. ids = DOMAIN chain[at].dt.indices \ {v}
  BY <1>6 DEF DataBlockOK
<1> DEFINE cg == RemoveAt(gs, p)
           dt == Derived(chain[at].dt, ids)
           ch == [chain EXCEPT ![at].cgs = RemoveAt(@, p), ![at].dt = dt]
<1>8. /\ sd' = [w \in DOMAIN sd \cup {v} |->
                  IF w = v THEN chain[at].dt.indices[v] ELSE sd[w]]
      /\ \/ /\ chain' = chain /\ pc' = "idle" /\ todo' = todo
            /\ Throws(chain[at].dt, ids)
         \/ /\ chain' = ch
            /\ pc' = "toSD" /\ todo' = Tail(todo)
  BY <1>1 DEF MoveVLSD, CurrentDT, Throw, Return
<1>9. /\ DataBlockOK(dt) /\ DOMAIN dt.indices = ids
      /\ \A c \in ids : dt.indices[c] = chain[at].dt.indices[c]
  BY <1>6, <1>7, DerivedBlock
<1> HIDE DEF ids, p, dt, ch
<1>11. ASSUME chain' = ch
       PROVE  Unlinked(chain', v, p)
  <2> HIDE DEF gs, v
  <2> DEFINE e == [chain[at] EXCEPT !.cgs = RemoveAt(@, p), !.dt = dt]
  <2>1. PICK S : chain \in Seq(S)
    BY DEF Shape
  <2>2. chain' = [chain EXCEPT ![at] = e]
    BY <1>11, Zenon DEF ch
  <2>5. e = [src |-> chain[at].src, cgs |-> cg, hasIDs |-> chain[at].hasIDs, dt |-> dt]
    <3>1. chain[at] = [src |-> chain[at].src, cgs |-> chain[at].cgs,
                       hasIDs |-> chain[at].hasIDs, dt |-> chain[at].dt]
      BY <1>3 DEF DataGroupOK
    <3>2. e = [chain[at] EXCEPT !.cgs = cg, !.dt = dt]
      BY DEF gs
    <3> QED BY <3>1, <3>2, ExceptGroup
  <2> HIDE DEF e
  <2>3. /\ chain' \in Seq(S \cup {e}) /\ Len(chain') = Len(chain)
        /\ DOMAIN chain' = DOMAIN chain /\ chain'[at] = e
        /\ \A j \in DOMAIN chain : j # at => chain'[j] = chain[j]
    BY <1>2, <2>1, <2>2, ReplacedSeq
  <2>4. chain'[at].dt = dt
    BY <2>5, <2>3
  <2>6. dt = Derived(chain[at].dt, DOMAIN chain[at].dt.indices \ {v})
    BY <1>7 DEF dt
  <2> QED BY <1>7, <1>9, <2>3, <2>4, <2>5, <2>6 DEF Unlinked, gs
<1>12. DOMAIN sd' = DOMAIN sd \cup {v} /\ sd'[v] = chain[at].dt.indices[v]
       /\ \A w \in DOMAIN sd : sd'[w] = sd[w]
  BY <1>1, <1>8
<1>13. \/ /\ chain' = chain /\ pc' = "idle" /\ todo' = todo
          /\ Throws(chain[at].dt, DOMAIN chain[at].dt.indices \ {v})
       \/ Unlinked(chain', v, p) /\ pc' = "toSD" /\ todo' = Tail(todo)
  BY <1>7, <1>8, <1>11
<1> HIDE DEF v
<1>14. p \in DOMAIN chain[at].cgs /\ chain[at].cgs[p] = v
  BY <1>5
<1>15. v = todo[2]
  BY DEF v
<1> QED
  BY <1>1, <1>2, <1>6, <1>12, <1>13, <1>14, <1>15

\* Making data blocks for group c and for the others throws.
SplitFails(dt, c) == Throws(dt, {c}) \/ Throws(dt, DOMAIN dt.indices \ {c})

\* The data group the loop is at is divided behind its first group, c.
Divided(ch, c) ==
    /\ Len(ch) = Len(chain) + 1 /\ DOMAIN ch = 1..(Len(chain) + 1)
    /\ \E S : ch \in Seq(S)
    /\ \A j \in 1..(Len(chain) + 1) :
          j \notin {at, at + 1} => ch[j] = chain[IF j < at THEN j ELSE j - 1]
    /\ ch[at] = [src |-> chain[at].src, cgs |-> <<c>>,
                 hasIDs |-> ch[at].hasIDs, dt |-> ch[at].dt]
    /\ ch[at + 1] = [src |-> chain[at].src, cgs |-> Tail(chain[at].cgs),
                     hasIDs |-> ch[at + 1].hasIDs, dt |-> ch[at + 1].dt]
    /\ DataBlockOK(ch[at].dt) /\ DataBlockOK(ch[at + 1].dt)
    /\ IF SplitFails(chain[at].dt, c)
       THEN ch[at].dt = chain[at].dt /\ ch[at + 1].dt = NoDT
       ELSE /\ ch[at].dt = Derived(chain[at].dt, {c})
            /\ ch[at + 1].dt
                 = Derived(chain[at].dt, DOMAIN chain[at].dt.indices \ {c})
    /\ \/ ch[at].dt = chain[at].dt /\ ch[at + 1].dt = NoDT
       \/ /\ DOMAIN ch[at].dt.indices = {c}
          /\ ch[at].dt.indices[c] = chain[at].dt.indices[c]
          /\ DOMAIN ch[at + 1].dt.indices = DOMAIN chain[at].dt.indices \ {c}
          /\ \A d \in DOMAIN ch[at + 1].dt.indices :
                ch[at + 1].dt.indices[d] = chain[at].dt.indices[d]

LEMMA NoBlockOK == DataBlockOK(NoDT) /\ ~IsMultiple(NoDT) /\ DOMAIN NoDT.indices = {}
<1>1. NoDT = [kind |-> "none", indices |-> <<>>, sizes |-> <<>>]
  BY DEF NoDT
<1>2. DOMAIN <<>> = {}
  OBVIOUS
<1> QED BY <1>1, <1>2 DEF DataBlockOK, IsMultiple

LEMMA SplitEffect ==
    ASSUME Shape, SplitGroup
    PROVE  /\ at \in DOMAIN chain /\ IsMultiple(chain[at].dt)
           /\ Len(chain[at].cgs) > 1
           /\ chain[at].cgs[1] \in DOMAIN chain[at].dt.indices
           /\ Divided(chain', chain[at].cgs[1])
           /\ pc = "toDG" /\ todo' = todo
           /\ IF SplitFails(chain[at].dt, chain[at].cgs[1])
              THEN pc' = "idle" ELSE pc' = "toDG" /\ at' = at + 1
<1> DEFINE dg == chain[at]
           c == Head(dg.cgs)
           rest == DOMAIN dg.dt.sizes \ {c}
           failed == Throws(dg.dt, {c}) \/ Throws(dg.dt, rest)
           dt1 == IF failed THEN dg.dt ELSE Derived(dg.dt, {c})
           dt2 == IF failed THEN NoDT ELSE Derived(dg.dt, rest)
           ids == failed /\ dg.hasIDs
           old == [src |-> dg.src, cgs |-> <<c>>, hasIDs |-> ids, dt |-> dt1]
           new == [src |-> dg.src, cgs |-> Tail(dg.cgs), hasIDs |-> FALSE, dt |-> dt2]
<1>1. at \in DOMAIN chain /\ IsMultiple(dg.dt) /\ Len(dg.cgs) > 1
  BY LenProperties DEF SplitGroup, CurrentDT, Shape
<1>2. DataGroupOK(file, dg)
  BY <1>1 DEF Shape
<1>3. /\ c = dg.cgs[1] /\ c \in DOMAIN dg.dt.indices /\ DataBlockOK(dg.dt)
      /\ dg.cgs \in Seq(Groups) /\ dg.cgs # <<>>
  BY <1>1, <1>2, HeadTailProperties, LenProperties DEF DataGroupOK, GroupsIn
<1>4. rest = DOMAIN dg.dt.indices \ {c}
  BY <1>3 DEF DataBlockOK
<1>5. /\ chain' = InsertAt([chain EXCEPT ![at] = old], at + 1, new)
      /\ pc = "toDG" /\ todo' = todo
      /\ IF failed THEN pc' = "idle" ELSE pc' = "toDG" /\ at' = at + 1
  BY Zenon DEF SplitGroup, CurrentDT, Throw, Return
<1>18. failed = SplitFails(dg.dt, c)
  BY <1>4, Zenon DEF SplitFails
<1>19. IF failed THEN dt1 = dg.dt /\ dt2 = NoDT
       ELSE dt1 = Derived(dg.dt, {c}) /\ dt2 = Derived(dg.dt, DOMAIN dg.dt.indices \ {c})
  BY <1>4, Zenon
<1>6. /\ DataBlockOK(dt1) /\ DataBlockOK(dt2)
      /\ \/ dt1 = dg.dt /\ dt2 = NoDT
         \/ /\ DOMAIN dt1.indices = {c} /\ dt1.indices[c] = dg.dt.indices[c]
            /\ DOMAIN dt2.indices = DOMAIN dg.dt.indices \ {c}
            /\ \A d \in DOMAIN dt2.indices : dt2.indices[d] = dg.dt.indices[d]
  <2>1. CASE failed
    <3>1. dt1 = dg.dt /\ dt2 = NoDT
      BY <2>1
    <3> HIDE DEF dt1, dt2
    <3> QED BY <1>3, <3>1, NoBlockOK
  <2>2. CASE ~failed
    <3>1. dt1 = Derived(dg.dt, {c}) /\ dt2 = Derived(dg.dt, rest)
      BY <2>2
    <3>2. {c} \subseteq DOMAIN dg.dt.indices /\ rest \subseteq DOMAIN dg.dt.indices
      BY <1>3, <1>4
    <3> HIDE DEF dt1, dt2, rest, c, dg
    <3>3. /\ DataBlockOK(dt1) /\ DOMAIN dt1.indices = {c}
          /\ dt1.indices[c] = dg.dt.indices[c]
      BY <1>3, <3>1, <3>2, DerivedBlock
    <3>4. /\ DataBlockOK(dt2) /\ DOMAIN dt2.indices = rest
          /\ \A d \in rest : dt2.indices[d] = dg.dt.indices[d]
      BY <1>3, <3>1, <3>2, DerivedBlock
    <3> QED BY <1>4, <3>3, <3>4
  <2> QED BY <2>1, <2>2
<1> HIDE DEF dt1, dt2, ids
<1> HIDE DEF old, new, c
<1>9. PICK S : chain \in Seq(S)
  BY DEF Shape
<1> DEFINE W == (S \cup {old}) \cup {new}
           e == [chain EXCEPT ![at] = old]
<1>10. /\ e \in Seq(S \cup {old}) /\ Len(e) = Len(chain) /\ DOMAIN e = DOMAIN chain
       /\ e[at] = old
       /\ \A j \in DOMAIN chain : j # at => e[j] = chain[j]
  BY <1>1, <1>9, ReplacedSeq
<1>11. e \in Seq(W) /\ at \in DOMAIN e /\ new \in W
  BY <1>1, <1>10, SeqMonotonic
<1>12. chain' = InsertAt(e, at + 1, new)
  BY <1>5
<1> HIDE DEF e, W
<1>13. chain' = [j \in 1..(Len(e) + 1) |->
                   IF j <= at THEN e[j] ELSE IF j = at + 1 THEN new ELSE e[j - 1]]
  BY <1>11, <1>12, InsertedSeq
<1>14. Len(chain) \in Nat /\ at \in 1..Len(chain) /\ DOMAIN chain = 1..Len(chain)
  BY <1>1, <1>9, LenProperties
<1>15. /\ chain' \in Seq(W) /\ Len(chain') = Len(chain) + 1
       /\ DOMAIN chain' = 1..(Len(chain) + 1)
       /\ \A j \in 1..(Len(chain) + 1) :
             j \notin {at, at + 1} =>
                chain'[j] = chain[IF j < at THEN j ELSE j - 1]
       /\ chain'[at] = old /\ chain'[at + 1] = new
  <2>1. \A j \in 1..Len(e) : e[j] \in W
    BY <1>11, ElementOfSeq
  <2>2. chain' \in [1..(Len(chain) + 1) -> W]
    BY <1>10, <1>11, <1>13, <1>14, <2>1
  <2>3. chain' \in Seq(W) /\ Len(chain') = Len(chain) + 1
    BY <1>14, <2>2
  <2>4. ASSUME NEW j \in 1..(Len(chain) + 1), j \notin {at, at + 1}
        PROVE  chain'[j] = chain[IF j < at THEN j ELSE j - 1]
    <3>1. CASE j < at
      <4>1. chain'[j] = e[j] /\ j \in DOMAIN chain /\ j # at
        BY <1>10, <1>13, <1>14, <3>1
      <4> QED BY <1>10, <3>1, <4>1
    <3>2. CASE ~(j < at)
      <4>1. j - 1 \in DOMAIN chain /\ j - 1 # at /\ ~(j <= at) /\ j # at + 1
        BY <1>14, <2>4, <3>2
      <4>2. chain'[j] = e[j - 1]
        BY <1>10, <1>13, <4>1
      <4>3. e[j - 1] = chain[j - 1]
        BY <1>10, <4>1
      <4> QED BY <3>2, <4>2, <4>3
    <3> QED BY <3>1, <3>2
  <2>5. chain'[at] = old /\ chain'[at + 1] = new
    BY <1>10, <1>13, <1>14
  <2> QED BY <1>14, <2>2, <2>3, <2>4, <2>5
<1>16. /\ chain'[at].dt = dt1 /\ chain'[at + 1].dt = dt2
       /\ chain'[at].hasIDs = ids /\ chain'[at + 1].hasIDs = FALSE
  BY <1>15 DEF old, new
<1>17. Divided(chain', c)
  <2>1. /\ chain'[at] = [src |-> chain[at].src, cgs |-> <<c>>,
                         hasIDs |-> chain'[at].hasIDs, dt |-> chain'[at].dt]
        /\ chain'[at + 1] = [src |-> chain[at].src, cgs |-> Tail(chain[at].cgs),
                       hasIDs |-> chain'[at + 1].hasIDs, dt |-> chain'[at + 1].dt]
    BY <1>15, <1>16 DEF old, new
  <2>2. IF SplitFails(chain[at].dt, c)
        THEN dt1 = chain[at].dt /\ dt2 = NoDT
        ELSE /\ dt1 = Derived(chain[at].dt, {c})
             /\ dt2 = Derived(chain[at].dt, DOMAIN chain[at].dt.indices \ {c})
    BY <1>18, <1>19, Zenon
  <2> QED BY <1>6, <1>15, <1>16, <2>1, <2>2 DEF Divided
<1>20. IF SplitFails(chain[at].dt, chain[at].cgs[1])
       THEN pc' = "idle" ELSE pc' = "toDG" /\ at' = at + 1
  BY <1>3, <1>5, <1>18, Zenon
<1> QED
  BY <1>1, <1>3, <1>5, <1>17, <1>20

-----------------------------------------------------------------------------
(* The shape of the chain.                                                   *)

LEMMA LoadedBlock ==
    ASSUME file \in Files, NEW s \in DOMAIN file.dgs, NEW n
    PROVE  /\ DataBlockOK(LoadedDT(s, n))
           /\ LoadedDT(s, n).kind = IF HasIDs(s) THEN "multi" ELSE "cont"
           /\ DOMAIN LoadedDT(s, n).indices
                = IF HasIDs(s) THEN GroupsIn(file.dgs[s]) ELSE {}
           /\ HasIDs(s) => \A c \in GroupsIn(file.dgs[s]) :
                LoadedDT(s, n).indices[c] = RecordsOf(Log(s), c, n)
<1>1. GroupsIn(file.dgs[s]) \subseteq Groups
  BY FileFacts, LenProperties DEF GroupsIn
<1>2. CASE ~HasIDs(s)
  <2>1. LoadedDT(s, n) = [kind |-> "cont", indices |-> <<>>, sizes |-> <<>>]
    BY <1>2 DEF LoadedDT, Cont
  <2>2. DOMAIN <<>> = {}
    OBVIOUS
  <2> QED BY <1>2, <2>1, <2>2 DEF DataBlockOK
<1>3. CASE HasIDs(s)
  <2> DEFINE ids == GroupsIn(file.dgs[s])
             ix == [c \in ids |-> RecordsOf(Log(s), c, n)]
             sz == [c \in ids |-> BytesOf(Log(s), c, n)]
  <2>1. LoadedDT(s, n) = [kind |-> "multi", indices |-> ix, sizes |-> sz]
    BY <1>3 DEF LoadedDT
  <2>2. DOMAIN ix = ids /\ DOMAIN sz = ids
        /\ \A c \in ids : ix[c] = RecordsOf(Log(s), c, n)
    OBVIOUS
  <2> HIDE DEF ix, sz
  <2> QED BY <1>1, <1>3, <2>1, <2>2 DEF DataBlockOK
<1> QED
  BY <1>2, <1>3

LEMMA LoadedChain ==
    ASSUME Init
    PROVE  /\ file \in Files /\ reach \in Nat
           /\ \E S : chain \in Seq(S)
           /\ DOMAIN chain = DOMAIN file.dgs /\ Len(chain) = Len(file.dgs)
           /\ \A s \in DOMAIN file.dgs :
                chain[s] = [src |-> s, cgs |-> file.dgs[s].cgs,
                            hasIDs |-> HasIDs(s), dt |-> LoadedDT(s, Reach(s))]
<1>1. file \in Files
  BY DEF Init
<1>2. DOMAIN file.dgs = 1..Len(file.dgs) /\ Len(file.dgs) \in Nat \ {0}
  BY <1>1, FileFacts
<1> DEFINE g(s) == [src |-> s, cgs |-> file.dgs[s].cgs,
                    hasIDs |-> HasIDs(s), dt |-> LoadedDT(s, Reach(s))]
           W == {g(s) : s \in DOMAIN file.dgs}
<1>3. chain = [s \in 1..Len(file.dgs) |-> g(s)]
  BY <1>2 DEF Init
<1>4. reach \in Nat
  <2>1. Len(Log(Len(file.dgs))) \in Nat
    BY <1>1, <1>2, FileFacts
  <2> QED BY <2>1 DEF Init
<1> HIDE DEF g
<1>5. chain \in [1..Len(file.dgs) -> W]
  BY <1>2, <1>3
<1>6. chain \in Seq(W) /\ Len(chain) = Len(file.dgs)
  <2> HIDE DEF W
  <2> QED BY <1>2, <1>5
<1>7. \A s \in DOMAIN file.dgs : chain[s] = g(s)
  BY <1>2, <1>3
<1> QED
  BY <1>1, <1>2, <1>4, <1>5, <1>6, <1>7 DEF g

LEMMA ShapeInit == Init => Shape
<1> SUFFICES ASSUME Init PROVE Shape
  OBVIOUS
<1>1. /\ file \in Files /\ reach \in Nat
      /\ \E S : chain \in Seq(S)
      /\ DOMAIN chain = DOMAIN file.dgs /\ Len(chain) = Len(file.dgs)
      /\ \A s \in DOMAIN file.dgs :
           chain[s] = [src |-> s, cgs |-> file.dgs[s].cgs,
                       hasIDs |-> HasIDs(s), dt |-> LoadedDT(s, Reach(s))]
  BY LoadedChain
<1>2. chain # <<>>
  BY <1>1, FileFacts
<1>3. ASSUME NEW s \in DOMAIN chain PROVE DataGroupOK(file, chain[s])
  <2>1. s \in DOMAIN file.dgs
    BY <1>1
  <2>2. /\ file.dgs[s].cgs \in Seq(Groups) /\ file.dgs[s].cgs # <<>>
        /\ \A i, j \in DOMAIN file.dgs[s].cgs :
              file.dgs[s].cgs[i] = file.dgs[s].cgs[j] => i = j
    BY <1>1, <2>1, FileFacts
  <2> DEFINE dt == LoadedDT(s, Reach(s))
  <2>3. /\ DataBlockOK(dt)
        /\ dt.kind = (IF HasIDs(s) THEN "multi" ELSE "cont")
        /\ HasIDs(s) => DOMAIN dt.indices = GroupsIn(file.dgs[s])
    BY <1>1, <2>1, LoadedBlock
  <2> HIDE DEF dt
  <2>4. chain[s] = [src |-> s, cgs |-> file.dgs[s].cgs, hasIDs |-> HasIDs(s), dt |-> dt]
    BY <1>1, <2>1 DEF dt
  <2>5. GroupsIn(chain[s]) = GroupsIn(file.dgs[s])
    BY <2>4 DEF GroupsIn
  <2>6. IsMultiple(dt) => HasIDs(s)
    BY <2>3 DEF IsMultiple
  <2>7. /\ chain[s].src = s /\ chain[s].cgs = file.dgs[s].cgs /\ chain[s].dt = dt
        /\ chain[s].hasIDs = HasIDs(s)
    BY <2>4
  <2> QED BY <2>1, <2>2, <2>3, <2>4, <2>5, <2>6, <2>7 DEF DataGroupOK
<1>4. /\ flags \subseteq file.flags /\ at \in Nat \ {0}
      /\ todo \in Seq(Groups) /\ DOMAIN sd \subseteq file.vlsd /\ pc # "toSD"
  <2>1. DOMAIN <<>> = {}
    OBVIOUS
  <2> QED BY <2>1 DEF Init
<1> QED
  BY <1>1, <1>2, <1>3, <1>4 DEF Shape

\* What unlinking a group leaves of its data group.
LEMMA UnlinkedGroups ==
    ASSUME NEW gs \in Seq(Groups), NEW p \in DOMAIN gs, NEW v, gs[p] = v,
           \A i, j \in DOMAIN gs : gs[i] = gs[j] => i = j,
           \E k \in DOMAIN gs : gs[k] # v,
           NEW r, r = RemoveAt(gs, p)
    PROVE  /\ r \in Seq(Groups) /\ r # <<>>
           /\ DOMAIN r = 1..(Len(gs) - 1)
           /\ \A j \in DOMAIN r :
                LET k == IF j < p THEN j ELSE j + 1
                IN  k \in DOMAIN gs /\ k # p /\ r[j] = gs[k] /\ r[j] # v
           /\ \A i, j \in DOMAIN r : r[i] = r[j] => i = j
           /\ Range(r) = Range(gs) \ {v}
<1>1. DOMAIN gs = 1..Len(gs) /\ Len(gs) \in Nat /\ p \in 1..Len(gs)
  BY LenProperties
<1>2. r = [j \in 1..(Len(gs) - 1) |-> IF j < p THEN gs[j] ELSE gs[j + 1]]
  BY RemovedSeq
<1>3. DOMAIN r = 1..(Len(gs) - 1)
  BY <1>2
<1>4. ASSUME NEW j \in 1..(Len(gs) - 1)
      PROVE  LET k == IF j < p THEN j ELSE j + 1
             IN  k \in 1..Len(gs) /\ k # p /\ r[j] = gs[k] /\ r[j] # v
  <2>1. CASE j < p
    BY <1>1, <1>2, <2>1
  <2>2. CASE ~(j < p)
    BY <1>1, <1>2, <2>2
  <2> QED BY <2>1, <2>2
<1>5. r \in Seq(Groups) /\ Len(r) = Len(gs) - 1
  <2>1. \A k \in 1..Len(gs) : gs[k] \in Groups
    OBVIOUS
  <2>2. \A j \in 1..(Len(gs) - 1) : r[j] \in Groups
    BY <1>4, <2>1
  <2>3. r \in [1..(Len(gs) - 1) -> Groups] /\ Len(gs) - 1 \in Nat
    BY <1>1, <1>2, <2>2
  <2> QED BY <2>3
<1>6. ASSUME NEW i \in 1..(Len(gs) - 1), NEW j \in 1..(Len(gs) - 1), r[i] = r[j]
      PROVE  i = j
  <2> DEFINE a == IF i < p THEN i ELSE i + 1
             b == IF j < p THEN j ELSE j + 1
  <2>1. a \in 1..Len(gs) /\ b \in 1..Len(gs) /\ r[i] = gs[a] /\ r[j] = gs[b]
    BY <1>4
  <2>2. a = b
    BY <1>1, <1>6, <2>1
  <2> QED BY <1>1, <2>2
<1>7. ASSUME NEW k \in 1..Len(gs), k # p
      PROVE  \E j \in 1..(Len(gs) - 1) : r[j] = gs[k]
  <2>1. CASE k < p
    <3>1. k \in 1..(Len(gs) - 1)
      BY <1>1, <2>1
    <3> QED BY <1>2, <2>1, <3>1
  <2>2. CASE ~(k < p)
    <3>1. k - 1 \in 1..(Len(gs) - 1) /\ ~(k - 1 < p) /\ (k - 1) + 1 = k
      BY <1>1, <1>7, <2>2
    <3>2. r[k - 1] = gs[k]
      BY <1>2, <3>1
    <3> QED BY <3>1, <3>2
  <2> QED BY <2>1, <2>2
<1>8. PICK k0 \in 1..Len(gs) : gs[k0] # v
  BY <1>1
<1>9. r # <<>>
  <2>1. \E j \in 1..(Len(gs) - 1) : r[j] = gs[k0]
    BY <1>7, <1>8
  <2> QED BY <1>5, <2>1
<1>10. ASSUME NEW c
       PROVE  (\E j \in DOMAIN r : r[j] = c)
                 <=> c # v /\ \E k \in DOMAIN gs : gs[k] = c
  <2>1. ASSUME NEW j \in DOMAIN r, r[j] = c
        PROVE  c # v /\ \E k \in DOMAIN gs : gs[k] = c
    BY <1>1, <1>3, <1>4, <2>1
  <2>2. ASSUME c # v, NEW k \in DOMAIN gs, gs[k] = c
        PROVE  \E j \in DOMAIN r : r[j] = c
    BY <1>1, <1>3, <1>7, <2>2
  <2> QED BY <2>1, <2>2
<1>11. Range(r) = Range(gs) \ {v}
  <2>1. ASSUME NEW c PROVE c \in Range(r) <=> c \in Range(gs) \ {v}
    BY <1>10 DEF Range
  <2> QED BY <2>1
<1> QED
  BY <1>1, <1>3, <1>4, <1>5, <1>6, <1>9, <1>11

\* What is left of a data group whose first group stays behind.
LEMMA TailGroups ==
    ASSUME NEW gs \in Seq(Groups), Len(gs) > 1,
           \A i, j \in DOMAIN gs : gs[i] = gs[j] => i = j
    PROVE  /\ Tail(gs) \in Seq(Groups) /\ Tail(gs) # <<>>
           /\ DOMAIN Tail(gs) = 1..(Len(gs) - 1)
           /\ \A j \in DOMAIN Tail(gs) :
                j + 1 \in DOMAIN gs /\ Tail(gs)[j] = gs[j + 1] /\ Tail(gs)[j] # gs[1]
           /\ \A i, j \in DOMAIN Tail(gs) : Tail(gs)[i] = Tail(gs)[j] => i = j
           /\ Range(Tail(gs)) = Range(gs) \ {gs[1]}
<1> DEFINE r == Tail(gs)
<1>0. DOMAIN gs = 1..Len(gs) /\ Len(gs) \in Nat /\ gs # <<>>
  BY LenProperties
<1>1. r \in Seq(Groups) /\ Len(r) = Len(gs) - 1 /\ \A j \in 1..Len(r) : r[j] = gs[j + 1]
  BY <1>0, HeadTailProperties
<1>2. DOMAIN r = 1..(Len(gs) - 1)
  BY <1>1, LenProperties
<1> HIDE DEF r
<1>3. ASSUME NEW j \in DOMAIN r
      PROVE  j + 1 \in DOMAIN gs /\ r[j] = gs[j + 1] /\ r[j] # gs[1]
  <2>1. j + 1 \in DOMAIN gs /\ 1 \in DOMAIN gs /\ j + 1 # 1
    BY <1>0, <1>2
  <2>2. r[j] = gs[j + 1]
    BY <1>0, <1>1, <1>2
  <2> QED BY <2>1, <2>2
<1>4. ASSUME NEW i \in DOMAIN r, NEW j \in DOMAIN r, r[i] = r[j] PROVE i = j
  <2>1. i + 1 = j + 1
    BY <1>3, <1>4
  <2> QED BY <1>0, <1>2, <2>1
<1>5. r # <<>>
  BY <1>0, <1>1
<1>6. ASSUME NEW k \in DOMAIN gs, gs[k] # gs[1]
      PROVE  k - 1 \in DOMAIN r /\ r[k - 1] = gs[k]
  <2>1. k - 1 \in DOMAIN r /\ (k - 1) + 1 = k
    BY <1>0, <1>2, <1>6
  <2>2. r[k - 1] = gs[(k - 1) + 1]
    BY <1>3, <2>1
  <2> QED BY <2>1, <2>2
<1>7. ASSUME NEW c
      PROVE  (\E j \in DOMAIN r : r[j] = c)
                <=> c # gs[1] /\ \E k \in DOMAIN gs : gs[k] = c
  <2>1. ASSUME NEW j \in DOMAIN r, r[j] = c
        PROVE  c # gs[1] /\ \E k \in DOMAIN gs : gs[k] = c
    BY <1>3, <2>1
  <2>2. ASSUME c # gs[1], NEW k \in DOMAIN gs, gs[k] = c
        PROVE  \E j \in DOMAIN r : r[j] = c
    BY <1>6, <2>2
  <2> QED BY <2>1, <2>2
<1>8. Range(r) = Range(gs) \ {gs[1]}
  <2>1. ASSUME NEW c PROVE c \in Range(r) <=> c \in Range(gs) \ {gs[1]}
    BY <1>7 DEF Range
  <2> QED BY <2>1
<1> QED
  BY <1>1, <1>2, <1>3, <1>4, <1>5, <1>8 DEF r

\* A record of a data group, taken apart.
LEMMA GroupFields ==
    ASSUME NEW g, NEW a, NEW b, NEW c, NEW d,
           g = [src |-> a, cgs |-> b, hasIDs |-> c, dt |-> d]
    PROVE  /\ g.src = a /\ g.cgs = b /\ g.hasIDs = c /\ g.dt = d
           /\ g = [src |-> g.src, cgs |-> g.cgs, hasIDs |-> g.hasIDs, dt |-> g.dt]
OBVIOUS

LEMMA GroupsAreRange == \A dg : GroupsIn(dg) = Range(dg.cgs)
BY DEF GroupsIn, Range

LEMMA SameGroups ==
    ASSUME Shape, NEW ch, SameButBlock(ch)
    PROVE  /\ ch[at].src = chain[at].src /\ ch[at].cgs = chain[at].cgs
           /\ GroupsIn(ch[at]) = GroupsIn(chain[at])
           /\ DataGroupOK(file, ch[at])
<1>1. at \in DOMAIN chain /\ DataGroupOK(file, chain[at])
  BY DEF SameButBlock, Shape
<1>2. ch[at] = [src |-> chain[at].src, cgs |-> chain[at].cgs,
                hasIDs |-> chain[at].hasIDs, dt |-> ch[at].dt]
  <2>1. /\ ch[at] = [chain[at] EXCEPT !.dt = ch[at].dt]
        /\ chain[at] = [src |-> chain[at].src, cgs |-> chain[at].cgs,
                        hasIDs |-> chain[at].hasIDs, dt |-> chain[at].dt]
    BY <1>1 DEF SameButBlock, DataGroupOK
  <2> DEFINE d == ch[at].dt
  <2> HIDE DEF d
  <2>2. ch[at] = [chain[at] EXCEPT !.dt = d]
    BY <2>1 DEF d
  <2>3. ch[at] = [src |-> chain[at].src, cgs |-> chain[at].cgs,
                  hasIDs |-> chain[at].hasIDs, dt |-> d]
    BY <2>1, <2>2, OneFieldReplaced
  <2> QED BY <2>3 DEF d
<1>3. /\ ch[at].src = chain[at].src /\ ch[at].cgs = chain[at].cgs
      /\ ch[at] = [src |-> ch[at].src, cgs |-> ch[at].cgs,
                   hasIDs |-> ch[at].hasIDs, dt |-> ch[at].dt]
  BY <1>2, GroupFields
<1>4. GroupsIn(ch[at]) = GroupsIn(chain[at])
  BY <1>3 DEF GroupsIn
<1>5. /\ DataBlockOK(ch[at].dt) /\ (IsMultiple(ch[at].dt) <=> IsMultiple(chain[at].dt))
      /\ DOMAIN ch[at].dt.indices = DOMAIN chain[at].dt.indices
  BY DEF SameButBlock, IsMultiple
<1> QED
  BY <1>1, <1>3, <1>4, <1>5 DEF DataGroupOK

\* What MoveVLSD leaves of the data group it is at.
LEMMA MovedGroups ==
    ASSUME Shape, MoveVLSD, NEW v \in file.vlsd, NEW p \in DOMAIN chain[at].cgs,
           at \in DOMAIN chain, v = todo[2], chain[at].cgs[p] = v,
           todo[1] = file.refers[v], Len(todo) > 1, Unlinked(chain', v, p)
    PROVE  /\ chain'[at].src = chain[at].src
           /\ chain'[at].cgs = RemoveAt(chain[at].cgs, p)
           /\ DataGroupOK(file, chain'[at])
           /\ GroupsIn(chain'[at]) = GroupsIn(chain[at]) \ {v}
           /\ \E k \in DOMAIN chain[at].cgs : chain[at].cgs[k] # v
<1> DEFINE gs == chain[at].cgs
           r == chain'[at].cgs
<1>1. DataGroupOK(file, chain[at])
  BY DEF Shape
<1>2. /\ chain'[at].src = chain[at].src /\ r = RemoveAt(gs, p)
      /\ chain'[at] = [src |-> chain'[at].src, cgs |-> chain'[at].cgs,
                       hasIDs |-> chain'[at].hasIDs, dt |-> chain'[at].dt]
  <2> DEFINE d == chain'[at].dt
  <2>1. chain'[at] = [src |-> chain[at].src, cgs |-> RemoveAt(chain[at].cgs, p),
                      hasIDs |-> chain[at].hasIDs, dt |-> d]
    BY DEF Unlinked
  <2> HIDE DEF d
  <2> QED BY <2>1, GroupFields
<1>3. \E k \in DOMAIN gs : gs[k] # v
  <2>1. 1 \in DOMAIN todo /\ pc = "toSD"
    BY LenProperties DEF Shape, MoveVLSD
  <2>2. todo[1] \in DOMAIN sd \cup GroupsIn(chain[at])
    BY <2>1 DEF Shape
  <2>3. todo[1] \notin file.vlsd
    BY FileFacts DEF Shape
  <2>4. todo[1] \in GroupsIn(chain[at]) /\ todo[1] # v
    BY <2>2, <2>3 DEF Shape
  <2> QED BY <2>4 DEF GroupsIn
<1>4. /\ gs \in Seq(Groups)
      /\ \A i, j \in DOMAIN gs : gs[i] = gs[j] => i = j
  BY <1>1 DEF DataGroupOK
<1>5. /\ r \in Seq(Groups) /\ r # <<>>
      /\ \A i, j \in DOMAIN r : r[i] = r[j] => i = j
      /\ Range(r) = Range(gs) \ {v}
  <2> HIDE DEF gs, r
  <2>1. p \in DOMAIN gs /\ gs[p] = v
    BY DEF gs
  <2>2. r \in Seq(Groups) /\ r # <<>>
    BY <1>2, <1>3, <1>4, <2>1, UnlinkedGroups
  <2>3. \A i, j \in DOMAIN r : r[i] = r[j] => i = j
    BY <1>2, <1>3, <1>4, <2>1, UnlinkedGroups
  <2>4. Range(r) = Range(gs) \ {v}
    BY <1>2, <1>3, <1>4, <2>1, UnlinkedGroups
  <2> QED BY <2>2, <2>3, <2>4
<1>6. GroupsIn(chain'[at]) = GroupsIn(chain[at]) \ {v}
  BY <1>5, GroupsAreRange
<1>7. /\ DataBlockOK(chain'[at].dt)
      /\ DOMAIN chain'[at].dt.indices = DOMAIN chain[at].dt.indices \ {v}
      /\ IsMultiple(chain[at].dt)
  BY DEF Unlinked, MoveVLSD, CurrentDT
<1>8. GroupsIn(chain'[at]) \subseteq DOMAIN chain'[at].dt.indices
  BY <1>1, <1>6, <1>7 DEF DataGroupOK
<1>9. DataGroupOK(file, chain'[at])
  BY <1>1, <1>2, <1>5, <1>7, <1>8 DEF DataGroupOK
<1> QED
  BY <1>2, <1>3, <1>6, <1>9

\* What SplitGroup makes of the data group it is at.
LEMMA SplitGroups ==
    ASSUME Shape, NEW ch, NEW c, at \in DOMAIN chain, Divided(ch, c),
           c = chain[at].cgs[1], IsMultiple(chain[at].dt), Len(chain[at].cgs) > 1
    PROVE  /\ ch[at].src = chain[at].src /\ ch[at + 1].src = chain[at].src
           /\ ch[at].cgs = <<c>> /\ ch[at + 1].cgs = Tail(chain[at].cgs)
           /\ DataGroupOK(file, ch[at]) /\ DataGroupOK(file, ch[at + 1])
           /\ GroupsIn(ch[at]) = {c}
           /\ GroupsIn(ch[at + 1]) = GroupsIn(chain[at]) \ {c}
           /\ c \in GroupsIn(chain[at])
<1> DEFINE gs == chain[at].cgs
<1>1. DataGroupOK(file, chain[at])
  BY DEF Shape
<1>2. /\ gs \in Seq(Groups) /\ DOMAIN gs = 1..Len(gs) /\ 1 \in DOMAIN gs
      /\ \A i, j \in DOMAIN gs : gs[i] = gs[j] => i = j
  BY <1>1, LenProperties DEF DataGroupOK
<1>3. /\ ch[at].src = chain[at].src /\ ch[at].cgs = <<c>>
      /\ ch[at] = [src |-> ch[at].src, cgs |-> ch[at].cgs,
                   hasIDs |-> ch[at].hasIDs, dt |-> ch[at].dt]
  <2> DEFINE d == ch[at].dt
             h == ch[at].hasIDs
  <2>1. ch[at] = [src |-> chain[at].src, cgs |-> <<c>>, hasIDs |-> h, dt |-> d]
    BY DEF Divided
  <2> HIDE DEF d, h
  <2> QED BY <2>1, GroupFields
<1>4. /\ ch[at + 1].src = chain[at].src /\ ch[at + 1].cgs = Tail(gs)
      /\ ch[at + 1] = [src |-> ch[at + 1].src, cgs |-> ch[at + 1].cgs,
                       hasIDs |-> ch[at + 1].hasIDs, dt |-> ch[at + 1].dt]
  <2> DEFINE d == ch[at + 1].dt
             h == ch[at + 1].hasIDs
  <2>1. ch[at + 1] = [src |-> chain[at].src, cgs |-> Tail(chain[at].cgs),
                      hasIDs |-> h, dt |-> d]
    BY DEF Divided
  <2> HIDE DEF d, h
  <2> QED BY <2>1, GroupFields
<1> DEFINE tl == Tail(gs)
<1>5. /\ tl \in Seq(Groups) /\ tl # <<>>
      /\ \A i, j \in DOMAIN tl : tl[i] = tl[j] => i = j
      /\ Range(tl) = Range(gs) \ {gs[1]}
  BY <1>2, TailGroups
<1> HIDE DEF tl
<1>6. /\ <<c>> \in Seq(Groups) /\ <<c>> # <<>> /\ DOMAIN <<c>> = {1} /\ <<c>>[1] = c
  BY <1>2
<1>7. GroupsIn(ch[at]) = {c}
  BY <1>3, <1>6 DEF GroupsIn
<1>8. GroupsIn(ch[at + 1]) = GroupsIn(chain[at]) \ {c}
  BY <1>4, <1>5, GroupsAreRange DEF tl
<1>9. c \in GroupsIn(chain[at])
  BY <1>2 DEF GroupsIn
<1>10. /\ GroupsIn(chain[at]) \subseteq DOMAIN chain[at].dt.indices
       /\ chain[at].src \in DOMAIN file.dgs
  BY <1>1 DEF DataGroupOK
<1>11. /\ DataBlockOK(ch[at].dt) /\ DataBlockOK(ch[at + 1].dt)
       /\ IsMultiple(ch[at].dt) => GroupsIn(ch[at]) \subseteq DOMAIN ch[at].dt.indices
       /\ IsMultiple(ch[at + 1].dt) =>
            GroupsIn(ch[at + 1]) \subseteq DOMAIN ch[at + 1].dt.indices
  <2>1. /\ DataBlockOK(ch[at].dt) /\ DataBlockOK(ch[at + 1].dt)
    BY DEF Divided
  <2>2. CASE ch[at].dt = chain[at].dt /\ ch[at + 1].dt = NoDT
    BY <1>7, <1>9, <1>10, <2>1, <2>2, NoBlockOK
  <2>3. CASE /\ DOMAIN ch[at].dt.indices = {c}
             /\ DOMAIN ch[at + 1].dt.indices = DOMAIN chain[at].dt.indices \ {c}
    BY <1>7, <1>8, <1>10, <2>1, <2>3
  <2> QED BY <2>2, <2>3 DEF Divided
<1>12. DataGroupOK(file, ch[at])
  BY <1>3, <1>6, <1>10, <1>11 DEF DataGroupOK
<1>13. DataGroupOK(file, ch[at + 1])
  BY <1>4, <1>5, <1>10, <1>11 DEF DataGroupOK, tl
<1> QED
  BY <1>3, <1>4, <1>7, <1>8, <1>9, <1>12, <1>13

\* Every step keeps the chain a sequence of well-formed data groups.
LEMMA ChainStays ==
    ASSUME Shape, [Next]_vars
    PROVE  /\ \E S : chain' \in Seq(S)
           /\ chain' # <<>>
           /\ \A i \in DOMAIN chain' : DataGroupOK(file, chain'[i])
<1>0. DOMAIN <<>> = {}
  OBVIOUS
<1>1. CASE chain' = chain
  BY <1>1 DEF Shape
<1>2. ASSUME SameButBlock(chain')
      PROVE  /\ \E S : chain' \in Seq(S)
             /\ chain' # <<>>
             /\ \A i \in DOMAIN chain' : DataGroupOK(file, chain'[i])
  <2>1. /\ \E S : chain' \in Seq(S)
        /\ DOMAIN chain' = DOMAIN chain /\ at \in DOMAIN chain
        /\ \A j \in DOMAIN chain : j # at => chain'[j] = chain[j]
    BY <1>2 DEF SameButBlock
  <2>2. DataGroupOK(file, chain'[at])
    BY <1>2, SameGroups
  <2>3. \A j \in DOMAIN chain : DataGroupOK(file, chain[j])
    BY DEF Shape
  <2> QED BY <1>0, <2>1, <2>2, <2>3
<1>3. CASE CountRecords
  BY <1>2, <1>3, CountEffect
<1>4. CASE MeasureWalk
  BY <1>2, <1>4, WalkEffect
<1>5. CASE MoveVLSD
  <2>1. PICK v \in file.vlsd, p \in DOMAIN chain[at].cgs :
          /\ at \in DOMAIN chain
          /\ v = todo[2] /\ chain[at].cgs[p] = v
          /\ todo[1] = file.refers[v] /\ Len(todo) > 1
          /\ chain' = chain \/ Unlinked(chain', v, p)
    BY <1>5, MoveEffect
  <2>2. CASE Unlinked(chain', v, p)
    <3>1. /\ \E S : chain' \in Seq(S)
          /\ DOMAIN chain' = DOMAIN chain /\ at \in DOMAIN chain
          /\ \A j \in DOMAIN chain : j # at => chain'[j] = chain[j]
      BY <2>1, <2>2 DEF Unlinked
    <3>2. DataGroupOK(file, chain'[at])
      BY <1>5, <2>1, <2>2, MovedGroups
    <3>3. \A j \in DOMAIN chain : DataGroupOK(file, chain[j])
      BY DEF Shape
    <3> QED BY <1>0, <3>1, <3>2, <3>3
  <2> QED BY <1>1, <2>1, <2>2
<1>6. CASE SplitGroup
  <2> DEFINE c == chain[at].cgs[1]
  <2>1. /\ at \in DOMAIN chain /\ IsMultiple(chain[at].dt)
        /\ Len(chain[at].cgs) > 1 /\ Divided(chain', c)
    BY <1>6, SplitEffect
  <2>2. DataGroupOK(file, chain'[at]) /\ DataGroupOK(file, chain'[at + 1])
    BY <2>1, SplitGroups
  <2>3. /\ \E S : chain' \in Seq(S)
        /\ DOMAIN chain' = 1..(Len(chain) + 1)
        /\ \A j \in 1..(Len(chain) + 1) :
              j \notin {at, at + 1} => chain'[j] = chain[IF j < at THEN j ELSE j - 1]
    BY <2>1 DEF Divided
  <2>4. Len(chain) \in Nat /\ DOMAIN chain = 1..Len(chain)
    BY LenProperties DEF Shape
  <2>5. ASSUME NEW j \in DOMAIN chain' PROVE DataGroupOK(file, chain'[j])
    <3>1. CASE j \in {at, at + 1}
      BY <2>2, <3>1
    <3>2. CASE j \notin {at, at + 1}
      <4> DEFINE k == IF j < at THEN j ELSE j - 1
      <4>1. k \in DOMAIN chain
        BY <2>1, <2>3, <2>4, <3>2
      <4>2. chain'[j] = chain[k]
        BY <2>3, <3>2
      <4> HIDE DEF k
      <4> QED BY <4>1, <4>2 DEF Shape
    <3> QED BY <3>1, <3>2
  <2>6. chain' # <<>>
    BY <1>0, <2>1, <2>3, <2>4
  <2> QED BY <2>3, <2>5, <2>6
<1> QED
  BY <1>1, <1>3, <1>4, <1>5, <1>6, Changes

\* The groups a loop over a data group starts with are groups of it.
LEMMA LoopStarts ==
    ASSUME Shape, NEW i \in DOMAIN chain
    PROVE  /\ chain[i].cgs \in Seq(Groups)
           /\ \A k \in DOMAIN chain[i].cgs : chain[i].cgs[k] \in GroupsIn(chain[i])
BY DEF Shape, DataGroupOK, GroupsIn

LoopOK == pc = "toSD" =>
            /\ at <= Len(chain)
            /\ \A k \in DOMAIN todo :
                 todo[k] \in DOMAIN sd \cup GroupsIn(chain[at])

\* Dropping the first group of the list.
LEMMA LoopGoesOn ==
    ASSUME NEW T \in Seq(Groups), Len(T) > 1
    PROVE  /\ Tail(T) \in Seq(Groups)
           /\ \A k \in DOMAIN Tail(T) : k + 1 \in DOMAIN T /\ Tail(T)[k] = T[k + 1]
<1>1. /\ Len(T) \in Nat /\ DOMAIN T = 1..Len(T) /\ T # <<>>
  BY LenProperties
<1>2. /\ Tail(T) \in Seq(Groups) /\ Len(Tail(T)) = Len(T) - 1
      /\ \A k \in 1..Len(Tail(T)) : Tail(T)[k] = T[k + 1]
  BY <1>1, HeadTailProperties
<1>3. DOMAIN Tail(T) = 1..(Len(T) - 1)
  BY <1>2, LenProperties
<1> DEFINE r == Tail(T)
<1> HIDE DEF r
<1>4. ASSUME NEW k \in DOMAIN r PROVE k + 1 \in DOMAIN T /\ r[k] = T[k + 1]
  <2>1. k \in 1..(Len(T) - 1)
    BY <1>3 DEF r
  <2>2. k \in 1..Len(r) /\ k + 1 \in 1..Len(T)
    BY <1>1, <1>2, <2>1 DEF r
  <2>3. r[k] = T[k + 1]
    BY <1>2, <2>2 DEF r
  <2> QED BY <1>1, <2>2, <2>3
<1> QED BY <1>2, <1>4 DEF r

LEMMA LoopStays ==
    ASSUME Shape, [Next]_vars
    PROVE  at' \in Nat \ {0} /\ todo' \in Seq(Groups) /\ LoopOK'
<1>0. /\ at \in Nat \ {0} /\ todo \in Seq(Groups) /\ LoopOK
      /\ Len(chain) \in Nat \ {0} /\ DOMAIN chain = 1..Len(chain)
      /\ at + 1 \in Nat \ {0} /\ 1 \in Nat \ {0} /\ <<>> \in Seq(Groups)
  BY EmptySeq, LenProperties DEF Shape, LoopOK
<1>1. ASSUME StartSort, at' = 1, chain' = chain
      PROVE  todo' \in Seq(Groups) /\ LoopOK'
  <2>1. todo' = chain[1].cgs /\ 1 \in DOMAIN chain
    BY <1>0, <1>1 DEF StartSort
  <2>2. /\ todo' \in Seq(Groups)
        /\ \A k \in DOMAIN todo' : todo'[k] \in GroupsIn(chain[1])
    BY <2>1, LoopStarts
  <2> QED BY <1>0, <1>1, <2>2 DEF LoopOK
<1>2. ASSUME pc' # "toSD" PROVE LoopOK'
  BY <1>2 DEF LoopOK
<1>3. ASSUME UNCHANGED vars PROVE at' = at /\ todo' = todo /\ LoopOK'
  BY <1>0, <1>3 DEF LoopOK, vars, sortVars, loopVars
<1>4. CASE CallGetFileInfo
  <2>1. at' = 1 /\ chain' = chain
    BY <1>4 DEF CallGetFileInfo, Call, sortVars
  <2>2. StartSort \/ (pc' = "length" /\ todo' = <<>>)
    BY <1>4 DEF CallGetFileInfo, StartFinalize
  <2>3. CASE StartSort
    BY <1>0, <1>1, <2>1, <2>3
  <2>4. CASE pc' = "length" /\ todo' = <<>>
    BY <1>0, <1>2, <2>1, <2>4
  <2> QED BY <2>2, <2>3, <2>4
<1>5. ASSUME NEW c \in Groups, CallGetIterator(c)
      PROVE  at' \in Nat \ {0} /\ todo' \in Seq(Groups) /\ LoopOK'
  <2>1. at' = 1 /\ chain' = chain
    BY <1>5 DEF CallGetIterator, Call, sortVars
  <2>2. StartSort \/ (pc' \in {"length", "find"} /\ todo' = <<>>)
    BY <1>5 DEF CallGetIterator, StartFinalize
  <2>3. CASE StartSort
    BY <1>0, <1>1, <2>1, <2>3
  <2>4. CASE pc' \in {"length", "find"} /\ todo' = <<>>
    BY <1>0, <1>2, <2>1, <2>4
  <2> QED BY <2>2, <2>3, <2>4
<1>6. CASE CallGetFirstMeasurement
  BY <1>0, <1>2, <1>6 DEF CallGetFirstMeasurement, Call
<1>7. CASE CountBytes
  <2>1. StartSort /\ at' = 1 /\ chain' = chain
    BY <1>7 DEF CountBytes, sortVars
  <2> QED BY <1>0, <1>1, <2>1
<1>8. CASE KeepGroup
  <2>1. /\ pc = "toSD" /\ Len(todo) > 1 /\ todo' = Tail(todo)
        /\ at' = at /\ chain' = chain /\ sd' = sd
    BY <1>8 DEF KeepGroup, sortVars
  <2>2. /\ todo' \in Seq(Groups)
        /\ \A k \in DOMAIN todo' : k + 1 \in DOMAIN todo /\ todo'[k] = todo[k + 1]
    BY <1>0, <2>1, LoopGoesOn
  <2>3. \A k \in DOMAIN todo : todo[k] \in DOMAIN sd \cup GroupsIn(chain[at])
    BY <1>0, <2>1 DEF LoopOK
  <2>4. \A k \in DOMAIN todo' : todo'[k] \in DOMAIN sd \cup GroupsIn(chain[at])
    BY <2>2, <2>3
  <2> QED BY <1>0, <2>1, <2>2, <2>4 DEF LoopOK
<1>9. CASE NextToSD
  <2>1. CASE at < Len(chain)
    <3>1. /\ todo' = chain[at + 1].cgs /\ at' = at + 1 /\ chain' = chain
          /\ at + 1 \in DOMAIN chain
      BY <1>0, <1>9, <2>1 DEF NextToSD, sortVars
    <3>2. /\ todo' \in Seq(Groups)
          /\ \A k \in DOMAIN todo' : todo'[k] \in GroupsIn(chain[at + 1])
      BY <3>1, LoopStarts
    <3> QED BY <1>0, <3>1, <3>2 DEF LoopOK
  <2>2. CASE ~(at < Len(chain))
    BY <1>0, <1>2, <1>9, <2>2 DEF NextToSD
  <2> QED BY <2>1, <2>2
<1>10. CASE MoveVLSD
  <2>1. PICK v \in file.vlsd, p \in DOMAIN chain[at].cgs :
          /\ at \in DOMAIN chain
          /\ v = todo[2] /\ chain[at].cgs[p] = v
          /\ todo[1] = file.refers[v] /\ Len(todo) > 1
          /\ DOMAIN sd' = DOMAIN sd \cup {v}
          /\ \/ pc' = "idle" /\ todo' = todo
             \/ Unlinked(chain', v, p) /\ pc' = "toSD" /\ todo' = Tail(todo)
    BY <1>10, MoveEffect
  <2>2. at' = at /\ pc = "toSD"
    BY <1>10 DEF MoveVLSD
  <2>3. CASE pc' = "idle" /\ todo' = todo
    BY <1>0, <1>2, <2>2, <2>3
  <2>4. CASE Unlinked(chain', v, p) /\ todo' = Tail(todo)
    <3>1. /\ todo' \in Seq(Groups)
          /\ \A k \in DOMAIN todo' : k + 1 \in DOMAIN todo /\ todo'[k] = todo[k + 1]
      BY <1>0, <2>1, <2>4, LoopGoesOn
    <3>2. GroupsIn(chain'[at]) = GroupsIn(chain[at]) \ {v}
      BY <1>10, <2>1, <2>4, MovedGroups
    <3>3. \A k \in DOMAIN todo : todo[k] \in DOMAIN sd \cup GroupsIn(chain[at])
      BY <1>0, <2>2 DEF LoopOK
    <3>4. \A k \in DOMAIN todo' : todo'[k] \in DOMAIN sd' \cup GroupsIn(chain'[at])
      BY <2>1, <3>1, <3>2, <3>3
    <3>5. at <= Len(chain')
      BY <1>0, <2>1, <2>4 DEF Unlinked
    <3> QED BY <1>0, <2>2, <3>1, <3>4, <3>5 DEF LoopOK
  <2> QED BY <2>1, <2>3, <2>4
<1>11. CASE \/ SetLength \/ CountDone \/ SortCrash \/ SortDone \/ FindBUSBlock
            \/ SoftSetLength \/ MeasureUninitialised \/ MeasureDone
  <2>1. at' = at /\ todo' = todo /\ pc' # "toSD"
    BY <1>11 DEF SetLength, CountDone, SortCrash, SortDone, FindBUSBlock,
       SoftSetLength, MeasureUninitialised, MeasureDone, loopVars, Throw,
       Return, Crash
  <2> QED BY <1>0, <1>2, <2>1
<1>12. CASE \/ CountRecords \/ SplitGroup \/ NextToDG
            \/ MeasureWalk \/ MeasureStart \/ MeasureSkip
  <2>1. /\ at' = at \/ at' = at + 1
        /\ todo' = todo /\ pc' # "toSD"
    BY <1>12 DEF CountRecords, SplitGroup, NextToDG, MeasureWalk, MeasureStart,
       MeasureSkip, loopVars, Throw, Return, Crash
  <2> QED BY <1>0, <1>2, <2>1
<1> QED
  BY <1>0, <1>3, <1>4, <1>5, <1>6, <1>7, <1>8, <1>9, <1>10, <1>11, <1>12
  DEF Next, Step, FinalizeStep, SortStep, MeasureStep

LEMMA ShapeNext == Shape /\ [Next]_vars => Shape'
<1> SUFFICES ASSUME Shape, [Next]_vars PROVE Shape'
  OBVIOUS
<1>1. file' = file /\ file \in Files
  BY Changes DEF Shape
<1>2. flags' \subseteq file'.flags
  BY <1>1, Changes DEF Shape, CountBytes
<1>3. reach' \in Nat
  <2>1. Len(Log(Len(file.dgs))) \in Nat
    BY <1>1, FileFacts
  <2>2. reach \in Nat
    BY DEF Shape
  <2>3. CASE SetLength
    BY <2>1, <2>2, <2>3 DEF SetLength
  <2>4. CASE SoftSetLength
    BY <2>1, <2>2, <2>4 DEF SoftSetLength
  <2> QED BY <2>2, <2>3, <2>4, Changes
<1>4. DOMAIN sd' \subseteq file'.vlsd
  <2>1. DOMAIN sd \subseteq file.vlsd
    BY DEF Shape
  <2>2. CASE MoveVLSD
    <3>1. PICK v \in file.vlsd : DOMAIN sd' = DOMAIN sd \cup {v}
      BY <2>2, MoveEffect
    <3> QED BY <1>1, <2>1, <3>1
  <2> QED BY <1>1, <2>1, <2>2, Changes
<1>5. at' \in Nat \ {0} /\ todo' \in Seq(Groups) /\ LoopOK'
  BY LoopStays
<1>6. /\ \E S : chain' \in Seq(S)
      /\ chain' # <<>>
      /\ \A i \in DOMAIN chain' : DataGroupOK(file, chain'[i])
  BY ChainStays
<1> QED
  BY <1>1, <1>2, <1>3, <1>4, <1>5, <1>6 DEF Shape, LoopOK

\* The chain is at every step of every call a list of data groups with groups
\* of their own and a data block whose index and byte totals are of the same
\* groups, all of those of the data group if it holds several; the loop that
\* makes SD blocks visits only groups of the data group it is at.
THEOREM ChainIsSound == Spec => []Shape
<1>1. Init => Shape
  BY ShapeInit
<1>2. Shape /\ [Next]_vars => Shape'
  BY ShapeNext
<1> QED
  BY <1>1, <1>2, PTL DEF Spec

-----------------------------------------------------------------------------
(* Before the flags are cleared.                                             *)

Unsorted == flags \cap Handled # {}

\* The chain as loading made it, up to the contents of the data blocks.
LoadedAs(f, ch) ==
    /\ DOMAIN ch = DOMAIN f.dgs
    /\ \A s \in DOMAIN ch :
        /\ ch[s].src = s /\ ch[s].cgs = f.dgs[s].cgs
        /\ ch[s].dt.kind = IF Len(f.dgs[s].cgs) > 1 THEN "multi" ELSE "cont"

\* Nothing is sorted while there is a flag to clear.
AsLoaded ==
    Unsorted =>
        /\ LoadedAs(file, chain)
        /\ DOMAIN sd = {}
        /\ pc \notin {"toSD", "toDG"}

\* Which steps lead where.
LEMMA Flow ==
    ASSUME [Next]_vars
    PROVE  /\ pc' = "count" => SetLength \/ CountRecords \/ UNCHANGED vars
           /\ pc' = "bytes" => CountDone \/ UNCHANGED vars
           /\ pc' = "soft" => CallGetFirstMeasurement \/ UNCHANGED vars
           /\ pc' \in {"toSD", "toDG"} =>
                \/ pc \in {"toSD", "toDG"}
                \/ CountBytes
                \/ flags = {} /\ flags' = flags
BY DEF Next, Step, FinalizeStep, SortStep, MeasureStep, CallGetFileInfo,
       CallGetIterator, CallGetFirstMeasurement, SetLength, CountRecords,
       CountDone, CountBytes, MoveVLSD, KeepGroup, NextToSD, SplitGroup,
       NextToDG, SortCrash, SortDone, FindBUSBlock, SoftSetLength,
       MeasureWalk, MeasureUninitialised, MeasureStart, MeasureSkip,
       MeasureDone, vars, sortVars, loopVars, Call, StartFinalize, StartSort,
       Throw, Return, Crash

LEMMA FlagsGo ==
    ASSUME [Next]_vars
    PROVE  /\ flags' = flags \/ (CountBytes /\ flags' = flags \ Handled)
           /\ Unsorted' => flags' = flags /\ Unsorted
<1>1. CountBytes => flags' = flags \ Handled
  BY DEF CountBytes
<1> QED BY <1>1, Changes DEF Unsorted

LEMMA LoadedAsInit ==
    ASSUME Init PROVE LoadedAs(file, chain)
<1>1. /\ file \in Files
      /\ DOMAIN chain = DOMAIN file.dgs
      /\ \A s \in DOMAIN file.dgs :
           chain[s] = [src |-> s, cgs |-> file.dgs[s].cgs,
                       hasIDs |-> HasIDs(s), dt |-> LoadedDT(s, Reach(s))]
  BY LoadedChain
<1>2. ASSUME NEW s \in DOMAIN chain
      PROVE  /\ chain[s].src = s /\ chain[s].cgs = file.dgs[s].cgs
             /\ chain[s].dt.kind = IF Len(file.dgs[s].cgs) > 1 THEN "multi" ELSE "cont"
  <2> DEFINE dt == LoadedDT(s, Reach(s))
  <2>1. dt.kind = IF Len(file.dgs[s].cgs) > 1 THEN "multi" ELSE "cont"
    BY <1>1, LoadedBlock DEF HasIDs
  <2> HIDE DEF dt
  <2>2. chain[s] = [src |-> s, cgs |-> file.dgs[s].cgs, hasIDs |-> HasIDs(s), dt |-> dt]
    BY <1>1 DEF dt
  <2>3. chain[s].src = s /\ chain[s].cgs = file.dgs[s].cgs /\ chain[s].dt = dt
    BY <2>2
  <2> QED BY <2>1, <2>3
<1> QED BY <1>1, <1>2 DEF LoadedAs

LEMMA LoadedAsNext ==
    ASSUME Shape, AsLoaded, [Next]_vars, Unsorted
    PROVE  LoadedAs(file, chain') /\ sd' = sd
<1>1. LoadedAs(file, chain) /\ pc \notin {"toSD", "toDG"}
  BY DEF AsLoaded
<1>2. ~MoveVLSD /\ ~SplitGroup
  BY <1>1 DEF MoveVLSD, SplitGroup
<1>3. ASSUME SameButBlock(chain') PROVE LoadedAs(file, chain')
  <2>1. /\ DOMAIN chain' = DOMAIN chain /\ at \in DOMAIN chain
        /\ \A j \in DOMAIN chain : j # at => chain'[j] = chain[j]
        /\ chain'[at].dt.kind = chain[at].dt.kind
    BY <1>3 DEF SameButBlock
  <2>2. chain'[at].src = chain[at].src /\ chain'[at].cgs = chain[at].cgs
    BY <1>3, SameGroups
  <2> QED BY <1>1, <2>1, <2>2 DEF LoadedAs
<1>4. CountRecords \/ MeasureWalk => SameButBlock(chain')
  BY CountEffect, WalkEffect
<1> QED BY <1>1, <1>2, <1>3, <1>4, Changes

LEMMA AsLoadedInv == Spec => []AsLoaded
<1>1. Init => AsLoaded
  <2> SUFFICES ASSUME Init PROVE AsLoaded
    OBVIOUS
  <2>1. DOMAIN <<>> = {}
    OBVIOUS
  <2> QED BY <2>1, LoadedAsInit DEF AsLoaded, Init
<1>2. Shape /\ AsLoaded /\ [Next]_vars => AsLoaded'
  <2> SUFFICES ASSUME Shape, AsLoaded, [Next]_vars, Unsorted'
               PROVE  /\ LoadedAs(file, chain)'
                      /\ DOMAIN sd' = {}
                      /\ pc' \notin {"toSD", "toDG"}
    BY DEF AsLoaded
  <2>1. Unsorted /\ flags' = flags /\ file' = file
    BY FlagsGo, Changes
  <2>2. LoadedAs(file, chain') /\ sd' = sd
    BY <2>1, LoadedAsNext
  <2>3. pc' \notin {"toSD", "toDG"}
    <3>1. flags # {} /\ pc \notin {"toSD", "toDG"}
      BY <2>1 DEF Unsorted, AsLoaded
    <3>2. ~CountBytes
      BY <2>1 DEF CountBytes, Unsorted
    <3> QED BY <3>1, <3>2, Flow
  <2>4. DOMAIN sd = {}
    BY <2>1 DEF AsLoaded
  <2> QED BY <2>1, <2>2, <2>3, <2>4
<1> QED
  BY <1>1, <1>2, ChainIsSound, PTL DEF Spec

-----------------------------------------------------------------------------
(* The length of the last data block.                                        *)

\* Once its flag is cleared, or the call is past the part that sets it, the
\* last data block reaches the end of the file.
LengthKnown ==
    /\ "length" \notin flags \/ pc \in {"count", "bytes"} =>
        reach = Len(Log(Len(file.dgs)))
    /\ pc = "soft" => "length" \in flags

LEMMA LengthKnownInv == Spec => []LengthKnown
<1>1. Init => LengthKnown
  BY DEF Init, LengthKnown
<1>2. LengthKnown /\ [Next]_vars => LengthKnown'
  <2> SUFFICES ASSUME LengthKnown, [Next]_vars PROVE LengthKnown'
    OBVIOUS
  <2> DEFINE L == Len(Log(Len(file.dgs)))
  <2>1. file' = file /\ L' = L
    BY Changes DEF Log
  <2> HIDE DEF L
  <2>2. CASE UNCHANGED vars
    BY <2>2 DEF LengthKnown, vars, Log
  <2>3. CASE SetLength
    <3>1. flags' = flags /\ pc = "length" /\ pc' \in {"count", "idle"}
      BY <2>3 DEF SetLength, Throw, Return
    <3>2. \/ "length" \in flags /\ reach' = L
          \/ "length" \in flags /\ pc' = "idle"
          \/ "length" \notin flags /\ reach' = reach
      BY <2>3 DEF SetLength, Throw, Return, L
    <3> QED BY <2>1, <3>1, <3>2 DEF LengthKnown, L
  <2>4. CASE SoftSetLength
    <3>1. flags' = flags /\ pc = "soft" /\ pc' \in {"measure", "idle"}
      BY <2>4 DEF SoftSetLength, Throw, Return
    <3> QED BY <3>1 DEF LengthKnown
  <2>5. CASE CountRecords \/ CountDone
    <3>1. flags' = flags /\ pc = "count" /\ reach' = reach /\ pc' # "soft"
      BY <2>5 DEF CountRecords, CountDone, Throw, Return
    <3> QED BY <2>1, <3>1 DEF LengthKnown, L
  <2>6. CASE CountBytes
    <3>1. pc = "bytes" /\ reach' = reach /\ pc' = "toSD"
      BY <2>6 DEF CountBytes, StartSort
    <3> QED BY <2>1, <3>1 DEF LengthKnown, L
  <2>7. CASE CallGetFirstMeasurement
    <3>1. flags' = flags /\ reach' = reach /\ pc' \notin {"count", "bytes"}
          /\ (pc' = "soft" => "length" \in flags)
      BY <2>7 DEF CallGetFirstMeasurement
    <3> QED BY <2>1, <3>1 DEF LengthKnown, L
  <2>8. CASE ~(\/ UNCHANGED vars \/ SetLength \/ SoftSetLength \/ CountRecords
               \/ CountDone \/ CountBytes \/ CallGetFirstMeasurement)
    <3>1. flags' = flags /\ reach' = reach /\ pc' \notin {"count", "bytes", "soft"}
      BY <2>8, Changes, Flow
    <3> QED BY <2>1, <3>1 DEF LengthKnown, L
  <2> QED BY <2>2, <2>3, <2>4, <2>5, <2>6, <2>7, <2>8
<1> QED
  BY <1>1, <1>2, PTL DEF Spec

-----------------------------------------------------------------------------
(* Counting.                                                                 *)

\* What the loop that counts takes for granted: it ends at the first data group
\* with one channel group, so those with several have to come before.
SortedLast ==
    \A f \in Files : \A s, t \in DOMAIN f.dgs :
        s < t /\ Len(f.dgs[t].cgs) > 1 => Len(f.dgs[s].cgs) > 1

\* Only counting indexes the records a length set right makes readable, so a
\* logger that leaves the last length unset has to leave the counters too.
CountedWithLength ==
    \A f \in Files : "length" \in f.flags => "cycles" \in f.flags

Whole(s, c) == RecordsOf(Log(s), c, Len(Log(s)))

\* Whether the loop is past data group s, or was never to run.
Counted(s) ==
    "cycles" \notin flags \/ pc = "bytes" \/ (pc = "count" /\ s < at)

Begins == pc = "length" => at = 1

LEMMA BeginsInv == Spec => []Begins
<1>1. Init => Begins
  BY DEF Init, Begins
<1>2. Begins /\ [Next]_vars => Begins'
  BY DEF Next, Step, FinalizeStep, SortStep, MeasureStep, CallGetFileInfo,
       CallGetIterator, CallGetFirstMeasurement, SetLength, CountRecords,
       CountDone, CountBytes, MoveVLSD, KeepGroup, NextToSD, SplitGroup,
       NextToDG, SortCrash, SortDone, FindBUSBlock, SoftSetLength,
       MeasureWalk, MeasureUninitialised, MeasureStart, MeasureSkip,
       MeasureDone, vars, sortVars, loopVars, Call, StartFinalize, StartSort,
       Throw, Return, Crash, Begins
<1> QED
  BY <1>1, <1>2, PTL DEF Spec

\* A data group gets counted by the step that counts it, and the loop does not
\* end before one that is to be counted.
LEMMA CountedBy ==
    ASSUME SortedLast, Shape, AsLoaded, Begins, [Next]_vars,
           NEW s \in DOMAIN file.dgs, HasIDs(s), Counted(s)'
    PROVE  Counted(s) \/ (CountRecords /\ s = at /\ pc' = "count")
<1>1. /\ file \in Files /\ at \in Nat /\ s \in Nat
      /\ DOMAIN file.dgs = 1..Len(file.dgs) /\ Len(file.dgs) \in Nat
  BY FileFacts DEF Shape
<1>2. CASE UNCHANGED vars
  BY <1>2 DEF Counted, vars, loopVars
<1>3. CASE CountBytes
  BY <1>3 DEF CountBytes, Counted
<1>4. CASE CountDone /\ "cycles" \in flags
  <2>1. \/ at > Len(chain)
        \/ at <= Len(chain) /\ (Len(chain[at].cgs) = 1 \/ ~IsMultiple(chain[at].dt))
    BY <1>4 DEF CountDone, CurrentDT
  <2>2. LoadedAs(file, chain) /\ pc = "count"
    BY <1>4 DEF AsLoaded, Unsorted, Handled, CountDone
  <2>3. DOMAIN chain = 1..Len(chain) /\ Len(chain) \in Nat
        /\ DOMAIN chain = DOMAIN file.dgs
    BY <2>2, LenProperties DEF LoadedAs, Shape
  <2>4. s < at
    <3>1. CASE at > Len(chain)
      BY <1>1, <2>3, <3>1
    <3>2. CASE at \in DOMAIN chain
      <4>1. /\ chain[at].cgs = file.dgs[at].cgs
            /\ chain[at].dt.kind = IF Len(file.dgs[at].cgs) > 1 THEN "multi" ELSE "cont"
        BY <2>2, <3>2 DEF LoadedAs
      <4>2. ~(Len(file.dgs[at].cgs) > 1)
        <5>1. CASE Len(chain[at].cgs) = 1
          BY <4>1, <5>1
        <5>2. CASE ~IsMultiple(chain[at].dt)
          BY <4>1, <5>2 DEF IsMultiple
        <5> QED BY <1>1, <2>1, <2>3, <3>2, <5>1, <5>2
      <4>3. s # at /\ ~(at < s)
        BY <1>1, <2>3, <3>2, <4>2 DEF SortedLast, HasIDs
      <4> QED BY <1>1, <4>3
    <3> QED BY <1>1, <2>1, <2>3, <3>1, <3>2 DEF Shape
  <2> QED BY <2>2, <2>4 DEF Counted
<1>5. CASE "cycles" \notin flags
  BY <1>5 DEF Counted
<1>6. CASE CountRecords
  <2>1. /\ pc = "count" /\ flags' = flags
        /\ pc' = "idle" \/ (pc' = "count" /\ at' = at + 1)
    BY <1>6 DEF CountRecords, Throw, Return
  <2>2. "cycles" \in flags
    BY <1>6 DEF CountRecords
  <2>3. pc' = "count" /\ s < at + 1
    BY <2>1, <2>2 DEF Counted
  <2> QED BY <1>1, <1>6, <2>1, <2>3 DEF Counted
<1>7. CASE SetLength
  <2>1. at' = 1 /\ flags' = flags /\ pc' # "bytes"
    BY <1>7 DEF SetLength, Begins, loopVars, Throw, Return
  <2> QED BY <1>1, <1>5, <2>1 DEF Counted
<1>8. CASE ~(\/ UNCHANGED vars \/ CountBytes \/ CountDone \/ CountRecords
             \/ SetLength)
  <2>1. flags' = flags /\ pc' \notin {"count", "bytes"}
    BY <1>8, Changes, Flow
  <2> QED BY <1>5, <2>1 DEF Counted
<1> QED
  BY <1>2, <1>3, <1>4, <1>5, <1>6, <1>7, <1>8

\* The counters and the index the step leaves.
LEMMA CountResult ==
    ASSUME Shape, LengthKnown, CountRecords, pc' = "count", AsLoaded
    PROVE  /\ at \in DOMAIN file.dgs
           /\ GroupsIn(chain[at]) = GroupsIn(file.dgs[at])
           /\ \A c \in GroupsIn(file.dgs[at]) :
                /\ chain'[at].dt.indices[c] = Whole(at, c)
                /\ c \in Groups => cycles'[c] = Len(Whole(at, c))
           /\ \A c \in Groups \ GroupsIn(file.dgs[at]) : cycles'[c] = cycles[c]
<1> DEFINE src == chain[at].src
           dt == Indexed(chain[at].dt, src, Reach(src))
<1>1. LoadedAs(file, chain) /\ at \in DOMAIN chain
  <2>1. Unsorted /\ at <= Len(chain)
    BY DEF CountRecords, Unsorted, Handled
  <2> QED BY <2>1, LenProperties DEF AsLoaded, Shape
<1>2. /\ at \in DOMAIN file.dgs /\ src = at
      /\ GroupsIn(chain[at]) = GroupsIn(file.dgs[at])
      /\ IsMultiple(chain[at].dt) /\ DataGroupOK(file, chain[at])
  BY <1>1 DEF LoadedAs, GroupsIn, CountRecords, CurrentDT, Shape
<1>3. Reach(at) = Len(Log(at)) /\ Reach(at) \in Nat
  <2>1. reach = Len(Log(Len(file.dgs)))
    BY DEF LengthKnown, CountRecords
  <2> QED BY <1>2, <2>1, ReachIs DEF Reach, Shape
<1>4. Passable(at, Reach(at)) = Reach(at)
  <2>1. ~(Passable(at, Reach(at)) < Reach(at))
    BY <1>2 DEF CountRecords, Throw, Return
  <2>2. Passable(at, Reach(at)) \in 0..Reach(at)
    BY <1>2, <1>3, PassableIs DEF Shape
  <2> QED BY <1>3, <2>1, <2>2
<1>5. /\ GroupsIn(chain[at]) \subseteq DOMAIN chain[at].dt.indices
      /\ DataBlockOK(chain[at].dt)
  BY <1>2 DEF DataGroupOK
<1>6. \A c \in GroupsIn(file.dgs[at]) : chain'[at].dt.indices[c] = Whole(at, c)
  BY <1>2, <1>3, <1>4, <1>5, CountEffect DEF Whole
<1>7. \A c \in GroupsIn(file.dgs[at]) : dt.indices[c] = Whole(at, c)
  BY <1>2, <1>3, <1>4, <1>5, CountedBlock DEF Whole
<1> HIDE DEF dt
<1>8. cycles' = [c \in Groups |-> IF c \in GroupsIn(chain[at])
                                  THEN Len(dt.indices[c]) ELSE cycles[c]]
  BY DEF CountRecords, CurrentDT, dt, Throw, Return
<1> QED
  BY <1>2, <1>6, <1>7, <1>8

\* The counters of the groups that were counted.
CountsKnown ==
    "cycles" \in file.flags =>
        \A s \in DOMAIN file.dgs : HasIDs(s) /\ Counted(s) =>
            \A c \in GroupsIn(file.dgs[s]) : cycles[c] = Len(Whole(s, c))

LEMMA CountsKnownInv ==
    ASSUME SortedLast
    PROVE  Spec => []CountsKnown
<1>1. Init => CountsKnown
  BY DEF Init, CountsKnown, Counted
<1>2. Shape /\ AsLoaded /\ Begins /\ LengthKnown /\ CountsKnown /\ [Next]_vars
      => CountsKnown'
  <2> SUFFICES ASSUME Shape, AsLoaded, Begins, LengthKnown, CountsKnown, [Next]_vars
               PROVE  CountsKnown'
    OBVIOUS
  <2>0. file' = file
    BY Changes
  <2> SUFFICES ASSUME "cycles" \in file.flags, NEW s \in DOMAIN file.dgs,
                      HasIDs(s), Counted(s)', NEW c \in GroupsIn(file.dgs[s])
               PROVE  cycles'[c] = Len(Whole(s, c))
    BY <2>0 DEF CountsKnown, HasIDs, Whole, Log
  <2>1. Counted(s) \/ (CountRecords /\ s = at /\ pc' = "count")
    BY CountedBy
  <2>2. c \in Groups /\ file \in Files
    BY FileFacts, LenProperties DEF GroupsIn, Shape
  <2>3. CASE cycles' = cycles /\ Counted(s)
    BY <2>3 DEF CountsKnown
  <2>4. CASE CountRecords /\ pc' = "count"
    <3>1. CASE s = at
      BY <2>2, <2>4, <3>1, CountResult
    <3>2. CASE s # at
      <4>1. at \in DOMAIN file.dgs
        BY <2>4, CountResult
      <4>2. GroupsIn(file.dgs[s]) \cap GroupsIn(file.dgs[at]) = {}
        BY <2>2, <3>2, <4>1, FileFacts
      <4>3. c \in Groups \ GroupsIn(file.dgs[at])
        BY <2>2, <4>2
      <4>4. cycles'[c] = cycles[c]
        BY <2>4, <4>3, CountResult
      <4> QED BY <2>1, <3>2, <4>4 DEF CountsKnown
    <3> QED BY <3>1, <3>2
  <2>5. CASE CountRecords /\ pc' # "count"
    <3>1. cycles' = cycles
      BY <2>5 DEF CountRecords, Throw, Return
    <3> QED BY <2>1, <2>3, <2>5, <3>1
  <2>6. cycles' = cycles \/ CountRecords
    BY Changes
  <2> QED BY <2>1, <2>3, <2>4, <2>5, <2>6
<1> QED
  BY <1>1, <1>2, ChainIsSound, AsLoadedInv, BeginsInv, LengthKnownInv, PTL DEF Spec

LEMMA AllRecordsAreWhole ==
    ASSUME file \in Files, NEW s \in DOMAIN file.dgs, NEW c \in GroupsIn(file.dgs[s])
    PROVE  AllRecords(c) = Whole(s, c)
BY SourceOfGroup DEF AllRecords, Whole

\* For files whose data groups with several channel groups come before those
\* with one, a flag that finalize() cleared tells the truth: the last data block
\* then reaches the end of the file and each counter of a shared data block is
\* the number of its records, whatever calls were made and threw before.
THEOREM FlagsAreHonest ==
    ASSUME SortedLast
    PROVE  Spec => []FlagsHonest
<1>1. Shape /\ LengthKnown /\ CountsKnown => FlagsHonest
  <2> SUFFICES ASSUME Shape, LengthKnown, CountsKnown PROVE FlagsHonest
    OBVIOUS
  <2>1. "length" \in file.flags \ flags => reach = Len(Log(Len(file.dgs)))
    BY DEF LengthKnown
  <2>2. ASSUME "cycles" \in file.flags \ flags, NEW s \in DOMAIN file.dgs,
               NEW c \in GroupsIn(file.dgs[s]), HasIDs(s)
        PROVE  cycles[c] = Len(AllRecords(c))
    <3>1. Counted(s)
      BY <2>2 DEF Counted
    <3>2. cycles[c] = Len(Whole(s, c))
      BY <2>2, <3>1 DEF CountsKnown
    <3> QED BY <2>2, <3>2, AllRecordsAreWhole DEF Shape
  <2> QED BY <2>1, <2>2 DEF FlagsHonest
<1> QED
  BY <1>1, ChainIsSound, LengthKnownInv, CountsKnownInv, PTL

-----------------------------------------------------------------------------
(* Where the records are.                                                    *)

\* Before sorting the index of a counted data block has all its records.
IndexKnown ==
    Unsorted =>
        \A s \in DOMAIN file.dgs : HasIDs(s) /\ Counted(s) =>
            \A c \in GroupsIn(file.dgs[s]) :
                chain[s].dt.indices[c] = Whole(s, c)

LEMMA LoadedWhole ==
    ASSUME CountedWithLength, Init, "cycles" \notin flags,
           NEW s \in DOMAIN file.dgs, HasIDs(s), NEW c \in GroupsIn(file.dgs[s])
    PROVE  c \in DOMAIN chain[s].dt.indices /\ chain[s].dt.indices[c] = Whole(s, c)
<1>1. /\ file \in Files
      /\ chain[s] = [src |-> s, cgs |-> file.dgs[s].cgs,
                     hasIDs |-> HasIDs(s), dt |-> LoadedDT(s, Reach(s))]
  BY LoadedChain
<1>2. Reach(s) = Len(Log(s))
  <2>1. "length" \notin flags
    BY <1>1 DEF CountedWithLength, Init
  <2> QED BY <2>1 DEF Init, Reach
<1> DEFINE dt == LoadedDT(s, Reach(s))
<1>3. c \in DOMAIN dt.indices /\ dt.indices[c] = Whole(s, c)
  BY <1>1, <1>2, LoadedBlock DEF Whole
<1> HIDE DEF dt
<1>4. chain[s].dt = dt
  BY <1>1 DEF dt
<1> QED BY <1>3, <1>4

LEMMA IndexKnownInv ==
    ASSUME SortedLast, CountedWithLength
    PROVE  Spec => []IndexKnown
<1>1. Init => IndexKnown
  <2> SUFFICES ASSUME Init, NEW s \in DOMAIN file.dgs, HasIDs(s), Counted(s),
                      NEW c \in GroupsIn(file.dgs[s])
               PROVE  chain[s].dt.indices[c] = Whole(s, c)
    BY DEF IndexKnown
  <2>1. "cycles" \notin flags
    BY DEF Init, Counted
  <2> QED BY <2>1, LoadedWhole
<1>2. Shape /\ AsLoaded /\ Begins /\ LengthKnown /\ IndexKnown /\ [Next]_vars
      => IndexKnown'
  <2> SUFFICES ASSUME Shape, AsLoaded, Begins, LengthKnown, IndexKnown, [Next]_vars
               PROVE  IndexKnown'
    OBVIOUS
  <2>0. file' = file
    BY Changes
  <2> SUFFICES ASSUME Unsorted', NEW s \in DOMAIN file.dgs, HasIDs(s), Counted(s)',
                      NEW c \in GroupsIn(file.dgs[s])
               PROVE  chain'[s].dt.indices[c] = Whole(s, c)
    BY <2>0 DEF IndexKnown, HasIDs, Whole, Log
  <2>1. Counted(s) \/ (CountRecords /\ s = at /\ pc' = "count")
    BY CountedBy
  <2>2. Unsorted /\ LoadedAs(file, chain) /\ pc \notin {"toSD", "toDG"}
    BY FlagsGo DEF AsLoaded
  <2>3. s \in DOMAIN chain /\ ~MoveVLSD /\ ~SplitGroup
    BY <2>2 DEF LoadedAs, MoveVLSD, SplitGroup
  <2>4. Counted(s) => chain[s].dt.indices[c] = Whole(s, c)
    BY <2>2 DEF IndexKnown
  <2>5. CASE chain' = chain /\ ~CountRecords
    BY <2>1, <2>4, <2>5
  <2>6. CASE MeasureWalk /\ ~CountRecords
    <3>1. /\ \A j \in DOMAIN chain : j # at => chain'[j] = chain[j]
          /\ chain'[at].dt.indices = chain[at].dt.indices
      BY <2>6, WalkEffect DEF SameButBlock
    <3> QED BY <2>1, <2>3, <2>4, <2>6, <3>1
  <2>7. CASE CountRecords /\ s = at
    <3>1. pc = "count" /\ "cycles" \in flags
      BY <2>7 DEF CountRecords
    <3>2. at \in Nat
      BY DEF Shape
    <3>3. ~Counted(s)
      BY <2>7, <3>1, <3>2 DEF Counted
    <3> QED BY <2>1, <2>7, <3>3, CountResult
  <2>8. CASE CountRecords /\ s # at
    <3>1. \A j \in DOMAIN chain : j # at => chain'[j] = chain[j]
      BY <2>8, CountEffect DEF SameButBlock
    <3> QED BY <2>1, <2>3, <2>4, <2>8, <3>1
  <2> QED BY <2>3, <2>5, <2>6, <2>7, <2>8, Changes
<1> QED
  BY <1>1, <1>2, ChainIsSound, AsLoadedInv, BeginsInv, LengthKnownInv, PTL DEF Spec

\* A data block of the chain, or the SD block of group c, has all of W.
Held(c, W) ==
    \/ \E i \in DOMAIN chain :
         c \in DOMAIN chain[i].dt.indices /\ chain[i].dt.indices[c] = W
    \/ c \in DOMAIN sd /\ sd[c] = W

\* Once it is cleared, no step of sorting or of a later call loses a record.
LEMMA HeldStays ==
    ASSUME Shape, [Next]_vars, ~Unsorted, NEW c, NEW W, Held(c, W)
    PROVE  Held(c, W)'
<1>1. ~CountRecords
  BY DEF CountRecords, Unsorted, Handled
<1>2. CASE c \in DOMAIN sd /\ sd[c] = W
  <2>1. CASE MoveVLSD
    BY <1>2, <2>1, MoveEffect DEF Held
  <2>2. CASE sd' = sd
    BY <1>2, <2>2 DEF Held
  <2> QED BY <2>1, <2>2, Changes
<1>3. ASSUME NEW i \in DOMAIN chain, c \in DOMAIN chain[i].dt.indices,
             chain[i].dt.indices[c] = W
      PROVE  Held(c, W)'
  <2>1. CASE chain' = chain
    BY <1>3, <2>1 DEF Held
  <2>2. CASE MeasureWalk
    <3>1. /\ DOMAIN chain' = DOMAIN chain
          /\ \A j \in DOMAIN chain : j # at => chain'[j] = chain[j]
          /\ chain'[at].dt.indices = chain[at].dt.indices
      BY <2>2, WalkEffect DEF SameButBlock
    <3>2. chain'[i].dt.indices = chain[i].dt.indices
      BY <3>1
    <3> QED BY <1>3, <3>1, <3>2 DEF Held
  <2>3. CASE MoveVLSD
    <3>1. PICK v \in file.vlsd, p \in DOMAIN chain[at].cgs :
            /\ DOMAIN sd' = DOMAIN sd \cup {v}
            /\ sd'[v] = chain[at].dt.indices[v]
            /\ chain' = chain \/ Unlinked(chain', v, p)
      BY <2>3, MoveEffect
    <3>2. CASE Unlinked(chain', v, p)
      <4>1. /\ DOMAIN chain' = DOMAIN chain
            /\ \A j \in DOMAIN chain : j # at => chain'[j] = chain[j]
            /\ DOMAIN chain'[at].dt.indices = DOMAIN chain[at].dt.indices \ {v}
            /\ \A d \in DOMAIN chain'[at].dt.indices :
                  chain'[at].dt.indices[d] = chain[at].dt.indices[d]
        BY <3>2 DEF Unlinked
      <4>2. CASE i # at
        BY <1>3, <4>1, <4>2 DEF Held
      <4>3. CASE i = at /\ c = v
        BY <1>3, <3>1, <4>3 DEF Held
      <4>4. CASE i = at /\ c # v
        BY <1>3, <4>1, <4>4 DEF Held
      <4> QED BY <4>2, <4>3, <4>4
    <3> QED BY <2>1, <3>1, <3>2
  <2>4. CASE SplitGroup
    <3> DEFINE b == chain[at].cgs[1]
    <3>1. at \in DOMAIN chain /\ Divided(chain', b)
      BY <2>4, SplitEffect
    <3>2. /\ DOMAIN chain' = 1..(Len(chain) + 1)
          /\ \A j \in 1..(Len(chain) + 1) :
                j \notin {at, at + 1} => chain'[j] = chain[IF j < at THEN j ELSE j - 1]
      BY <3>1 DEF Divided
    <3>3. Len(chain) \in Nat /\ DOMAIN chain = 1..Len(chain)
      BY LenProperties DEF Shape
    <3>4. CASE i < at
      <4>1. i \in DOMAIN chain' /\ i \notin {at, at + 1}
        BY <3>1, <3>2, <3>3, <3>4
      <4>2. chain'[i] = chain[i]
        BY <3>2, <3>4, <4>1
      <4> QED BY <1>3, <4>1, <4>2 DEF Held
    <3>5. CASE i > at
      <4>1. /\ i + 1 \in DOMAIN chain' /\ i + 1 \notin {at, at + 1}
            /\ ~(i + 1 < at) /\ (i + 1) - 1 = i
        BY <3>1, <3>2, <3>3, <3>5
      <4>2. chain'[i + 1] = chain[(i + 1) - 1]
        BY <3>2, <4>1
      <4>3. chain'[i + 1] = chain[i]
        BY <4>1, <4>2
      <4> QED BY <1>3, <4>1, <4>3 DEF Held
    <3>6. CASE i = at
      <4>1. at \in DOMAIN chain' /\ at + 1 \in DOMAIN chain'
        BY <3>1, <3>2, <3>3
      <4>2. CASE chain'[at].dt = chain[at].dt
        BY <1>3, <3>6, <4>1, <4>2 DEF Held
      <4>3. CASE /\ DOMAIN chain'[at].dt.indices = {b}
                 /\ chain'[at].dt.indices[b] = chain[at].dt.indices[b]
                 /\ DOMAIN chain'[at + 1].dt.indices = DOMAIN chain[at].dt.indices \ {b}
                 /\ \A d \in DOMAIN chain'[at + 1].dt.indices :
                      chain'[at + 1].dt.indices[d] = chain[at].dt.indices[d]
        <5> HIDE DEF b
        <5>1. CASE c = b
          BY <1>3, <3>6, <4>1, <4>3, <5>1 DEF Held
        <5>2. CASE c # b
          BY <1>3, <3>6, <4>1, <4>3, <5>2 DEF Held
        <5> QED BY <5>1, <5>2
      <4> QED BY <3>1, <4>2, <4>3 DEF Divided
    <3> QED BY <3>1, <3>3, <3>4, <3>5, <3>6
  <2> QED BY <1>1, <2>1, <2>2, <2>3, <2>4, Changes
<1> QED
  BY <1>2, <1>3 DEF Held

\* Once the flags are cleared, all records of the groups that shared a data
\* block can be reached, during sorting as well as before and after it.
AllHeld ==
    ~Unsorted =>
        \A s \in DOMAIN file.dgs : HasIDs(s) =>
            \A c \in GroupsIn(file.dgs[s]) : Held(c, Whole(s, c))

LEMMA AllHeldInv ==
    ASSUME SortedLast, CountedWithLength
    PROVE  Spec => []AllHeld
<1>1. Init => AllHeld
  <2> SUFFICES ASSUME Init, ~Unsorted, NEW s \in DOMAIN file.dgs, HasIDs(s),
                      NEW c \in GroupsIn(file.dgs[s])
               PROVE  Held(c, Whole(s, c))
    BY DEF AllHeld
  <2>1. "cycles" \notin flags
    BY DEF Unsorted, Handled
  <2>2. s \in DOMAIN chain
    BY LoadedChain
  <2> QED BY <2>1, <2>2, LoadedWhole DEF Held
<1>2. Shape /\ AsLoaded /\ IndexKnown /\ AllHeld /\ [Next]_vars => AllHeld'
  <2> SUFFICES ASSUME Shape, AsLoaded, IndexKnown, AllHeld, [Next]_vars
               PROVE  AllHeld'
    OBVIOUS
  <2>0. file' = file
    BY Changes
  <2> SUFFICES ASSUME ~Unsorted', NEW s \in DOMAIN file.dgs, HasIDs(s),
                      NEW c \in GroupsIn(file.dgs[s])
               PROVE  Held(c, Whole(s, c))'
    BY <2>0 DEF AllHeld, HasIDs
  <2>1. Whole(s, c)' = Whole(s, c)
    BY <2>0 DEF Whole, Log
  <2>2. CASE ~Unsorted
    <3>1. Held(c, Whole(s, c))
      BY <2>2 DEF AllHeld
    <3> DEFINE W == Whole(s, c)
    <3>2. W' = W
      BY <2>1
    <3> HIDE DEF W
    <3>3. Held(c, W)
      BY <3>1 DEF W
    <3>4. Held(c, W)'
      BY <2>2, <3>2, <3>3, HeldStays DEF Held
    <3> QED BY <3>4 DEF W
  <2>3. CASE Unsorted
    <3>1. CountBytes
      BY <2>3, FlagsGo DEF Unsorted
    <3>2. Counted(s) /\ chain' = chain
      BY <3>1 DEF CountBytes, Counted, sortVars
    <3>3. chain[s].dt.indices[c] = Whole(s, c)
      BY <2>3, <3>2 DEF IndexKnown
    <3>4. LoadedAs(file, chain)
      BY <2>3 DEF AsLoaded
    <3>5. /\ s \in DOMAIN chain /\ IsMultiple(chain[s].dt)
          /\ c \in GroupsIn(chain[s])
      BY <3>4 DEF LoadedAs, IsMultiple, HasIDs, GroupsIn
    <3>6. c \in DOMAIN chain[s].dt.indices
      BY <3>5 DEF Shape, DataGroupOK
    <3> QED BY <2>1, <3>2, <3>3, <3>5, <3>6 DEF Held
  <2> QED BY <2>2, <2>3
<1> QED
  BY <1>1, <1>2, ChainIsSound, AsLoadedInv, IndexKnownInv, PTL DEF Spec

\* For files whose data groups with several channel groups come first and whose
\* counters are to be made if the last length is, no record of those groups is
\* ever lost: once the file is finalized each group has a data block or an SD
\* block with all of its records in file order, whatever calls were made before
\* and at whatever point they threw.
THEOREM NoRecordIsLost ==
    ASSUME SortedLast, CountedWithLength
    PROVE  Spec => []NothingLost
<1>1. Shape /\ AllHeld => NothingLost
  <2> SUFFICES ASSUME Shape, AllHeld, Finalized, NEW s \in DOMAIN file.dgs,
                      NEW c \in GroupsIn(file.dgs[s]), HasIDs(s)
               PROVE  \/ \E i \in DTHolders(c) :
                           chain[i].dt.indices[c] = AllRecords(c)
                      \/ c \in DOMAIN sd /\ sd[c] = AllRecords(c)
    BY DEF NothingLost
  <2>1. Held(c, Whole(s, c))
    BY DEF AllHeld, Finalized, Unsorted
  <2>2. AllRecords(c) = Whole(s, c)
    BY AllRecordsAreWhole DEF Shape
  <2> QED BY <2>1, <2>2 DEF Held, DTHolders
<1> QED
  BY <1>1, ChainIsSound, AllHeldInv, PTL

-----------------------------------------------------------------------------
(* Which groups stand where.                                                 *)

LinkedIn(ch, c) == \E i \in DOMAIN ch : c \in GroupsIn(ch[i])

\* No step of sorting puts a group before another it did not stand before.
LEMMA SplitKeepsOrder ==
    ASSUME Shape, [Next]_vars, SplitGroup, NEW c, NEW d, Precedes(chain', c, d)
    PROVE  Precedes(chain, c, d)
<1> DEFINE b == chain[at].cgs[1]
<1>1. at \in DOMAIN chain /\ Len(chain[at].cgs) > 1 /\ Divided(chain', b)
      /\ IsMultiple(chain[at].dt)
  BY SplitEffect
<1>2. /\ DOMAIN chain' = 1..(Len(chain) + 1)
      /\ \A j \in 1..(Len(chain) + 1) :
            j \notin {at, at + 1} => chain'[j] = chain[IF j < at THEN j ELSE j - 1]
  BY <1>1 DEF Divided
<1>3. chain'[at].cgs = <<b>> /\ chain'[at + 1].cgs = Tail(chain[at].cgs)
  BY <1>1, SplitGroups
<1>4. Len(chain) \in Nat /\ DOMAIN chain = 1..Len(chain)
  BY LenProperties DEF Shape
<1>5. /\ chain[at].cgs \in Seq(Groups)
      /\ DOMAIN chain[at].cgs = 1..Len(chain[at].cgs) /\ Len(chain[at].cgs) \in Nat
      /\ \A x, y \in DOMAIN chain[at].cgs : chain[at].cgs[x] = chain[at].cgs[y] => x = y
  BY <1>1, LenProperties DEF Shape, DataGroupOK
<1> DEFINE oi(i) == IF i <= at THEN i ELSE i - 1
           ok(i, k) == IF i = at + 1 THEN k + 1 ELSE k
           Maps(i, k) == /\ oi(i) \in DOMAIN chain
                         /\ ok(i, k) \in DOMAIN chain[oi(i)].cgs
                         /\ chain[oi(i)].cgs[ok(i, k)] = chain'[i].cgs[k]
                         /\ k \in Nat \ {0} /\ (i = at => k = 1)
<1>6. ASSUME NEW i \in DOMAIN chain', NEW k \in DOMAIN chain'[i].cgs
      PROVE  Maps(i, k)
  <2>0. k \in Nat \ {0}
    <3>1. DataGroupOK(file, chain'[i])
      BY ChainStays
    <3>2. DOMAIN chain'[i].cgs = 1..Len(chain'[i].cgs) /\ Len(chain'[i].cgs) \in Nat
      BY <3>1, LenProperties DEF DataGroupOK
    <3> QED BY <3>2
  <2>1. CASE i = at
    <3>1. DOMAIN <<b>> = {1} /\ <<b>>[1] = b
      OBVIOUS
    <3>2. k = 1 /\ chain'[i].cgs[k] = chain[at].cgs[1] /\ oi(i) = at /\ ok(i, k) = 1
      BY <1>1, <1>3, <1>4, <2>1, <3>1
    <3>3. 1 \in DOMAIN chain[at].cgs
      BY <1>1, <1>5
    <3> QED BY <1>1, <2>0, <2>1, <3>2, <3>3
  <2>2. CASE i = at + 1
    <3>1. k + 1 \in DOMAIN chain[at].cgs /\ Tail(chain[at].cgs)[k] = chain[at].cgs[k + 1]
      BY <1>1, <1>3, <1>5, <2>2, TailGroups
    <3>2. oi(i) = at /\ ok(i, k) = k + 1 /\ i # at
      BY <1>1, <1>4, <2>2
    <3> QED BY <1>1, <1>3, <2>0, <2>2, <3>1, <3>2
  <2>3. CASE i < at
    <3>1. i \in 1..(Len(chain) + 1) /\ i \notin {at, at + 1}
      BY <1>1, <1>2, <1>4, <2>3
    <3>2. chain'[i] = chain[i]
      BY <1>2, <2>3, <3>1
    <3>3. oi(i) = i /\ ok(i, k) = k /\ i \in DOMAIN chain /\ i # at
      BY <1>1, <1>2, <1>4, <2>3
    <3> QED BY <2>0, <3>2, <3>3
  <2>4. CASE i > at + 1
    <3>1. i \in 1..(Len(chain) + 1) /\ i \notin {at, at + 1} /\ ~(i < at)
      BY <1>1, <1>2, <1>4, <2>4
    <3>2. chain'[i] = chain[i - 1]
      BY <1>2, <3>1
    <3>3. oi(i) = i - 1 /\ ok(i, k) = k /\ i - 1 \in DOMAIN chain /\ i # at
      BY <1>1, <1>2, <1>4, <2>4
    <3> QED BY <2>0, <3>2, <3>3
  <2>5. i \in 1..(Len(chain) + 1) /\ at \in 1..Len(chain)
    BY <1>1, <1>2, <1>4
  <2> HIDE DEF Maps
  <2> QED BY <1>4, <2>1, <2>2, <2>3, <2>4, <2>5
<1>7. PICK i \in DOMAIN chain', j \in DOMAIN chain' :
        \E k \in DOMAIN chain'[i].cgs, l \in DOMAIN chain'[j].cgs :
          /\ chain'[i].cgs[k] = c /\ chain'[j].cgs[l] = d
          /\ i < j \/ (i = j /\ k < l)
  BY DEF Precedes
<1>8. PICK k \in DOMAIN chain'[i].cgs, l \in DOMAIN chain'[j].cgs :
          /\ chain'[i].cgs[k] = c /\ chain'[j].cgs[l] = d
          /\ i < j \/ (i = j /\ k < l)
  BY <1>7
<1>9. Maps(i, k) /\ Maps(j, l)
  BY <1>6
<1>10. oi(i) < oi(j) \/ (oi(i) = oi(j) /\ ok(i, k) < ok(j, l))
  BY <1>1, <1>2, <1>4, <1>8, <1>9
<1> QED
  BY <1>8, <1>9, <1>10 DEF Precedes

LEMMA MoveKeepsOrder ==
    ASSUME Shape, [Next]_vars, MoveVLSD, NEW c, NEW d, Precedes(chain', c, d)
    PROVE  Precedes(chain, c, d)
<1>1. PICK v \in file.vlsd, p \in DOMAIN chain[at].cgs :
        /\ at \in DOMAIN chain
        /\ v = todo[2] /\ chain[at].cgs[p] = v
        /\ todo[1] = file.refers[v] /\ Len(todo) > 1
        /\ chain' = chain \/ Unlinked(chain', v, p)
  BY MoveEffect
<1>2. CASE Unlinked(chain', v, p)
  <2>1. /\ DOMAIN chain' = DOMAIN chain
        /\ \A j \in DOMAIN chain : j # at => chain'[j] = chain[j]
    BY <1>2 DEF Unlinked
  <2>2. /\ chain'[at].cgs = RemoveAt(chain[at].cgs, p)
        /\ \E k \in DOMAIN chain[at].cgs : chain[at].cgs[k] # v
    BY <1>1, <1>2, MovedGroups
  <2>3. /\ chain[at].cgs \in Seq(Groups)
        /\ DOMAIN chain[at].cgs = 1..Len(chain[at].cgs) /\ Len(chain[at].cgs) \in Nat
        /\ \A x, y \in DOMAIN chain[at].cgs : chain[at].cgs[x] = chain[at].cgs[y] => x = y
    BY <1>1, LenProperties DEF Shape, DataGroupOK
  <2>4. Len(chain) \in Nat /\ DOMAIN chain = 1..Len(chain)
    BY LenProperties DEF Shape
  <2> DEFINE ok(i, k) == IF i = at /\ ~(k < p) THEN k + 1 ELSE k
             Maps(i, k) == /\ ok(i, k) \in DOMAIN chain[i].cgs
                           /\ chain[i].cgs[ok(i, k)] = chain'[i].cgs[k]
                           /\ k \in Nat
  <2>5. ASSUME NEW i \in DOMAIN chain, NEW k \in DOMAIN chain'[i].cgs
        PROVE  Maps(i, k)
    <3>0. k \in Nat
      <4>1. DataGroupOK(file, chain'[i])
        BY <2>1, ChainStays
      <4>2. DOMAIN chain'[i].cgs = 1..Len(chain'[i].cgs) /\ Len(chain'[i].cgs) \in Nat
        BY <4>1, LenProperties DEF DataGroupOK
      <4> QED BY <4>2
    <3>1. CASE i # at
      BY <2>1, <3>0, <3>1
    <3>2. CASE i = at
      <4> DEFINE gs == chain[at].cgs
                 r == chain'[at].cgs
                 q == IF k < p THEN k ELSE k + 1
      <4> HIDE DEF gs, r
      <4>1. /\ gs \in Seq(Groups) /\ p \in DOMAIN gs /\ gs[p] = v
            /\ \A x, y \in DOMAIN gs : gs[x] = gs[y] => x = y
            /\ \E x \in DOMAIN gs : gs[x] # v
            /\ r = RemoveAt(gs, p) /\ k \in DOMAIN r
        BY <1>1, <2>2, <2>3, <3>2 DEF gs, r
      <4>2. q \in DOMAIN gs /\ r[k] = gs[q]
        BY <4>1, UnlinkedGroups
      <4>3. ok(i, k) = q
        BY <3>2
      <4> QED BY <3>0, <3>2, <4>2, <4>3 DEF gs, r
    <3> QED BY <3>1, <3>2
  <2>6. PICK i \in DOMAIN chain, j \in DOMAIN chain :
          \E k \in DOMAIN chain'[i].cgs, l \in DOMAIN chain'[j].cgs :
            /\ chain'[i].cgs[k] = c /\ chain'[j].cgs[l] = d
            /\ i < j \/ (i = j /\ k < l)
    BY <2>1 DEF Precedes
  <2>7. PICK k \in DOMAIN chain'[i].cgs, l \in DOMAIN chain'[j].cgs :
            /\ chain'[i].cgs[k] = c /\ chain'[j].cgs[l] = d
            /\ i < j \/ (i = j /\ k < l)
    BY <2>6
  <2>8. Maps(i, k) /\ Maps(j, l)
    BY <2>5
  <2>9. i < j \/ (i = j /\ ok(i, k) < ok(j, l))
    BY <2>3, <2>4, <2>7, <2>8
  <2> QED BY <2>7, <2>8, <2>9 DEF Precedes
<1> QED
  BY <1>1, <1>2

\* A group is linked nowhere it was not, and unlinked only for an SD block.
LEMMA LinkedStays ==
    ASSUME Shape, [Next]_vars, NEW c
    PROVE  /\ LinkedIn(chain', c) => LinkedIn(chain, c)
           /\ LinkedIn(chain, c) =>
                LinkedIn(chain', c) \/ (MoveVLSD /\ c = todo[2] /\ c \in DOMAIN sd')
           /\ c \in DOMAIN sd => c \in DOMAIN sd'
<1>1. CASE chain' = chain /\ sd' = sd
  BY <1>1
<1>2. CASE (CountRecords \/ MeasureWalk) /\ sd' = sd
  <2>1. SameButBlock(chain')
    BY <1>2, CountEffect, WalkEffect
  <2>2. /\ DOMAIN chain' = DOMAIN chain
        /\ \A j \in DOMAIN chain : j # at => chain'[j] = chain[j]
    BY <2>1 DEF SameButBlock
  <2>3. GroupsIn(chain'[at]) = GroupsIn(chain[at])
    BY <2>1, SameGroups
  <2> QED BY <1>2, <2>2, <2>3 DEF LinkedIn
<1>3. CASE MoveVLSD
  <2>1. PICK v \in file.vlsd, p \in DOMAIN chain[at].cgs :
          /\ at \in DOMAIN chain
          /\ v = todo[2] /\ chain[at].cgs[p] = v
          /\ todo[1] = file.refers[v] /\ Len(todo) > 1
          /\ DOMAIN sd' = DOMAIN sd \cup {v}
          /\ chain' = chain \/ Unlinked(chain', v, p)
    BY <1>3, MoveEffect
  <2>2. CASE Unlinked(chain', v, p)
    <3>1. /\ DOMAIN chain' = DOMAIN chain
          /\ \A j \in DOMAIN chain : j # at => chain'[j] = chain[j]
      BY <2>2 DEF Unlinked
    <3>2. GroupsIn(chain'[at]) = GroupsIn(chain[at]) \ {v}
      BY <1>3, <2>1, <2>2, MovedGroups
    <3>3. LinkedIn(chain', c) => LinkedIn(chain, c)
      BY <3>1, <3>2 DEF LinkedIn
    <3>4. LinkedIn(chain, c) => LinkedIn(chain', c) \/ c = v
      BY <3>1, <3>2 DEF LinkedIn
    <3> QED BY <1>3, <2>1, <3>3, <3>4
  <2> QED BY <2>1, <2>2
<1>4. CASE SplitGroup /\ sd' = sd
  <2> DEFINE b == chain[at].cgs[1]
  <2>1. /\ at \in DOMAIN chain /\ IsMultiple(chain[at].dt)
        /\ Len(chain[at].cgs) > 1 /\ Divided(chain', b)
    BY <1>4, SplitEffect
  <2>2. /\ GroupsIn(chain'[at]) = {b}
        /\ GroupsIn(chain'[at + 1]) = GroupsIn(chain[at]) \ {b}
        /\ b \in GroupsIn(chain[at])
    BY <2>1, SplitGroups
  <2>3. /\ DOMAIN chain' = 1..(Len(chain) + 1)
        /\ \A j \in 1..(Len(chain) + 1) :
              j \notin {at, at + 1} => chain'[j] = chain[IF j < at THEN j ELSE j - 1]
    BY <2>1 DEF Divided
  <2>4. Len(chain) \in Nat /\ DOMAIN chain = 1..Len(chain)
    BY LenProperties DEF Shape
  <2> HIDE DEF b
  <2>5. ASSUME NEW i \in DOMAIN chain', c \in GroupsIn(chain'[i])
        PROVE  LinkedIn(chain, c)
    <3>1. CASE i \in {at, at + 1}
      BY <2>1, <2>2, <2>5, <3>1 DEF LinkedIn
    <3>2. CASE i \notin {at, at + 1}
      <4> DEFINE k == IF i < at THEN i ELSE i - 1
      <4>1. k \in DOMAIN chain
        BY <2>1, <2>3, <2>4, <3>2
      <4>2. chain'[i] = chain[k]
        BY <2>3, <3>2
      <4> HIDE DEF k
      <4> QED BY <2>5, <4>1, <4>2 DEF LinkedIn
    <3> QED BY <3>1, <3>2
  <2>6. ASSUME NEW i \in DOMAIN chain, c \in GroupsIn(chain[i])
        PROVE  LinkedIn(chain', c)
    <3>1. CASE i = at
      <4>1. at \in DOMAIN chain' /\ at + 1 \in DOMAIN chain'
        BY <2>1, <2>3, <2>4
      <4> QED BY <2>2, <2>6, <3>1, <4>1 DEF LinkedIn
    <3>2. CASE i < at
      <4>1. i \in DOMAIN chain' /\ i \notin {at, at + 1}
        BY <2>1, <2>3, <2>4, <3>2
      <4>2. chain'[i] = chain[i]
        BY <2>3, <3>2, <4>1
      <4> QED BY <2>6, <4>1, <4>2 DEF LinkedIn
    <3>3. CASE i > at
      <4>1. /\ i + 1 \in DOMAIN chain' /\ i + 1 \notin {at, at + 1}
            /\ ~(i + 1 < at) /\ (i + 1) - 1 = i
        BY <2>1, <2>3, <2>4, <3>3
      <4>2. chain'[i + 1] = chain[(i + 1) - 1]
        BY <2>3, <4>1
      <4>3. chain'[i + 1] = chain[i]
        BY <4>1, <4>2
      <4> QED BY <2>6, <4>1, <4>3 DEF LinkedIn
    <3> QED BY <2>1, <2>4, <3>1, <3>2, <3>3
  <2> QED BY <1>4, <2>5, <2>6 DEF LinkedIn
<1>5. CountRecords \/ SplitGroup \/ MeasureWalk => sd' = sd
  BY DEF CountRecords, SplitGroup, MeasureWalk
<1> QED
  BY <1>1, <1>2, <1>3, <1>4, <1>5, Changes

LEMMA OrderStays ==
    ASSUME Shape, [Next]_vars, NEW c, NEW d, Precedes(chain', c, d)
    PROVE  Precedes(chain, c, d)
<1>1. CASE chain' = chain
  BY <1>1
<1>2. CASE CountRecords \/ MeasureWalk
  <2>1. SameButBlock(chain')
    BY <1>2, CountEffect, WalkEffect
  <2>2. /\ DOMAIN chain' = DOMAIN chain
        /\ \A j \in DOMAIN chain : j # at => chain'[j] = chain[j]
    BY <2>1 DEF SameButBlock
  <2>3. chain'[at].cgs = chain[at].cgs
    BY <2>1, SameGroups
  <2>4. \A j \in DOMAIN chain : chain'[j].cgs = chain[j].cgs
    BY <2>2, <2>3
  <2> QED BY <2>2, <2>4 DEF Precedes
<1> QED
  BY <1>1, <1>2, SplitKeepsOrder, MoveKeepsOrder, Changes

\* Whatever calls are made and wherever they throw, the data groups along the
\* chain hold the channel groups of the file in the order of the file, each
\* once, and only variable-length groups that became SD blocks are missing.
THEOREM GroupsAreKept == Spec => []GroupsKept
<1> DEFINE Kept == /\ \A c \in Groups : LinkedIn(chain, c) => InFile(c)
                   /\ \A c \in Groups : InFile(c) => LinkedIn(chain, c) \/ c \in DOMAIN sd
                   /\ \A c, d \in Groups :
                        Precedes(chain, c, d) => Precedes(file.dgs, c, d)
<1>1. Kept <=> GroupsKept
  BY DEF GroupsKept, Linked, LinkedIn
<1>2. Init => Kept
  <2> SUFFICES ASSUME Init PROVE Kept
    OBVIOUS
  <2>1. /\ DOMAIN chain = DOMAIN file.dgs
        /\ \A s \in DOMAIN file.dgs : chain[s].cgs = file.dgs[s].cgs
    BY LoadedAsInit DEF LoadedAs
  <2> QED BY <2>1 DEF LinkedIn, InFile, GroupsIn, Precedes
<1>3. Shape /\ Kept /\ [Next]_vars => Kept'
  <2> SUFFICES ASSUME Shape, Kept, [Next]_vars PROVE Kept'
    OBVIOUS
  <2>1. file' = file
    BY Changes
  <2>2. ASSUME NEW c \in Groups
        PROVE  /\ LinkedIn(chain', c) => InFile(c)
               /\ InFile(c) => LinkedIn(chain', c) \/ c \in DOMAIN sd'
    BY LinkedStays
  <2>3. ASSUME NEW c \in Groups, NEW d \in Groups, Precedes(chain', c, d)
        PROVE  Precedes(file.dgs, c, d)
    BY <2>3, OrderStays
  <2>4. \A c \in Groups : InFile(c)' = InFile(c)
    BY <2>1 DEF InFile
  <2> QED BY <2>1, <2>2, <2>3, <2>4
<1> HIDE DEF Kept
<1> QED
  BY <1>1, <1>2, <1>3, ChainIsSound, PTL DEF Spec

-----------------------------------------------------------------------------
(* Which data blocks index what.                                             *)

Apart ==
    \A i, j \in DOMAIN chain :
        i # j => DOMAIN chain[i].dt.indices \cap DOMAIN chain[j].dt.indices = {}

HoldersLinked ==
    \A i \in DOMAIN chain : \A c \in DOMAIN chain[i].dt.indices : LinkedIn(chain, c)

\* Where the data groups that were not divided come from.
LEMMA DividedFrom ==
    ASSUME Shape, at \in DOMAIN chain, NEW ch, NEW b, Divided(ch, b),
           NEW i \in DOMAIN ch, i \notin {at, at + 1}
    PROVE  \E k \in DOMAIN chain :
              k = (IF i < at THEN i ELSE i - 1) /\ k # at /\ ch[i] = chain[k]
<1> DEFINE k == IF i < at THEN i ELSE i - 1
<1>1. /\ DOMAIN ch = 1..(Len(chain) + 1)
      /\ \A j \in 1..(Len(chain) + 1) :
            j \notin {at, at + 1} => ch[j] = chain[IF j < at THEN j ELSE j - 1]
  BY DEF Divided
<1>2. Len(chain) \in Nat /\ DOMAIN chain = 1..Len(chain)
  BY LenProperties DEF Shape
<1>3. k \in DOMAIN chain /\ k # at
  BY <1>1, <1>2
<1>4. ch[i] = chain[k]
  BY <1>1
<1> HIDE DEF k
<1>5. k = IF i < at THEN i ELSE i - 1
  BY DEF k
<1> QED BY <1>3, <1>4, <1>5

\* Where the groups a data block indexes were indexed before.
LEMMA IndexedFrom ==
    ASSUME Shape, [Next]_vars, NEW i \in DOMAIN chain'
    PROVE  \E k \in DOMAIN chain :
             /\ k = IF SplitGroup /\ i > at THEN i - 1 ELSE i
             /\ DOMAIN chain'[i].dt.indices \subseteq DOMAIN chain[k].dt.indices
             /\ MoveVLSD /\ k = at /\ chain' # chain
                  => todo[2] \notin DOMAIN chain'[i].dt.indices
<1>1. CASE chain' = chain /\ ~SplitGroup
  BY <1>1
<1>2. CASE CountRecords \/ MeasureWalk
  <2>1. SameButBlock(chain')
    BY <1>2, CountEffect, WalkEffect
  <2>2. /\ DOMAIN chain' = DOMAIN chain
        /\ \A j \in DOMAIN chain : j # at => chain'[j] = chain[j]
        /\ DOMAIN chain'[at].dt.indices = DOMAIN chain[at].dt.indices
    BY <2>1 DEF SameButBlock
  <2>3. ~SplitGroup /\ ~MoveVLSD
    BY <1>2 DEF CountRecords, MeasureWalk, SplitGroup, MoveVLSD
  <2> QED BY <2>2, <2>3
<1>3. CASE MoveVLSD
  <2>1. PICK v \in file.vlsd, p \in DOMAIN chain[at].cgs :
          v = todo[2] /\ (chain' = chain \/ Unlinked(chain', v, p))
    BY <1>3, MoveEffect
  <2>2. ~SplitGroup
    BY <1>3 DEF SplitGroup, MoveVLSD
  <2>3. CASE Unlinked(chain', v, p)
    <3>1. /\ DOMAIN chain' = DOMAIN chain
          /\ \A j \in DOMAIN chain : j # at => chain'[j] = chain[j]
          /\ DOMAIN chain'[at].dt.indices = DOMAIN chain[at].dt.indices \ {v}
      BY <2>3 DEF Unlinked
    <3> QED BY <2>1, <2>2, <3>1
  <2> QED BY <1>1, <2>1, <2>2, <2>3
<1>4. CASE SplitGroup
  <2> DEFINE b == chain[at].cgs[1]
  <2>1. at \in DOMAIN chain /\ Divided(chain', b) /\ b \in DOMAIN chain[at].dt.indices
    BY <1>4, SplitEffect
  <2>2. at \in Nat /\ i \in Nat /\ ~MoveVLSD
    <3>1. DOMAIN chain' = 1..(Len(chain) + 1) /\ Len(chain) \in Nat
      BY <2>1, LenProperties DEF Divided, Shape
    <3> QED BY <1>4, <3>1 DEF Shape, SplitGroup, MoveVLSD
  <2>3. /\ DOMAIN chain'[at].dt.indices \subseteq DOMAIN chain[at].dt.indices
        /\ DOMAIN chain'[at + 1].dt.indices \subseteq DOMAIN chain[at].dt.indices
    <3> HIDE DEF b
    <3> QED BY <2>1, NoBlockOK DEF Divided
  <2>4. CASE i = at
    BY <1>4, <2>1, <2>2, <2>3, <2>4
  <2>5. CASE i = at + 1
    <3>1. i > at /\ i - 1 = at
      BY <2>2, <2>5
    <3> QED BY <1>4, <2>1, <2>2, <2>3, <2>5, <3>1
  <2>6. CASE i \notin {at, at + 1}
    <3>1. PICK k \in DOMAIN chain :
            k = (IF i < at THEN i ELSE i - 1) /\ k # at /\ chain'[i] = chain[k]
      BY <2>1, <2>6, DividedFrom
    <3>2. k = IF i > at THEN i - 1 ELSE i
      BY <2>2, <2>6, <3>1
    <3> QED BY <1>4, <2>2, <3>1, <3>2
  <2> QED BY <2>4, <2>5, <2>6
<1> QED
  BY <1>1, <1>2, <1>3, <1>4, Changes

LEMMA ApartInv == Spec => []Apart
<1>1. Init => Apart
  <2> SUFFICES ASSUME Init, NEW i \in DOMAIN chain, NEW j \in DOMAIN chain, i # j
               PROVE  DOMAIN chain[i].dt.indices \cap DOMAIN chain[j].dt.indices = {}
    BY DEF Apart
  <2>1. file \in Files /\ i \in DOMAIN file.dgs /\ j \in DOMAIN file.dgs
    BY LoadedChain
  <2>2. ASSUME NEW s \in DOMAIN file.dgs
        PROVE  DOMAIN chain[s].dt.indices \subseteq GroupsIn(file.dgs[s])
    <3> DEFINE dt == LoadedDT(s, Reach(s))
    <3>1. DOMAIN dt.indices \subseteq GroupsIn(file.dgs[s])
      BY <2>1, LoadedBlock
    <3> HIDE DEF dt
    <3>2. chain[s] = [src |-> s, cgs |-> file.dgs[s].cgs, hasIDs |-> HasIDs(s), dt |-> dt]
      BY LoadedChain DEF dt
    <3>3. chain[s].dt = dt
      BY <3>2
    <3> QED BY <3>1, <3>3
  <2>3. GroupsIn(file.dgs[i]) \cap GroupsIn(file.dgs[j]) = {}
    BY <2>1, FileFacts
  <2> QED BY <2>1, <2>2, <2>3
<1>2. Shape /\ Apart /\ [Next]_vars => Apart'
  <2> SUFFICES ASSUME Shape, Apart, [Next]_vars,
                      NEW i \in DOMAIN chain', NEW j \in DOMAIN chain', i # j
               PROVE  DOMAIN chain'[i].dt.indices \cap DOMAIN chain'[j].dt.indices = {}
    BY DEF Apart
  <2>1. PICK k \in DOMAIN chain :
          /\ k = IF SplitGroup /\ i > at THEN i - 1 ELSE i
          /\ DOMAIN chain'[i].dt.indices \subseteq DOMAIN chain[k].dt.indices
    BY IndexedFrom
  <2>2. PICK l \in DOMAIN chain :
          /\ l = IF SplitGroup /\ j > at THEN j - 1 ELSE j
          /\ DOMAIN chain'[j].dt.indices \subseteq DOMAIN chain[l].dt.indices
    BY IndexedFrom
  <2>3. CASE k # l
    BY <2>1, <2>2, <2>3 DEF Apart
  <2>4. CASE k = l
    <3>1. SplitGroup
      BY <2>1, <2>2, <2>4
    <3> DEFINE b == chain[at].cgs[1]
    <3>2. at \in DOMAIN chain /\ Divided(chain', b)
      BY <3>1, SplitEffect
    <3>3. DOMAIN chain'[at].dt.indices \cap DOMAIN chain'[at + 1].dt.indices = {}
      <4> HIDE DEF b
      <4> QED BY <3>2, NoBlockOK DEF Divided
    <3>4. i \in Nat /\ j \in Nat /\ at \in Nat
      <4>1. DOMAIN chain' = 1..(Len(chain) + 1) /\ Len(chain) \in Nat
        BY <3>2, LenProperties DEF Divided, Shape
      <4> QED BY <4>1 DEF Shape
    <3>5. (i = at /\ j = at + 1) \/ (j = at /\ i = at + 1)
      BY <2>1, <2>2, <2>4, <3>1, <3>4
    <3> QED BY <3>3, <3>5
  <2> QED BY <2>3, <2>4
<1> QED
  BY <1>1, <1>2, ChainIsSound, PTL DEF Spec

LEMMA HoldersLinkedInv == Spec => []HoldersLinked
<1>1. Init => HoldersLinked
  <2> SUFFICES ASSUME Init, NEW s \in DOMAIN chain, NEW c \in DOMAIN chain[s].dt.indices
               PROVE  LinkedIn(chain, c)
    BY DEF HoldersLinked
  <2>1. file \in Files /\ s \in DOMAIN file.dgs
    BY LoadedChain
  <2> DEFINE dt == LoadedDT(s, Reach(s))
  <2>2. DOMAIN dt.indices \subseteq GroupsIn(file.dgs[s])
    BY <2>1, LoadedBlock
  <2> HIDE DEF dt
  <2>3. chain[s] = [src |-> s, cgs |-> file.dgs[s].cgs, hasIDs |-> HasIDs(s), dt |-> dt]
    BY <2>1, LoadedChain DEF dt
  <2>4. chain[s].dt = dt /\ chain[s].cgs = file.dgs[s].cgs
    BY <2>3
  <2>5. GroupsIn(chain[s]) = GroupsIn(file.dgs[s])
    BY <2>4 DEF GroupsIn
  <2> QED BY <2>2, <2>4, <2>5 DEF LinkedIn
<1>2. Shape /\ Apart /\ HoldersLinked /\ [Next]_vars => HoldersLinked'
  <2> SUFFICES ASSUME Shape, Apart, HoldersLinked, [Next]_vars,
                      NEW i \in DOMAIN chain', NEW c \in DOMAIN chain'[i].dt.indices
               PROVE  LinkedIn(chain', c)
    BY DEF HoldersLinked, LinkedIn
  <2>1. PICK k \in DOMAIN chain :
          /\ DOMAIN chain'[i].dt.indices \subseteq DOMAIN chain[k].dt.indices
          /\ MoveVLSD /\ k = at /\ chain' # chain
               => todo[2] \notin DOMAIN chain'[i].dt.indices
    BY IndexedFrom
  <2>2. LinkedIn(chain, c)
    BY <2>1 DEF HoldersLinked
  <2>3. CASE MoveVLSD /\ c = todo[2] /\ chain' # chain
    <3>1. at \in DOMAIN chain /\ todo[2] \in DOMAIN chain[at].dt.indices
      BY <2>3, MoveEffect
    <3>2. k = at
      BY <2>1, <2>3, <3>1 DEF Apart
    <3> QED BY <2>1, <2>3, <3>2
  <2> QED BY <2>2, <2>3, LinkedStays
<1> QED
  BY <1>1, <1>2, ChainIsSound, ApartInv, PTL DEF Spec

\* On any file, at every step of every call and after any exception, no two data
\* blocks index the same channel group, and none indexes a group that was
\* unlinked from its data group for an SD block.
THEOREM NothingIsTwice == Spec => []NothingTwice
<1>1. Shape /\ Apart /\ HoldersLinked => NothingTwice
  <2> SUFFICES ASSUME Apart, HoldersLinked, NEW c \in Groups
               PROVE  /\ Cardinality(DTHolders(c)) <= 1
                      /\ ~Linked(c) => DTHolders(c) = {}
    BY DEF NothingTwice
  <2>1. ~Linked(c) => DTHolders(c) = {}
    BY DEF HoldersLinked, Linked, LinkedIn, DTHolders
  <2>2. CASE DTHolders(c) = {}
    <3>1. Cardinality(DTHolders(c)) = 0
      BY <2>2, FS_EmptySet
    <3> QED BY <2>1, <3>1
  <2>3. CASE DTHolders(c) # {}
    <3>1. PICK i : i \in DTHolders(c)
      BY <2>3
    <3>2. DTHolders(c) = {i}
      BY <3>1 DEF Apart, DTHolders
    <3>3. Cardinality(DTHolders(c)) = 1
      BY <3>2, FS_Singleton
    <3> QED BY <2>1, <3>3
  <2> QED BY <2>2, <2>3
<1> QED
  BY <1>1, ChainIsSound, ApartInv, HoldersLinkedInv, PTL

\* On any file, what an iterator was made from stays as it is: no later call
\* replaces the data block of a sorted data group, adds to its index, adds a
\* group to it or changes the count of its group.
THEOREM SortedGroupsRemain == Spec => SortedGroupsStay
<1> DEFINE Stay == \A i \in DOMAIN chain : chain[i].dt.kind = "disc" =>
        /\ \E j \in DOMAIN chain' : /\ chain'[j].dt = chain[i].dt
                                     /\ chain'[j].cgs = chain[i].cgs
        /\ \A c \in GroupsIn(chain[i]) : cycles'[c] = cycles[c]
<1>1. Shape /\ AsLoaded /\ [Next]_vars => Stay
  <2> SUFFICES ASSUME Shape, AsLoaded, [Next]_vars,
                      NEW i \in DOMAIN chain, chain[i].dt.kind = "disc"
               PROVE  /\ \E j \in DOMAIN chain' : /\ chain'[j].dt = chain[i].dt
                                                   /\ chain'[j].cgs = chain[i].cgs
                      /\ \A c \in GroupsIn(chain[i]) : cycles'[c] = cycles[c]
    OBVIOUS
  <2>1. ~Unsorted
    BY DEF AsLoaded, LoadedAs
  <2>2. ~CountRecords
    BY <2>1 DEF CountRecords, Unsorted, Handled
  <2>3. cycles' = cycles
    BY <2>2, Changes
  <2>4. CASE chain' = chain
    BY <2>3, <2>4
  <2>5. CASE MeasureWalk
    <3>1. SameButBlock(chain')
      BY <2>5, WalkEffect
    <3>2. i # at
      BY <3>1 DEF SameButBlock, IsMultiple
    <3> QED BY <2>3, <3>1, <3>2 DEF SameButBlock
  <2>6. CASE MoveVLSD
    <3>1. PICK v \in file.vlsd, p \in DOMAIN chain[at].cgs :
            /\ IsMultiple(chain[at].dt)
            /\ chain' = chain \/ Unlinked(chain', v, p)
      BY <2>6, MoveEffect
    <3>2. i # at
      BY <3>1 DEF IsMultiple
    <3> QED BY <2>3, <2>4, <3>1, <3>2 DEF Unlinked
  <2>7. CASE SplitGroup
    <3> DEFINE b == chain[at].cgs[1]
    <3>1. at \in DOMAIN chain /\ IsMultiple(chain[at].dt) /\ Divided(chain', b)
      BY <2>7, SplitEffect
    <3>2. i # at
      BY <3>1 DEF IsMultiple
    <3>3. /\ DOMAIN chain' = 1..(Len(chain) + 1)
          /\ \A j \in 1..(Len(chain) + 1) :
                j \notin {at, at + 1} => chain'[j] = chain[IF j < at THEN j ELSE j - 1]
      BY <3>1 DEF Divided
    <3>4. Len(chain) \in Nat /\ DOMAIN chain = 1..Len(chain)
      BY LenProperties DEF Shape
    <3>5. CASE i < at
      <4>1. i \in DOMAIN chain' /\ i \notin {at, at + 1}
        BY <3>1, <3>3, <3>4, <3>5
      <4>2. chain'[i] = chain[i]
        BY <3>3, <3>5, <4>1
      <4> QED BY <2>3, <4>1, <4>2
    <3>6. CASE i > at
      <4>1. /\ i + 1 \in DOMAIN chain' /\ i + 1 \notin {at, at + 1}
            /\ ~(i + 1 < at) /\ (i + 1) - 1 = i
        BY <3>1, <3>3, <3>4, <3>6
      <4>2. chain'[i + 1] = chain[(i + 1) - 1]
        BY <3>3, <4>1
      <4>3. chain'[i + 1] = chain[i]
        BY <4>1, <4>2
      <4> QED BY <2>3, <4>1, <4>3
    <3> QED BY <3>1, <3>2, <3>4, <3>5, <3>6
  <2> QED BY <2>2, <2>4, <2>5, <2>6, <2>7, Changes
<1> QED
  BY <1>1, ChainIsSound, AsLoadedInv, PTL DEF Spec, SortedGroupsStay

-----------------------------------------------------------------------------
(* The first measurement.                                                    *)

\* What a walk that finds something reads is the first record of a group with a
\* time master.
LEMMA WalkFinds ==
    ASSUME Shape, AsLoaded, Unsorted, MeasureWalk,
           NEW m \in measured', m \notin measured
    PROVE  /\ m.framed
           /\ Log(m.src)[m.rec].id \in file.timed
           /\ \A k \in 1..(m.rec - 1) : Log(m.src)[k].id \notin file.timed
<1> DEFINE s == chain[at].src
           hits == {k \in 1..Reach(s) :
                      k <= Len(Log(s)) /\ Log(s)[k].id \in Targets}
           n == IF hits = {} THEN Reach(s) ELSE Min(hits) - 1
           found == {[src |-> s, rec |-> k, framed |-> TRUE] :
                        k \in {j \in hits : j = n + 1}}
<1>1. m \in found
  <2>1. measured' = measured \/ measured' = measured \cup found
    BY DEF MeasureWalk
  <2> HIDE DEF found
  <2> QED BY <2>1
<1>2. PICK k \in hits : k = n + 1 /\ m = [src |-> s, rec |-> k, framed |-> TRUE]
  BY <1>1
<1>3. m.src = s /\ m.rec = k /\ m.framed = TRUE
  BY <1>2
<1>4. /\ at \in DOMAIN chain /\ LoadedAs(file, chain) /\ file \in Files
  BY LenProperties DEF MeasureWalk, AsLoaded, Shape
<1>5. /\ s \in DOMAIN file.dgs /\ GroupsIn(chain[at]) = GroupsIn(file.dgs[s])
  BY <1>4 DEF LoadedAs, GroupsIn
<1>6. Reach(s) \in Nat /\ Len(Log(s)) \in Nat /\ DOMAIN Log(s) = 1..Len(Log(s))
  <2>1. Reach(s) \in Nat
    BY <1>4, <1>5, ReachIs DEF Shape
  <2>2. Log(s) \in Seq(Records) /\ Len(Log(s)) \in Nat
    BY <1>4, <1>5, FileFacts
  <2> QED BY <2>1, <2>2, LenProperties
<1>7. k = Min(hits) /\ \A j \in hits : k <= j
  <2>1. hits \subseteq Nat /\ hits # {}
    BY <1>2, <1>6
  <2> HIDE DEF hits
  <2>2. Min(hits) \in hits /\ \A j \in hits : Min(hits) <= j
    BY <2>1, MinIsLeast
  <2>3. Min(hits) \in Nat
    BY <2>1, <2>2
  <2>4. k = Min(hits)
    BY <1>2, <2>1, <2>3
  <2> QED BY <2>2, <2>4
<1>8. k \in Nat /\ k <= Reach(s) /\ k <= Len(Log(s)) /\ Log(s)[k].id \in Targets
  <2>1. k \in 1..Reach(s) /\ k <= Len(Log(s)) /\ Log(s)[k].id \in Targets
    BY Zenon
  <2> HIDE DEF s, hits, n, found
  <2> QED BY <2>1, <1>6
<1>9. Targets \subseteq file.timed
  BY DEF Targets
<1>10. ASSUME NEW j \in 1..(k - 1) PROVE Log(s)[j].id \notin file.timed
  <2>1. /\ j \in 1..Reach(s) /\ j <= Len(Log(s)) /\ j \in DOMAIN Log(s) /\ j < k
    BY <1>6, <1>8
  <2>2. Log(s)[j].id \notin Targets
    <3>1. j \notin hits
      <4> HIDE DEF hits
      <4>1. j \in Nat
        BY <1>8
      <4> QED BY <1>7, <1>8, <2>1, <4>1
    <3> QED BY <2>1, <3>1
  <2>3. flags # {}
    BY DEF Unsorted
  <2>4. Log(s)[j].id \in GroupsIn(file.dgs[s]) \cup {Unknown}
    BY <1>4, <1>5, <2>1, FileFacts
  <2>5. Unknown \notin file.timed
    BY <1>4, FileFacts
  <2> QED BY <1>5, <2>2, <2>3, <2>4, <2>5 DEF Targets
<1> HIDE DEF s, hits, n, found
<1> QED
  BY <1>3, <1>8, <1>9, <1>10

\* On any file that is still to be finalized, what getFirstMeasurement reads as
\* the first records are the first of a group with a time master in their data
\* block, read from where they start, whatever was called or threw before.
THEOREM FirstMeasurementCorrect == Spec => []MeasuredIsFirst
<1>1. Init => MeasuredIsFirst
  BY DEF Init, MeasuredIsFirst
<1>2. Shape /\ AsLoaded /\ MeasuredIsFirst /\ [Next]_vars => MeasuredIsFirst'
  <2> SUFFICES ASSUME Shape, AsLoaded, MeasuredIsFirst, [Next]_vars
               PROVE  MeasuredIsFirst'
    OBVIOUS
  <2>0. file' = file
    BY Changes
  <2> SUFFICES ASSUME ~Finalized', NEW m \in measured'
               PROVE  /\ m.framed
                      /\ Log(m.src)[m.rec].id \in file.timed
                      /\ \A k \in 1..(m.rec - 1) : Log(m.src)[k].id \notin file.timed
    BY <2>0 DEF MeasuredIsFirst, Log
  <2>1. Unsorted /\ ~Finalized
    BY FlagsGo DEF Finalized, Unsorted
  <2>2. CASE m \in measured
    BY <2>1, <2>2 DEF MeasuredIsFirst
  <2>3. CASE MeasureWalk /\ m \notin measured
    BY <2>1, <2>3, WalkFinds
  <2>4. ~MeasureStart
    BY <2>1 DEF MeasureStart, IsStart, Unsorted
  <2> QED BY <2>2, <2>3, <2>4, Changes
<1> QED
  BY <1>1, <1>2, ChainIsSound, AsLoadedInv, PTL DEF Spec

-----------------------------------------------------------------------------
(* The records of a group and their bytes.                                   *)

\* What holds of nought, and of a number if of the one before it, holds up to n.
LEMMA CountUp ==
    ASSUME NEW n \in Nat, NEW S, 0 \in S,
           \A m \in 1..n : m - 1 \in S => m \in S
    PROVE  \A m \in 0..n : m \in S
<1> DEFINE T == {m \in 0..n : m \notin S}
<1>1. CASE T = {}
  BY <1>1
<1>2. CASE T # {}
  <2>1. PICK m \in T : \A k \in T : m <= k
    <3>1. T \subseteq Nat
      OBVIOUS
    <3> QED BY <1>2, <3>1, LeastNatural
  <2>2. m \in 1..n /\ m - 1 \in 0..n /\ ~(m <= m - 1)
    BY <2>1
  <2>3. m - 1 \in S
    BY <2>1, <2>2
  <2> QED BY <2>1, <2>2, <2>3
<1> QED BY <1>1, <1>2

\* A function that is given by its value at nought and by how each value comes
\* from the one before it exists.
Unfolds(g, n, base, step) ==
    g = [m \in 0..n |-> IF m = 0 THEN base ELSE step[m][g[m - 1]]]

LEMMA Recursion ==
    ASSUME NEW n \in Nat, NEW T, NEW base \in T, NEW step \in [1..n -> [T -> T]]
    PROVE  \E g \in [0..n -> T] : Unfolds(g, n, base, step)
<1> DEFINE S == {k \in 0..n : \E g \in [0..k -> T] : Unfolds(g, k, base, step)}
<1>1. 0 \in S
  <2> DEFINE g == [m \in 0..0 |-> base]
  <2>1. g \in [0..0 -> T]
    OBVIOUS
  <2>2. g = [m \in 0..0 |-> IF m = 0 THEN base ELSE step[m][g[m - 1]]]
    OBVIOUS
  <2>3. Unfolds(g, 0, base, step)
    BY <2>2 DEF Unfolds
  <2> HIDE DEF g
  <2>4. 0 \in 0..n
    OBVIOUS
  <2> QED BY <2>1, <2>3, <2>4
<1>2. ASSUME NEW k \in 1..n, k - 1 \in S PROVE k \in S
  <2>1. PICK g \in [0..(k - 1) -> T] : Unfolds(g, k - 1, base, step)
    BY <1>2
  <2> DEFINE h == [m \in 0..k |-> IF m = k THEN step[k][g[k - 1]] ELSE g[m]]
  <2>2. g[k - 1] \in T /\ step[k] \in [T -> T]
    BY <2>1
  <2>3. h \in [0..k -> T]
    <3>1. step[k][g[k - 1]] \in T
      BY <2>2
    <3> HIDE <2>2
    <3>2. \A m \in 0..k : m # k => g[m] \in T
      BY <2>1
    <3> QED BY <3>1, <3>2
  <2>4. ASSUME NEW m \in 0..k
        PROVE  h[m] = IF m = 0 THEN base ELSE step[m][h[m - 1]]
    <3>1. CASE m = k
      <4>1. k - 1 \in 0..k /\ k - 1 # k /\ k # 0
        OBVIOUS
      <4>2. h[k - 1] = g[k - 1]
        BY <4>1
      <4> QED BY <3>1, <4>1, <4>2
    <3>2. CASE m # k /\ m # 0
      <4>1. m \in 0..(k - 1) /\ m - 1 \in 0..k /\ m - 1 # k
        BY <3>2
      <4>2. g[m] = step[m][g[m - 1]]
        BY <2>1, <3>2, <4>1 DEF Unfolds
      <4>3. h[m - 1] = g[m - 1] /\ h[m] = g[m]
        BY <3>2, <4>1
      <4> QED BY <3>2, <4>2, <4>3
    <3>3. CASE m # k /\ m = 0
      <4>1. 0 \in 0..(k - 1)
        OBVIOUS
      <4>2. g[0] = base
        BY <2>1, <4>1 DEF Unfolds
      <4> QED BY <3>3, <4>2
    <3> QED BY <3>1, <3>2, <3>3
  <2>5. h = [m \in 0..k |-> h[m]]
    OBVIOUS
  <2> HIDE DEF h
  <2>6. h = [m \in 0..k |-> IF m = 0 THEN base ELSE step[m][h[m - 1]]]
    BY <2>4, <2>5, Zenon
  <2>7. Unfolds(h, k, base, step)
    BY <2>6, Zenon DEF Unfolds
  <2>8. k \in 0..n
    OBVIOUS
  <2> QED BY <2>3, <2>7, <2>8
<1> HIDE DEF S
<1>3. \A m \in 0..n : m \in S
  BY <1>1, <1>2, CountUp
<1>4. n \in S
  BY <1>3
<1> QED BY <1>4 DEF S

\* The records of a group up to each record of a log, one more at a time.
Filed(r, log, c, n) ==
    /\ r \in [0..n -> Seq(Nat)] /\ r[0] = <<>>
    /\ \A m \in 1..n :
          r[m] = IF log[m].id = c THEN Append(r[m - 1], m) ELSE r[m - 1]
Summed(b, log, c, n) ==
    /\ b \in [0..n -> Nat] /\ b[0] = 0
    /\ \A m \in 1..n :
          b[m] = b[m - 1] + (IF log[m].id = c THEN log[m].size ELSE 0)

LEMMA RecordsFiled ==
    ASSUME NEW log, NEW c, NEW n \in Nat
    PROVE  \E r : Filed(r, log, c, n) /\ RecordsOf(log, c, n) = r[n]
<1> DEFINE step == [m \in 1..n |-> [s \in Seq(Nat) |->
                       IF log[m].id = c THEN Append(s, m) ELSE s]]
           eq(g) == g = [m \in 0..n |->
                           IF m = 0 THEN <<>>
                           ELSE IF log[m].id = c THEN Append(g[m - 1], m) ELSE g[m - 1]]
           r == CHOOSE g : eq(g)
<1>1. step \in [1..n -> [Seq(Nat) -> Seq(Nat)]]
  OBVIOUS
<1>2. PICK g \in [0..n -> Seq(Nat)] : Unfolds(g, n, <<>>, step)
  <2> HIDE DEF step
  <2>1. <<>> \in Seq(Nat)
    OBVIOUS
  <2> QED BY <1>1, <2>1, Recursion
<1>3. \A m \in 1..n : step[m][g[m - 1]] =
          IF log[m].id = c THEN Append(g[m - 1], m) ELSE g[m - 1]
  BY <1>2
<1>4. eq(g)
  <2>1. g = [m \in 0..n |-> IF m = 0 THEN <<>> ELSE step[m][g[m - 1]]]
    BY <1>2 DEF Unfolds
  <2> HIDE DEF step
  <2>2. ASSUME NEW m \in 0..n
        PROVE  (IF m = 0 THEN <<>> ELSE step[m][g[m - 1]]) =
               (IF m = 0 THEN <<>>
                ELSE IF log[m].id = c THEN Append(g[m - 1], m) ELSE g[m - 1])
    <3>1. m # 0 => m \in 1..n
      OBVIOUS
    <3> QED BY <1>3, <3>1
  <2> QED BY <2>1, <2>2, Zenon
<1> HIDE DEF step
<1>5. eq(r)
  BY <1>4, Zenon
<1>6. RecordsOf(log, c, n) = r[n]
  BY DEF RecordsOf
<1>7. r = [m \in 0..n |-> IF m = 0 THEN <<>>
             ELSE IF log[m].id = c THEN Append(r[m - 1], m) ELSE r[m - 1]]
  BY <1>5
<1> HIDE DEF r
<1>8. r[0] = <<>> /\ \A m \in 1..n :
          r[m] = IF log[m].id = c THEN Append(r[m - 1], m) ELSE r[m - 1]
  <2>1. 0 \in 0..n /\ \A m \in 1..n : m \in 0..n /\ m # 0
    OBVIOUS
  <2> QED BY <1>7, <2>1
<1>9. \A m \in 0..n : m \in {k \in 0..n : r[k] \in Seq(Nat)}
  <2> DEFINE S == {k \in 0..n : r[k] \in Seq(Nat)}
  <2>1. 0 \in S
    <3>1. <<>> \in Seq(Nat) /\ 0 \in 0..n
      OBVIOUS
    <3> QED BY <1>8, <3>1
  <2>2. ASSUME NEW m \in 1..n, m - 1 \in S PROVE m \in S
    <3>1. r[m - 1] \in Seq(Nat) /\ m \in Nat /\ m \in 0..n
      BY <2>2
    <3>2. Append(r[m - 1], m) \in Seq(Nat)
      BY <3>1
    <3> QED BY <1>8, <3>1, <3>2
  <2> HIDE DEF S
  <2>3. \A m \in 0..n : m \in S
    BY <2>1, <2>2, CountUp
  <2> QED BY <2>3 DEF S
<1>10. r \in [0..n -> Seq(Nat)]
  <2>1. r = [m \in 0..n |-> r[m]]
    BY <1>7, Zenon
  <2> QED BY <1>9, <2>1
<1> QED BY <1>6, <1>8, <1>10 DEF Filed

LEMMA BytesSummed ==
    ASSUME NEW log, NEW c, NEW n \in Nat,
           \A m \in 1..n : log[m].id = c => log[m].size \in Nat
    PROVE  \E b : Summed(b, log, c, n) /\ BytesOf(log, c, n) = b[n]
<1> DEFINE step == [m \in 1..n |-> [s \in Nat |->
                       s + (IF log[m].id = c THEN log[m].size ELSE 0)]]
           eq(g) == g = [m \in 0..n |->
                           IF m = 0 THEN 0
                           ELSE g[m - 1] + (IF log[m].id = c THEN log[m].size ELSE 0)]
           b == CHOOSE g : eq(g)
<1>1. step \in [1..n -> [Nat -> Nat]]
  OBVIOUS
<1>2. PICK g \in [0..n -> Nat] : Unfolds(g, n, 0, step)
  <2> HIDE DEF step
  <2> QED BY <1>1, Recursion
<1>3. \A m \in 1..n : step[m][g[m - 1]] =
          g[m - 1] + (IF log[m].id = c THEN log[m].size ELSE 0)
  BY <1>2
<1>4. eq(g)
  <2>1. g = [m \in 0..n |-> IF m = 0 THEN 0 ELSE step[m][g[m - 1]]]
    BY <1>2 DEF Unfolds
  <2> HIDE DEF step
  <2>2. ASSUME NEW m \in 0..n
        PROVE  (IF m = 0 THEN 0 ELSE step[m][g[m - 1]]) =
               (IF m = 0 THEN 0
                ELSE g[m - 1] + (IF log[m].id = c THEN log[m].size ELSE 0))
    <3>1. m # 0 => m \in 1..n
      OBVIOUS
    <3> QED BY <1>3, <3>1
  <2> QED BY <2>1, <2>2, Zenon
<1> HIDE DEF step
<1>5. eq(b)
  BY <1>4, Zenon
<1>6. BytesOf(log, c, n) = b[n]
  BY DEF BytesOf
<1>7. b = [m \in 0..n |-> IF m = 0 THEN 0
             ELSE b[m - 1] + (IF log[m].id = c THEN log[m].size ELSE 0)]
  BY <1>5
<1> HIDE DEF b
<1>8. b[0] = 0 /\ \A m \in 1..n :
          b[m] = b[m - 1] + (IF log[m].id = c THEN log[m].size ELSE 0)
  <2>1. 0 \in 0..n /\ \A m \in 1..n : m \in 0..n /\ m # 0
    OBVIOUS
  <2> QED BY <1>7, <2>1
<1>9. \A m \in 0..n : m \in {k \in 0..n : b[k] \in Nat}
  <2> DEFINE S == {k \in 0..n : b[k] \in Nat}
  <2>1. 0 \in S
    <3>1. 0 \in 0..n
      OBVIOUS
    <3> QED BY <1>8, <3>1
  <2>2. ASSUME NEW m \in 1..n, m - 1 \in S PROVE m \in S
    <3>1. b[m - 1] \in Nat /\ m \in Nat /\ m \in 0..n
      BY <2>2
    <3> DEFINE x == IF log[m].id = c THEN log[m].size ELSE 0
    <3>2. x \in Nat
      OBVIOUS
    <3>3. b[m] = b[m - 1] + x
      BY <1>8
    <3> HIDE DEF x
    <3> QED BY <3>1, <3>2, <3>3
  <2> HIDE DEF S
  <2>3. \A m \in 0..n : m \in S
    BY <2>1, <2>2, CountUp
  <2> QED BY <2>3 DEF S
<1>10. b \in [0..n -> Nat]
  <2>1. b = [m \in 0..n |-> b[m]]
    BY <1>7, Zenon
  <2> QED BY <1>9, <2>1
<1> QED BY <1>6, <1>8, <1>10 DEF Summed

\* Records of one size have a multiple of their number in bytes.
LEMMA BytesAreEven ==
    ASSUME NEW log, NEW c, NEW n \in Nat, NEW w \in Nat,
           \A m \in 1..n : log[m].id = c => log[m].size = w
    PROVE  /\ Len(RecordsOf(log, c, n)) \in Nat
           /\ BytesOf(log, c, n) = w * Len(RecordsOf(log, c, n))
<1>1. PICK r : Filed(r, log, c, n) /\ RecordsOf(log, c, n) = r[n]
  BY RecordsFiled
<1>2. PICK b : Summed(b, log, c, n) /\ BytesOf(log, c, n) = b[n]
  BY BytesSummed
<1> DEFINE S == {m \in 0..n : b[m] = w * Len(r[m])}
<1>3. \A m \in 0..n : r[m] \in Seq(Nat) /\ Len(r[m]) \in Nat
  BY <1>1 DEF Filed
<1>4. 0 \in S
  <2>1. Len(<<>>) = 0 /\ 0 \in 0..n /\ w * 0 = 0
    OBVIOUS
  <2> QED BY <1>1, <1>2, <2>1 DEF Filed, Summed
<1>5. ASSUME NEW m \in 1..n, m - 1 \in S PROVE m \in S
  <2>1. b[m - 1] = w * Len(r[m - 1]) /\ m - 1 \in 0..n /\ m \in 0..n
    BY <1>5
  <2>2. r[m - 1] \in Seq(Nat) /\ Len(r[m - 1]) \in Nat
    BY <1>3, <2>1
  <2>3. CASE log[m].id = c
    <3>1. r[m] = Append(r[m - 1], m) /\ b[m] = b[m - 1] + w
      BY <1>1, <1>2, <2>3 DEF Filed, Summed
    <3>2. Len(r[m]) = Len(r[m - 1]) + 1
      BY <2>2, <3>1
    <3> DEFINE k == Len(r[m - 1])
    <3>3. w * (k + 1) = w * k + w
      <4> HIDE DEF k
      <4>1. k \in Nat
        BY <2>2 DEF k
      <4> QED BY <4>1
    <3> QED BY <2>1, <3>1, <3>2, <3>3
  <2>4. CASE log[m].id # c
    <3>1. r[m] = r[m - 1] /\ b[m] = b[m - 1] + 0 /\ b[m - 1] \in Nat
      BY <1>1, <1>2, <2>1, <2>4 DEF Filed, Summed
    <3>2. b[m] = b[m - 1]
      BY <3>1
    <3>3. b[m] = w * Len(r[m])
      BY <2>1, <3>1, <3>2, Zenon
    <3> QED BY <2>1, <3>3
  <2> QED BY <2>3, <2>4
<1> HIDE DEF S
<1>6. \A m \in 0..n : m \in S
  BY <1>4, <1>5, CountUp
<1>7. n \in 0..n
  OBVIOUS
<1>8. b[n] = w * Len(r[n])
  BY <1>6, <1>7 DEF S
<1> QED BY <1>1, <1>2, <1>3, <1>7, <1>8

\* A group without a record has no bytes; one with a record is not without.
LEMMA NoneOrSome ==
    ASSUME NEW log, NEW c, NEW n \in Nat
    PROVE  /\ (\A m \in 1..n : log[m].id # c) => BytesOf(log, c, n) = 0
           /\ Len(RecordsOf(log, c, n)) = 0 => \A m \in 1..n : log[m].id # c
<1>1. ASSUME \A m \in 1..n : log[m].id # c PROVE BytesOf(log, c, n) = 0
  <2>1. PICK b : Summed(b, log, c, n) /\ BytesOf(log, c, n) = b[n]
    BY <1>1, BytesSummed
  <2> DEFINE S == {m \in 0..n : b[m] = 0}
  <2>2. 0 \in S
    <3>1. 0 \in 0..n
      OBVIOUS
    <3> QED BY <2>1, <3>1 DEF Summed
  <2>3. ASSUME NEW m \in 1..n, m - 1 \in S PROVE m \in S
    <3>1. b[m - 1] = 0 /\ m \in 0..n
      BY <2>3
    <3> DEFINE x == IF log[m].id = c THEN log[m].size ELSE 0
    <3>2. x = 0
      BY <1>1
    <3>3. b[m] = b[m - 1] + x
      BY <2>1 DEF Summed
    <3> HIDE DEF x
    <3>4. b[m] = 0
      BY <3>1, <3>2, <3>3
    <3> QED BY <3>1, <3>4
  <2> HIDE DEF S
  <2>4. \A m \in 0..n : m \in S
    BY <2>2, <2>3, CountUp
  <2>5. n \in S
    BY <2>4
  <2> QED BY <2>1, <2>5 DEF S
<1>2. ASSUME NEW k \in 1..n, log[k].id = c PROVE Len(RecordsOf(log, c, n)) # 0
  <2>1. PICK r : Filed(r, log, c, n) /\ RecordsOf(log, c, n) = r[n]
    BY RecordsFiled
  <2> DEFINE S == {m \in 0..n : k <= m => Len(r[m]) > 0}
  <2>2. \A m \in 0..n : r[m] \in Seq(Nat) /\ Len(r[m]) \in Nat
    BY <2>1 DEF Filed
  <2>3. 0 \in S
    OBVIOUS
  <2>4. ASSUME NEW m \in 1..n, m - 1 \in S PROVE m \in S
    <3>1. /\ m \in 0..n /\ m - 1 \in 0..n
          /\ k <= m - 1 => Len(r[m - 1]) > 0
      BY <2>4
    <3>2. r[m - 1] \in Seq(Nat) /\ Len(r[m - 1]) \in Nat
      BY <2>2, <3>1
    <3>3. CASE log[m].id = c
      <4>1. r[m] = Append(r[m - 1], m)
        BY <2>1, <3>3 DEF Filed
      <4>2. Len(r[m]) = Len(r[m - 1]) + 1
        BY <3>2, <4>1
      <4> QED BY <3>1, <3>2, <4>2
    <3>4. CASE log[m].id # c
      <4>1. r[m] = r[m - 1]
        BY <2>1, <3>4 DEF Filed
      <4>2. k # m
        BY <1>2, <3>4
      <4>3. k <= m => k <= m - 1
        BY <4>2
      <4> QED BY <3>1, <4>1, <4>3
    <3> QED BY <3>3, <3>4
  <2> HIDE DEF S
  <2>5. \A m \in 0..n : m \in S
    BY <2>3, <2>4, CountUp
  <2>6. n \in S /\ k <= n
    BY <2>5
  <2>7. Len(r[n]) > 0
    BY <2>6 DEF S
  <2> QED BY <2>1, <2>2, <2>7
<1> QED BY <1>1, <1>2

\* A number that goes into two goes into their sum, and leaves nothing.
LEMMA EvenSum ==
    ASSUME NEW N \in Nat, NEW p \in Nat, NEW q \in Nat
    PROVE  p * N + q * N = (p + q) * N /\ p + q \in Nat
OBVIOUS

LEMMA EvenRest ==
    ASSUME NEW N \in Nat \ {0}, NEW q \in Nat
    PROVE  (q * N) % N = 0
<1> DEFINE x == q * N
           d == x \div N
           m == x % N
<1>1. x = N * d + m /\ m \in 0..(N - 1) /\ d \in Int
  OBVIOUS
<1>2. N * (q - d) = m
  <2>1. q * N = N * d + m /\ d \in Int /\ m \in Int
    BY <1>1
  <2> HIDE DEF d, m
  <2>2. N * (q - d) = q * N - N * d
    BY <2>1
  <2>3. q * N \in Int /\ N * d \in Int
    BY <2>1
  <2> QED BY <2>1, <2>2, <2>3
<1> HIDE DEF d, m, x
<1>3. ~(q - d >= 1)
  <2> SUFFICES ASSUME q - d >= 1 PROVE FALSE
    OBVIOUS
  <2>1. N * (q - d) >= N
    BY <1>1
  <2> QED BY <1>1, <1>2, <2>1
<1>4. ~(q - d <= -1)
  <2> SUFFICES ASSUME q - d <= -1 PROVE FALSE
    OBVIOUS
  <2>1. N * (q - d) <= -N
    BY <1>1
  <2> QED BY <1>1, <1>2, <2>1
<1>5. q - d = 0
  BY <1>1, <1>3, <1>4
<1>6. m = 0
  BY <1>2, <1>5
<1> QED BY <1>6 DEF m, x

-----------------------------------------------------------------------------
(* Sorting a file whose groups all have a time master.                       *)

\* Each variable-length group stands right behind the group it belongs to, as
\* the list that the first half of sort() walks takes for granted.
Paired ==
    \A f \in Files : \A s \in DOMAIN f.dgs : \A k \in DOMAIN f.dgs[s].cgs :
        f.dgs[s].cgs[k] \in f.vlsd =>
            k > 1 /\ f.refers[f.dgs[s].cgs[k]] = f.dgs[s].cgs[k - 1]

\* A counter that finalize() does not make is right on disk.
CountsOnDisk ==
    \A f \in Files : \A s \in DOMAIN f.dgs :
        Len(f.dgs[s].cgs) = 1 \/ "cycles" \notin f.flags =>
            \A c \in GroupsIn(f.dgs[s]) :
                f.cycles[c] = Len(RecordsOf(f.dgs[s].log, c, Len(f.dgs[s].log)))

\* How far a walk over the whole of a log gets: to the first unknown ID.
GetsTo(log, n) ==
    /\ n \in 0..Len(log)
    /\ \A k \in 1..n : log[k].id # Unknown
    /\ n = Len(log) \/ log[n + 1].id = Unknown
Far(log) == CHOOSE n : GetsTo(log, n)

LEMMA GetsToOne ==
    ASSUME NEW log, Len(log) \in Nat, NEW m, NEW n, GetsTo(log, m), GetsTo(log, n)
    PROVE  m = n
<1>1. m \in Nat /\ n \in Nat /\ m <= Len(log) /\ n <= Len(log)
  BY DEF GetsTo
<1>2. CASE m < n
  <2>1. m + 1 \in 1..n /\ m # Len(log)
    BY <1>1, <1>2
  <2> QED BY <2>1 DEF GetsTo
<1>3. CASE n < m
  <2>1. n + 1 \in 1..m /\ n # Len(log)
    BY <1>1, <1>3
  <2> QED BY <2>1 DEF GetsTo
<1> QED BY <1>1, <1>2, <1>3

LEMMA FarFacts ==
    ASSUME file \in Files, NEW s \in DOMAIN file.dgs
    PROVE  /\ Len(Log(s)) \in Nat /\ Far(Log(s)) \in 0..Len(Log(s))
           /\ Passable(s, Len(Log(s))) = Far(Log(s))
           /\ (\A k \in 1..Len(Log(s)) : Log(s)[k].id # Unknown) =>
                Far(Log(s)) = Len(Log(s))
<1>1. Len(Log(s)) \in Nat
  BY FileFacts
<1> DEFINE L == Len(Log(s))
<1>2. /\ Passable(s, L) \in 0..L
      /\ \A k \in 1..Passable(s, L) : Log(s)[k].id # Unknown
      /\ Passable(s, L) < L =>
           \/ Passable(s, L) = L
           \/ Log(s)[Passable(s, L) + 1].id = Unknown
  BY <1>1, PassableIs
<1>3. Passable(s, L) = L \/ Log(s)[Passable(s, L) + 1].id = Unknown
  <2> DEFINE P == Passable(s, L)
  <2> HIDE DEF P, L
  <2>1. L \in Nat
    BY <1>1 DEF L
  <2>2. P = L \/ P < L
    BY <1>2, <2>1 DEF P
  <2> QED BY <1>2, <2>2 DEF P
<1>4. GetsTo(Log(s), Passable(s, L))
  BY <1>2, <1>3 DEF GetsTo
<1>5. GetsTo(Log(s), Far(Log(s)))
  BY <1>4 DEF Far
<1>6. Passable(s, L) = Far(Log(s))
  BY <1>1, <1>4, <1>5, GetsToOne
<1>7. ASSUME \A k \in 1..L : Log(s)[k].id # Unknown PROVE Far(Log(s)) = L
  <2>1. L \in 0..L
    BY <1>1
  <2>2. GetsTo(Log(s), L)
    BY <1>7, <2>1 DEF GetsTo
  <2> QED BY <1>1, <1>5, <2>2, GetsToOne
<1> QED BY <1>1, <1>2, <1>6, <1>7

\* The log of a data block that is read to its end has no unknown ID.
LEMMA NoUnknown ==
    ASSUME Init, NEW s \in DOMAIN file.dgs
    PROVE  Reach(s) = 0 \/ Reach(s) = Far(Log(s))
<1>1. file \in Files /\ FileOK(file)
  BY MdfFileAssumption DEF Init
<1>2. Log(s) \in Seq(Records) /\ Len(Log(s)) \in Nat /\ DOMAIN Log(s) = 1..Len(Log(s))
  BY <1>1, FileFacts, LenProperties
<1>3. CASE s = Len(file.dgs) /\ "length" \in file.flags
  BY <1>3 DEF Init, Reach
<1>4. CASE ~(s = Len(file.dgs) /\ "length" \in file.flags)
  <2>1. Reach(s) = Len(Log(s))
    BY <1>4 DEF Init, Reach
  <2>2. \A k \in DOMAIN Log(s) : Log(s)[k].id # Unknown
    BY <1>1, <1>4 DEF FileOK, Log
  <2> QED BY <1>1, <1>2, <2>1, <2>2, FarFacts
<1> QED BY <1>3, <1>4

LEMMA BytesMultiple ==
    ASSUME file \in Files, NEW s \in DOMAIN file.dgs, NEW c, c \notin file.vlsd,
           NEW n \in 0..Len(Log(s))
    PROVE  /\ Len(RecordsOf(Log(s), c, n)) \in Nat
           /\ \E w \in Nat : BytesOf(Log(s), c, n) = w * Len(RecordsOf(Log(s), c, n))
<1>1. /\ FileOK(file) /\ Log(s) \in Seq(Records) /\ Len(Log(s)) \in Nat
      /\ DOMAIN Log(s) = 1..Len(Log(s))
  BY MdfFileAssumption, FileFacts, LenProperties
<1>2. \A k \in DOMAIN Log(s) : Log(s)[k].size \in Nat
  <2>1. \A k \in 1..Len(Log(s)) : Log(s)[k] \in Records
    BY <1>1, ElementOfSeq
  <2> QED BY <1>1, <2>1 DEF Records
<1>3. \A j, k \in DOMAIN Log(s) :
        Log(s)[j].id = Log(s)[k].id /\ Log(s)[j].id \notin file.vlsd
        => Log(s)[j].size = Log(s)[k].size
  BY <1>1 DEF FileOK, Log
<1>4. \E w \in Nat : \A k \in 1..n : Log(s)[k].id = c => Log(s)[k].size = w
  <2>1. CASE \E k \in 1..n : Log(s)[k].id = c
    <3>1. PICK k \in 1..n : Log(s)[k].id = c
      BY <2>1
    <3>2. k \in DOMAIN Log(s) /\ \A j \in 1..n : j \in DOMAIN Log(s)
      BY <1>1
    <3> DEFINE w == Log(s)[k].size
    <3>3. w \in Nat
      BY <1>2, <3>2
    <3>4. ASSUME NEW j \in 1..n, Log(s)[j].id = c PROVE Log(s)[j].size = w
      BY <1>3, <3>1, <3>2, <3>4
    <3> HIDE DEF w
    <3> QED BY <3>3, <3>4
  <2>2. CASE ~\E k \in 1..n : Log(s)[k].id = c
    BY <2>2
  <2> QED BY <2>1, <2>2
<1>5. PICK w \in Nat : \A k \in 1..n : Log(s)[k].id = c => Log(s)[k].size = w
  BY <1>4
<1>6. n \in Nat
  BY <1>1
<1> QED BY <1>5, <1>6, BytesAreEven

\* The byte total of an indexed group of fixed size is a multiple of the number
\* of its records, however often they were counted.
EvenIn(dt, log, c) ==
    /\ dt.indices[c] \in {<<>>, RecordsOf(log, c, Far(log))}
    /\ \E q \in Nat : dt.sizes[c] = q * Len(RecordsOf(log, c, Far(log)))

LEMMA EvenNeverThrows ==
    ASSUME file \in Files, NEW s \in DOMAIN file.dgs, NEW c, NEW dt,
           EvenIn(dt, Log(s), c), dt.indices[c] # <<>>
    PROVE  dt.sizes[c] % Len(dt.indices[c]) = 0
<1> DEFINE R == RecordsOf(Log(s), c, Far(Log(s)))
<1>1. R \in Seq(Nat)
  <2>1. Far(Log(s)) \in Nat
    BY FarFacts
  <2> HIDE DEF R
  <2>2. PICK r : Filed(r, Log(s), c, Far(Log(s))) /\ R = r[Far(Log(s))]
    BY <2>1, RecordsFiled DEF R
  <2>3. Far(Log(s)) \in 0..Far(Log(s))
    BY <2>1
  <2> QED BY <2>2, <2>3 DEF Filed
<1>2. dt.indices[c] = R /\ \E q \in Nat : dt.sizes[c] = q * Len(R)
  BY DEF EvenIn
<1> HIDE DEF R
<1>3. Len(R) \in Nat \ {0}
  BY <1>1, <1>2, EmptySeq, LenProperties
<1>4. PICK q \in Nat : dt.sizes[c] = q * Len(R)
  BY <1>2
<1>5. (q * Len(R)) % Len(R) = 0
  BY <1>3, EvenRest
<1> QED BY <1>2, <1>4, <1>5

\* What adding to the totals, indexing and dividing do to the totals.
LEMMA AddedSizes ==
    ASSUME NEW dt, DataBlockOK(dt), NEW s, NEW n, NEW c \in DOMAIN dt.indices
    PROVE  AddBytes(dt, s, n).sizes[c] = dt.sizes[c] + BytesOf(Log(s), c, n)
<1> DEFINE z == [d \in DOMAIN dt.sizes |-> dt.sizes[d] + BytesOf(Log(s), d, n)]
<1>1. z[c] = dt.sizes[c] + BytesOf(Log(s), c, n)
  BY DEF DataBlockOK
<1>2. AddBytes(dt, s, n) = [dt EXCEPT !.sizes = z]
  BY DEF AddBytes
<1> HIDE DEF z
<1>3. AddBytes(dt, s, n) = [kind |-> dt.kind, indices |-> dt.indices, sizes |-> z]
  BY <1>2 DEF DataBlockOK
<1> QED BY <1>1, <1>3

LEMMA IndexedSizes ==
    ASSUME NEW dt, DataBlockOK(dt), NEW s, NEW n, NEW c \in DOMAIN dt.indices
    PROVE  Indexed(dt, s, n).sizes[c]
             = dt.sizes[c] + BytesOf(Log(s), c, Passable(s, n))
<1> DEFINE b == AddBytes(dt, s, Passable(s, n))
           x == [d \in DOMAIN b.indices |-> RecordsOf(Log(s), d, Passable(s, n))]
<1>1. DataBlockOK(b) /\ b.sizes[c] = dt.sizes[c] + BytesOf(Log(s), c, Passable(s, n))
  BY BytesAdded, AddedSizes
<1>2. Indexed(dt, s, n) = [b EXCEPT !.indices = x]
  BY DEF Indexed
<1> HIDE DEF b, x
<1>3. Indexed(dt, s, n) = [kind |-> b.kind, indices |-> x, sizes |-> b.sizes]
  BY <1>1, <1>2 DEF DataBlockOK
<1> QED BY <1>1, <1>3

LEMMA DerivedSizes ==
    ASSUME NEW dt, DataBlockOK(dt), NEW ids, ids \subseteq DOMAIN dt.indices, ids # {}
    PROVE  /\ Derived(dt, ids).kind = IF Cardinality(ids) > 1 THEN "subset" ELSE "disc"
           /\ \A c \in ids : /\ Derived(dt, ids).sizes[c] = dt.sizes[c]
                             /\ Derived(dt, ids).indices[c] = dt.indices[c]
<1> DEFINE ix == [c \in ids |-> dt.indices[c]]
           sz == [c \in ids |-> dt.sizes[c]]
           kd == IF Cardinality(ids) > 1 THEN "subset" ELSE "disc"
<1>1. Derived(dt, ids) = [kind |-> kd, indices |-> ix, sizes |-> sz]
  BY DEF Derived, Restrict
<1>2. \A c \in ids : ix[c] = dt.indices[c] /\ sz[c] = dt.sizes[c]
  OBVIOUS
<1> HIDE DEF ix, sz, kd
<1>3. /\ Derived(dt, ids).kind = kd /\ Derived(dt, ids).indices = ix
      /\ Derived(dt, ids).sizes = sz
  BY <1>1
<1> QED BY <1>2, <1>3 DEF kd

LEMMA LoadedSizes ==
    ASSUME file \in Files, NEW s \in DOMAIN file.dgs, NEW n, HasIDs(s),
           NEW c \in GroupsIn(file.dgs[s])
    PROVE  LoadedDT(s, n).sizes[c] = BytesOf(Log(s), c, n)
<1> DEFINE ids == GroupsIn(file.dgs[s])
           ix == [d \in ids |-> RecordsOf(Log(s), d, n)]
           sz == [d \in ids |-> BytesOf(Log(s), d, n)]
<1>1. LoadedDT(s, n) = [kind |-> "multi", indices |-> ix, sizes |-> sz]
  BY DEF LoadedDT
<1>2. sz[c] = BytesOf(Log(s), c, n)
  OBVIOUS
<1> HIDE DEF ix, sz, ids
<1>3. LoadedDT(s, n).sizes = sz
  BY <1>1
<1> QED BY <1>2, <1>3

\* A data block is for several groups exactly if the data group has several.
LEMMA SeveralGroups ==
    ASSUME NEW gs \in Seq(Groups), gs # <<>>,
           \A i, j \in DOMAIN gs : gs[i] = gs[j] => i = j
    PROVE  Cardinality(Range(gs)) > 1 <=> Len(gs) > 1
<1>1. /\ Len(gs) \in Nat \ {0} /\ DOMAIN gs = 1..Len(gs) /\ 1 \in DOMAIN gs
  BY EmptySeq, LenProperties
<1>2. /\ IsFiniteSet(Range(gs)) /\ Cardinality(Range(gs)) \in Nat
  <2>1. Range(gs) \subseteq Groups
    BY <1>1, ElementOfSeq DEF Range
  <2>2. IsFiniteSet(Groups)
    BY MdfFileAssumption
  <2> QED BY <2>1, <2>2, FS_Subset, FS_CardinalityType
<1>3. CASE Len(gs) = 1
  <2>1. Range(gs) = {gs[1]}
    BY <1>1, <1>3 DEF Range
  <2>2. Cardinality(Range(gs)) = 1
    BY <2>1, FS_Singleton
  <2> QED BY <1>3, <2>2
<1>4. CASE Len(gs) > 1
  <2>1. 2 \in DOMAIN gs /\ gs[1] # gs[2] /\ gs[1] \in Range(gs) /\ gs[2] \in Range(gs)
    BY <1>1, <1>4 DEF Range
  <2>2. Cardinality(Range(gs)) # 0
    BY <1>2, <2>1, FS_EmptySet
  <2>3. Cardinality(Range(gs)) # 1
    BY <1>2, <2>1, FS_Singleton
  <2> QED BY <1>2, <1>4, <2>2, <2>3
<1> QED BY <1>1, <1>3, <1>4

\* A data group that sorting can work on: a variable-length group stands right
\* behind its own, and the data block is the one for its channel groups.
Fits(f, dg) ==
    /\ GroupsIn(dg) \subseteq GroupsIn(f.dgs[dg.src])
    /\ \A k \in DOMAIN dg.cgs : dg.cgs[k] \in f.vlsd =>
          k > 1 /\ f.refers[dg.cgs[k]] = dg.cgs[k - 1]
    /\ (IsMultiple(dg.dt) <=> Len(dg.cgs) > 1)
    /\ IF Len(f.dgs[dg.src].cgs) > 1
       THEN /\ dg.dt.kind \in {"multi", "subset", "disc"}
            /\ DOMAIN dg.dt.indices = GroupsIn(dg)
       ELSE dg.dt = Cont

EvenGroup(f, dg) ==
    IsMultiple(dg.dt) =>
        \A c \in DOMAIN dg.dt.indices \ f.vlsd :
            EvenIn(dg.dt, f.dgs[dg.src].log, c)

Regular == \A i \in DOMAIN chain : Fits(file, chain[i]) /\ EvenGroup(file, chain[i])

LEMMA ContIsOne == ~IsMultiple(Cont) /\ Cont # NoDT /\ DOMAIN Cont.indices = {}
BY DEF Cont, NoDT, IsMultiple

\* A variable-length group is in the data block of several.
LEMMA VLSDInSeveral ==
    ASSUME file \in Files, NEW dg, DataGroupOK(file, dg), Fits(file, dg),
           NEW v \in GroupsIn(dg), v \in file.vlsd
    PROVE  IsMultiple(dg.dt)
<1>1. dg.cgs \in Seq(Groups)
  BY DEF DataGroupOK
<1>2. PICK k \in DOMAIN dg.cgs : dg.cgs[k] = v
  BY DEF GroupsIn
<1>3. k > 1
  BY <1>2 DEF Fits
<1>4. Len(dg.cgs) \in Nat /\ DOMAIN dg.cgs = 1..Len(dg.cgs)
  BY <1>1, LenProperties
<1>5. Len(dg.cgs) > 1
  BY <1>2, <1>3, <1>4
<1> QED BY <1>5 DEF Fits

LEMMA SeveralFit ==
    ASSUME file \in Files, NEW dg, DataGroupOK(file, dg), Fits(file, dg),
           IsMultiple(dg.dt)
    PROVE  /\ DOMAIN dg.dt.indices = GroupsIn(dg)
           /\ Len(file.dgs[dg.src].cgs) > 1
<1>1. dg.dt # Cont
  BY ContIsOne
<1> QED BY <1>1 DEF Fits

LEMMA NoThrow ==
    ASSUME file \in Files, NEW dg, DataGroupOK(file, dg), Fits(file, dg),
           EvenGroup(file, dg), IsMultiple(dg.dt), NEW ids,
           ids \subseteq GroupsIn(dg), \A c : ids = {c} => c \notin file.vlsd
    PROVE  ~Throws(dg.dt, ids)
<1> SUFFICES ASSUME NEW c \in ids, ids = {c}, dg.dt.indices[c] # <<>>
             PROVE  dg.dt.sizes[c] % Len(dg.dt.indices[c]) = 0
  BY DEF Throws
<1>1. c \in DOMAIN dg.dt.indices \ file.vlsd
  BY SeveralFit
<1>2. EvenIn(dg.dt, file.dgs[dg.src].log, c)
  BY <1>1 DEF EvenGroup
<1>3. EvenIn(dg.dt, Log(dg.src), c)
  BY <1>2 DEF Log
<1>4. dg.src \in DOMAIN file.dgs
  BY DEF DataGroupOK
<1> QED BY <1>3, <1>4, EvenNeverThrows

\* A data group whose block was made for its groups from one that fits, fits.
LEMMA DerivedFits ==
    ASSUME file \in Files, NEW dg, DataGroupOK(file, dg), Fits(file, dg),
           EvenGroup(file, dg), IsMultiple(dg.dt),
           NEW new, DataGroupOK(file, new), new.src = dg.src,
           GroupsIn(new) \subseteq GroupsIn(dg),
           new.dt = Derived(dg.dt, GroupsIn(new)),
           \A k \in DOMAIN new.cgs : new.cgs[k] \in file.vlsd =>
              k > 1 /\ file.refers[new.cgs[k]] = new.cgs[k - 1]
    PROVE  Fits(file, new) /\ EvenGroup(file, new)
<1> DEFINE ids == GroupsIn(new)
<1>1. /\ DOMAIN dg.dt.indices = GroupsIn(dg) /\ Len(file.dgs[dg.src].cgs) > 1
  BY SeveralFit
<1>2. /\ ids = Range(new.cgs) /\ new.cgs \in Seq(Groups) /\ new.cgs # <<>>
      /\ \A i, j \in DOMAIN new.cgs : new.cgs[i] = new.cgs[j] => i = j
      /\ DataBlockOK(dg.dt)
  BY GroupsAreRange DEF DataGroupOK
<1>3. ids # {}
  <2>1. 1 \in DOMAIN new.cgs
    BY <1>2, EmptySeq, LenProperties
  <2> QED BY <2>1 DEF GroupsIn
<1>4. Cardinality(ids) > 1 <=> Len(new.cgs) > 1
  BY <1>2, SeveralGroups
<1>5. /\ new.dt.kind = (IF Cardinality(ids) > 1 THEN "subset" ELSE "disc")
      /\ \A c \in ids : /\ new.dt.sizes[c] = dg.dt.sizes[c]
                        /\ new.dt.indices[c] = dg.dt.indices[c]
  <2>1. ids \subseteq DOMAIN dg.dt.indices
    BY <1>1
  <2> HIDE DEF ids
  <2>2. /\ Derived(dg.dt, ids).kind = (IF Cardinality(ids) > 1 THEN "subset" ELSE "disc")
        /\ \A c \in ids : /\ Derived(dg.dt, ids).sizes[c] = dg.dt.sizes[c]
                          /\ Derived(dg.dt, ids).indices[c] = dg.dt.indices[c]
    BY <1>2, <1>3, <2>1, DerivedSizes
  <2> QED BY <2>2 DEF ids
<1>6. DOMAIN new.dt.indices = ids
  BY <1>1, <1>2, DerivedBlock
<1>7. IsMultiple(new.dt) <=> Len(new.cgs) > 1
  BY <1>4, <1>5 DEF IsMultiple
<1>8. Fits(file, new)
  <2>1. new.dt.kind \in {"multi", "subset", "disc"}
    BY <1>5
  <2>2. GroupsIn(new) \subseteq GroupsIn(file.dgs[new.src])
    BY DEF Fits
  <2> QED BY <1>1, <1>6, <1>7, <2>1, <2>2 DEF Fits
<1>9. ASSUME NEW c \in DOMAIN new.dt.indices \ file.vlsd
      PROVE  EvenIn(new.dt, file.dgs[new.src].log, c)
  <2>1. c \in ids /\ c \in DOMAIN dg.dt.indices \ file.vlsd
    BY <1>1, <1>6
  <2>2. EvenIn(dg.dt, file.dgs[dg.src].log, c)
    BY <2>1 DEF EvenGroup
  <2>3. new.dt.sizes[c] = dg.dt.sizes[c] /\ new.dt.indices[c] = dg.dt.indices[c]
    BY <1>5, <2>1
  <2> QED BY <2>2, <2>3 DEF EvenIn
<1> QED BY <1>8, <1>9 DEF EvenGroup

\* Unlinking a variable-length group.
LEMMA MoveFits ==
    ASSUME Shape, Regular, MoveVLSD
    PROVE  /\ at \in DOMAIN chain
           /\ \E v \in file.vlsd, p \in DOMAIN chain[at].cgs :
                /\ v = todo[2] /\ v \in GroupsIn(chain[at]) /\ chain[at].cgs[p] = v
                /\ Unlinked(chain', v, p)
                /\ GroupsIn(chain'[at]) = GroupsIn(chain[at]) \ {v}
           /\ DOMAIN sd' = DOMAIN sd \cup {todo[2]}
           /\ pc' = "toSD" /\ todo' = Tail(todo) /\ Len(todo) > 1
           /\ Regular'
<1>0. file' = file /\ file \in Files
  BY DEF MoveVLSD, Shape
<1>1. PICK v \in file.vlsd, p \in DOMAIN chain[at].cgs :
             /\ at \in DOMAIN chain /\ IsMultiple(chain[at].dt)
             /\ v = todo[2] /\ v \notin DOMAIN sd /\ chain[at].cgs[p] = v
             /\ v \in DOMAIN chain[at].dt.indices
             /\ todo[1] = file.refers[v] /\ Len(todo) > 1
             /\ DOMAIN sd' = DOMAIN sd \cup {v}
             /\ \/ /\ chain' = chain /\ pc' = "idle" /\ todo' = todo
                   /\ Throws(chain[at].dt, DOMAIN chain[at].dt.indices \ {v})
                \/ Unlinked(chain', v, p) /\ pc' = "toSD" /\ todo' = Tail(todo)
  BY MoveEffect
<1> DEFINE dg == chain[at]
           ids == GroupsIn(dg) \ {v}
<1>2. /\ DataGroupOK(file, dg) /\ Fits(file, dg) /\ EvenGroup(file, dg)
      /\ IsMultiple(dg.dt)
  BY <1>1 DEF Shape, Regular
<1>3. DOMAIN dg.dt.indices = GroupsIn(dg)
  BY <1>0, <1>2, SeveralFit
<1>4. /\ dg.cgs \in Seq(Groups) /\ Len(dg.cgs) \in Nat /\ DOMAIN dg.cgs = 1..Len(dg.cgs)
      /\ \A i, j \in DOMAIN dg.cgs : dg.cgs[i] = dg.cgs[j] => i = j
  BY <1>2, LenProperties DEF DataGroupOK
<1>5. p > 1 /\ file.refers[v] = dg.cgs[p - 1]
  BY <1>1, <1>2 DEF Fits
<1>6. file.refers[v] \notin file.vlsd
  BY <1>0, FileFacts
<1>7. dg.cgs[p - 1] \in ids /\ dg.cgs[p - 1] \notin file.vlsd
  <2>1. p - 1 \in DOMAIN dg.cgs /\ p - 1 # p
    BY <1>4, <1>5
  <2>2. dg.cgs[p - 1] \in GroupsIn(dg)
    BY <2>1 DEF GroupsIn
  <2>3. dg.cgs[p - 1] # v
    BY <1>1, <1>5, <1>6
  <2> QED BY <1>5, <1>6, <2>2, <2>3
<1>8. ~Throws(dg.dt, DOMAIN dg.dt.indices \ {v})
  <2>1. \A c : ids = {c} => c \notin file.vlsd
    BY <1>7
  <2>2. ids \subseteq GroupsIn(dg)
    OBVIOUS
  <2> HIDE DEF ids, dg
  <2>3. ~Throws(dg.dt, ids)
    BY <1>0, <1>2, <2>1, <2>2, NoThrow
  <2> QED BY <1>3, <2>3 DEF ids
<1>9. Unlinked(chain', v, p) /\ pc' = "toSD" /\ todo' = Tail(todo)
  BY <1>1, <1>8
<1>10. /\ chain'[at].src = dg.src
       /\ chain'[at].cgs = RemoveAt(dg.cgs, p)
       /\ DataGroupOK(file, chain'[at])
       /\ GroupsIn(chain'[at]) = ids
  BY <1>1, <1>9, MovedGroups
<1>11. chain'[at].dt = Derived(dg.dt, ids)
  BY <1>3, <1>9 DEF Unlinked
<1> DEFINE new == chain'[at]
<1>12. ASSUME NEW k \in DOMAIN new.cgs, new.cgs[k] \in file.vlsd
       PROVE  k > 1 /\ file.refers[new.cgs[k]] = new.cgs[k - 1]
  <2> DEFINE gs == dg.cgs
  <2>1. new.cgs = [j \in 1..(Len(gs) - 1) |-> IF j < p THEN gs[j] ELSE gs[j + 1]]
    <3>1. gs \in Seq(Groups) /\ p \in DOMAIN gs /\ new.cgs = RemoveAt(gs, p)
      BY <1>4, <1>10
    <3> HIDE DEF gs, dg, new
    <3> QED BY <3>1, RemovedSeq
  <2> HIDE DEF dg, new
  <2>2. k \in 1..(Len(gs) - 1) /\ k \in Nat /\ p \in Nat /\ p <= Len(gs)
    BY <1>4, <1>12, <2>1 DEF dg
  <2>3. \A j \in DOMAIN gs : gs[j] \in file.vlsd =>
              j > 1 /\ file.refers[gs[j]] = gs[j - 1]
    BY <1>2 DEF Fits
  <2>4. CASE k < p
    <3>1. new.cgs[k] = gs[k] /\ k \in DOMAIN gs
      BY <1>4, <2>1, <2>2, <2>4
    <3>2. k > 1 /\ file.refers[gs[k]] = gs[k - 1]
      BY <1>12, <2>3, <3>1
    <3>3. k - 1 \in 1..(Len(gs) - 1) /\ k - 1 < p
      BY <1>4, <2>2, <2>4, <3>2
    <3>4. new.cgs[k - 1] = gs[k - 1]
      BY <2>1, <3>3
    <3> QED BY <3>1, <3>2, <3>4
  <2>5. CASE ~(k < p)
    <3>1. new.cgs[k] = gs[k + 1] /\ k + 1 \in DOMAIN gs
      BY <1>4, <2>1, <2>2, <2>5
    <3>2. file.refers[gs[k + 1]] = gs[(k + 1) - 1]
      BY <1>12, <2>3, <3>1
    <3>3. (k + 1) - 1 = k
      BY <2>2
    <3>4. k # p
      <4> SUFFICES ASSUME k = p PROVE FALSE
        OBVIOUS
      <4>1. file.refers[gs[k + 1]] = v
        BY <1>1, <3>2, <3>3 DEF dg
      <4>2. gs[k + 1] \in file.vlsd
        BY <1>12, <3>1
      <4> QED BY <1>0, <4>1, <4>2, FileFacts
    <3>5. k > 1 /\ k - 1 \in 1..(Len(gs) - 1) /\ ~(k - 1 < p) /\ (k - 1) + 1 = k
      BY <1>4, <1>5, <2>2, <2>5, <3>4
    <3>6. new.cgs[k - 1] = gs[k]
      BY <2>1, <3>5
    <3> QED BY <3>1, <3>2, <3>3, <3>5, <3>6
  <2> QED BY <2>4, <2>5
<1>13. Fits(file, new) /\ EvenGroup(file, new)
  <2>1. ids \subseteq GroupsIn(dg)
    OBVIOUS
  <2> HIDE DEF ids, dg, new
  <2>2. /\ DataGroupOK(file, new) /\ new.src = dg.src /\ GroupsIn(new) = ids
        /\ new.dt = Derived(dg.dt, ids)
    BY <1>10, <1>11 DEF new, dg
  <2> QED BY <1>0, <1>2, <1>12, <2>1, <2>2, DerivedFits
<1>14. Regular'
  <2>1. DOMAIN chain' = DOMAIN chain /\ \A j \in DOMAIN chain : j # at => chain'[j] = chain[j]
    BY <1>9 DEF Unlinked
  <2>2. \A j \in DOMAIN chain' : Fits(file, chain'[j]) /\ EvenGroup(file, chain'[j])
    BY <1>13, <2>1 DEF Regular
  <2> QED BY <1>0, <2>2 DEF Regular
<1>15. v \in GroupsIn(dg)
  BY <1>1 DEF GroupsIn
<1> QED BY <1>1, <1>9, <1>10, <1>14, <1>15

\* Dividing a data group that has no variable-length group left.
LEMMA SplitFits ==
    ASSUME Shape, Regular, SplitGroup, GroupsIn(chain[at]) \cap file.vlsd = {}
    PROVE  /\ at \in DOMAIN chain
           /\ Divided(chain', chain[at].cgs[1])
           /\ chain'[at].cgs = <<chain[at].cgs[1]>>
           /\ GroupsIn(chain'[at]) \subseteq GroupsIn(chain[at])
           /\ GroupsIn(chain'[at + 1]) \subseteq GroupsIn(chain[at])
           /\ pc' = "toDG" /\ at' = at + 1
           /\ Regular'
<1> DEFINE dg == chain[at]
           b == dg.cgs[1]
<1>0. file' = file /\ file \in Files
  BY DEF SplitGroup, Shape
<1>1. /\ at \in DOMAIN chain /\ IsMultiple(dg.dt)
      /\ Len(dg.cgs) > 1
      /\ b \in DOMAIN dg.dt.indices
      /\ Divided(chain', b)
      /\ IF SplitFails(dg.dt, b)
         THEN pc' = "idle" ELSE pc' = "toDG" /\ at' = at + 1
  BY SplitEffect
<1>2. DataGroupOK(file, dg) /\ Fits(file, dg) /\ EvenGroup(file, dg)
  BY <1>1 DEF Shape, Regular
<1>3. DOMAIN dg.dt.indices = GroupsIn(dg)
  BY <1>0, <1>1, <1>2, SeveralFit
<1>4. /\ chain'[at].src = dg.src /\ chain'[at + 1].src = dg.src
      /\ chain'[at].cgs = <<b>> /\ chain'[at + 1].cgs = Tail(dg.cgs)
      /\ DataGroupOK(file, chain'[at]) /\ DataGroupOK(file, chain'[at + 1])
      /\ GroupsIn(chain'[at]) = {b}
      /\ GroupsIn(chain'[at + 1]) = GroupsIn(dg) \ {b}
      /\ b \in GroupsIn(dg)
  <2> HIDE DEF b
  <2> QED BY <1>1, SplitGroups DEF b
<1>5. ~SplitFails(dg.dt, b)
  <2>1. \A ids : ids \subseteq GroupsIn(dg) =>
          \A c : ids = {c} => c \notin file.vlsd
    OBVIOUS
  <2>2. {b} \subseteq GroupsIn(dg) /\ GroupsIn(dg) \ {b} \subseteq GroupsIn(dg)
    BY <1>4
  <2> HIDE DEF b, dg
  <2>3. ~Throws(dg.dt, {b})
    BY <1>0, <1>1, <1>2, <2>1, <2>2, NoThrow
  <2>4. ~Throws(dg.dt, GroupsIn(dg) \ {b})
    BY <1>0, <1>1, <1>2, <2>1, <2>2, NoThrow
  <2> QED BY <1>3, <2>3, <2>4 DEF SplitFails
<1>6. /\ chain'[at].dt = Derived(dg.dt, GroupsIn(chain'[at]))
      /\ chain'[at + 1].dt = Derived(dg.dt, GroupsIn(chain'[at + 1]))
  BY <1>1, <1>3, <1>4, <1>5 DEF Divided
<1>7. GroupsIn(chain'[at]) \cap file.vlsd = {} /\ GroupsIn(chain'[at + 1]) \cap file.vlsd = {}
  BY <1>4
<1>8. ASSUME NEW new, DataGroupOK(file, new), new.src = dg.src,
             GroupsIn(new) \subseteq GroupsIn(dg),
             new.dt = Derived(dg.dt, GroupsIn(new))
      PROVE  Fits(file, new) /\ EvenGroup(file, new)
  <2>1. \A k \in DOMAIN new.cgs : new.cgs[k] \notin file.vlsd
    BY <1>8 DEF GroupsIn
  <2> HIDE DEF b, dg
  <2> QED BY <1>0, <1>1, <1>2, <1>8, <2>1, DerivedFits
<1>9. /\ Fits(file, chain'[at]) /\ EvenGroup(file, chain'[at])
      /\ Fits(file, chain'[at + 1]) /\ EvenGroup(file, chain'[at + 1])
  <2> HIDE DEF b, dg
  <2>1. Fits(file, chain'[at]) /\ EvenGroup(file, chain'[at])
    BY <1>4, <1>6, <1>8
  <2>2. Fits(file, chain'[at + 1]) /\ EvenGroup(file, chain'[at + 1])
    BY <1>4, <1>6, <1>8
  <2> QED BY <2>1, <2>2
<1>10. ASSUME NEW i \in DOMAIN chain' PROVE Fits(file, chain'[i]) /\ EvenGroup(file, chain'[i])
  <2>1. CASE i \in {at, at + 1}
    BY <1>9, <2>1
  <2>2. CASE i \notin {at, at + 1}
    <3>1. PICK k \in DOMAIN chain : chain'[i] = chain[k]
      <4> HIDE DEF b
      <4> QED BY <1>1, <2>2, DividedFrom
    <3> QED BY <3>1 DEF Regular
  <2> QED BY <2>1, <2>2
<1>11. Regular'
  BY <1>0, <1>10 DEF Regular
<1> QED BY <1>1, <1>4, <1>5, <1>11

\* Indexing and measuring leave the groups as they were.
LEMMA SameFits ==
    ASSUME Shape, Regular, NEW ch, SameButBlock(ch)
    PROVE  /\ Fits(file, ch[at])
           /\ ch[at].src = chain[at].src
           /\ \A j \in DOMAIN chain : j # at => ch[j] = chain[j]
           /\ DOMAIN ch = DOMAIN chain
           /\ DataGroupOK(file, chain[at]) /\ Fits(file, chain[at])
           /\ EvenGroup(file, chain[at])
           /\ DOMAIN chain[at].dt.indices = GroupsIn(chain[at])
           /\ Len(file.dgs[chain[at].src].cgs) > 1
<1>1. /\ at \in DOMAIN chain /\ IsMultiple(chain[at].dt)
      /\ DOMAIN ch = DOMAIN chain
      /\ \A j \in DOMAIN chain : j # at => ch[j] = chain[j]
      /\ ch[at].dt.kind = chain[at].dt.kind
      /\ DOMAIN ch[at].dt.indices = DOMAIN chain[at].dt.indices
  BY DEF SameButBlock
<1>2. DataGroupOK(file, chain[at]) /\ Fits(file, chain[at]) /\ EvenGroup(file, chain[at])
  BY <1>1 DEF Shape, Regular
<1>3. /\ DOMAIN chain[at].dt.indices = GroupsIn(chain[at])
      /\ Len(file.dgs[chain[at].src].cgs) > 1
  BY <1>1, <1>2, SeveralFit DEF Shape
<1>4. /\ ch[at].src = chain[at].src /\ ch[at].cgs = chain[at].cgs
      /\ GroupsIn(ch[at]) = GroupsIn(chain[at])
  BY SameGroups
<1>5. Fits(file, ch[at])
  <2>1. IsMultiple(ch[at].dt) <=> IsMultiple(chain[at].dt)
    BY <1>1 DEF IsMultiple
  <2>2. ch[at].dt.kind \in {"multi", "subset", "disc"}
    BY <1>1 DEF IsMultiple
  <2> QED BY <1>1, <1>2, <1>3, <1>4, <2>1, <2>2 DEF Fits
<1> QED BY <1>1, <1>2, <1>3, <1>4, <1>5

LEMMA CountFits ==
    ASSUME Shape, Regular, LengthKnown, CountRecords
    PROVE  Regular'
<1> DEFINE dg == chain[at]
           s == dg.src
           log == Log(s)
<1>0. file' = file /\ file \in Files
  BY DEF CountRecords, Shape
<1>1. SameButBlock(chain')
  BY CountEffect
<1>2. /\ Fits(file, chain'[at]) /\ chain'[at].src = s
      /\ \A j \in DOMAIN chain : j # at => chain'[j] = chain[j]
      /\ DOMAIN chain' = DOMAIN chain
      /\ DataGroupOK(file, dg) /\ EvenGroup(file, dg)
      /\ DOMAIN dg.dt.indices = GroupsIn(dg)
  BY <1>1, SameFits
<1>3. at \in DOMAIN chain /\ IsMultiple(dg.dt)
  BY <1>1 DEF SameButBlock
<1>4. s \in DOMAIN file.dgs /\ DataBlockOK(dg.dt)
  BY <1>2 DEF DataGroupOK
<1>5. Passable(s, Reach(s)) = Far(log)
  <2>1. Reach(s) = Len(log)
    BY DEF CountRecords, LengthKnown, Reach
  <2> QED BY <1>0, <1>4, <2>1, FarFacts
<1>6. chain'[at].dt = Indexed(dg.dt, s, Reach(s))
  <2> DEFINE x == Indexed(dg.dt, s, Reach(s))
  <2>1. chain' = [chain EXCEPT ![at].dt = x]
    BY DEF CountRecords, CurrentDT
  <2>2. DataBlockOK(x) /\ x.kind = dg.dt.kind /\ DOMAIN x.indices = DOMAIN dg.dt.indices
    BY <1>4, CountedBlock
  <2> HIDE DEF x, s
  <2> QED BY <1>3, <2>1, <2>2, BlockReplaced DEF x
<1>7. ASSUME NEW c \in DOMAIN chain'[at].dt.indices \ file.vlsd
      PROVE  EvenIn(chain'[at].dt, log, c)
  <2>1. c \in DOMAIN dg.dt.indices
    BY <1>1, <1>7 DEF SameButBlock
  <2> DEFINE R == RecordsOf(log, c, Far(log))
  <2>2. /\ chain'[at].dt.indices[c] = R
        /\ chain'[at].dt.sizes[c] = dg.dt.sizes[c] + BytesOf(log, c, Far(log))
    <3> HIDE DEF s, R, log
    <3>1. /\ chain'[at].dt.indices[c] = RecordsOf(Log(s), c, Passable(s, Reach(s)))
          /\ chain'[at].dt.sizes[c]
               = dg.dt.sizes[c] + BytesOf(Log(s), c, Passable(s, Reach(s)))
      BY <1>4, <1>6, <2>1, CountedBlock, IndexedSizes
    <3> QED BY <1>5, <3>1 DEF R, log
  <2>3. PICK q \in Nat : dg.dt.sizes[c] = q * Len(R)
    <3>1. EvenIn(dg.dt, log, c)
      BY <1>2, <1>3, <1>7, <2>1 DEF EvenGroup, Log
    <3> QED BY <3>1 DEF EvenIn
  <2>4. Len(R) \in Nat /\ \E w \in Nat : BytesOf(log, c, Far(log)) = w * Len(R)
    <3>1. Far(log) \in 0..Len(log)
      BY <1>0, <1>4, FarFacts
    <3> HIDE DEF s
    <3> QED BY <1>0, <1>4, <1>7, <3>1, BytesMultiple
  <2>5. PICK w \in Nat : BytesOf(log, c, Far(log)) = w * Len(R)
    BY <2>4
  <2>6. q * Len(R) + w * Len(R) = (q + w) * Len(R) /\ q + w \in Nat
    BY <2>4, EvenSum
  <2> HIDE DEF R, log
  <2>7. chain'[at].dt.sizes[c] = (q + w) * Len(R)
    BY <2>2, <2>3, <2>5, <2>6
  <2>8. \E r \in Nat : chain'[at].dt.sizes[c] = r * Len(R)
    BY <2>6, <2>7
  <2> QED BY <2>2, <2>8 DEF EvenIn, R
<1>8. EvenGroup(file, chain'[at])
  BY <1>2, <1>7 DEF EvenGroup, Log
<1>9. \A j \in DOMAIN chain' : Fits(file, chain'[j]) /\ EvenGroup(file, chain'[j])
  BY <1>2, <1>8 DEF Regular
<1> QED BY <1>0, <1>9 DEF Regular

-----------------------------------------------------------------------------
(* The counters of a finalized file.                                         *)

\* finalize() leaves the counters that it does not make.
CountsLeft ==
    \A s \in DOMAIN file.dgs : Len(file.dgs[s].cgs) = 1 \/ "cycles" \notin file.flags =>
        \A c \in GroupsIn(file.dgs[s]) : cycles[c] = file.cycles[c]

LEMMA CountsLeftInv == Spec => []CountsLeft
<1>1. Init => CountsLeft
  BY DEF Init, CountsLeft
<1>2. Shape /\ AsLoaded /\ LengthKnown /\ CountsLeft /\ [Next]_vars => CountsLeft'
  <2> SUFFICES ASSUME Shape, AsLoaded, LengthKnown, CountsLeft, [Next]_vars
               PROVE  CountsLeft'
    OBVIOUS
  <2>0. file' = file /\ file \in Files
    BY Changes DEF Shape
  <2> SUFFICES ASSUME NEW s \in DOMAIN file.dgs,
                      Len(file.dgs[s].cgs) = 1 \/ "cycles" \notin file.flags,
                      NEW c \in GroupsIn(file.dgs[s])
               PROVE  cycles'[c] = file.cycles[c]
    BY <2>0 DEF CountsLeft
  <2>1. CASE cycles' = cycles
    BY <2>1 DEF CountsLeft
  <2>2. CASE CountRecords /\ pc' = "count"
    <3>1. at \in DOMAIN file.dgs /\ \A d \in Groups \ GroupsIn(file.dgs[at]) : cycles'[d] = cycles[d]
      BY <2>2, CountResult
    <3>2. "cycles" \in file.flags /\ Unsorted /\ at \in DOMAIN chain
      BY <2>2, <3>1 DEF CountRecords, Shape, Unsorted, Handled, AsLoaded, LoadedAs
    <3>3. Len(file.dgs[at].cgs) > 1
      BY <2>2, <3>2 DEF AsLoaded, LoadedAs, CountRecords
    <3>4. s # at
      <4>1. Len(file.dgs[at].cgs) # 1
        <5>1. \A n : n > 1 => n # 1
          OBVIOUS
        <5> QED BY <3>3, <5>1, Zenon
      <4>2. Len(file.dgs[s].cgs) = 1
        BY <3>2
      <4> QED BY <4>1, <4>2
    <3>5. c \in Groups
      BY <2>0, FileFacts, LenProperties DEF GroupsIn
    <3>6. c \notin GroupsIn(file.dgs[at])
      BY <2>0, <3>1, <3>4, FileFacts
    <3> QED BY <3>1, <3>5, <3>6 DEF CountsLeft
  <2>3. CASE CountRecords /\ pc' # "count"
    <3>1. cycles' = cycles
      BY <2>3 DEF CountRecords, Throw, Return
    <3> QED BY <2>1, <3>1
  <2> QED BY <2>1, <2>2, <2>3, Changes
<1> QED
  BY <1>1, <1>2, ChainIsSound, AsLoadedInv, LengthKnownInv, PTL DEF Spec

\* Once a file is finalized each counter is the number of the group's records.
CountsRight ==
    ~Unsorted => \A s \in DOMAIN file.dgs : \A c \in GroupsIn(file.dgs[s]) :
        cycles[c] = Len(Whole(s, c))

LEMMA CountsRightInv ==
    ASSUME SortedLast, CountsOnDisk
    PROVE  Spec => []CountsRight
<1>1. Shape /\ CountsKnown /\ CountsLeft => CountsRight
  <2> SUFFICES ASSUME Shape, CountsKnown, CountsLeft, ~Unsorted,
                      NEW s \in DOMAIN file.dgs, NEW c \in GroupsIn(file.dgs[s])
               PROVE  cycles[c] = Len(Whole(s, c))
    BY DEF CountsRight
  <2>0. file \in Files
    BY DEF Shape
  <2>1. CASE HasIDs(s) /\ "cycles" \in file.flags
    <3>1. Counted(s)
      BY DEF Counted, Unsorted, Handled
    <3> QED BY <2>1, <3>1 DEF CountsKnown
  <2>2. CASE ~(HasIDs(s) /\ "cycles" \in file.flags)
    <3>1. Len(file.dgs[s].cgs) = 1 \/ "cycles" \notin file.flags
      <4>1. file.dgs[s].cgs \in Seq(Groups) /\ file.dgs[s].cgs # <<>>
        BY <2>0, FileFacts
      <4>2. Len(file.dgs[s].cgs) \in Nat /\ Len(file.dgs[s].cgs) # 0
        BY <4>1, EmptySeq, LenProperties
      <4>3. Len(file.dgs[s].cgs) > 1 \/ Len(file.dgs[s].cgs) = 1
        <5>1. \A n \in Nat : n # 0 => n > 1 \/ n = 1
          OBVIOUS
        <5> QED BY <4>2, <5>1, Zenon
      <4> QED BY <2>2, <4>3, Zenon DEF HasIDs
    <3>2. cycles[c] = file.cycles[c]
      BY <3>1 DEF CountsLeft
    <3>3. file.cycles[c] = Len(RecordsOf(file.dgs[s].log, c, Len(file.dgs[s].log)))
      BY <2>0, <3>1 DEF CountsOnDisk
    <3> QED BY <3>2, <3>3 DEF Whole, Log
  <2> QED BY <2>1, <2>2
<1> QED
  BY <1>1, ChainIsSound, CountsKnownInv, CountsLeftInv, PTL

\* A walk that measures passes no record of a group of fixed size: it ends at the
\* first of a group it looks for, and what it does not look for is empty.
LEMMA WalkFits ==
    ASSUME Shape, Regular, CountsRight, AllTimed, MeasureWalk
    PROVE  Regular'
<1> DEFINE dg == chain[at]
           s == dg.src
           log == Log(s)
           hits == {k \in 1..Reach(s) : k <= Len(log) /\ log[k].id \in Targets}
           n == IF hits = {} THEN Reach(s) ELSE Min(hits) - 1
           ok == Passable(s, n)
<1>0. file' = file /\ file \in Files
  BY DEF MeasureWalk, Shape
<1>1. SameButBlock(chain')
  BY WalkEffect
<1>2. /\ Fits(file, chain'[at]) /\ chain'[at].src = s
      /\ \A j \in DOMAIN chain : j # at => chain'[j] = chain[j]
      /\ DOMAIN chain' = DOMAIN chain
      /\ DataGroupOK(file, dg) /\ Fits(file, dg) /\ EvenGroup(file, dg)
      /\ DOMAIN dg.dt.indices = GroupsIn(dg)
  BY <1>1, SameFits
<1>3. at \in DOMAIN chain /\ IsMultiple(dg.dt)
  BY <1>1 DEF SameButBlock
<1>4. s \in DOMAIN file.dgs /\ DataBlockOK(dg.dt)
  BY <1>2 DEF DataGroupOK
<1>5. Reach(s) \in Nat /\ Len(log) \in Nat
  <2>1. Reach(s) \in Nat
    BY <1>0, <1>4, ReachIs DEF Shape
  <2>2. Len(log) \in Nat
    BY <1>0, <1>4, FileFacts
  <2> QED BY <2>1, <2>2
<1>6. /\ n \in Nat
      /\ \A k \in 1..n : k <= Len(log) => log[k].id \notin Targets
  <2>1. CASE hits = {}
    <3>1. \A k \in 1..Reach(s) : k <= Len(log) => log[k].id \notin Targets
      BY <2>1
    <3> QED BY <1>5, <2>1, <3>1
  <2>2. CASE hits # {}
    <3>1. hits \subseteq Nat /\ \A k \in hits : k \in 1..Reach(s)
      BY <1>5
    <3>2. \A k \in 1..Reach(s) : k <= Len(log) /\ log[k].id \in Targets => k \in hits
      OBVIOUS
    <3> DEFINE m == Min(hits)
    <3> HIDE DEF hits
    <3>3. m \in hits /\ \A k \in hits : m <= k
      BY <2>2, <3>1, MinIsLeast
    <3>4. m \in Nat /\ 1 <= m /\ m <= Reach(s)
      <4>1. m \in 1..Reach(s)
        BY <3>1, <3>3
      <4> HIDE DEF m, s
      <4> QED BY <1>5, <4>1
    <3>5. n = m - 1
      BY <2>2
    <3> HIDE DEF m, n, s, log
    <3>6. ASSUME NEW k \in 1..n, k <= Len(log) PROVE log[k].id \notin Targets
      <4>1. k \in 1..Reach(s) /\ ~(m <= k)
        BY <1>5, <3>4, <3>5
      <4> QED BY <3>2, <3>3, <3>6, <4>1
    <3> QED BY <3>4, <3>5, <3>6
  <2> QED BY <2>1, <2>2
<1> HIDE DEF hits, n
<1>7. ok \in 0..n /\ \A k \in 1..ok : k <= Len(log)
  BY <1>0, <1>4, <1>6, PassableIs
<1>8. chain'[at].dt = AddBytes(dg.dt, s, ok)
  <2> DEFINE x == AddBytes(dg.dt, s, ok)
  <2>1. chain' = [chain EXCEPT ![at].dt = x]
    BY DEF MeasureWalk, CurrentDT, hits, n
  <2>2. DataBlockOK(x) /\ x.kind = dg.dt.kind /\ DOMAIN x.indices = DOMAIN dg.dt.indices
    BY <1>4, BytesAdded
  <2> HIDE DEF x, s, ok
  <2> QED BY <1>3, <2>1, <2>2, BlockReplaced DEF x
<1>9. ASSUME NEW c \in GroupsIn(dg) \ file.vlsd
      PROVE  BytesOf(log, c, ok) = 0
  <2>1. c \in GroupsIn(file.dgs[s]) /\ c \in file.timed
    BY <1>2, <1>4, <1>9 DEF Fits, AllTimed
  <2>2. ASSUME NEW k \in 1..ok PROVE log[k].id # c
    <3>1. k \in 1..n /\ k <= Len(log) /\ k \in 1..Len(log)
      BY <1>5, <1>6, <1>7
    <3>2. CASE c \in Targets
      BY <1>6, <3>1, <3>2
    <3>3. CASE c \notin Targets
      <4>1. flags = {} /\ cycles[c] = 0
        BY <1>9, <2>1, <3>3 DEF Targets
      <4>2. ~Unsorted
        BY <4>1 DEF Unsorted
      <4>3. Len(Whole(s, c)) = 0
        BY <1>4, <2>1, <4>1, <4>2 DEF CountsRight
      <4>4. \A m \in 1..Len(log) : log[m].id # c
        <5>1. Len(RecordsOf(log, c, Len(log))) = 0
          BY <4>3 DEF Whole
        <5> HIDE DEF log, s
        <5> QED BY <1>5, <5>1, NoneOrSome
      <4> QED BY <3>1, <4>4
    <3> QED BY <3>2, <3>3
  <2>3. ok \in Nat
    BY <1>6, <1>7
  <2> HIDE DEF log, ok
  <2> QED BY <2>2, <2>3, NoneOrSome
<1>10. ASSUME NEW c \in DOMAIN chain'[at].dt.indices \ file.vlsd
       PROVE  EvenIn(chain'[at].dt, log, c)
  <2>1. c \in DOMAIN dg.dt.indices
    BY <1>1, <1>10 DEF SameButBlock
  <2>2. BytesOf(log, c, ok) = 0
    BY <1>2, <1>9, <1>10, <2>1
  <2>3. EvenIn(dg.dt, log, c)
    BY <1>2, <1>3, <1>10, <2>1 DEF EvenGroup, Log
  <2>4. PICK q \in Nat : dg.dt.sizes[c] = q * Len(RecordsOf(log, c, Far(log)))
    BY <2>3 DEF EvenIn
  <2>5. q * Len(RecordsOf(log, c, Far(log))) \in Nat
    <3>1. Far(log) \in 0..Len(log)
      BY <1>0, <1>4, FarFacts
    <3>2. Len(RecordsOf(log, c, Far(log))) \in Nat
      <4> HIDE DEF s, log
      <4> QED BY <1>0, <1>4, <1>10, <3>1, BytesMultiple DEF log
    <3> QED BY <3>2
  <2>6. dg.dt.sizes[c] + 0 = dg.dt.sizes[c]
    BY <2>4, <2>5
  <2>7. chain'[at].dt.sizes[c] = dg.dt.sizes[c]
    <3> HIDE DEF s, ok, log
    <3>1. chain'[at].dt.sizes[c] = dg.dt.sizes[c] + BytesOf(Log(s), c, ok)
      BY <1>4, <1>8, <2>1, AddedSizes
    <3> QED BY <2>2, <2>6, <3>1 DEF log
  <2>8. chain'[at].dt.indices[c] = dg.dt.indices[c]
    BY WalkEffect
  <2> HIDE DEF log
  <2> QED BY <2>3, <2>7, <2>8 DEF EvenIn
<1>11. EvenGroup(file, chain'[at])
  BY <1>2, <1>10 DEF EvenGroup, Log
<1>12. \A j \in DOMAIN chain' : Fits(file, chain'[j]) /\ EvenGroup(file, chain'[j])
  BY <1>2, <1>11 DEF Regular
<1> QED BY <1>0, <1>12 DEF Regular

\* A freshly loaded file is regular.
LEMMA RegularInit ==
    ASSUME Paired, Init PROVE Regular
<1> SUFFICES ASSUME NEW s \in DOMAIN chain
             PROVE  Fits(file, chain[s]) /\ EvenGroup(file, chain[s])
  BY DEF Regular
<1> DEFINE dg == chain[s]
           log == Log(s)
<1>1. /\ file \in Files /\ s \in DOMAIN file.dgs
      /\ dg = [src |-> s, cgs |-> file.dgs[s].cgs,
               hasIDs |-> HasIDs(s), dt |-> LoadedDT(s, Reach(s))]
  BY LoadedChain
<1>2. /\ dg.src = s /\ dg.cgs = file.dgs[s].cgs /\ dg.dt = LoadedDT(s, Reach(s))
      /\ GroupsIn(dg) = GroupsIn(file.dgs[s])
  <2> HIDE DEF dg
  <2> QED BY <1>1 DEF GroupsIn
<1> HIDE DEF dg
<1>3. /\ DataBlockOK(dg.dt)
      /\ dg.dt.kind = IF HasIDs(s) THEN "multi" ELSE "cont"
      /\ DOMAIN dg.dt.indices = IF HasIDs(s) THEN GroupsIn(file.dgs[s]) ELSE {}
      /\ HasIDs(s) => \A c \in GroupsIn(file.dgs[s]) :
            dg.dt.indices[c] = RecordsOf(Log(s), c, Reach(s))
  BY <1>1, <1>2, LoadedBlock
<1>4. IsMultiple(dg.dt) <=> Len(dg.cgs) > 1
  BY <1>2, <1>3 DEF IsMultiple, HasIDs
<1>5. ~HasIDs(s) => dg.dt = Cont
  BY <1>2 DEF LoadedDT
<1>6. \A k \in DOMAIN dg.cgs : dg.cgs[k] \in file.vlsd =>
          k > 1 /\ file.refers[dg.cgs[k]] = dg.cgs[k - 1]
  BY <1>1, <1>2 DEF Paired
<1>7. Fits(file, dg)
  BY <1>2, <1>3, <1>4, <1>5, <1>6 DEF Fits, HasIDs
<1>8. ASSUME IsMultiple(dg.dt), NEW c \in DOMAIN dg.dt.indices \ file.vlsd
      PROVE  EvenIn(dg.dt, log, c)
  <2>1. HasIDs(s) /\ c \in GroupsIn(file.dgs[s])
    BY <1>2, <1>3, <1>4, <1>8 DEF HasIDs
  <2>2. dg.dt.indices[c] = RecordsOf(log, c, Reach(s))
    BY <1>3, <2>1
  <2>3. dg.dt.sizes[c] = BytesOf(log, c, Reach(s))
    BY <1>1, <1>2, <2>1, LoadedSizes
  <2>4. Far(log) \in 0..Len(log) /\ Len(log) \in Nat
    BY <1>1, FarFacts
  <2>5. Reach(s) = 0 \/ Reach(s) = Far(log)
    BY <1>1, NoUnknown
  <2>6. /\ Len(RecordsOf(log, c, Far(log))) \in Nat
        /\ \E w \in Nat : BytesOf(log, c, Far(log)) = w * Len(RecordsOf(log, c, Far(log)))
    <3> HIDE DEF log
    <3> QED BY <1>1, <1>8, <2>4, BytesMultiple DEF log
  <2> HIDE DEF log
  <2>7. CASE Reach(s) = Far(log)
    BY <2>2, <2>3, <2>6, <2>7 DEF EvenIn
  <2>8. CASE Reach(s) = 0
    <3>1. RecordsOf(log, c, 0) = <<>>
      <4>1. PICK r : Filed(r, log, c, 0) /\ RecordsOf(log, c, 0) = r[0]
        BY RecordsFiled
      <4> QED BY <4>1 DEF Filed
    <3>2. BytesOf(log, c, 0) = 0
      BY NoneOrSome
    <3>3. 0 = 0 * Len(RecordsOf(log, c, Far(log)))
      BY <2>6
    <3>4. 0 \in Nat /\ dg.dt.sizes[c] = 0 * Len(RecordsOf(log, c, Far(log)))
      BY <2>3, <2>8, <3>2, <3>3
    <3>5. \E q \in Nat : dg.dt.sizes[c] = q * Len(RecordsOf(log, c, Far(log)))
      BY <3>4
    <3> QED BY <2>2, <2>8, <3>1, <3>5 DEF EvenIn
  <2> QED BY <2>5, <2>7, <2>8
<1>9. EvenGroup(file, dg)
  BY <1>2, <1>8 DEF EvenGroup, Log
<1> QED BY <1>7, <1>9 DEF dg

-----------------------------------------------------------------------------
(* Both halves of sort() on such groups.                                     *)

Unlisted == \A v \in DOMAIN sd : ~LinkedIn(chain, v)

\* The first half has left no variable-length group behind, those of the data
\* group it is at are still to be visited, and each behind its own.
ToSD == pc = "toSD" =>
    /\ \A i \in DOMAIN chain : i < at => GroupsIn(chain[i]) \cap file.vlsd = {}
    /\ \A v \in GroupsIn(chain[at]) \cap file.vlsd :
          \E m \in DOMAIN todo : m > 1 /\ todo[m] = v
    /\ \A m \in DOMAIN todo : m > 1 /\ todo[m] \in file.vlsd =>
          file.refers[todo[m]] = todo[m - 1]

\* The second half finds none, and has sorted what is behind it.
ToDG == pc = "toDG" =>
    \A i \in DOMAIN chain :
        /\ GroupsIn(chain[i]) \cap file.vlsd = {}
        /\ i < at => Len(chain[i].cgs) = 1

\* A data block with the length that was never set is there during sort() only.
Subsets == \A i \in DOMAIN chain :
    chain[i].dt.kind = "subset" => pc \in {"toSD", "toDG"}

Handed ==
    /\ pc = "find" \/ outcome = "iterator" => ~Unsorted
    /\ outcome = "iterator" => pc = "idle" /\ Found

Alive == pc # "dead"

Sound == Regular /\ Unlisted /\ ToSD /\ ToDG /\ Subsets /\ Handed /\ Alive

\* Which steps lead into a loop of sort(), to the end of the process, or change
\* how a call ended.
LEMMA SortFlow ==
    ASSUME [Next]_vars
    PROVE  /\ pc' = "toSD" => \/ MoveVLSD \/ KeepGroup \/ NextToSD
                              \/ (at' = 1 /\ todo' = chain[1].cgs)
                              \/ UNCHANGED vars
           /\ pc' = "toDG" => \/ SplitGroup \/ NextToSD \/ NextToDG
                              \/ UNCHANGED vars
           /\ pc' = "dead" => \/ SortCrash \/ MeasureUninitialised
                              \/ (MeasureStart /\ CurrentDT = NoDT)
                              \/ UNCHANGED vars
BY DEF Next, Step, FinalizeStep, SortStep, MeasureStep, CallGetFileInfo,
       CallGetIterator, CallGetFirstMeasurement, Call, StartFinalize, StartSort,
       Return, Throw, Crash, SetLength, CountRecords, CountDone, CountBytes,
       MoveVLSD, KeepGroup, NextToSD, SplitGroup, NextToDG, SortCrash, SortDone,
       FindBUSBlock, SoftSetLength, MeasureWalk, MeasureUninitialised,
       MeasureStart, MeasureSkip, MeasureDone, vars, sortVars, loopVars

LEMMA HandFlow ==
    ASSUME [Next]_vars
    PROVE  /\ pc' = "find" => \/ flags = {} \/ pc = "toDG" \/ UNCHANGED vars
           /\ outcome' = "iterator" => \/ (FindBUSBlock /\ Found) \/ UNCHANGED vars
                                       \/ (outcome = "iterator" /\ pc # "idle")
BY DEF Next, Step, FinalizeStep, SortStep, MeasureStep, CallGetFileInfo,
       CallGetIterator, CallGetFirstMeasurement, Call, StartFinalize, StartSort,
       Return, Throw, Crash, SetLength, CountRecords, CountDone, CountBytes,
       MoveVLSD, KeepGroup, NextToSD, SplitGroup, NextToDG, SortCrash, SortDone,
       FindBUSBlock, SoftSetLength, MeasureWalk, MeasureUninitialised,
       MeasureStart, MeasureSkip, MeasureDone, vars, sortVars, loopVars

LEMMA LeaveFlow ==
    ASSUME [Next]_vars, chain' = chain, pc \in {"toSD", "toDG"}
    PROVE  \/ pc' \in {"toSD", "toDG"} \/ SortCrash \/ MoveVLSD \/ SplitGroup
           \/ (SortDone /\ pc = "toDG" /\ at > Len(chain))
BY DEF Next, Step, FinalizeStep, SortStep, MeasureStep, CallGetFileInfo,
       CallGetIterator, CallGetFirstMeasurement, Call, StartFinalize, StartSort,
       Return, Throw, Crash, SetLength, CountRecords, CountDone, CountBytes,
       MoveVLSD, KeepGroup, NextToSD, SplitGroup, NextToDG, SortCrash, SortDone,
       FindBUSBlock, SoftSetLength, MeasureWalk, MeasureUninitialised,
       MeasureStart, MeasureSkip, MeasureDone, vars, sortVars, loopVars

\* Sorting meets no group without a data block.
LEMMA NoSortCrash ==
    ASSUME Shape, Regular, Unlisted PROVE ~SortCrash
<1> SUFFICES ASSUME SortCrash PROVE FALSE
  OBVIOUS
<1>1. ~IsMultiple(chain[at].dt)
  BY DEF SortCrash, CurrentDT
<1>2. at \in Nat \ {0} /\ Len(chain) \in Nat /\ DOMAIN chain = 1..Len(chain)
  BY LenProperties DEF Shape
<1>3. CASE pc = "toSD" /\ IsMove
  <2>1. at \in DOMAIN chain
    BY <1>2, <1>3 DEF Shape
  <2>2. DataGroupOK(file, chain[at]) /\ Fits(file, chain[at]) /\ file \in Files
    BY <2>1 DEF Shape, Regular
  <2>3. 2 \in DOMAIN todo
    BY <1>3, LenProperties DEF IsMove, Shape
  <2>4. todo[2] \in GroupsIn(chain[at]) /\ todo[2] \in file.vlsd
    BY <1>3, <2>3 DEF IsMove, Shape
  <2> QED BY <1>1, <2>2, <2>4, VLSDInSeveral
<1>4. CASE pc = "toDG" /\ at <= Len(chain) /\ Len(chain[at].cgs) > 1
  <2>1. at \in DOMAIN chain
    BY <1>2, <1>4
  <2> QED BY <1>1, <1>4, <2>1 DEF Regular, Fits
<1> QED BY <1>3, <1>4 DEF SortCrash

LEMMA RegularNext ==
    ASSUME Shape, LengthKnown, CountsRight, AllTimed, Regular, ToDG, [Next]_vars
    PROVE  Regular'
<1>1. CASE chain' = chain
  BY <1>1, Changes DEF Regular
<1>2. CASE SplitGroup
  <2>1. at \in DOMAIN chain /\ pc = "toDG"
    BY <1>2, SplitEffect
  <2>2. GroupsIn(chain[at]) \cap file.vlsd = {}
    BY <2>1 DEF ToDG
  <2> QED BY <1>2, <2>2, SplitFits
<1> QED BY <1>1, <1>2, Changes, CountFits, MoveFits, WalkFits

LEMMA UnlistedNext ==
    ASSUME Shape, Regular, Apart, Unlisted, [Next]_vars
    PROVE  Unlisted'
<1> SUFFICES ASSUME NEW v \in DOMAIN sd' PROVE ~LinkedIn(chain', v)
  BY DEF Unlisted, LinkedIn
<1>1. CASE v \in DOMAIN sd
  BY <1>1, LinkedStays DEF Unlisted
<1>2. CASE v \notin DOMAIN sd
  <2>1. MoveVLSD
    BY <1>2, Changes
  <2>2. PICK w \in file.vlsd, p \in DOMAIN chain[at].cgs :
          /\ w = todo[2] /\ w \in GroupsIn(chain[at])
          /\ Unlinked(chain', w, p)
          /\ GroupsIn(chain'[at]) = GroupsIn(chain[at]) \ {w}
    BY <2>1, MoveFits
  <2>3. v = w /\ at \in DOMAIN chain
    BY <1>2, <2>1, <2>2, MoveFits
  <2>4. ASSUME NEW i \in DOMAIN chain', v \in GroupsIn(chain'[i]) PROVE FALSE
    <3>1. i # at
      BY <2>2, <2>3, <2>4
    <3>2. i \in DOMAIN chain /\ chain'[i] = chain[i] /\ v \in GroupsIn(chain[i])
      BY <2>2, <2>4, <3>1 DEF Unlinked
    <3>3. \A j \in {i, at} : v \in DOMAIN chain[j].dt.indices
      <4> SUFFICES ASSUME NEW j \in DOMAIN chain, v \in GroupsIn(chain[j])
                   PROVE  v \in DOMAIN chain[j].dt.indices
        BY <2>2, <2>3, <3>2
      <4>1. DataGroupOK(file, chain[j]) /\ Fits(file, chain[j]) /\ file \in Files
        BY DEF Shape, Regular
      <4>2. v \in file.vlsd
        BY <2>3
      <4>3. IsMultiple(chain[j].dt)
        BY <4>1, <4>2, VLSDInSeveral
      <4> QED BY <4>1, <4>3, SeveralFit
    <3> QED BY <2>3, <3>1, <3>2, <3>3 DEF Apart
  <2> QED BY <2>4 DEF LinkedIn
<1> QED BY <1>1, <1>2

\* What the first half of sort() still has to visit after one group.
LEMMA Visited ==
    ASSUME NEW T \in Seq(Groups), Len(T) > 1, NEW m \in DOMAIN T, m > 1, m # 2
    PROVE  m - 1 \in DOMAIN Tail(T) /\ m - 1 > 1 /\ Tail(T)[m - 1] = T[m]
<1>1. /\ Len(T) \in Nat /\ DOMAIN T = 1..Len(T) /\ Tail(T) \in Seq(Groups)
      /\ Len(Tail(T)) = Len(T) - 1
      /\ \A k \in 1..Len(Tail(T)) : Tail(T)[k] = T[k + 1]
  <2>1. T # <<>>
    BY EmptySeq
  <2> QED BY <2>1, LenProperties, HeadTailProperties
<1>2. DOMAIN Tail(T) = 1..Len(Tail(T))
  BY <1>1, LenProperties
<1>3. m - 1 \in 1..Len(Tail(T)) /\ m - 1 > 1 /\ (m - 1) + 1 = m
  BY <1>1
<1>4. Tail(T)[m - 1] = T[(m - 1) + 1]
  BY <1>1, <1>3
<1> QED BY <1>2, <1>3, <1>4

LEMMA Behind ==
    ASSUME file \in Files, NEW T \in Seq(Groups), Len(T) > 1,
           \A m \in DOMAIN T : m > 1 /\ T[m] \in file.vlsd =>
              file.refers[T[m]] = T[m - 1]
    PROVE  \A m \in DOMAIN Tail(T) : m > 1 /\ Tail(T)[m] \in file.vlsd =>
              file.refers[Tail(T)[m]] = Tail(T)[m - 1]
<1> SUFFICES ASSUME NEW m \in DOMAIN Tail(T), m > 1, Tail(T)[m] \in file.vlsd
             PROVE  file.refers[Tail(T)[m]] = Tail(T)[m - 1]
  OBVIOUS
<1>1. /\ Tail(T) \in Seq(Groups)
      /\ \A k \in DOMAIN Tail(T) : k + 1 \in DOMAIN T /\ Tail(T)[k] = T[k + 1]
  BY LoopGoesOn
<1>2. DOMAIN Tail(T) = 1..Len(Tail(T)) /\ Len(Tail(T)) \in Nat
  BY <1>1, LenProperties
<1>3. /\ m - 1 \in DOMAIN Tail(T) /\ m + 1 > 1
      /\ (m - 1) + 1 = m /\ (m + 1) - 1 = m
  BY <1>2
<1>4. Tail(T)[m] = T[m + 1] /\ Tail(T)[m - 1] = T[m] /\ m + 1 \in DOMAIN T
  BY <1>1, <1>3
<1>5. file.refers[T[m + 1]] = T[(m + 1) - 1]
  BY <1>3, <1>4
<1> QED BY <1>3, <1>4, <1>5

LEMMA ToSDNext ==
    ASSUME Shape, Shape', Regular, Unlisted, ToSD, [Next]_vars
    PROVE  ToSD'
<1>0. file' = file /\ file \in Files /\ todo \in Seq(Groups)
  BY Changes DEF Shape
<1>1. at \in Nat \ {0} /\ Len(chain) \in Nat /\ DOMAIN chain = 1..Len(chain)
  BY LenProperties DEF Shape
<1> SUFFICES ASSUME pc' = "toSD"
             PROVE  /\ \A i \in DOMAIN chain' : i < at' =>
                          GroupsIn(chain'[i]) \cap file.vlsd = {}
                    /\ \A v \in GroupsIn(chain'[at']) \cap file.vlsd :
                          \E m \in DOMAIN todo' : m > 1 /\ todo'[m] = v
                    /\ \A m \in DOMAIN todo' : m > 1 /\ todo'[m] \in file.vlsd =>
                          file.refers[todo'[m]] = todo'[m - 1]
  BY <1>0 DEF ToSD
<1>2. CASE UNCHANGED vars
  <2>1. pc = "toSD" /\ chain' = chain /\ at' = at /\ todo' = todo
    BY <1>2 DEF vars, sortVars, loopVars
  <2> QED BY <2>1 DEF ToSD
\* A data group that the loop comes to.
<1>3. ASSUME NEW i \in DOMAIN chain, chain' = chain, at' = i, todo' = chain[i].cgs,
             \A j \in DOMAIN chain : j < i => GroupsIn(chain[j]) \cap file.vlsd = {}
      PROVE  /\ \A j \in DOMAIN chain' : j < at' =>
                  GroupsIn(chain'[j]) \cap file.vlsd = {}
             /\ \A v \in GroupsIn(chain'[at']) \cap file.vlsd :
                  \E m \in DOMAIN todo' : m > 1 /\ todo'[m] = v
             /\ \A m \in DOMAIN todo' : m > 1 /\ todo'[m] \in file.vlsd =>
                  file.refers[todo'[m]] = todo'[m - 1]
  <2>1. \A k \in DOMAIN chain[i].cgs : chain[i].cgs[k] \in file.vlsd =>
          k > 1 /\ file.refers[chain[i].cgs[k]] = chain[i].cgs[k - 1]
    BY DEF Regular, Fits
  <2>2. ASSUME NEW v \in GroupsIn(chain[i]) \cap file.vlsd
        PROVE  \E m \in DOMAIN chain[i].cgs : m > 1 /\ chain[i].cgs[m] = v
    <3>1. PICK m \in DOMAIN chain[i].cgs : chain[i].cgs[m] = v
      BY DEF GroupsIn
    <3> QED BY <2>1, <3>1
  <2> QED BY <1>3, <2>1, <2>2
<1>4. CASE at' = 1 /\ todo' = chain[1].cgs /\ chain' = chain
  <2>1. 1 \in DOMAIN chain
    BY <1>1, EmptySeq DEF Shape
  <2>2. \A j \in DOMAIN chain : ~(j < 1)
    BY <1>1
  <2> QED BY <1>3, <1>4, <2>1, <2>2
<1>5. CASE NextToSD
  <2>1. /\ Len(todo) <= 1 /\ chain' = chain /\ pc = "toSD"
        /\ at' = at + 1 /\ todo' = chain[at + 1].cgs /\ at < Len(chain)
    BY <1>5 DEF NextToSD, sortVars
  <2>2. GroupsIn(chain[at]) \cap file.vlsd = {}
    <3>1. \A m \in DOMAIN todo : ~(m > 1)
      BY <1>0, <2>1, LenProperties
    <3> QED BY <2>1, <3>1 DEF ToSD
  <2>3. at + 1 \in DOMAIN chain /\ \A j \in DOMAIN chain : j < at + 1 => j < at \/ j = at
    BY <1>1, <2>1
  <2>4. \A j \in DOMAIN chain : j < at + 1 => GroupsIn(chain[j]) \cap file.vlsd = {}
    BY <2>1, <2>2, <2>3 DEF ToSD
  <2> QED BY <1>3, <2>1, <2>3, <2>4
\* The group at the head of the list is done with.
<1>6. ASSUME pc = "toSD", todo' = Tail(todo), Len(todo) > 1, at' = at,
             NEW S, S = GroupsIn(chain'[at]), S \subseteq GroupsIn(chain[at]),
             todo[2] \in S => todo[2] \notin file.vlsd,
             DOMAIN chain' = DOMAIN chain,
             \A i \in DOMAIN chain : i < at => chain'[i] = chain[i]
      PROVE  /\ \A i \in DOMAIN chain' : i < at' =>
                          GroupsIn(chain'[i]) \cap file.vlsd = {}
             /\ \A v \in GroupsIn(chain'[at']) \cap file.vlsd :
                          \E m \in DOMAIN todo' : m > 1 /\ todo'[m] = v
             /\ \A m \in DOMAIN todo' : m > 1 /\ todo'[m] \in file.vlsd =>
                          file.refers[todo'[m]] = todo'[m - 1]
  <2>1. \A i \in DOMAIN chain' : i < at => GroupsIn(chain'[i]) \cap file.vlsd = {}
    BY <1>6 DEF ToSD
  <2>2. ASSUME NEW v \in S \cap file.vlsd
        PROVE  \E m \in DOMAIN Tail(todo) : m > 1 /\ Tail(todo)[m] = v
    <3>1. PICK m \in DOMAIN todo : m > 1 /\ todo[m] = v
      BY <1>6, <2>2 DEF ToSD
    <3>2. m # 2
      BY <1>6, <2>2, <3>1
    <3>3. m - 1 \in DOMAIN Tail(todo) /\ m - 1 > 1 /\ Tail(todo)[m - 1] = todo[m]
      BY <1>0, <1>6, <3>1, <3>2, Visited
    <3> QED BY <3>1, <3>3
  <2>3. \A m \in DOMAIN Tail(todo) : m > 1 /\ Tail(todo)[m] \in file.vlsd =>
              file.refers[Tail(todo)[m]] = Tail(todo)[m - 1]
    <3>1. \A m \in DOMAIN todo : m > 1 /\ todo[m] \in file.vlsd =>
              file.refers[todo[m]] = todo[m - 1]
      BY <1>6 DEF ToSD
    <3> QED BY <1>0, <1>6, <3>1, Behind
  <2> QED BY <1>6, <2>1, <2>2, <2>3
<1>7. CASE KeepGroup
  <2>1. /\ pc = "toSD" /\ todo' = Tail(todo) /\ Len(todo) > 1 /\ at' = at
        /\ chain' = chain /\ ~IsMove
    BY <1>7 DEF KeepGroup, sortVars
  <2>2. at \in DOMAIN chain /\ 2 \in DOMAIN todo
    BY <1>0, <1>1, <2>1, LenProperties DEF Shape
  <2>3. todo[2] \in GroupsIn(chain[at]) => todo[2] \notin file.vlsd
    <3> SUFFICES ASSUME todo[2] \in GroupsIn(chain[at]), todo[2] \in file.vlsd
                 PROVE  FALSE
      OBVIOUS
    <3>1. 2 > 1 /\ 2 - 1 = 1
      OBVIOUS
    <3>2. file.refers[todo[2]] = todo[1]
      <4>1. \A m \in DOMAIN todo : m > 1 /\ todo[m] \in file.vlsd =>
              file.refers[todo[m]] = todo[m - 1]
        BY <2>1 DEF ToSD
      <4>2. file.refers[todo[2]] = todo[2 - 1]
        BY <2>2, <3>1, <4>1
      <4> QED BY <3>1, <4>2
    <3>3. todo[2] \in DOMAIN sd
      BY <2>1, <3>2 DEF IsMove
    <3> QED BY <2>2, <3>3 DEF Unlisted, LinkedIn
  <2> QED BY <1>6, <2>1, <2>3
<1>8. CASE MoveVLSD
  <2>1. PICK v \in file.vlsd, p \in DOMAIN chain[at].cgs :
          /\ v = todo[2] /\ Unlinked(chain', v, p)
          /\ GroupsIn(chain'[at]) = GroupsIn(chain[at]) \ {v}
    BY <1>8, MoveFits
  <2>2. /\ pc = "toSD" /\ todo' = Tail(todo) /\ Len(todo) > 1 /\ at' = at
    BY <1>8, MoveFits DEF MoveVLSD
  <2>3. DOMAIN chain' = DOMAIN chain /\ \A j \in DOMAIN chain : j < at => chain'[j] = chain[j]
    BY <1>1, <2>1 DEF Unlinked
  <2>4. GroupsIn(chain'[at]) \subseteq GroupsIn(chain[at]) /\ todo[2] \notin GroupsIn(chain'[at])
    BY <2>1
  <2> QED BY <1>6, <2>2, <2>3, <2>4
<1>9. chain' = chain \/ MoveVLSD \/ ~(at' = 1 /\ todo' = chain[1].cgs)
  <2> SUFFICES ASSUME chain' # chain, at' = 1 /\ todo' = chain[1].cgs PROVE MoveVLSD
    OBVIOUS
  <2>1. pc' = "toSD" /\ (CountRecords \/ SplitGroup \/ MeasureWalk) => FALSE
    BY DEF CountRecords, SplitGroup, MeasureWalk, Throw, Return
  <2> QED BY <2>1, Changes
<1> QED BY <1>2, <1>4, <1>5, <1>7, <1>8, <1>9, SortFlow

LEMMA ToDGNext ==
    ASSUME Shape, Regular, ToSD, ToDG, [Next]_vars
    PROVE  ToDG'
<1>0. file' = file
  BY Changes
<1>1. at \in Nat \ {0} /\ Len(chain) \in Nat /\ DOMAIN chain = 1..Len(chain)
  BY LenProperties DEF Shape
<1> SUFFICES ASSUME pc' = "toDG", NEW i \in DOMAIN chain'
             PROVE  /\ GroupsIn(chain'[i]) \cap file.vlsd = {}
                    /\ i < at' => Len(chain'[i].cgs) = 1
  BY <1>0 DEF ToDG
<1>2. CASE UNCHANGED vars
  <2>1. pc = "toDG" /\ chain' = chain /\ at' = at
    BY <1>2 DEF vars, sortVars, loopVars
  <2> QED BY <2>1 DEF ToDG
<1>3. CASE NextToSD
  <2>1. /\ Len(todo) <= 1 /\ chain' = chain /\ pc = "toSD"
        /\ at' = 1 /\ ~(at < Len(chain)) /\ at <= Len(chain)
    BY <1>3 DEF NextToSD, sortVars, Shape
  <2>2. GroupsIn(chain[at]) \cap file.vlsd = {}
    <3>1. \A m \in DOMAIN todo : ~(m > 1)
      BY <2>1, LenProperties DEF Shape
    <3> QED BY <2>1, <3>1 DEF ToSD
  <2>3. (i < at \/ i = at) /\ ~(i < 1)
    BY <1>1, <2>1
  <2> QED BY <2>1, <2>2, <2>3 DEF ToSD
<1>4. CASE NextToDG
  <2>1. pc = "toDG" /\ chain' = chain /\ at' = at + 1 /\ Len(chain[at].cgs) = 1
    BY <1>4 DEF NextToDG, sortVars
  <2>2. i < at + 1 => i < at \/ i = at
    BY <1>1, <2>1
  <2> QED BY <2>1, <2>2 DEF ToDG
<1>5. CASE SplitGroup
  <2> DEFINE b == chain[at].cgs[1]
  <2>1. at \in DOMAIN chain /\ pc = "toDG"
    BY <1>5, SplitEffect
  <2>2. GroupsIn(chain[at]) \cap file.vlsd = {}
    BY <2>1 DEF ToDG
  <2>3. /\ Divided(chain', b) /\ chain'[at].cgs = <<b>> /\ at' = at + 1
        /\ GroupsIn(chain'[at]) \subseteq GroupsIn(chain[at])
        /\ GroupsIn(chain'[at + 1]) \subseteq GroupsIn(chain[at])
    BY <1>5, <2>2, SplitFits
  <2> HIDE DEF b
  <2>4. CASE i = at
    <3>1. Len(chain'[at].cgs) = 1
      BY <2>3
    <3> QED BY <2>2, <2>3, <2>4, <3>1
  <2>5. CASE i = at + 1
    <3>1. ~(i < at')
      BY <1>1, <2>3, <2>5
    <3> QED BY <2>2, <2>3, <2>5, <3>1
  <2>6. CASE i \notin {at, at + 1}
    <3>1. PICK k \in DOMAIN chain : k = (IF i < at THEN i ELSE i - 1) /\ chain'[i] = chain[k]
      BY <2>1, <2>3, <2>6, DividedFrom
    <3>2. DOMAIN chain' = 1..(Len(chain) + 1)
      BY <2>3 DEF Divided
    <3>3. i < at + 1 => k < at
      BY <1>1, <2>6, <3>1, <3>2
    <3> QED BY <2>1, <2>3, <3>1, <3>3 DEF ToDG
  <2> QED BY <2>4, <2>5, <2>6
<1> QED BY <1>2, <1>3, <1>4, <1>5, SortFlow

LEMMA SubsetsNext ==
    ASSUME Shape, Shape', AsLoaded, Regular, Unlisted, ToDG, Subsets, [Next]_vars
    PROVE  Subsets'
<1>1. Len(chain) \in Nat /\ DOMAIN chain = 1..Len(chain) /\ at \in Nat
  BY LenProperties DEF Shape
<1> SUFFICES ASSUME NEW i \in DOMAIN chain', chain'[i].dt.kind = "subset"
             PROVE  pc' \in {"toSD", "toDG"}
  BY DEF Subsets
<1>2. CASE MoveVLSD
  BY <1>2, MoveFits
<1>3. CASE SplitGroup
  <2>1. at \in DOMAIN chain /\ pc = "toDG"
    BY <1>3, SplitEffect
  <2>2. GroupsIn(chain[at]) \cap file.vlsd = {}
    BY <2>1 DEF ToDG
  <2> QED BY <1>3, <2>2, SplitFits
<1>4. CASE CountRecords \/ MeasureWalk
  <2>1. SameButBlock(chain')
    BY <1>4, CountEffect, WalkEffect
  <2>2. i \in DOMAIN chain /\ chain[i].dt.kind = "subset"
    BY <2>1 DEF SameButBlock
  <2>3. pc \in {"count", "measure"}
    BY <1>4 DEF CountRecords, MeasureWalk
  <2> QED BY <2>2, <2>3 DEF Subsets
<1>5. CASE chain' = chain /\ ~MoveVLSD /\ ~SplitGroup
  <2>1. i \in DOMAIN chain /\ chain[i].dt.kind = "subset" /\ pc \in {"toSD", "toDG"}
    BY <1>5 DEF Subsets
  <2>2. ~SortCrash
    BY NoSortCrash
  <2>3. ~(pc = "toDG" /\ at > Len(chain))
    <3> SUFFICES ASSUME pc = "toDG" /\ at > Len(chain) PROVE FALSE
      OBVIOUS
    <3>1. i < at
      BY <1>1, <2>1
    <3>2. Len(chain[i].cgs) = 1
      BY <2>1, <3>1 DEF ToDG
    <3>3. ~(Len(chain[i].cgs) > 1)
      <4>1. \A n : n = 1 => ~(n > 1)
        OBVIOUS
      <4> QED BY <3>2, <4>1, Zenon
    <3>4. ~IsMultiple(chain[i].dt)
      BY <2>1, <3>3 DEF Regular, Fits
    <3> QED BY <2>1, <3>4 DEF IsMultiple
  <2> QED BY <1>5, <2>1, <2>2, <2>3, LeaveFlow
<1> QED BY <1>2, <1>3, <1>4, <1>5, Changes

LEMMA HandedNext ==
    ASSUME Shape, AsLoaded, Handed, [Next]_vars
    PROVE  Handed'
<1>1. ~Unsorted => ~Unsorted'
  BY FlagsGo
<1>2. pc' = "find" => ~Unsorted'
  <2> SUFFICES ASSUME pc' = "find" PROVE ~Unsorted
    BY <1>1
  <2>1. CASE flags = {}
    BY <2>1 DEF Unsorted
  <2>2. CASE pc = "toDG"
    BY <2>2 DEF AsLoaded
  <2>3. CASE UNCHANGED vars
    BY <2>3 DEF vars, Handed
  <2> QED BY <2>1, <2>2, <2>3, HandFlow
<1>3. outcome' = "iterator" => ~Unsorted' /\ pc' = "idle" /\ Found'
  <2> SUFFICES ASSUME outcome' = "iterator"
               PROVE  ~Unsorted' /\ pc' = "idle" /\ Found'
    OBVIOUS
  <2>1. CASE FindBUSBlock /\ Found
    <3>1. /\ pc = "find" /\ pc' = "idle" /\ chain' = chain /\ goal' = goal
      BY <2>1 DEF FindBUSBlock, Return, sortVars, loopVars
    <3>2. ~Unsorted'
      BY <1>1, <3>1 DEF Handed
    <3> QED BY <2>1, <3>1, <3>2 DEF Found, IsSortedFor
  <2>2. CASE UNCHANGED vars
    <3>1. /\ pc' = pc /\ chain' = chain /\ goal' = goal /\ outcome = "iterator"
          /\ flags' = flags
      BY <2>2 DEF vars, sortVars, loopVars
    <3> QED BY <1>1, <3>1 DEF Handed, Found, IsSortedFor
  <2>3. ~(outcome = "iterator" /\ pc # "idle")
    BY DEF Handed
  <2> QED BY <2>1, <2>2, <2>3, HandFlow
<1> QED BY <1>2, <1>3 DEF Handed

LEMMA AliveNext ==
    ASSUME Shape, Regular, Unlisted, Subsets, Alive, [Next]_vars
    PROVE  Alive'
<1>1. Len(chain) \in Nat /\ DOMAIN chain = 1..Len(chain) /\ at \in Nat \ {0}
  BY LenProperties DEF Shape
<1>2. ~MeasureUninitialised
  <2> SUFFICES ASSUME MeasureUninitialised PROVE FALSE
    OBVIOUS
  <2>1. pc = "measure" /\ at \in DOMAIN chain /\ chain[at].dt.kind = "subset"
    BY <1>1 DEF MeasureUninitialised, CurrentDT
  <2> QED BY <2>1 DEF Subsets
<1>3. ~(MeasureStart /\ CurrentDT = NoDT)
  <2> SUFFICES ASSUME MeasureStart, CurrentDT = NoDT PROVE FALSE
    OBVIOUS
  <2>1. at \in DOMAIN chain /\ chain[at].dt = NoDT
    BY <1>1 DEF MeasureStart, CurrentDT
  <2>2. Fits(file, chain[at])
    BY <2>1 DEF Regular
  <2>3. NoDT.kind \notin {"multi", "subset", "disc"}
    BY DEF NoDT
  <2> QED BY <2>1, <2>2, <2>3, ContIsOne DEF Fits
<1>4. UNCHANGED vars => pc' = pc
  BY DEF vars
<1> QED BY <1>2, <1>3, <1>4, NoSortCrash, SortFlow DEF Alive

LEMMA SoundInv ==
    ASSUME SortedLast, Paired, CountsOnDisk
    PROVE  Spec => [](AllTimed => Sound)
<1>1. Init => Sound
  <2> SUFFICES ASSUME Init PROVE Sound
    OBVIOUS
  <2>1. Regular
    BY RegularInit
  <2>2. /\ pc = "idle" /\ outcome = "none" /\ sd = <<>>
    BY DEF Init
  <2>3. DOMAIN sd = {}
    BY <2>2
  <2>4. ToSD /\ ToDG /\ Handed /\ Alive /\ Unlisted
    BY <2>2, <2>3 DEF ToSD, ToDG, Handed, Alive, Unlisted
  <2>5. Subsets
    <3> SUFFICES ASSUME NEW s \in DOMAIN chain PROVE chain[s].dt.kind # "subset"
      BY DEF Subsets
    <3>1. file \in Files /\ s \in DOMAIN file.dgs
          /\ chain[s] = [src |-> s, cgs |-> file.dgs[s].cgs,
                         hasIDs |-> HasIDs(s), dt |-> LoadedDT(s, Reach(s))]
      BY LoadedChain
    <3>2. chain[s].dt = LoadedDT(s, Reach(s))
      BY <3>1
    <3>3. LoadedDT(s, Reach(s)).kind = IF HasIDs(s) THEN "multi" ELSE "cont"
      BY <3>1, LoadedBlock
    <3> QED BY <3>2, <3>3
  <2> QED BY <2>1, <2>4, <2>5 DEF Sound
<1>2. /\ Shape /\ Shape' /\ AsLoaded /\ LengthKnown /\ CountsRight /\ Apart
      /\ (AllTimed => Sound) /\ [Next]_vars
      => (AllTimed => Sound)'
  <2> SUFFICES ASSUME Shape, Shape', AsLoaded, LengthKnown, CountsRight, Apart,
                      AllTimed => Sound, [Next]_vars, AllTimed'
               PROVE  Sound'
    OBVIOUS
  <2>1. AllTimed
    <3>1. file' = file
      BY Changes
    <3> QED BY <3>1 DEF AllTimed
  <2>2. Regular /\ Unlisted /\ ToSD /\ ToDG /\ Subsets /\ Handed /\ Alive
    BY <2>1 DEF Sound
  <2>3. Regular'
    BY <2>1, <2>2, RegularNext
  <2>4. Unlisted'
    BY <2>2, UnlistedNext
  <2>5. ToSD' /\ ToDG' /\ Subsets'
    BY <2>2, ToSDNext, ToDGNext, SubsetsNext
  <2>6. Handed' /\ Alive'
    BY <2>2, HandedNext, AliveNext
  <2> QED BY <2>3, <2>4, <2>5, <2>6 DEF Sound
<1> QED
  BY <1>1, <1>2, ChainIsSound, AsLoadedInv, LengthKnownInv, CountsRightInv,
     ApartInv, PTL DEF Spec

\* If the groups of fixed size all have a time master, variable-length groups
\* stand behind their own, data groups with several groups come first and the
\* counters on disk are right where finalize() leaves them, then no sequence of
\* calls, whichever of them threw, follows a null pointer or reads the record
\* length that a divided data block lacks.
THEOREM CallsNeverCrash ==
    ASSUME SortedLast, Paired, CountsOnDisk
    PROVE  Spec => []NeverCrashes
<1>1. (AllTimed => Sound) => NeverCrashes
  BY DEF Sound, Alive, NeverCrashes
<1> QED
  BY <1>1, SoundInv, PTL

\* On such a file, of a logger that leaves the counters with the length, an
\* iterator that a call returns covers its group: the count is the number of its
\* records and its data block has them all, in file order, and no record that an
\* SD block has is in a data block too, whatever was called or threw before.
THEOREM IteratorsAreComplete ==
    ASSUME SortedLast, CountedWithLength, Paired, CountsOnDisk
    PROVE  Spec => []IteratorComplete
<1>1. /\ Shape /\ Apart /\ HoldersLinked /\ AllHeld /\ CountsRight
      /\ (AllTimed => Sound)
      => IteratorComplete
  <2> SUFFICES ASSUME Shape, Apart, HoldersLinked, AllHeld, CountsRight, Sound,
                      outcome = "iterator"
               PROVE  /\ \A c \in DOMAIN sd : DTHolders(c) = {}
                      /\ \E i \in DOMAIN chain : \E c \in goal :
                           /\ IsSortedFor(i, c)
                           /\ cycles[c] = Len(AllRecords(c))
                           /\ \/ chain[i].dt = Cont
                              \/ /\ chain[i].dt.kind = "disc"
                                 /\ chain[i].dt.indices[c] = AllRecords(c)
    BY DEF IteratorComplete
  <2>1. Regular /\ Unlisted /\ Found /\ ~Unsorted /\ file \in Files
    BY DEF Sound, Handed, Shape
  <2>2. \A c \in DOMAIN sd : DTHolders(c) = {}
    BY <2>1 DEF Unlisted, HoldersLinked, DTHolders
  <2>3. PICK i \in DOMAIN chain, c \in goal : IsSortedFor(i, c)
    BY <2>1 DEF Found
  <2> DEFINE dg == chain[i]
             s == dg.src
  <2>4. DataGroupOK(file, dg) /\ Fits(file, dg)
    BY <2>1 DEF Shape, Regular
  <2>5. dg.cgs = <<c>> /\ Len(dg.cgs) = 1 /\ GroupsIn(dg) = {c}
    BY <2>3 DEF IsSortedFor, GroupsIn
  <2>6. s \in DOMAIN file.dgs /\ c \in GroupsIn(file.dgs[s])
    BY <2>4, <2>5 DEF DataGroupOK, Fits
  <2>7. AllRecords(c) = Whole(s, c)
    <3> HIDE DEF s
    <3> QED BY <2>1, <2>6, AllRecordsAreWhole
  <2>8. cycles[c] = Len(AllRecords(c))
    BY <2>1, <2>6, <2>7 DEF CountsRight
  <2>9. CASE ~HasIDs(s)
    BY <2>2, <2>3, <2>4, <2>8, <2>9 DEF Fits, HasIDs
  <2>10. CASE HasIDs(s)
    <3>1. dg.dt.kind \in {"multi", "subset", "disc"} /\ DOMAIN dg.dt.indices = {c}
      BY <2>4, <2>5, <2>10 DEF Fits, HasIDs
    <3>2. ~IsMultiple(dg.dt)
      <4>1. ~(Len(dg.cgs) > 1)
        <5>1. \A n : n = 1 => ~(n > 1)
          OBVIOUS
        <5> QED BY <2>5, <5>1, Zenon
      <4> QED BY <2>4, <4>1 DEF Fits
    <3>3. dg.dt.kind = "disc"
      BY <3>1, <3>2 DEF IsMultiple
    <3>4. Held(c, Whole(s, c))
      BY <2>1, <2>6, <2>10 DEF AllHeld
    <3>5. c \notin DOMAIN sd
      BY <2>1, <2>5 DEF Unlisted, LinkedIn
    <3>6. PICK j \in DOMAIN chain :
            c \in DOMAIN chain[j].dt.indices /\ chain[j].dt.indices[c] = Whole(s, c)
      <4> HIDE DEF s
      <4> QED BY <3>4, <3>5 DEF Held
    <3>7. j = i
      BY <3>1, <3>6 DEF Apart
    <3> QED BY <2>2, <2>3, <2>7, <2>8, <3>3, <3>6, <3>7
  <2> QED BY <2>9, <2>10
<1> QED
  BY <1>1, ChainIsSound, ApartInv, HoldersLinkedInv, AllHeldInv, CountsRightInv,
     SoundInv, PTL
=============================================================================
