-------------------------- MODULE Opening_proofs ---------------------------
(***************************************************************************)
(* Proofs about Opening, for files of any number of blocks and any links.  *)
(***************************************************************************)
EXTENDS Opening, SequenceTheorems, FiniteSetTheorems, WellFoundedInduction, TLAPS

-----------------------------------------------------------------------------
(* Counting and recursion.                                                   *)

\* A set of naturals has a least element.
LEMMA LeastNatural ==
    ASSUME NEW T, T \subseteq Nat, T # {}
    PROVE  \E m \in T : \A n \in T : m <= n
<1>1. IsWellFoundedOn(OpToRel(<, Nat), Nat)
  BY NatLessThanWellFounded
<1>2. PICK m \in T : \A n \in T : ~(<<n, m>> \in OpToRel(<, Nat))
  BY <1>1, WFMin
<1>3. \A n \in T : ~(n < m)
  BY <1>2 DEF OpToRel
<1> QED
  BY <1>3

\* What holds of nought, and of a number if of the one before it, holds up to n.
LEMMA CountUp ==
    ASSUME NEW n \in Nat, NEW S, 0 \in S,
           \A m \in 1..n : m - 1 \in S => m \in S
    PROVE  \A m \in 0..n : m \in S
<1> DEFINE T == {m \in 0..n : m \notin S}
<1>1. CASE T = {}
  BY <1>1
<1>2. CASE T # {}
  <2>1. PICK m \in T : \A k \in T : m <= k
    <3>1. T \subseteq Nat
      OBVIOUS
    <3> QED BY <1>2, <3>1, LeastNatural
  <2>2. m \in 1..n /\ m - 1 \in 0..n /\ ~(m <= m - 1)
    BY <2>1
  <2>3. m - 1 \in S
    BY <2>1, <2>2
  <2> QED BY <2>1, <2>2, <2>3
<1> QED BY <1>1, <1>2

\* A function that is given by its value at nought and by how each value comes
\* from the one before it exists.
Unfolds(g, n, base, step) ==
    g = [m \in 0..n |-> IF m = 0 THEN base ELSE step[m][g[m - 1]]]

LEMMA Recursion ==
    ASSUME NEW n \in Nat, NEW T, NEW base \in T, NEW step \in [1..n -> [T -> T]]
    PROVE  \E g \in [0..n -> T] : Unfolds(g, n, base, step)
<1> DEFINE S == {k \in 0..n : \E g \in [0..k -> T] : Unfolds(g, k, base, step)}
<1>1. 0 \in S
  <2> DEFINE g == [m \in 0..0 |-> base]
  <2>1. g \in [0..0 -> T]
    OBVIOUS
  <2>2. g = [m \in 0..0 |-> IF m = 0 THEN base ELSE step[m][g[m - 1]]]
    OBVIOUS
  <2>3. Unfolds(g, 0, base, step)
    BY <2>2 DEF Unfolds
  <2> HIDE DEF g
  <2>4. 0 \in 0..n
    OBVIOUS
  <2> QED BY <2>1, <2>3, <2>4
<1>2. ASSUME NEW k \in 1..n, k - 1 \in S PROVE k \in S
  <2>1. PICK g \in [0..(k - 1) -> T] : Unfolds(g, k - 1, base, step)
    BY <1>2
  <2> DEFINE h == [m \in 0..k |-> IF m = k THEN step[k][g[k - 1]] ELSE g[m]]
  <2>2. g[k - 1] \in T /\ step[k] \in [T -> T]
    BY <2>1
  <2>3. h \in [0..k -> T]
    <3>1. step[k][g[k - 1]] \in T
      BY <2>2
    <3> HIDE <2>2
    <3>2. \A m \in 0..k : m # k => g[m] \in T
      BY <2>1
    <3> QED BY <3>1, <3>2
  <2>4. ASSUME NEW m \in 0..k
        PROVE  h[m] = IF m = 0 THEN base ELSE step[m][h[m - 1]]
    <3>1. CASE m = k
      <4>1. k - 1 \in 0..k /\ k - 1 # k /\ k # 0
        OBVIOUS
      <4>2. h[k - 1] = g[k - 1]
        BY <4>1
      <4> QED BY <3>1, <4>1, <4>2
    <3>2. CASE m # k /\ m # 0
      <4>1. m \in 0..(k - 1) /\ m - 1 \in 0..k /\ m - 1 # k
        BY <3>2
      <4>2. g[m] = step[m][g[m - 1]]
        BY <2>1, <3>2, <4>1 DEF Unfolds
      <4>3. h[m - 1] = g[m - 1] /\ h[m] = g[m]
        BY <3>2, <4>1
      <4> QED BY <3>2, <4>2, <4>3
    <3>3. CASE m # k /\ m = 0
      <4>1. 0 \in 0..(k - 1)
        OBVIOUS
      <4>2. g[0] = base
        BY <2>1, <4>1 DEF Unfolds
      <4> QED BY <3>3, <4>2
    <3> QED BY <3>1, <3>2, <3>3
  <2>5. h = [m \in 0..k |-> h[m]]
    OBVIOUS
  <2> HIDE DEF h
  <2>6. h = [m \in 0..k |-> IF m = 0 THEN base ELSE step[m][h[m - 1]]]
    BY <2>4, <2>5, Zenon
  <2>7. Unfolds(h, k, base, step)
    BY <2>6, Zenon DEF Unfolds
  <2>8. k \in 0..n
    OBVIOUS
  <2> QED BY <2>3, <2>7, <2>8
<1> HIDE DEF S
<1>3. \A m \in 0..n : m \in S
  BY <1>1, <1>2, CountUp
<1>4. n \in S
  BY <1>3
<1> QED BY <1>4 DEF S

-----------------------------------------------------------------------------
(* Closures.                                                                 *)

\* The sets that one gets by going on from a set, one step more at a time.
Spreads(g, n, from, to) ==
    g = [m \in 0..n |-> IF m = 0 THEN from
                        ELSE g[m - 1] \cup UNION {to[a] : a \in g[m - 1]}]

\* They do not leave a set that is closed.
LEMMA SpreadWithin ==
    ASSUME NEW n \in Nat, NEW g, NEW from, NEW to, Spreads(g, n, from, to),
           NEW V, from \subseteq V, \A a \in V : to[a] \subseteq V
    PROVE  \A m \in 0..n : g[m] \subseteq V
<1> DEFINE Z == {m \in 0..n : g[m] \subseteq V}
<1>1. g[0] = from /\ \A m \in 1..n : g[m] = g[m - 1] \cup UNION {to[a] : a \in g[m - 1]}
  <2>1. 0 \in 0..n /\ \A m \in 1..n : m \in 0..n /\ m # 0
    OBVIOUS
  <2> QED BY <2>1 DEF Spreads
<1>2. 0 \in Z
  <2>1. 0 \in 0..n
    OBVIOUS
  <2> QED BY <1>1, <2>1
<1>3. ASSUME NEW m \in 1..n, m - 1 \in Z PROVE m \in Z
  <2>1. m \in 0..n /\ g[m - 1] \subseteq V
    BY <1>3
  <2>2. UNION {to[a] : a \in g[m - 1]} \subseteq V
    BY <2>1
  <2>3. g[m] = g[m - 1] \cup UNION {to[a] : a \in g[m - 1]}
    BY <1>1
  <2> QED BY <2>1, <2>2, <2>3
<1> HIDE DEF Z
<1>4. \A m \in 0..n : m \in Z
  BY <1>2, <1>3, CountUp
<1> QED BY <1>4 DEF Z

\* Within W only the finitely many elements of D lead on.
Bounded(D, W, to) ==
    /\ IsFiniteSet(D)
    /\ \A a \in W : to[a] \subseteq W /\ (a \notin D => to[a] = {})

\* After as many steps as there are elements to go on from, the set is closed.
LEMMA SpreadCloses ==
    ASSUME NEW D, NEW W, NEW to, Bounded(D, W, to), NEW g, NEW from,
           Spreads(g, Cardinality(D), from, to), from \subseteq W
    PROVE  \A a \in g[Cardinality(D)] : to[a] \subseteq g[Cardinality(D)]
<1>0. PICK n \in Nat : n = Cardinality(D)
  BY FS_CardinalityType DEF Bounded
<1>a. Spreads(g, n, from, to) /\ IsFiniteSet(D)
      /\ \A a \in W : to[a] \subseteq W /\ (a \notin D => to[a] = {})
  BY <1>0 DEF Bounded
<1> HIDE DEF Bounded
<1> DEFINE Shut(m) == \A a \in g[m] : to[a] \subseteq g[m]
           Z == {m \in 0..n : Shut(m) \/ Cardinality(g[m] \cap D) >= m + 1}
<1>1. g[0] = from /\ \A m \in 1..n : g[m] = g[m - 1] \cup UNION {to[a] : a \in g[m - 1]}
  <2>1. 0 \in 0..n /\ \A m \in 1..n : m \in 0..n /\ m # 0
    OBVIOUS
  <2> QED BY <1>a, <2>1 DEF Spreads
<1>2. \A m \in 0..n : g[m] \subseteq W
  BY <1>a, SpreadWithin
<1>3. \A m : IsFiniteSet(g[m] \cap D) /\ Cardinality(g[m] \cap D) \in Nat
             /\ Cardinality(g[m] \cap D) <= n
  <2> SUFFICES ASSUME NEW m
               PROVE  IsFiniteSet(g[m] \cap D) /\ Cardinality(g[m] \cap D) \in Nat
                      /\ Cardinality(g[m] \cap D) <= n
    OBVIOUS
  <2>1. g[m] \cap D \in SUBSET D
    OBVIOUS
  <2> QED BY <1>0, <1>a, <2>1, FS_Subset, FS_CardinalityType
<1>4. ASSUME NEW m \in 0..n, ~Shut(m)
      PROVE  \E a \in g[m] \cap D : ~(to[a] \subseteq g[m])
  <2>1. PICK a \in g[m] : ~(to[a] \subseteq g[m])
    BY <1>4
  <2>2. a \in W
    BY <1>2
  <2>3. to[a] # {}
    BY <2>1
  <2> QED BY <1>a, <2>1, <2>2, <2>3
<1>5. 0 \in Z
  <2>1. 0 \in 0..n
    OBVIOUS
  <2>2. CASE ~Shut(0)
    <3>1. g[0] \cap D # {}
      BY <1>4, <2>1, <2>2
    <3>2. Cardinality(g[0] \cap D) # 0
      BY <1>3, <3>1, FS_EmptySet
    <3>3. Cardinality(g[0] \cap D) >= 0 + 1
      <4> DEFINE c == Cardinality(g[0] \cap D)
      <4>1. c \in Nat /\ c # 0
        BY <1>3, <3>2
      <4> HIDE DEF c
      <4>2. c >= 0 + 1
        BY <4>1
      <4> QED BY <4>2 DEF c
    <3> HIDE DEF Shut
    <3> QED BY <2>1, <3>3
  <2> HIDE DEF Shut
  <2> QED BY <2>1, <2>2
<1>6. ASSUME NEW m \in 1..n, m - 1 \in Z PROVE m \in Z
  <2>0. m \in 0..n /\ m - 1 \in 0..n
    OBVIOUS
  <2>1. CASE Shut(m)
    <3> HIDE DEF Shut
    <3> QED BY <2>0, <2>1
  <2>2. CASE ~Shut(m)
    <3>1. g[m] = g[m - 1] \cup UNION {to[a] : a \in g[m - 1]}
      BY <1>1
    <3>2. ~Shut(m - 1)
      <4> SUFFICES ASSUME Shut(m - 1) PROVE FALSE
        OBVIOUS
      <4>1. g[m] = g[m - 1]
        BY <3>1
      <4> QED BY <2>2, <4>1
    <3>3. PICK a \in g[m] \cap D : ~(to[a] \subseteq g[m])
      BY <1>4, <2>0, <2>2
    <3>4. a \notin g[m - 1]
      BY <3>1, <3>3
    <3> HIDE DEF Shut
    <3>5. Cardinality(g[m - 1] \cap D) >= (m - 1) + 1
      BY <1>6, <3>2
    <3>6. (g[m - 1] \cap D) \cup {a} \in SUBSET (g[m] \cap D)
      BY <3>1, <3>3
    <3> DEFINE A == g[m - 1] \cap D
               B == g[m] \cap D
    <3>7. IsFiniteSet(A) /\ Cardinality(A) \in Nat /\ IsFiniteSet(B) /\ Cardinality(B) \in Nat
      BY <1>3
    <3>8. Cardinality(A \cup {a}) = Cardinality(A) + 1
      <4>1. a \notin A
        BY <3>4
      <4> HIDE DEF A
      <4> QED BY <3>7, <4>1, FS_AddElement
    <3>9. Cardinality(A \cup {a}) <= Cardinality(B)
      <4>1. A \cup {a} \in SUBSET B
        BY <3>6
      <4> HIDE DEF A, B
      <4> QED BY <3>7, <4>1, FS_Subset
    <3> HIDE DEF A, B
    <3>10. Cardinality(B) >= m + 1
      <4>1. Cardinality(A) >= (m - 1) + 1
        BY <3>5 DEF A
      <4> QED BY <3>7, <3>8, <3>9, <4>1
    <3> QED BY <2>0, <3>10 DEF B
  <2> QED BY <2>1, <2>2
<1> HIDE DEF Z
<1>7. \A m \in 0..n : m \in Z
  BY <1>5, <1>6, CountUp
<1>8. n \in 0..n /\ n \in Z
  BY <1>7
<1>9. ~(Cardinality(g[n] \cap D) >= n + 1)
  <2> DEFINE c == Cardinality(g[n] \cap D)
  <2>1. c \in Nat /\ c <= n
    BY <1>3
  <2> HIDE DEF c
  <2>2. ~(c >= n + 1)
    BY <2>1
  <2> QED BY <2>2 DEF c
<1> QED BY <1>0, <1>8, <1>9 DEF Z

\* Such a sequence of sets exists.
LEMMA SpreadExists ==
    ASSUME NEW n \in Nat, NEW W, NEW from, NEW to, from \subseteq W,
           \A a \in W : to[a] \subseteq W
    PROVE  \E g : Spreads(g, n, from, to)
<1> DEFINE step(X) == X \cup UNION {to[a] : a \in X}
           T == SUBSET W
           steps == [m \in 1..n |-> [X \in T |-> step(X)]]
<1>1. \A X \in T : step(X) \in T
  OBVIOUS
<1> HIDE DEF step
<1>2. steps \in [1..n -> [T -> T]] /\ from \in T
  BY <1>1
<1>3. PICK g \in [0..n -> T] : Unfolds(g, n, from, steps)
  <2> HIDE DEF steps, T
  <2> QED BY <1>2, Recursion
<1>4. \A m \in 1..n : steps[m][g[m - 1]] = step(g[m - 1])
  <2> HIDE DEF T
  <2>1. ASSUME NEW m \in 1..n PROVE g[m - 1] \in T
    <3>1. m - 1 \in 0..n
      OBVIOUS
    <3> QED BY <1>3, <3>1
  <2> QED BY <2>1
<1>5. g = [m \in 0..n |-> IF m = 0 THEN from ELSE step(g[m - 1])]
  <2>1. g = [m \in 0..n |-> IF m = 0 THEN from ELSE steps[m][g[m - 1]]]
    BY <1>3 DEF Unfolds
  <2> HIDE DEF steps
  <2>2. ASSUME NEW m \in 0..n
        PROVE  (IF m = 0 THEN from ELSE steps[m][g[m - 1]]) =
               (IF m = 0 THEN from ELSE step(g[m - 1]))
    <3>1. m # 0 => m \in 1..n
      OBVIOUS
    <3> QED BY <1>4, <3>1
  <2> QED BY <2>1, <2>2, Zenon
<1>6. Spreads(g, n, from, to)
  BY <1>5, Zenon DEF step, Spreads
<1> QED BY <1>6

SpreadBy(g, W, T, from, to) ==
    /\ Spreads(g, Cardinality(DOMAIN to), from, T)
    /\ Closure(from, to) = g[Cardinality(DOMAIN to)]
    /\ from \subseteq W /\ Bounded(DOMAIN to, W, T)
    /\ \A a \in W : T[a] = IF a \in DOMAIN to THEN to[a] ELSE {}

\* The closure is the last of them.
LEMMA ClosureSpreads ==
    ASSUME NEW from, NEW to, IsFiniteSet(DOMAIN to)
    PROVE  \E g, W, T : SpreadBy(g, W, T, from, to)
<1> DEFINE D == DOMAIN to
           W == from \cup D \cup UNION {to[r] : r \in D}
           T == [a \in W |-> IF a \in D THEN to[a] ELSE {}]
           step(X) == X \cup UNION {to[a] : a \in X \cap D}
<1>0. PICK n \in Nat : n = Cardinality(D)
  BY FS_CardinalityType
<1> DEFINE eq(g) == g = [m \in 0..n |-> IF m = 0 THEN from ELSE step(g[m - 1])]
           upto == CHOOSE g : eq(g)
<1>1. /\ from \subseteq W /\ \A a \in W : T[a] = IF a \in D THEN to[a] ELSE {}
      /\ \A a \in W : T[a] \subseteq W /\ (a \notin D => T[a] = {})
  OBVIOUS
<1> HIDE DEF T, W
<1>2. \A X : X \subseteq W => step(X) = X \cup UNION {T[a] : a \in X} /\ step(X) \subseteq W
  <2> SUFFICES ASSUME NEW X, X \subseteq W
               PROVE  step(X) = X \cup UNION {T[a] : a \in X} /\ step(X) \subseteq W
    OBVIOUS
  <2>1. \A a \in X : /\ T[a] = (IF a \in D THEN to[a] ELSE {}) /\ T[a] \subseteq W
    BY <1>1
  <2>2. UNION {T[a] : a \in X} = UNION {to[a] : a \in X \cap D}
    <3> HIDE DEF D
    <3> QED BY <2>1
  <2> QED BY <2>1, <2>2
<1> HIDE DEF step
<1>3. PICK g : Spreads(g, n, from, T)
  <2> QED BY <1>0, <1>1, SpreadExists
<1>4. \A m \in 0..n : g[m] \subseteq W
  <2> QED BY <1>1, <1>3, SpreadWithin
<1>5. eq(g)
  <2>1. g = [m \in 0..n |-> IF m = 0 THEN from
                            ELSE g[m - 1] \cup UNION {T[a] : a \in g[m - 1]}]
    BY <1>3 DEF Spreads
  <2>2. ASSUME NEW m \in 0..n
        PROVE  (IF m = 0 THEN from ELSE g[m - 1] \cup UNION {T[a] : a \in g[m - 1]}) =
               (IF m = 0 THEN from ELSE step(g[m - 1]))
    <3>1. m # 0 => g[m - 1] \subseteq W
      <4>1. m # 0 => m - 1 \in 0..n
        BY <1>0
      <4> QED BY <1>4, <4>1
    <3> QED BY <1>2, <3>1
  <2> QED BY <2>1, <2>2, Zenon
<1>6. upto = [m \in 0..n |-> IF m = 0 THEN from ELSE step(upto[m - 1])]
  BY <1>5, Zenon
<1>7. Closure(from, to) = upto[n]
  BY <1>0, Zenon DEF Closure, step
<1> HIDE DEF upto
<1>8. \A m \in 0..n : upto[m] \subseteq W
  <2> DEFINE Z == {m \in 0..n : upto[m] \subseteq W}
  <2>1. 0 \in Z
    <3>1. 0 \in 0..n
      BY <1>0
    <3> QED BY <1>1, <1>6, <3>1
  <2>2. ASSUME NEW m \in 1..n, m - 1 \in Z PROVE m \in Z
    <3>1. m \in 0..n /\ m # 0 /\ upto[m - 1] \subseteq W
      BY <2>2
    <3>2. upto[m] = step(upto[m - 1])
      BY <1>6, <3>1
    <3> QED BY <1>2, <3>1, <3>2
  <2> HIDE DEF Z
  <2>3. \A m \in 0..n : m \in Z
    BY <1>0, <2>1, <2>2, CountUp
  <2> QED BY <2>3 DEF Z
<1>9. Spreads(upto, n, from, T)
  <2>1. ASSUME NEW m \in 0..n
        PROVE  (IF m = 0 THEN from ELSE step(upto[m - 1])) =
               (IF m = 0 THEN from
                ELSE upto[m - 1] \cup UNION {T[a] : a \in upto[m - 1]})
    <3>1. m # 0 => upto[m - 1] \subseteq W
      <4>1. m # 0 => m - 1 \in 0..n
        BY <1>0
      <4> QED BY <1>8, <4>1
    <3> QED BY <1>2, <3>1
  <2>2. upto = [m \in 0..n |-> IF m = 0 THEN from
                ELSE upto[m - 1] \cup UNION {T[a] : a \in upto[m - 1]}]
    BY <1>6, <2>1, Zenon
  <2> QED BY <2>2, Zenon DEF Spreads
<1>10. Bounded(D, W, T)
  BY <1>1 DEF Bounded
<1> HIDE DEF D
<1>11. /\ Spreads(upto, Cardinality(D), from, T) /\ Closure(from, to) = upto[Cardinality(D)]
       /\ from \subseteq W /\ Bounded(D, W, T)
       /\ \A a \in W : T[a] = IF a \in D THEN to[a] ELSE {}
  BY <1>0, <1>1, <1>7, <1>9, <1>10
<1> HIDE DEF eq
<1>12. SpreadBy(upto, W, T, from, to)
  BY <1>11, Zenon DEF D, SpreadBy
<1> QED BY <1>12, Zenon

\* The closure stays in every set that holds where it starts and is closed.
LEMMA ClosureIsLeast ==
    ASSUME NEW from, NEW to, IsFiniteSet(DOMAIN to), NEW V, from \subseteq V,
           \A a \in V \cap DOMAIN to : to[a] \subseteq V
    PROVE  Closure(from, to) \subseteq V
<1> DEFINE D == DOMAIN to
<1>0. PICK g, W, T : SpreadBy(g, W, T, from, to)
  BY ClosureSpreads, Zenon
<1>1. /\ Spreads(g, Cardinality(D), from, T)
      /\ Closure(from, to) = g[Cardinality(D)]
      /\ from \subseteq W /\ Bounded(D, W, T)
      /\ \A a \in W : T[a] = IF a \in D THEN to[a] ELSE {}
  BY <1>0 DEF SpreadBy
<1>2. \A a \in V \cap W : T[a] \subseteq V \cap W
  BY <1>1 DEF Bounded
<1>3. from \subseteq V \cap W
  BY <1>1
<1>4. PICK n \in Nat : n = Cardinality(D)
  BY FS_CardinalityType
<1> HIDE DEF D
<1>5. \A m \in 0..n : g[m] \subseteq V \cap W
  <2> DEFINE V2 == V \cap W
  <2>1. Spreads(g, n, from, T) /\ from \subseteq V2 /\ \A a \in V2 : T[a] \subseteq V2
    BY <1>1, <1>2, <1>3, <1>4
  <2> HIDE DEF V2
  <2>2. \A m \in 0..n : g[m] \subseteq V2
    BY <2>1, <1>4, SpreadWithin
  <2> QED BY <2>2 DEF V2
<1>6. n \in 0..n
  BY <1>4
<1> QED BY <1>1, <1>4, <1>5, <1>6

\* It holds where it starts, and is closed itself.
LEMMA ClosureIsClosed ==
    ASSUME NEW from, NEW to, IsFiniteSet(DOMAIN to)
    PROVE  /\ from \subseteq Closure(from, to)
           /\ \A a \in Closure(from, to) \cap DOMAIN to : to[a] \subseteq Closure(from, to)
<1> DEFINE D == DOMAIN to
<1>0. PICK g, W, T : SpreadBy(g, W, T, from, to)
  BY ClosureSpreads, Zenon
<1>1. /\ Spreads(g, Cardinality(D), from, T)
      /\ Closure(from, to) = g[Cardinality(D)]
      /\ from \subseteq W /\ Bounded(D, W, T)
      /\ \A a \in W : T[a] = IF a \in D THEN to[a] ELSE {}
  BY <1>0 DEF SpreadBy
<1>2. PICK n \in Nat : n = Cardinality(D)
  BY FS_CardinalityType
<1> HIDE DEF D
<1>3. Spreads(g, n, from, T) /\ \A a \in W : T[a] \subseteq W
  BY <1>1, <1>2 DEF Bounded
<1>4. \A m \in 0..n : g[m] \subseteq W
  BY <1>1, <1>3, SpreadWithin
<1>5. \A a \in g[n] : T[a] \subseteq g[n]
  BY <1>1, <1>2, SpreadCloses
<1>6. \A m \in 0..n : from \subseteq g[m]
  <2> DEFINE Z == {m \in 0..n : from \subseteq g[m]}
  <2>1. g[0] = from /\ \A m \in 1..n : g[m] = g[m - 1] \cup UNION {T[a] : a \in g[m - 1]}
    <3>1. 0 \in 0..n /\ \A m \in 1..n : m \in 0..n /\ m # 0
      OBVIOUS
    <3> QED BY <1>3, <3>1 DEF Spreads
  <2>2. 0 \in Z
    <3>1. 0 \in 0..n
      OBVIOUS
    <3> QED BY <2>1, <3>1
  <2>3. ASSUME NEW m \in 1..n, m - 1 \in Z PROVE m \in Z
    <3>1. m \in 0..n /\ from \subseteq g[m - 1]
      BY <2>3
    <3> QED BY <2>1, <3>1
  <2> HIDE DEF Z
  <2>4. \A m \in 0..n : m \in Z
    BY <2>2, <2>3, CountUp
  <2> QED BY <2>4 DEF Z
<1>7. n \in 0..n
  OBVIOUS
<1>8. Closure(from, to) = g[n]
  BY <1>1, <1>2
<1>9. \A a \in g[n] \cap D : to[a] \subseteq g[n]
  BY <1>1, <1>4, <1>5, <1>7
<1> QED BY <1>6, <1>7, <1>8, <1>9 DEF D

-----------------------------------------------------------------------------
(* What the loader keeps while it runs, of the file d, its calls st, the      *)
(* address w it wants, what it returns rt, the map bm, the objects h and the  *)
(* place ps of the stream.                                                    *)

Frames == [addr : Nat, links : Seq(Nat), back : Seq(Nat)]
Types == STRING \cup {"DG", "SD"}
Kinds == {"raw", "cont", "", "multi", "disc", "subset"}
Blocks == [type : Types, addr : Nat, loc : Nat, links : Seq(Nat), size : Nat,
           records : Nat, vlsd : BOOLEAN, kind : Kinds]

Typed(d, st, w, rt, bm, h) ==
    /\ DiskOK(d) /\ h \in Seq(Blocks)
    /\ bm \in [DOMAIN bm -> 0..Len(h)] /\ DOMAIN bm \subseteq DOMAIN d
    /\ st \in Seq(Frames) /\ w \in Nat /\ rt \in Seq(Nat) /\ Len(rt) \in 0..1

\* The link that a call is at, if it has one left.
Room(d, f) == Len(f.links) < Len(d[f.addr].links)
NextLink(d, f) == d[f.addr].links[Len(f.links) + 1]

\* A pointer for a link to a: to the block loaded from there, or null.
Right(d, bm, p, a) ==
    IF a # 0 /\ d[a].type \in Known THEN a \in DOMAIN bm /\ p = bm[a] /\ p # 0
    ELSE p = 0

\* A running call: its block is not loaded, its pointers are those of the links
\* it has been through.
Running(d, bm, f) ==
    /\ f.addr \in DOMAIN d /\ f.addr \notin DOMAIN bm
    /\ Len(f.links) <= Len(d[f.addr].links)
    /\ \A i \in 1..Len(f.links) : Right(d, bm, f.links[i], d[f.addr].links[i])

\* A call that waits for an inner one: it is at the link that leads there and
\* knows where the stream goes on.
Waiting(d, f, a) ==
    Room(d, f) /\ NextLink(d, f) = a /\ f.back = <<f.addr, Len(f.links) + 2>>

Calls(d, st, bm) ==
    /\ st # <<>> => st[1].addr = 64
    /\ \A k \in 1..Len(st) : Running(d, bm, st[k])
    /\ \A k \in 1..(Len(st) - 1) : Waiting(d, st[k], st[k + 1].addr)
    /\ \A k \in 1..Len(st) : \A j \in 1..k :
          st[j].addr = st[k].addr => Len(st[k].links) <= Len(st[j].links)

\* The innermost call wants a block, has got one, or goes on from the place of
\* its next link.
Innermost(d, st, w, rt, bm, ps) ==
    LET f == st[Len(st)] IN
    /\ w # 0 => Waiting(d, f, w)
    /\ rt # <<>> =>
        /\ Waiting(d, f, NextLink(d, f)) /\ NextLink(d, f) # 0
        /\ \A k \in 1..Len(st) : st[k].addr # NextLink(d, f)
        /\ Right(d, bm, rt[1], NextLink(d, f))
    /\ w = 0 /\ rt = <<>> => ps = <<f.addr, Len(f.links) + 1>>

Walking(d, st, w, rt, bm, ps) ==
    /\ Calls(d, st, bm)
    /\ w # 0 => rt = <<>>
    /\ st = <<>> /\ w # 0 => w = 64 /\ DOMAIN bm = {}
    /\ 64 \in DOMAIN bm => bm[64] # 0
    /\ st # <<>> => Innermost(d, st, w, rt, bm, ps)

GroupFirst(h, p) == p \in DOMAIN h /\ h[p].type = "CG"
Cleared(d, h, o, i) ==
    /\ i = 3 /\ o.type = "DG" /\ d[o.addr].read = "all"
    /\ ~GroupFirst(h, o.links[2])

\* The object o is the block at a.
Faithful(d, bm, h, a, o) ==
    /\ o.addr = a /\ o.type = d[a].type /\ Len(o.links) = Len(d[a].links)
    /\ \A i \in 1..Len(o.links) :
          IF Cleared(d, h, o, i) THEN o.links[i] = 0
          ELSE Right(d, bm, o.links[i], d[a].links[i])

Mapped(d, bm, h) ==
    \A a \in DOMAIN bm :
        /\ d[a].type \in Known
        /\ bm[a] = 0 => \E b \in DOMAIN bm : DataOf(d, b, a)
        /\ bm[a] # 0 => Faithful(d, bm, h, a, h[bm[a]])

Loading(d, st, w, rt, bm, h, ps) ==
    /\ DataOnce(d) /\ Typed(d, st, w, rt, bm, h)
    /\ Walking(d, st, w, rt, bm, ps) /\ Mapped(d, bm, h)

-----------------------------------------------------------------------------
(* The walk along the links.                                                 *)

LEMMA FrontOf ==
    ASSUME NEW S, NEW s \in Seq(S), s # <<>>
    PROVE  /\ Front(s) \in Seq(S) /\ Len(Front(s)) = Len(s) - 1
           /\ \A k \in 1..(Len(s) - 1) : Front(s)[k] = s[k]
<1> DEFINE n == Len(s) - 1
<1>1. n \in Nat /\ 1 \in Int /\ \A k \in 1..n : k \in 1..Len(s)
  OBVIOUS
<1>2. \A k \in 1..n : s[k] \in S
  BY <1>1
<1>3. Front(s) = SubSeq(s, 1, n)
  BY DEF Front
<1> HIDE DEF n
<1>4. /\ SubSeq(s, 1, n) \in Seq(S)
      /\ Len(SubSeq(s, 1, n)) = IF 1 <= n THEN n - 1 + 1 ELSE 0
      /\ \A k \in 1..(n - 1 + 1) : SubSeq(s, 1, n)[k] = s[1 + k - 1]
  BY <1>1, <1>2, SubSeqProperties
<1>5. (IF 1 <= n THEN n - 1 + 1 ELSE 0) = n /\ n - 1 + 1 = n
  BY <1>1
<1>6. \A k \in 1..n : 1 + k - 1 = k
  BY <1>1
<1> QED BY <1>3, <1>4, <1>5, <1>6 DEF n

LEMMA FrameFields ==
    ASSUME NEW f \in Frames
    PROVE  f.addr \in Nat /\ f.links \in Seq(Nat) /\ Len(f.links) \in Nat
<1>1. f.addr \in Nat /\ f.links \in Seq(Nat)
  BY DEF Frames
<1> QED BY <1>1

LEMMA FrameWithLinks ==
    ASSUME NEW f \in Frames, NEW s \in Seq(Nat)
    PROVE  LET g == [f EXCEPT !.links = s]
           IN g \in Frames /\ g.addr = f.addr /\ g.back = f.back /\ g.links = s
BY DEF Frames

LEMMA FrameWithBack ==
    ASSUME NEW f \in Frames, NEW s \in Seq(Nat)
    PROVE  LET g == [f EXCEPT !.back = s]
           IN g \in Frames /\ g.addr = f.addr /\ g.links = f.links /\ g.back = s
BY DEF Frames

\* A call that has been through its links is the only one for its block.
LEMMA TopAlone ==
    ASSUME NEW d, NEW st, NEW bm, DiskOK(d), st \in Seq(Frames), st # <<>>,
           Calls(d, st, bm), ~Room(d, st[Len(st)])
    PROVE  \A k \in 1..(Len(st) - 1) : st[k].addr # st[Len(st)].addr
<1> SUFFICES ASSUME NEW k \in 1..(Len(st) - 1), st[k].addr = st[Len(st)].addr
             PROVE  FALSE
  OBVIOUS
<1> DEFINE f == st[Len(st)]
<1>1. Len(st) \in 1..Len(st) /\ k \in 1..Len(st)
  OBVIOUS
<1>2. f \in Frames /\ st[k] \in Frames
  BY <1>1
<1>3. Len(f.links) <= Len(st[k].links)
  BY <1>1 DEF Calls
<1>4. Len(st[k].links) < Len(d[f.addr].links)
  BY DEF Calls, Waiting, Room
<1>5. Len(f.links) \in Nat /\ Len(st[k].links) \in Nat
  BY <1>2, FrameFields
<1>6. Len(d[f.addr].links) \in Nat
  <2>1. f.addr \in DOMAIN d
    BY <1>1 DEF Calls, Running
  <2> QED BY <2>1 DEF DiskOK
<1>7. Len(f.links) < Len(d[f.addr].links)
  BY <1>3, <1>4, <1>5, <1>6
<1> QED BY <1>7 DEF Room

\* The innermost call goes on to its next link with the pointer of this one.
LEMMA LinkTaken ==
    ASSUME NEW d, NEW st, NEW bm, NEW p \in Nat, NEW ps, DiskOK(d),
           st \in Seq(Frames), st # <<>>, Calls(d, st, bm),
           Room(d, st[Len(st)]), Right(d, bm, p, NextLink(d, st[Len(st)])),
           \A k \in 1..Len(st) : st[k].addr # NextLink(d, st[Len(st)]),
           ps = <<st[Len(st)].addr, Len(st[Len(st)].links) + 2>>
    PROVE  LET st2 == [st EXCEPT ![Len(st)] =
                          [st[Len(st)] EXCEPT !.links = Append(@, p)]]
           IN /\ st2 \in Seq(Frames) /\ st2 # <<>> /\ Calls(d, st2, bm)
              /\ Innermost(d, st2, 0, <<>>, bm, ps)
<1> DEFINE n == Len(st)
           f == st[n]
           g == [f EXCEPT !.links = Append(@, p)]
           st2 == [st EXCEPT ![n] = g]
<1>1. n \in Nat /\ n \in 1..n /\ n >= 1
  OBVIOUS
<1>2. f \in Frames
  BY <1>1
<1>3. /\ g \in Frames /\ g.addr = f.addr /\ g.back = f.back
      /\ g.links = Append(f.links, p)
  <2>1. Append(f.links, p) \in Seq(Nat)
    BY <1>2, FrameFields
  <2> QED BY <1>2, <2>1, FrameWithLinks
<1>4. /\ Len(g.links) = Len(f.links) + 1 /\ Len(f.links) \in Nat
      /\ g.links[Len(f.links) + 1] = p
      /\ \A i \in 1..Len(f.links) : g.links[i] = f.links[i]
  <2>1. f.links \in Seq(Nat)
    BY <1>2 DEF Frames
  <2> QED BY <1>3, <2>1
<1> HIDE DEF g
<1>5. /\ st2 \in Seq(Frames) /\ Len(st2) = n /\ st2[n] = g
      /\ \A k \in 1..n : k # n => st2[k] = st[k]
  BY <1>1, <1>3
<1> HIDE DEF st2
<1>6. \A k \in 1..n : st2[k].addr = st[k].addr
  BY <1>3, <1>5
<1>7. Len(d[f.addr].links) \in Nat
  <2>1. f.addr \in DOMAIN d
    BY <1>1 DEF Calls, Running
  <2> QED BY <2>1 DEF DiskOK
<1>8. Running(d, bm, g)
  <2>1. Running(d, bm, f)
    BY <1>1 DEF Calls
  <2>2. Len(g.links) <= Len(d[g.addr].links)
    BY <1>3, <1>4, <1>7 DEF Room
  <2>3. ASSUME NEW i \in 1..Len(g.links)
        PROVE  Right(d, bm, g.links[i], d[g.addr].links[i])
    <3>1. CASE i \in 1..Len(f.links)
      <4>1. Right(d, bm, f.links[i], d[f.addr].links[i])
        BY <2>1, <3>1 DEF Running
      <4> QED BY <1>3, <1>4, <3>1, <4>1
    <3>2. CASE i = Len(f.links) + 1
      BY <1>3, <1>4, <3>2 DEF NextLink
    <3> QED BY <1>4, <3>1, <3>2
  <2> QED BY <1>3, <2>1, <2>2, <2>3 DEF Running
<1>9. Calls(d, st2, bm)
  <2>1. st2[1].addr = 64
    <3>1. 1 \in 1..n
      BY <1>1
    <3> QED BY <1>6, <3>1 DEF Calls
  <2>2. ASSUME NEW k \in 1..Len(st2) PROVE Running(d, bm, st2[k])
    BY <1>5, <1>8, <2>2 DEF Calls
  <2>3. ASSUME NEW k \in 1..(Len(st2) - 1)
        PROVE  Waiting(d, st2[k], st2[k + 1].addr)
    <3>1. k \in 1..(n - 1) /\ k \in 1..n /\ k + 1 \in 1..n /\ k # n
      BY <1>1, <1>5
    <3>2. Waiting(d, st[k], st[k + 1].addr)
      BY <3>1 DEF Calls
    <3> QED BY <1>5, <1>6, <3>1, <3>2
  <2>4. ASSUME NEW k \in 1..n, NEW j \in 1..k, st2[j].addr = st2[k].addr
        PROVE  Len(st2[k].links) <= Len(st2[j].links)
    <3>1. j \in 1..n /\ st[j].addr = st[k].addr
      <4>1. j \in 1..n
        BY <1>1
      <4> QED BY <1>6, <2>4, <4>1
    <3>2. Len(st[k].links) <= Len(st[j].links)
      BY <3>1 DEF Calls
    <3>3. CASE k # n
      <4>1. j # n
        BY <1>1, <3>3
      <4> QED BY <1>5, <3>1, <3>2, <3>3, <4>1
    <3>4. CASE k = n /\ j = n
      BY <1>4, <1>5, <3>4
    <3>5. CASE k = n /\ j # n
      <4>1. j \in 1..(n - 1) /\ j + 1 \in 1..n
        BY <1>1, <3>1, <3>5
      <4>2. Waiting(d, st[j], st[j + 1].addr)
        BY <4>1 DEF Calls
      <4>3. Len(st[j].links) # Len(f.links)
        <5>1. SUFFICES ASSUME Len(st[j].links) = Len(f.links) PROVE FALSE
          OBVIOUS
        <5>2. NextLink(d, st[j]) = NextLink(d, f)
          BY <3>1, <3>5, <5>1 DEF NextLink
        <5> QED BY <4>1, <4>2, <5>2 DEF Waiting
      <4>4. Len(st[j].links) \in Nat
        <5>1. st[j] \in Frames
          BY <3>1
        <5> QED BY <5>1, FrameFields
      <4>5. Len(f.links) + 1 <= Len(st[j].links)
        BY <1>4, <3>2, <3>5, <4>3, <4>4
      <4> QED BY <1>4, <1>5, <3>1, <3>5, <4>5
    <3> QED BY <3>3, <3>4, <3>5
  <2> QED BY <1>5, <2>1, <2>2, <2>3, <2>4 DEF Calls
<1>10. Innermost(d, st2, 0, <<>>, bm, ps)
  <2>1. ps = <<g.addr, Len(g.links) + 1>>
    BY <1>3, <1>4
  <2> QED BY <1>5, <2>1 DEF Innermost
<1>11. st2 # <<>>
  BY <1>1, <1>5
<1> QED BY <1>5, <1>9, <1>10, <1>11 DEF st2, g

\* The innermost call is about to make one for its next link.
LEMMA LinkFollowed ==
    ASSUME NEW d, NEW st, NEW bm, NEW ps, DiskOK(d),
           st \in Seq(Frames), st # <<>>, Calls(d, st, bm),
           Room(d, st[Len(st)]), NextLink(d, st[Len(st)]) # 0,
           ps = <<st[Len(st)].addr, Len(st[Len(st)].links) + 2>>
    PROVE  LET st2 == [st EXCEPT ![Len(st)] = [st[Len(st)] EXCEPT !.back = ps]]
           IN /\ st2 \in Seq(Frames) /\ st2 # <<>> /\ Calls(d, st2, bm)
              /\ Innermost(d, st2, NextLink(d, st[Len(st)]), <<>>, bm, ps)
<1> DEFINE n == Len(st)
           f == st[n]
           g == [f EXCEPT !.back = ps]
           st2 == [st EXCEPT ![n] = g]
<1>1. n \in Nat /\ n \in 1..n /\ n >= 1
  OBVIOUS
<1>2. f \in Frames
  BY <1>1
<1>3. /\ g \in Frames /\ g.addr = f.addr /\ g.back = ps /\ g.links = f.links
  <2>1. f.addr \in Nat /\ Len(f.links) + 2 \in Nat
    BY <1>2, FrameFields
  <2> HIDE DEF f
  <2>2. ps \in Seq(Nat)
    BY <2>1 DEF f
  <2> QED BY <1>2, <2>2, FrameWithBack
<1> HIDE DEF g
<1>5. /\ st2 \in Seq(Frames) /\ Len(st2) = n /\ st2[n] = g
      /\ \A k \in 1..n : k # n => st2[k] = st[k]
  BY <1>1, <1>3
<1> HIDE DEF st2
<1>6. \A k \in 1..n : st2[k].addr = st[k].addr /\ st2[k].links = st[k].links
  BY <1>3, <1>5
<1>9. Calls(d, st2, bm)
  <2>1. st2[1].addr = 64
    <3>1. 1 \in 1..n
      BY <1>1
    <3> QED BY <1>6, <3>1 DEF Calls
  <2>2. ASSUME NEW k \in 1..n PROVE Running(d, bm, st2[k])
    <3>1. Running(d, bm, st[k])
      BY DEF Calls
    <3> QED BY <1>6, <3>1 DEF Running
  <2>3. ASSUME NEW k \in 1..(n - 1)
        PROVE  Waiting(d, st2[k], st2[k + 1].addr)
    <3>1. k \in 1..n /\ k + 1 \in 1..n /\ k # n
      BY <1>1, <1>5
    <3>2. Waiting(d, st[k], st[k + 1].addr)
      BY <2>3 DEF Calls
    <3> QED BY <1>5, <1>6, <3>1, <3>2
  <2>4. ASSUME NEW k \in 1..n, NEW j \in 1..k, st2[j].addr = st2[k].addr
        PROVE  Len(st2[k].links) <= Len(st2[j].links)
    <3>1. j \in 1..n
      BY <1>1
    <3>2. st[j].addr = st[k].addr
      BY <1>6, <2>4, <3>1
    <3>3. Len(st[k].links) <= Len(st[j].links)
      BY <3>2 DEF Calls
    <3> QED BY <1>6, <3>1, <3>3
  <2> QED BY <1>5, <2>1, <2>2, <2>3, <2>4 DEF Calls
<1>10. Innermost(d, st2, NextLink(d, f), <<>>, bm, ps)
  <2>1. NextLink(d, g) = NextLink(d, f) /\ Room(d, g)
    BY <1>3 DEF NextLink, Room
  <2>2. Waiting(d, g, NextLink(d, f))
    BY <1>3, <2>1 DEF Waiting
  <2> QED BY <1>5, <2>2 DEF Innermost
<1>11. st2 # <<>>
  BY <1>1, <1>5
<1> QED BY <1>5, <1>9, <1>10, <1>11 DEF st2, g

\* A call for a block that is not loaded.
LEMMA CallMade ==
    ASSUME NEW d, NEW st, NEW bm, NEW w \in Nat, NEW ps, DiskOK(d),
           st \in Seq(Frames), Calls(d, st, bm), w \in DOMAIN d, w \notin DOMAIN bm,
           st = <<>> => w = 64,
           st # <<>> => Waiting(d, st[Len(st)], w),
           ps = <<w, 1>>
    PROVE  LET st2 == Append(st, [addr |-> w, links |-> <<>>, back |-> <<>>])
           IN /\ st2 \in Seq(Frames) /\ st2 # <<>> /\ Calls(d, st2, bm)
              /\ Innermost(d, st2, 0, <<>>, bm, ps)
<1> DEFINE n == Len(st)
           g == [addr |-> w, links |-> <<>>, back |-> <<>>]
           st2 == Append(st, g)
<1>1. n \in Nat
  OBVIOUS
<1>2. g \in Frames /\ g.addr = w /\ g.links = <<>> /\ Len(g.links) = 0
  BY DEF Frames
<1> HIDE DEF g
<1>3. /\ st2 \in Seq(Frames) /\ Len(st2) = n + 1 /\ st2[n + 1] = g
      /\ \A k \in 1..n : st2[k] = st[k]
  BY <1>2
<1> HIDE DEF st2
<1>4. Running(d, bm, g)
  <2>1. Len(d[w].links) \in Nat
    BY DEF DiskOK
  <2>2. Len(g.links) <= Len(d[w].links) /\ 1..Len(g.links) = {}
    BY <1>2, <2>1
  <2> QED BY <1>2, <2>2 DEF Running
<1>5. Calls(d, st2, bm)
  <2>1. st2[1].addr = 64
    <3>1. CASE st = <<>>
      <4>1. n + 1 = 1
        BY <3>1
      <4> QED BY <1>2, <1>3, <3>1, <4>1
    <3>2. CASE st # <<>>
      <4>1. 1 \in 1..n
        BY <3>2
      <4> QED BY <1>3, <3>2, <4>1 DEF Calls
    <3> QED BY <3>1, <3>2
  <2>2. ASSUME NEW k \in 1..(n + 1) PROVE Running(d, bm, st2[k])
    <3>1. k \in 1..n \/ k = n + 1
      BY <1>1
    <3> QED BY <1>3, <1>4, <3>1 DEF Calls
  <2>3. ASSUME NEW k \in 1..n PROVE Waiting(d, st2[k], st2[k + 1].addr)
    <3>1. CASE k = n
      <4>1. st # <<>>
        BY <3>1
      <4> QED BY <1>2, <1>3, <3>1, <4>1
    <3>2. CASE k # n
      <4>1. k \in 1..(n - 1) /\ k + 1 \in 1..n
        BY <1>1, <3>2
      <4> QED BY <1>3, <4>1 DEF Calls
    <3> QED BY <3>1, <3>2
  <2>4. ASSUME NEW k \in 1..(n + 1), NEW j \in 1..k, st2[j].addr = st2[k].addr
        PROVE  Len(st2[k].links) <= Len(st2[j].links)
    <3>1. st2[j] \in Frames
      <4>1. j \in 1..(n + 1)
        BY <1>1
      <4> QED BY <1>3, <4>1
    <3>2. CASE k = n + 1
      BY <1>2, <1>3, <3>1, <3>2, FrameFields
    <3>3. CASE k # n + 1
      <4>1. k \in 1..n /\ j \in 1..n
        BY <1>1, <3>3
      <4> QED BY <1>3, <2>4, <4>1 DEF Calls
    <3> QED BY <3>2, <3>3
  <2>5. n + 1 - 1 = n
    BY <1>1
  <2> QED BY <1>3, <2>1, <2>2, <2>3, <2>4, <2>5 DEF Calls
<1>6. Innermost(d, st2, 0, <<>>, bm, ps)
  BY <1>2, <1>3 DEF Innermost
<1>7. st2 # <<>>
  BY <1>1, <1>3
<1> QED BY <1>3, <1>5, <1>6, <1>7 DEF st2, g

\* The innermost call returns a pointer to the block it has loaded.
LEMMA CallReturns ==
    ASSUME NEW d, NEW st, NEW bm, NEW bm2, NEW p \in Nat, NEW ps, DiskOK(d),
           st \in Seq(Frames), st # <<>>, Calls(d, st, bm),
           ~Room(d, st[Len(st)]), Right(d, bm2, p, st[Len(st)].addr),
           \A k \in 1..(Len(st) - 1) : Running(d, bm2, st[k])
    PROVE  LET st2 == Front(st)
           IN /\ st2 \in Seq(Frames) /\ Calls(d, st2, bm2)
              /\ st2 # <<>> => Innermost(d, st2, 0, <<p>>, bm2, ps)
<1> DEFINE n == Len(st)
           st2 == Front(st)
           a == st[n].addr
<1>1. n \in Nat /\ n >= 1 /\ n \in 1..n
  OBVIOUS
<1>2. /\ st2 \in Seq(Frames) /\ Len(st2) = n - 1
      /\ \A k \in 1..(n - 1) : st2[k] = st[k]
  BY FrontOf
<1> HIDE DEF st2
<1>3. \A k \in 1..(n - 1) : st[k].addr # a
  BY TopAlone
<1>4. Calls(d, st2, bm2)
  <2>1. ASSUME st2 # <<>> PROVE st2[1].addr = 64
    <3>1. 1 \in 1..(n - 1)
      BY <1>1, <1>2, <2>1
    <3> QED BY <1>2, <3>1 DEF Calls
  <2>2. ASSUME NEW k \in 1..(n - 1) PROVE Running(d, bm2, st2[k])
    BY <1>2
  <2>3. ASSUME NEW k \in 1..(n - 1 - 1) PROVE Waiting(d, st2[k], st2[k + 1].addr)
    <3>1. k \in 1..(n - 1) /\ k + 1 \in 1..(n - 1)
      BY <1>1
    <3> QED BY <1>2, <3>1 DEF Calls
  <2>4. ASSUME NEW k \in 1..(n - 1), NEW j \in 1..k, st2[j].addr = st2[k].addr
        PROVE  Len(st2[k].links) <= Len(st2[j].links)
    <3>1. j \in 1..(n - 1) /\ k \in 1..n
      BY <1>1
    <3> QED BY <1>2, <2>4, <3>1 DEF Calls
  <2> QED BY <1>2, <2>1, <2>2, <2>3, <2>4 DEF Calls
<1>5. ASSUME st2 # <<>> PROVE Innermost(d, st2, 0, <<p>>, bm2, ps)
  <2>1. n - 1 \in 1..(n - 1) /\ n - 1 + 1 = n
    BY <1>1, <1>2, <1>5
  <2>2. Waiting(d, st2[n - 1], a)
    BY <1>2, <2>1 DEF Calls
  <2>3. a # 0
    BY <1>1 DEF Calls, Running, DiskOK
  <2>4. NextLink(d, st2[n - 1]) = a
    BY <2>2 DEF Waiting
  <2> QED BY <1>2, <1>3, <2>2, <2>3, <2>4 DEF Innermost
<1> QED BY <1>2, <1>4, <1>5 DEF st2

\* Where the stream stands is the next link of the innermost call.
LEMMA StandsAtLink ==
    ASSUME NEW d, NEW st, NEW bm, NEW ps, DiskOK(d),
           st \in Seq(Frames), st # <<>>, Calls(d, st, bm),
           Innermost(d, st, 0, <<>>, bm, ps), Room(d, st[Len(st)])
    PROVE  LET f == st[Len(st)]
           IN /\ (IF ps[2] > Len(d[ps[1]].links) THEN 0 ELSE d[ps[1]].links[ps[2]])
                   = NextLink(d, f)
              /\ <<ps[1], ps[2] + 1>> = <<f.addr, Len(f.links) + 2>>
              /\ Len(f.links) + 1 \in DOMAIN d[f.addr].links
              /\ f.addr \in DOMAIN d /\ NextLink(d, f) \in Nat
<1> DEFINE f == st[Len(st)]
           n == Len(f.links)
<1>1. f \in Frames /\ Running(d, bm, f)
  <2>1. Len(st) \in 1..Len(st)
    OBVIOUS
  <2> QED BY <2>1 DEF Calls
<1>2. n \in Nat
  BY <1>1, FrameFields
<1>3. f.addr \in DOMAIN d /\ d[f.addr].links \in Seq(Nat)
  BY <1>1 DEF Running, DiskOK
<1>4. ps = <<f.addr, n + 1>>
  BY DEF Innermost
<1>5. n < Len(d[f.addr].links)
  BY DEF Room
<1> HIDE DEF f, n
<1>6. n + 1 \in DOMAIN d[f.addr].links /\ ~(n + 1 > Len(d[f.addr].links))
  BY <1>2, <1>3, <1>5
<1>7. ps[1] = f.addr /\ ps[2] = n + 1 /\ n + 1 + 1 = n + 2
  BY <1>2, <1>4
<1>8. d[f.addr].links[n + 1] \in Nat
  BY <1>3, <1>6
<1>9. <<ps[1], ps[2] + 1>> = <<f.addr, n + 2>>
  BY <1>7
<1>10. (IF ps[2] > Len(d[ps[1]].links) THEN 0 ELSE d[ps[1]].links[ps[2]])
          = d[f.addr].links[n + 1]
  BY <1>6, <1>7
<1> QED BY <1>3, <1>6, <1>8, <1>9, <1>10 DEF f, n, NextLink

\* The blocks that are loaded have addresses.
LEMMA Addresses ==
    ASSUME NEW d, NEW st, NEW w, NEW rt, NEW bm, NEW h, Typed(d, st, w, rt, bm, h)
    PROVE  /\ DOMAIN d \subseteq Nat \ {0} /\ 0 \notin DOMAIN bm
           /\ \A a \in DOMAIN bm : bm[a] \in 0..Len(h)
<1>1. DOMAIN d \subseteq Nat \ {0}
  BY DEF Typed, DiskOK
<1> QED BY <1>1 DEF Typed

\* A block that is found in the map.
LEMMA FindKeeps ==
    ASSUME NEW d, NEW st, NEW w, NEW rt, NEW bm, NEW h, NEW ps,
           Loading(d, st, w, rt, bm, h, ps), w \in DOMAIN bm
    PROVE  Loading(d, st, 0, <<bm[w]>>, bm, h, ps)
<1> USE DEF Loading
<1>1. w # 0 /\ bm[w] \in Nat /\ DOMAIN bm # {}
  BY Addresses
<1>2. st # <<>> /\ st \in Seq(Frames) /\ DiskOK(d)
  BY <1>1 DEF Walking, Typed
<1> DEFINE f == st[Len(st)]
<1>3. Waiting(d, f, w) /\ f \in Frames /\ Running(d, bm, f)
  <2>1. Len(st) \in 1..Len(st)
    BY <1>2
  <2> QED BY <1>1, <1>2, <2>1 DEF Walking, Innermost, Calls
<1>4. NextLink(d, f) = w
  BY <1>3 DEF Waiting
<1>5. \A k \in 1..Len(st) : st[k].addr # w
  BY DEF Walking, Calls, Running
<1>6. bm[w] # 0
  <2> SUFFICES ASSUME bm[w] = 0 PROVE FALSE
    OBVIOUS
  <2>1. PICK b \in DOMAIN bm : DataOf(d, b, w)
    BY DEF Mapped
  <2>2. f.addr \in DOMAIN d /\ b \in DOMAIN d
    BY <1>3 DEF Running, Typed
  <2>3. Len(f.links) + 1 \in DOMAIN d[f.addr].links
    <3>1. d[f.addr].links \in Seq(Nat)
      BY <1>2, <2>2 DEF DiskOK
    <3>2. Len(f.links) \in Nat
      BY <1>3, FrameFields
    <3>3. Len(f.links) < Len(d[f.addr].links)
      BY <1>3 DEF Waiting, Room
    <3> QED BY <3>1, <3>2, <3>3
  <2>4. f.addr = b
    BY <1>4, <2>1, <2>2, <2>3 DEF DataOnce, NextLink
  <2> QED BY <1>3, <2>1, <2>4 DEF Running
<1>7. Right(d, bm, bm[w], w)
  BY <1>1, <1>6 DEF Right, Mapped
<1>8. <<bm[w]>> # <<>> /\ <<bm[w]>>[1] = bm[w] /\ <<bm[w]>> \in Seq(Nat)
      /\ Len(<<bm[w]>>) = 1
  BY <1>1
<1>9. Innermost(d, st, 0, <<bm[w]>>, bm, ps)
  BY <1>1, <1>3, <1>4, <1>5, <1>7, <1>8 DEF Innermost
<1>10. Walking(d, st, 0, <<bm[w]>>, bm, ps)
  BY <1>9 DEF Walking
<1>11. Typed(d, st, 0, <<bm[w]>>, bm, h)
  <2>1. Len(<<bm[w]>>) \in 0..1 /\ 0 \in Nat
    BY <1>8
  <2> QED BY <1>8, <2>1, Zenon DEF Typed
<1> QED BY <1>10, <1>11

LEMMA ReadKeeps ==
    ASSUME NEW d, NEW st, NEW w, NEW rt, NEW bm, NEW h, NEW ps,
           Loading(d, st, w, rt, bm, h, ps),
           w # 0, w \notin DOMAIN bm, w \in DOMAIN d
    PROVE  Loading(d, Append(st, [addr |-> w, links |-> <<>>, back |-> <<>>]), 0, rt,
                   bm, h, <<w, 1>>)
<1> USE DEF Loading
<1> DEFINE st2 == Append(st, [addr |-> w, links |-> <<>>, back |-> <<>>])
<1>1. rt = <<>> /\ Calls(d, st, bm) /\ w \in Nat /\ st \in Seq(Frames) /\ DiskOK(d)
  BY DEF Walking, Typed
<1>2. st = <<>> => w = 64
  BY DEF Walking
<1>3. st # <<>> => Waiting(d, st[Len(st)], w)
  BY DEF Walking, Innermost
<1>4. /\ st2 \in Seq(Frames) /\ st2 # <<>> /\ Calls(d, st2, bm)
      /\ Innermost(d, st2, 0, <<>>, bm, <<w, 1>>)
  BY <1>1, <1>2, <1>3, CallMade
<1> HIDE DEF st2
<1>5. Walking(d, st2, 0, rt, bm, <<w, 1>>)
  BY <1>1, <1>4 DEF Walking
<1>6. Typed(d, st2, 0, rt, bm, h)
  <2>1. 0 \in Nat
    OBVIOUS
  <2> QED BY <1>4, <2>1, Zenon DEF Typed
<1> QED BY <1>5, <1>6 DEF st2

LEMMA NextKeeps ==
    ASSUME NEW d, NEW st, NEW bm, NEW h, NEW ps, NEW p \in Nat,
           Loading(d, st, 0, <<>>, bm, h, ps), st # <<>>, Room(d, st[Len(st)]),
           Right(d, bm, p, NextLink(d, st[Len(st)])),
           \A k \in 1..Len(st) : st[k].addr # NextLink(d, st[Len(st)])
    PROVE  Loading(d, [st EXCEPT ![Len(st)] =
                         [st[Len(st)] EXCEPT !.links = Append(@, p)]],
                   0, <<>>, bm, h, <<st[Len(st)].addr, Len(st[Len(st)].links) + 2>>)
<1> DEFINE st2 == [st EXCEPT ![Len(st)] = [st[Len(st)] EXCEPT !.links = Append(@, p)]]
           ps2 == <<st[Len(st)].addr, Len(st[Len(st)].links) + 2>>
<1>1. Calls(d, st, bm) /\ st \in Seq(Frames) /\ DiskOK(d) /\ Typed(d, st, 0, <<>>, bm, h)
  BY DEF Walking, Typed, Loading
<1>2. /\ st2 \in Seq(Frames) /\ st2 # <<>> /\ Calls(d, st2, bm)
      /\ Innermost(d, st2, 0, <<>>, bm, ps2)
  BY <1>1, LinkTaken
<1> HIDE DEF st2, ps2
<1>3. Walking(d, st2, 0, <<>>, bm, ps2)
  BY <1>2 DEF Walking, Loading
<1>4. Typed(d, st2, 0, <<>>, bm, h)
  BY <1>1, <1>2, Zenon DEF Typed
<1> QED BY <1>3, <1>4 DEF st2, ps2, Loading

LEMMA SkipKeeps ==
    ASSUME NEW d, NEW st, NEW bm, NEW h, NEW ps,
           Loading(d, st, 0, <<>>, bm, h, ps), st # <<>>, Room(d, st[Len(st)]),
           NextLink(d, st[Len(st)]) = 0
    PROVE  Loading(d, [st EXCEPT ![Len(st)] =
                         [st[Len(st)] EXCEPT !.links = Append(@, 0)]],
                   0, <<>>, bm, h, <<st[Len(st)].addr, Len(st[Len(st)].links) + 2>>)
<1>1. Right(d, bm, 0, NextLink(d, st[Len(st)]))
  BY DEF Right
<1>2. \A k \in 1..Len(st) : st[k].addr # NextLink(d, st[Len(st)])
  <2>1. DOMAIN d \subseteq Nat \ {0}
    BY Addresses DEF Loading
  <2> QED BY <2>1 DEF Calls, Running, Loading, Walking, Typed
<1>3. 0 \in Nat
  OBVIOUS
<1> QED BY <1>1, <1>2, <1>3, NextKeeps, Zenon

LEMMA FollowKeeps ==
    ASSUME NEW d, NEW st, NEW bm, NEW h, NEW ps,
           Loading(d, st, 0, <<>>, bm, h, ps), st # <<>>, Room(d, st[Len(st)]),
           NextLink(d, st[Len(st)]) # 0, NextLink(d, st[Len(st)]) \in Nat
    PROVE  LET ps2 == <<st[Len(st)].addr, Len(st[Len(st)].links) + 2>>
           IN Loading(d, [st EXCEPT ![Len(st)] = [st[Len(st)] EXCEPT !.back = ps2]],
                      NextLink(d, st[Len(st)]), <<>>, bm, h, ps2)
<1> USE DEF Loading
<1> DEFINE ps2 == <<st[Len(st)].addr, Len(st[Len(st)].links) + 2>>
           st2 == [st EXCEPT ![Len(st)] = [st[Len(st)] EXCEPT !.back = ps2]]
           w == NextLink(d, st[Len(st)])
<1>1. Calls(d, st, bm) /\ st \in Seq(Frames) /\ DiskOK(d)
  BY DEF Walking, Typed
<1>4. /\ st2 \in Seq(Frames) /\ st2 # <<>> /\ Calls(d, st2, bm)
      /\ Innermost(d, st2, w, <<>>, bm, ps2)
  BY <1>1, LinkFollowed
<1> HIDE DEF st2, ps2
<1>5. Walking(d, st2, w, <<>>, bm, ps2)
  BY <1>4 DEF Walking
<1>6. Typed(d, st2, w, <<>>, bm, h)
  BY <1>4, Zenon DEF Typed
<1> QED BY <1>5, <1>6 DEF st2, ps2

LEMMA TakeKeeps ==
    ASSUME NEW d, NEW st, NEW w, NEW rt, NEW bm, NEW h, NEW ps,
           Loading(d, st, w, rt, bm, h, ps), st # <<>>, rt # <<>>
    PROVE  /\ Loading(d, [st EXCEPT ![Len(st)] =
                            [st[Len(st)] EXCEPT !.links = Append(@, rt[1])]],
                      0, <<>>, bm, h, st[Len(st)].back)
           /\ w = 0
<1> USE DEF Loading
<1> DEFINE f == st[Len(st)]
           st2 == [st EXCEPT ![Len(st)] = [f EXCEPT !.links = Append(@, rt[1])]]
<1>1. Calls(d, st, bm) /\ st \in Seq(Frames) /\ DiskOK(d) /\ w = 0
  BY DEF Walking, Typed
<1>2. rt[1] \in Nat
  BY DEF Typed
<1>3. Innermost(d, st, w, rt, bm, ps)
  BY DEF Walking
<1>4. /\ Room(d, f) /\ Right(d, bm, rt[1], NextLink(d, f))
      /\ \A k \in 1..Len(st) : st[k].addr # NextLink(d, f)
      /\ f.back = <<f.addr, Len(f.links) + 2>>
  BY <1>3 DEF Innermost, Waiting
<1>5. /\ st2 \in Seq(Frames) /\ st2 # <<>> /\ Calls(d, st2, bm)
      /\ Innermost(d, st2, 0, <<>>, bm, f.back)
  BY <1>1, <1>2, <1>4, LinkTaken
<1> HIDE DEF st2
<1>6. Walking(d, st2, 0, <<>>, bm, f.back)
  BY <1>5 DEF Walking
<1>7. Typed(d, st2, 0, <<>>, bm, h)
  <2>1. <<>> \in Seq(Nat) /\ Len(<<>>) \in 0..1 /\ 0 \in Nat
    OBVIOUS
  <2> QED BY <1>5, <2>1, Zenon DEF Typed
<1> QED BY <1>1, <1>6, <1>7 DEF st2

LEMMA NothingKeeps ==
    ASSUME NEW d, NEW st, NEW bm, NEW h, NEW ps,
           Loading(d, st, 0, <<>>, bm, h, ps), st # <<>>, ~Room(d, st[Len(st)]),
           d[st[Len(st)].addr].type \notin Known
    PROVE  Loading(d, Front(st), 0, <<0>>, bm, h, ps)
<1> USE DEF Loading
<1> DEFINE st2 == Front(st)
<1>1. Calls(d, st, bm) /\ st \in Seq(Frames) /\ DiskOK(d) /\ 0 \in Nat
  BY DEF Walking, Typed
<1>2. Right(d, bm, 0, st[Len(st)].addr)
  BY DEF Right
<1>3. \A k \in 1..(Len(st) - 1) : Running(d, bm, st[k])
  <2>1. \A k \in 1..(Len(st) - 1) : k \in 1..Len(st)
    BY <1>1
  <2> QED BY <1>1, <2>1 DEF Calls
<1>4. /\ st2 \in Seq(Frames) /\ Calls(d, st2, bm)
      /\ st2 # <<>> => Innermost(d, st2, 0, <<0>>, bm, ps)
  BY <1>1, <1>2, <1>3, CallReturns
<1> HIDE DEF st2
<1>5. Walking(d, st2, 0, <<0>>, bm, ps)
  BY <1>4 DEF Walking
<1>6. Typed(d, st2, 0, <<0>>, bm, h)
  <2>1. <<0>> \in Seq(Nat) /\ Len(<<0>>) \in 0..1
    OBVIOUS
  <2> QED BY <1>4, <2>1, Zenon DEF Typed
<1> QED BY <1>5, <1>6 DEF st2

-----------------------------------------------------------------------------
(* The blocks that are made.                                                 *)

\* No link but its own leads to the data of the group that is loaded.
LEMMA NoOthersData ==
    ASSUME NEW d, DataOnce(d), NEW a \in DOMAIN d, NEW c \in DOMAIN d, c # a,
           NEW i \in DOMAIN d[c].links
    PROVE  ~DataOf(d, a, d[c].links[i])
BY DEF DataOnce

\* Only the data of the group at a is replaced in the map.
Spared(d, a, bm, bm2) ==
    /\ DOMAIN bm \subseteq DOMAIN bm2
    /\ \A c \in DOMAIN bm : bm2[c] = bm[c] \/ DataOf(d, a, c)

LEMMA StaysRight ==
    ASSUME NEW d, NEW a, NEW bm, NEW bm2, NEW p, NEW e,
           Spared(d, a, bm, bm2), ~DataOf(d, a, e), Right(d, bm, p, e)
    PROVE  Right(d, bm2, p, e)
BY DEF Spared, Right

LEMMA StaysRunning ==
    ASSUME NEW d, DiskOK(d), DataOnce(d), NEW a \in DOMAIN d, NEW bm, NEW bm2, NEW f,
           Spared(d, a, bm, bm2), DOMAIN bm2 \subseteq DOMAIN bm \cup {a},
           f.addr # a, Running(d, bm, f), f.links \in Seq(Nat)
    PROVE  Running(d, bm2, f)
<1>1. f.addr \in DOMAIN d /\ f.addr \notin DOMAIN bm2
  BY DEF Running
<1>2. Len(f.links) <= Len(d[f.addr].links)
  BY DEF Running
<1>3. ASSUME NEW i \in 1..Len(f.links)
      PROVE  Right(d, bm2, f.links[i], d[f.addr].links[i])
  <2>1. i \in DOMAIN d[f.addr].links
    <3>1. d[f.addr].links \in Seq(Nat)
      BY <1>1 DEF DiskOK
    <3>2. Len(f.links) \in Nat
      OBVIOUS
    <3> QED BY <1>2, <3>1, <3>2
  <2>2. ~DataOf(d, a, d[f.addr].links[i])
    BY <1>1, <2>1, NoOthersData
  <2>3. Right(d, bm, f.links[i], d[f.addr].links[i])
    BY DEF Running
  <2> QED BY <2>2, <2>3, StaysRight
<1> QED BY <1>1, <1>2, <1>3 DEF Running

LEMMA StaysFaithful ==
    ASSUME NEW d, DiskOK(d), DataOnce(d), NEW a \in DOMAIN d, NEW bm, NEW bm2,
           Spared(d, a, bm, bm2), NEW h \in Seq(Blocks), NEW h2 \in Seq(Blocks),
           NEW o, NEW c \in DOMAIN d, c # a, Len(h2) >= Len(h),
           \A p \in 1..Len(h) : h2[p].type = h[p].type,
           \A e \in DOMAIN bm : bm[e] \in 0..Len(h),
           Faithful(d, bm, h, c, o)
    PROVE  Faithful(d, bm2, h2, c, o)
<1>1. o.addr = c /\ o.type = d[c].type /\ Len(o.links) = Len(d[c].links)
  BY DEF Faithful
<1>2. d[c].links \in Seq(Nat) /\ (d[c].type = "DG" => Len(d[c].links) > 2)
  BY DEF DiskOK
<1>3. ASSUME NEW i \in 1..Len(o.links)
      PROVE  ~DataOf(d, a, d[c].links[i])
  <2>1. i \in DOMAIN d[c].links
    BY <1>1, <1>2
  <2> QED BY <2>1, NoOthersData
<1>4. ASSUME NEW i \in 1..Len(o.links), Right(d, bm, o.links[i], d[c].links[i])
      PROVE  Right(d, bm2, o.links[i], d[c].links[i])
  BY <1>3, <1>4, StaysRight
<1>5. ASSUME o.type = "DG" PROVE GroupFirst(h2, o.links[2]) = GroupFirst(h, o.links[2])
  <2>1. 2 \in 1..Len(o.links)
    BY <1>1, <1>2, <1>5
  <2>2. Right(d, bm, o.links[2], d[c].links[2])
    <3>1. ~Cleared(d, h, o, 2)
      BY DEF Cleared
    <3> QED BY <2>1, <3>1 DEF Faithful
  <2>3. o.links[2] \in 0..Len(h)
    BY <2>2 DEF Right
  <2>4. o.links[2] \in DOMAIN h <=> o.links[2] \in DOMAIN h2
    BY <2>3
  <2>5. o.links[2] \in DOMAIN h => o.links[2] \in 1..Len(h)
    OBVIOUS
  <2> QED BY <2>4, <2>5, Zenon DEF GroupFirst
<1>6. \A i \in 1..Len(o.links) : Cleared(d, h2, o, i) = Cleared(d, h, o, i)
  BY <1>5, Zenon DEF Cleared
<1>7. ASSUME NEW i \in 1..Len(o.links)
      PROVE  IF Cleared(d, h2, o, i) THEN o.links[i] = 0
             ELSE Right(d, bm2, o.links[i], d[c].links[i])
  BY <1>4, <1>6 DEF Faithful
<1> QED BY <1>1, <1>7 DEF Faithful

\* A block that is made and stored under its address, the innermost call
\* returning it.
LEMMA BlockStored ==
    ASSUME NEW d, NEW st, NEW bm, NEW h, NEW ps, NEW a,
           Loading(d, st, 0, <<>>, bm, h, ps), st # <<>>, ~Room(d, st[Len(st)]),
           a = st[Len(st)].addr, d[a].type \in Known,
           NEW h2 \in Seq(Blocks), NEW bm2, Len(h2) > Len(h),
           \A p \in 1..Len(h) : h2[p] = h[p],
           Spared(d, a, bm, bm2), DOMAIN bm2 = DOMAIN bm \cup {a},
           bm2 \in [DOMAIN bm2 -> 0..Len(h2)], bm2[a] = Len(h2),
           Faithful(d, bm2, h2, a, h2[Len(h2)]),
           \A c \in DOMAIN bm : bm2[c] # bm[c] /\ bm2[c] # 0 =>
              Faithful(d, bm2, h2, c, h2[bm2[c]])
    PROVE  Loading(d, Front(st), 0, <<Len(h2)>>, bm2, h2, ps)
<1> USE DEF Loading
<1> DEFINE st2 == Front(st)
           n == Len(st)
           r == Len(h2)
<1>1. /\ Calls(d, st, bm) /\ st \in Seq(Frames) /\ DiskOK(d) /\ 0 \in Nat
      /\ n \in Nat /\ n \in 1..n
  BY DEF Walking, Typed
<1>2. r \in Nat /\ r # 0 /\ Len(h) \in Nat
  BY DEF Typed
<1>3. a \in DOMAIN d /\ a \notin DOMAIN bm /\ a # 0
  <2>1. DOMAIN d \subseteq Nat \ {0}
    BY Addresses
  <2> QED BY <1>1, <2>1 DEF Calls, Running
<1>4. Right(d, bm2, r, a)
  BY <1>2, <1>3 DEF Right
<1>5. ASSUME NEW k \in 1..(n - 1) PROVE Running(d, bm2, st[k])
  <2>1. st[k].addr # a
    BY <1>1, TopAlone
  <2>2. Running(d, bm, st[k]) /\ st[k] \in Frames
    <3>1. k \in 1..n
      BY <1>1
    <3> QED BY <1>1, <3>1 DEF Calls
  <2>3. st[k].links \in Seq(Nat)
    BY <2>2, FrameFields
  <2> QED BY <1>1, <1>3, <2>1, <2>2, <2>3, StaysRunning
<1>6. /\ st2 \in Seq(Frames) /\ Calls(d, st2, bm2)
      /\ st2 # <<>> => Innermost(d, st2, 0, <<r>>, bm2, ps)
  BY <1>1, <1>2, <1>4, <1>5, CallReturns
<1>7. ASSUME 64 \in DOMAIN bm2 PROVE bm2[64] # 0
  <2>1. 64 \notin DOMAIN bm
    <3>1. st[1].addr = 64 /\ 1 \in 1..n
      BY <1>1 DEF Calls
    <3> QED BY <1>1, <3>1 DEF Calls, Running
  <2> QED BY <1>2, <1>7, <2>1
<1> HIDE DEF st2
<1>8. Walking(d, st2, 0, <<r>>, bm2, ps)
  BY <1>6, <1>7 DEF Walking
<1>9. Typed(d, st2, 0, <<r>>, bm2, h2)
  <2>1. <<r>> \in Seq(Nat) /\ Len(<<r>>) \in 0..1
    BY <1>2
  <2>2. DOMAIN bm2 \subseteq DOMAIN d
    BY <1>3 DEF Typed
  <2> QED BY <1>1, <1>6, <2>1, <2>2, Zenon DEF Typed
<1>10. Mapped(d, bm2, h2)
  <2> SUFFICES ASSUME NEW c \in DOMAIN bm2
               PROVE  /\ d[c].type \in Known
                      /\ bm2[c] = 0 => \E b \in DOMAIN bm2 : DataOf(d, b, c)
                      /\ bm2[c] # 0 => Faithful(d, bm2, h2, c, h2[bm2[c]])
    BY DEF Mapped
  <2>1. CASE c = a
    BY <1>2, <2>1
  <2>2. CASE c # a /\ bm2[c] = bm[c]
    <3>1. c \in DOMAIN bm /\ c \in DOMAIN d
      BY <2>2 DEF Typed
    <3>2. bm2[c] = 0 => \E b \in DOMAIN bm2 : DataOf(d, b, c)
      BY <2>2, <3>1 DEF Mapped
    <3>3. ASSUME bm2[c] # 0 PROVE Faithful(d, bm2, h2, c, h2[bm2[c]])
      <4>1. Faithful(d, bm, h, c, h[bm[c]])
        BY <2>2, <3>1, <3>3 DEF Mapped
      <4>2. bm[c] \in 1..Len(h)
        BY <2>2, <3>1, <3>3, Addresses
      <4>3. h2[bm2[c]] = h[bm[c]]
        BY <2>2, <4>2
      <4>4. \A e \in DOMAIN bm : bm[e] \in 0..Len(h)
        BY Addresses
      <4>5. Faithful(d, bm2, h2, c, h[bm[c]])
        <5>1. h \in Seq(Blocks) /\ Len(h2) >= Len(h)
          BY <1>2 DEF Typed
        <5>2. \A p \in 1..Len(h) : h2[p].type = h[p].type
          OBVIOUS
        <5> QED BY <5>1, <5>2, <1>1, <1>2, <1>3, <2>2, <3>1, <4>1, <4>4, StaysFaithful
      <4> QED BY <4>3, <4>5
    <3> QED BY <3>1, <3>2, <3>3 DEF Mapped
  <2>3. CASE c # a /\ bm2[c] # bm[c]
    <3>1. c \in DOMAIN bm /\ DataOf(d, a, c)
      BY <2>3 DEF Spared
    <3> QED BY <2>3, <3>1 DEF Mapped
  <2> QED BY <2>1, <2>2, <2>3
<1> QED BY <1>8, <1>9, <1>10 DEF st2

\* The objects that a chain goes through, and 0 behind its end.
Walks(h, first, type, nth) ==
    LET As(r) == IF r \in DOMAIN h /\ h[r].type = type THEN r ELSE 0
        some == {m \in 0..Len(h) : nth[m] # 0}
    IN /\ Chain(h, first, type) = [m \in 1..Cardinality(some) |-> nth[m - 1]]
       /\ nth[0] = As(first)
       /\ \A m \in 1..Len(h) : nth[m] = As(Linked(h, nth[m - 1], 1))

LEMMA ChainWalks ==
    ASSUME NEW S, NEW h \in Seq(S), NEW first, NEW type
    PROVE  \E nth : Walks(h, first, type, nth)
<1> DEFINE n == Len(h)
           As(r) == IF r \in DOMAIN h /\ h[r].type = type THEN r ELSE 0
           Next1(r) == As(Linked(h, r, 1))
           T == DOMAIN h \cup {0}
           step == [m \in 1..n |-> [r \in T |-> Next1(r)]]
           eq(g) == g = [m \in 0..n |-> IF m = 0 THEN As(first)
                                         ELSE As(Linked(h, g[m - 1], 1))]
           nth == CHOOSE g : eq(g)
           some == {m \in 0..n : nth[m] # 0}
           length == Cardinality(some)
<1>0. n \in Nat
  OBVIOUS
<1>1. \A r : As(r) \in T
  OBVIOUS
<1>2. step \in [1..n -> [T -> T]]
  <2>1. \A r : Next1(r) \in T
    BY <1>1
  <2> HIDE DEF Next1, T
  <2> QED BY <2>1
<1>3. PICK g \in [0..n -> T] : Unfolds(g, n, As(first), step)
  <2> HIDE DEF step, T
  <2> QED BY <1>0, <1>1, <1>2, Recursion
<1>4. \A m \in 1..n : step[m][g[m - 1]] = As(Linked(h, g[m - 1], 1))
  <2> HIDE DEF T
  <2>1. ASSUME NEW m \in 1..n PROVE g[m - 1] \in T
    <3>1. m - 1 \in 0..n
      OBVIOUS
    <3> QED BY <1>3, <3>1
  <2> HIDE DEF As
  <2> QED BY <2>1
<1>5. eq(g)
  <2>1. g = [m \in 0..n |-> IF m = 0 THEN As(first) ELSE step[m][g[m - 1]]]
    BY <1>3 DEF Unfolds
  <2> HIDE DEF step, As
  <2>2. ASSUME NEW m \in 0..n
        PROVE  (IF m = 0 THEN As(first) ELSE step[m][g[m - 1]]) =
               (IF m = 0 THEN As(first) ELSE As(Linked(h, g[m - 1], 1)))
    <3>1. m # 0 => m \in 1..n
      OBVIOUS
    <3> QED BY <1>4, <3>1
  <2> QED BY <2>1, <2>2, Zenon
<1> HIDE DEF step, T
<1>6. eq(nth)
  BY <1>5, Zenon
<1>7. Chain(h, first, type) = [m \in 1..length |-> nth[m - 1]]
  BY Zenon DEF Chain
<1>8. nth = [m \in 0..n |-> IF m = 0 THEN As(first) ELSE As(Linked(h, nth[m - 1], 1))]
  BY <1>6, Zenon
<1> HIDE DEF nth
<1>9. nth[0] = As(first) /\ \A m \in 1..n : nth[m] = As(Linked(h, nth[m - 1], 1))
  <2>1. 0 \in 0..n /\ \A m \in 1..n : m \in 0..n /\ m # 0
    OBVIOUS
  <2> HIDE DEF As
  <2> QED BY <1>8, <2>1
<1> QED BY <1>7, <1>9, Zenon DEF Walks

\* A chain is empty without a first block of its type.
LEMMA ChainFirst ==
    ASSUME NEW S, NEW h \in Seq(S), NEW first, NEW type
    PROVE  Chain(h, first, type) = <<>> <=>
               ~(first \in DOMAIN h /\ h[first].type = type)
<1> DEFINE n == Len(h)
           As(r) == IF r \in DOMAIN h /\ h[r].type = type THEN r ELSE 0
<1>1. PICK nth : Walks(h, first, type, nth)
  BY ChainWalks, Zenon
<1> DEFINE some == {m \in 0..n : nth[m] # 0}
           length == Cardinality(some)
<1>7. Chain(h, first, type) = [m \in 1..length |-> nth[m - 1]]
  BY <1>1 DEF Walks
<1>9. nth[0] = As(first) /\ \A m \in 1..n : nth[m] = As(Linked(h, nth[m - 1], 1))
  BY <1>1 DEF Walks
<1>10. IsFiniteSet(some) /\ length \in Nat
  <2>1. IsFiniteSet(0..n)
    BY FS_Interval
  <2> QED BY <2>1, FS_Subset, FS_CardinalityType
<1>11. n \in Nat /\ DOMAIN h = 1..n /\ 0 \notin DOMAIN h
  OBVIOUS
<1>12. ASSUME As(first) = 0 PROVE Chain(h, first, type) = <<>>
  <2> DEFINE Z == {m \in 0..n : nth[m] = 0}
  <2>1. As(0) = 0 /\ Linked(h, 0, 1) = 0
    BY <1>11 DEF Linked
  <2> HIDE DEF As
  <2>2. 0 \in Z
    <3>1. 0 \in 0..n
      BY <1>11
    <3> QED BY <1>9, <1>12, <3>1
  <2>3. ASSUME NEW m \in 1..n, m - 1 \in Z PROVE m \in Z
    <3>1. m \in 0..n /\ nth[m - 1] = 0
      BY <2>3
    <3> QED BY <1>9, <2>1, <3>1
  <2> HIDE DEF Z
  <2>4. \A m \in 0..n : m \in Z
    BY <1>11, <2>2, <2>3, CountUp
  <2>5. some = {}
    BY <2>4 DEF Z
  <2>6. length = 0
    BY <2>5, FS_EmptySet
  <2> HIDE DEF length
  <2> QED BY <1>7, <2>6
<1>13. ASSUME As(first) # 0 PROVE Chain(h, first, type) # <<>>
  <2>1. 0 \in some
    <3>1. 0 \in 0..n
      BY <1>11
    <3> HIDE DEF As
    <3> QED BY <1>9, <1>13, <3>1
  <2>2. length # 0
    BY <1>10, <2>1, FS_EmptySet
  <2> HIDE DEF length
  <2>3. 1 \in 1..length
    BY <1>10, <2>2
  <2>4. DOMAIN Chain(h, first, type) # DOMAIN <<>>
    BY <1>7, <2>3
  <2> QED BY <2>4
<1>14. As(first) = 0 <=> ~(first \in DOMAIN h /\ h[first].type = type)
  BY <1>11
<1> HIDE DEF As
<1> QED BY <1>12, <1>13, <1>14

-----------------------------------------------------------------------------
(* The objects that are made.                                                *)

LEMMA BlockFields ==
    ASSUME NEW o \in Blocks
    PROVE  /\ o.type \in Types /\ o.addr \in Nat /\ o.links \in Seq(Nat)
           /\ o.kind \in Kinds
BY DEF Blocks

LEMMA BlockWithKind ==
    ASSUME NEW o \in Blocks, NEW k \in Kinds
    PROVE  LET b == [o EXCEPT !.kind = k]
           IN /\ b \in Blocks /\ b.type = o.type /\ b.addr = o.addr
              /\ b.links = o.links /\ b.kind = k
BY DEF Blocks

\* The pointers that the innermost call has when it is through its links.
LEMMA LinksOfTop ==
    ASSUME NEW d, NEW st, NEW bm, NEW h, NEW ps,
           Loading(d, st, 0, <<>>, bm, h, ps), st # <<>>, ~Room(d, st[Len(st)])
    PROVE  LET f == st[Len(st)]
           IN /\ f.addr \in DOMAIN d /\ f.addr \notin DOMAIN bm
              /\ f.links \in Seq(Nat) /\ Len(f.links) = Len(d[f.addr].links)
              /\ \A i \in 1..Len(f.links) :
                    /\ Right(d, bm, f.links[i], d[f.addr].links[i])
                    /\ f.links[i] \in 0..Len(h)
              /\ d[f.addr].type = "DG" => Len(f.links) > 2
<1> DEFINE f == st[Len(st)]
<1>1. f \in Frames /\ Running(d, bm, f)
  <2>1. Len(st) \in 1..Len(st) /\ st \in Seq(Frames)
    BY DEF Loading, Typed
  <2> QED BY <2>1 DEF Calls, Loading, Walking
<1>2. f.links \in Seq(Nat) /\ Len(f.links) \in Nat
  BY <1>1, FrameFields
<1>3. f.addr \in DOMAIN d /\ f.addr \notin DOMAIN bm
  BY <1>1 DEF Running
<1>4. d[f.addr].links \in Seq(Nat) /\ (d[f.addr].type = "DG" => Len(d[f.addr].links) > 2)
  BY <1>3 DEF Loading, Typed, DiskOK
<1>5. Len(f.links) = Len(d[f.addr].links)
  <2>1. Len(f.links) <= Len(d[f.addr].links) /\ ~(Len(f.links) < Len(d[f.addr].links))
    BY <1>1 DEF Running, Room
  <2>2. Len(d[f.addr].links) \in Nat
    BY <1>4
  <2> QED BY <1>2, <2>1, <2>2
<1>6. ASSUME NEW i \in 1..Len(f.links)
      PROVE  Right(d, bm, f.links[i], d[f.addr].links[i]) /\ f.links[i] \in 0..Len(h)
  <2>1. Right(d, bm, f.links[i], d[f.addr].links[i])
    BY <1>1 DEF Running
  <2>2. \A a \in DOMAIN bm : bm[a] \in 0..Len(h)
    BY Addresses DEF Loading
  <2>3. Len(h) \in Nat
    BY DEF Loading, Typed
  <2>4. 0 \in 0..Len(h)
    BY <2>3
  <2> QED BY <2>1, <2>2, <2>4, Zenon DEF Right
<1>7. d[f.addr].type = "DG" => Len(f.links) > 2
  BY <1>4, <1>5
<1> QED BY <1>2, <1>3, <1>5, <1>6, <1>7 DEF f

\* A block that is as in the file.
LEMMA BlockKeeps ==
    ASSUME NEW d, NEW st, NEW bm, NEW h, NEW ps, NEW a, NEW o \in Blocks,
           Loading(d, st, 0, <<>>, bm, h, ps), st # <<>>, ~Room(d, st[Len(st)]),
           a = st[Len(st)].addr, d[a].type \in Known,
           o.type = d[a].type, o.addr = a, o.links = st[Len(st)].links,
           ~(d[a].type = "DG" /\ d[a].read = "all")
    PROVE  Loading(d, Front(st), 0, <<Len(h) + 1>>, Stored(bm, a, Len(h) + 1),
                   Append(h, o), ps)
<1> DEFINE h2 == Append(h, o)
           r == Len(h) + 1
           bm2 == Stored(bm, a, r)
<1>1. h \in Seq(Blocks) /\ Len(h) \in Nat /\ bm \in [DOMAIN bm -> 0..Len(h)]
  BY DEF Loading, Typed
<1>2. /\ h2 \in Seq(Blocks) /\ Len(h2) = r /\ h2[r] = o /\ Len(h2) > Len(h)
      /\ \A p \in 1..Len(h) : h2[p] = h[p]
  BY <1>1
<1>3. /\ a \in DOMAIN d /\ a \notin DOMAIN bm /\ o.links \in Seq(Nat)
      /\ Len(o.links) = Len(d[a].links)
      /\ \A i \in 1..Len(o.links) : Right(d, bm, o.links[i], d[a].links[i])
  <2> DEFINE f == st[Len(st)]
  <2>1. /\ f.addr \in DOMAIN d /\ f.addr \notin DOMAIN bm
        /\ f.links \in Seq(Nat) /\ Len(f.links) = Len(d[f.addr].links)
        /\ \A i \in 1..Len(f.links) :
              /\ Right(d, bm, f.links[i], d[f.addr].links[i])
              /\ f.links[i] \in 0..Len(h)
        /\ d[f.addr].type = "DG" => Len(f.links) > 2
    BY LinksOfTop, Zenon
  <2>2. f.addr = a
    OBVIOUS
  <2>3. o.links = f.links
    OBVIOUS
  <2> HIDE DEF f
  <2> QED BY <2>1, <2>2, <2>3, Zenon
<1>4. /\ DOMAIN bm2 = DOMAIN bm \cup {a} /\ bm2[a] = r
      /\ \A c \in DOMAIN bm : bm2[c] = bm[c]
  BY <1>3 DEF Stored
<1>5. bm2 \in [DOMAIN bm2 -> 0..Len(h2)]
  <2>1. bm2 = [x \in DOMAIN bm2 |-> bm2[x]]
    BY DEF Stored
  <2>2. ASSUME NEW x \in DOMAIN bm2 PROVE bm2[x] \in 0..r
    <3>1. CASE x = a
      BY <1>1, <1>4, <3>1
    <3>2. CASE x \in DOMAIN bm
      <4>1. bm[x] \in 0..Len(h)
        BY <1>1, <3>2
      <4> QED BY <1>1, <1>4, <3>2, <4>1
    <3> QED BY <1>4, <3>1, <3>2
  <2> HIDE DEF bm2, h2
  <2> QED BY <1>2, <2>1, <2>2
<1> HIDE DEF bm2, h2
<1>6. Spared(d, a, bm, bm2)
  BY <1>4 DEF Spared
<1>7. Faithful(d, bm2, h2, a, o)
  <2>1. \A i \in 1..Len(o.links) : Right(d, bm2, o.links[i], d[a].links[i])
    BY <1>3, <1>4 DEF Right
  <2>2. \A i \in 1..Len(o.links) : ~Cleared(d, h2, o, i)
    BY DEF Cleared
  <2> QED BY <1>3, <2>1, <2>2 DEF Faithful
<1>8. Loading(d, Front(st), 0, <<Len(h2)>>, bm2, h2, ps)
  BY <1>2, <1>4, <1>5, <1>6, <1>7, BlockStored
<1> QED BY <1>2, <1>8 DEF bm2, h2

\* What a data group with data does with the pointers to it: DGBlock::load().
LEMMA GroupKeeps ==
    ASSUME NEW d, NEW st, NEW bm, NEW h, NEW ps, NEW a, NEW o \in Blocks, NEW old,
           Loading(d, st, 0, <<>>, bm, h, ps), st # <<>>, ~Room(d, st[Len(st)]),
           a = st[Len(st)].addr, d[a].type = "DG", d[a].read = "all",
           old = st[Len(st)].links[3], NEW k \in Kinds,
           Chain(h, st[Len(st)].links[2], "CG") # <<>>, old # 0, h[old].type = "DT",
           o.type = d[a].type, o.addr = a,
           o.links = [st[Len(st)].links EXCEPT ![3] = Len(h) + 1]
    PROVE  Loading(d, Front(st), 0, <<Len(h) + 2>>,
                   Stored(Replaced(bm, old, Len(h) + 1), a, Len(h) + 2),
                   Append(Append(h, [h[old] EXCEPT !.kind = k]), o), ps)
<1> DEFINE f == st[Len(st)]
           new == Len(h) + 1
           r == Len(h) + 2
           data == [h[old] EXCEPT !.kind = k]
           h1 == Append(h, data)
           h2 == Append(h1, o)
           bm1 == Replaced(bm, old, new)
           bm2 == Stored(bm1, a, r)
           x == d[a].links[3]
<1>1. /\ h \in Seq(Blocks) /\ Len(h) \in Nat /\ bm \in [DOMAIN bm -> 0..Len(h)]
      /\ DOMAIN bm \subseteq DOMAIN d /\ DiskOK(d) /\ DataOnce(d) /\ Mapped(d, bm, h)
      /\ \A c \in DOMAIN bm : bm[c] \in 0..Len(h)
  BY DEF Loading, Typed
<1>2. /\ a \in DOMAIN d /\ a \notin DOMAIN bm /\ f.links \in Seq(Nat)
      /\ Len(f.links) = Len(d[a].links) /\ Len(f.links) > 2
      /\ \A i \in 1..Len(f.links) :
            Right(d, bm, f.links[i], d[a].links[i]) /\ f.links[i] \in 0..Len(h)
  <2>1. /\ f.addr \in DOMAIN d /\ f.addr \notin DOMAIN bm
        /\ f.links \in Seq(Nat) /\ Len(f.links) = Len(d[f.addr].links)
        /\ \A i \in 1..Len(f.links) :
              /\ Right(d, bm, f.links[i], d[f.addr].links[i])
              /\ f.links[i] \in 0..Len(h)
        /\ d[f.addr].type = "DG" => Len(f.links) > 2
    BY LinksOfTop, Zenon
  <2>2. f.addr = a
    OBVIOUS
  <2> HIDE DEF f
  <2> QED BY <2>1, <2>2, Zenon
<1>3. 2 \in 1..Len(f.links) /\ 3 \in 1..Len(f.links)
  BY <1>2
<1>4. x # 0 /\ d[x].type \in Known /\ x \in DOMAIN bm /\ old = bm[x] /\ old \in 1..Len(h)
  <2>1. Right(d, bm, old, x)
    BY <1>2, <1>3
  <2>2. x # 0 /\ d[x].type \in Known /\ x \in DOMAIN bm /\ old = bm[x]
    BY <2>1 DEF Right
  <2> QED BY <1>1, <2>2
<1>5. h[old] \in Blocks
  BY <1>1, <1>4
<1>6. /\ data \in Blocks /\ data.type = h[old].type /\ data.addr = h[old].addr
      /\ data.links = h[old].links
  BY <1>5, BlockWithKind
<1> HIDE DEF data
<1>7. /\ h1 \in Seq(Blocks) /\ Len(h1) = new /\ h1[new] = data
      /\ \A p \in 1..Len(h) : h1[p] = h[p]
  BY <1>1, <1>6
<1> HIDE DEF h1
<1>8. /\ h2 \in Seq(Blocks) /\ Len(h2) = r /\ h2[r] = o /\ h2[new] = data
      /\ Len(h2) > Len(h) /\ \A p \in 1..Len(h) : h2[p] = h[p]
  <2>1. /\ h2 \in Seq(Blocks) /\ Len(h2) = new + 1 /\ h2[new + 1] = o
        /\ \A p \in 1..new : h2[p] = h1[p]
    BY <1>7
  <2>2. new + 1 = r /\ new \in 1..new /\ \A p \in 1..Len(h) : p \in 1..new
    BY <1>1
  <2>3. r > Len(h)
    BY <1>1
  <2> HIDE DEF h2
  <2> QED BY <1>7, <2>1, <2>2, <2>3
<1> HIDE DEF h2
<1>9. Faithful(d, bm, h, x, h[old])
  BY <1>1, <1>4 DEF Mapped
<1>10. ASSUME NEW c \in DOMAIN bm, bm[c] = old PROVE c = x
  <2>1. Faithful(d, bm, h, c, h[old])
    <3>1. bm[c] # 0
      BY <1>4, <1>10
    <3> QED BY <1>1, <1>10, <3>1 DEF Mapped
  <2> QED BY <1>9, <2>1 DEF Faithful
<1>11. /\ DOMAIN bm1 = DOMAIN bm /\ bm1[x] = new
       /\ \A c \in DOMAIN bm : c # x => bm1[c] = bm[c]
  <2>1. new \notin Range(bm)
    <3>1. \A c \in DOMAIN bm : bm[c] # new
      BY <1>1
    <3> QED BY <3>1 DEF Range
  <2>2. old # new
    BY <1>1, <1>4
  <2>3. bm1 = [c \in DOMAIN bm |-> IF bm[c] = old THEN new ELSE bm[c]]
    BY <2>1, <2>2 DEF Replaced
  <2> HIDE DEF bm1
  <2> QED BY <1>4, <1>10, <2>3
<1> HIDE DEF bm1
<1>12. /\ DOMAIN bm2 = DOMAIN bm \cup {a} /\ bm2[a] = r
       /\ \A c \in DOMAIN bm : bm2[c] = bm1[c]
  BY <1>2, <1>11 DEF Stored
<1>13. bm2 \in [DOMAIN bm2 -> 0..Len(h2)]
  <2>1. bm2 = [c \in DOMAIN bm2 |-> bm2[c]]
    BY DEF Stored
  <2> HIDE DEF bm2
  <2>2. ASSUME NEW c \in DOMAIN bm2 PROVE bm2[c] \in 0..r
    <3>1. CASE c = a
      BY <1>1, <1>12, <3>1
    <3>2. CASE c = x
      BY <1>1, <1>4, <1>11, <1>12, <3>2
    <3>3. CASE c # a /\ c # x
      <4>1. c \in DOMAIN bm /\ bm2[c] = bm[c]
        BY <1>11, <1>12, <3>3
      <4>2. bm[c] \in 0..Len(h)
        BY <1>1, <4>1
      <4> QED BY <1>1, <4>1, <4>2
    <3> QED BY <3>1, <3>2, <3>3
  <2> QED BY <1>8, <2>1, <2>2
<1> HIDE DEF bm2
<1>14. DataOf(d, a, x)
  BY <1>4 DEF DataOf
<1>15. Spared(d, a, bm, bm2)
  BY <1>11, <1>12, <1>14 DEF Spared
<1>16. Right(d, bm2, new, x)
  BY <1>1, <1>4, <1>11, <1>12 DEF Right
<1>17. ASSUME NEW i \in 1..Len(f.links), i # 3
       PROVE  Right(d, bm2, f.links[i], d[a].links[i])
  <2>1. i \in DOMAIN d[a].links
    <3>1. d[a].links \in Seq(Nat)
      BY <1>1, <1>2 DEF DiskOK
    <3> QED BY <1>2, <3>1
  <2>2. ~DataOf(d, a, d[a].links[i])
    BY <1>1, <1>2, <1>17, <2>1 DEF DataOnce
  <2> QED BY <1>2, <1>15, <2>2, StaysRight
<1>18. /\ Len(o.links) = Len(f.links) /\ o.links[3] = new
       /\ \A i \in 1..Len(f.links) : i # 3 => o.links[i] = f.links[i]
  BY <1>2, <1>3
<1>19. GroupFirst(h2, o.links[2])
  <2>1. f.links[2] \in DOMAIN h /\ h[f.links[2]].type = "CG"
    BY <1>1, ChainFirst
  <2>2. f.links[2] \in DOMAIN h2 /\ h2[f.links[2]] = h[f.links[2]]
    BY <1>1, <1>8, <2>1
  <2> QED BY <1>3, <1>18, <2>1, <2>2 DEF GroupFirst
<1>20. Faithful(d, bm2, h2, a, o)
  <2>1. ASSUME NEW i \in 1..Len(o.links)
        PROVE  Right(d, bm2, o.links[i], d[a].links[i])
    BY <1>16, <1>17, <1>18
  <2>2. \A i \in 1..Len(o.links) : ~Cleared(d, h2, o, i)
    BY <1>19 DEF Cleared
  <2> QED BY <1>2, <1>18, <2>1, <2>2 DEF Faithful
<1>21. Faithful(d, bm2, h2, x, data)
  <2>1. x # a /\ x \in DOMAIN d /\ Len(h2) >= Len(h)
    BY <1>1, <1>2, <1>4, <1>8
  <2>2. \A p \in 1..Len(h) : h2[p].type = h[p].type
    BY <1>8
  <2>3. Faithful(d, bm2, h2, x, h[old])
    BY <1>1, <1>2, <1>8, <1>9, <1>15, <2>1, <2>2, StaysFaithful
  <2>4. \A i \in 1..Len(data.links) : Cleared(d, h2, data, i) = Cleared(d, h2, h[old], i)
    BY <1>6, Zenon DEF Cleared
  <2> QED BY <1>6, <2>3, <2>4 DEF Faithful
<1>22. \A c \in DOMAIN bm : bm2[c] # bm[c] /\ bm2[c] # 0 =>
          Faithful(d, bm2, h2, c, h2[bm2[c]])
  <2>1. \A c \in DOMAIN bm : bm2[c] # bm[c] => c = x
    BY <1>11, <1>12
  <2>2. h2[bm2[x]] = data
    BY <1>4, <1>8, <1>11, <1>12
  <2> QED BY <1>21, <2>1, <2>2
<1>23. d[a].type \in Known
  BY DEF Known
<1>24. Loading(d, Front(st), 0, <<Len(h2)>>, bm2, h2, ps)
  BY <1>8, <1>12, <1>13, <1>15, <1>20, <1>22, <1>23, BlockStored
<1> QED BY <1>8, <1>24 DEF bm2, h2, bm1, h1, data

\* Without any channel group the pointer to the data is cleared.
LEMMA EmptyGroupKeeps ==
    ASSUME NEW d, NEW st, NEW bm, NEW h, NEW ps, NEW a, NEW o \in Blocks, NEW old,
           Loading(d, st, 0, <<>>, bm, h, ps), st # <<>>, ~Room(d, st[Len(st)]),
           a = st[Len(st)].addr, d[a].type = "DG", d[a].read = "all",
           old = st[Len(st)].links[3],
           Chain(h, st[Len(st)].links[2], "CG") = <<>>,
           o.type = d[a].type, o.addr = a,
           o.links = [st[Len(st)].links EXCEPT ![3] = 0]
    PROVE  Loading(d, Front(st), 0, <<Len(h) + 1>>,
                   Stored(Replaced(bm, old, 0), a, Len(h) + 1), Append(h, o), ps)
<1> DEFINE f == st[Len(st)]
           r == Len(h) + 1
           h2 == Append(h, o)
           bm1 == Replaced(bm, old, 0)
           bm2 == Stored(bm1, a, r)
           x == d[a].links[3]
<1>1. /\ h \in Seq(Blocks) /\ Len(h) \in Nat /\ bm \in [DOMAIN bm -> 0..Len(h)]
      /\ DOMAIN bm \subseteq DOMAIN d /\ DiskOK(d) /\ DataOnce(d) /\ Mapped(d, bm, h)
      /\ \A c \in DOMAIN bm : bm[c] \in 0..Len(h)
  BY DEF Loading, Typed
<1>2. /\ a \in DOMAIN d /\ a \notin DOMAIN bm /\ f.links \in Seq(Nat)
      /\ Len(f.links) = Len(d[a].links) /\ Len(f.links) > 2
      /\ \A i \in 1..Len(f.links) :
            Right(d, bm, f.links[i], d[a].links[i]) /\ f.links[i] \in 0..Len(h)
  <2>1. /\ f.addr \in DOMAIN d /\ f.addr \notin DOMAIN bm
        /\ f.links \in Seq(Nat) /\ Len(f.links) = Len(d[f.addr].links)
        /\ \A i \in 1..Len(f.links) :
              /\ Right(d, bm, f.links[i], d[f.addr].links[i])
              /\ f.links[i] \in 0..Len(h)
        /\ d[f.addr].type = "DG" => Len(f.links) > 2
    BY LinksOfTop, Zenon
  <2>2. f.addr = a
    OBVIOUS
  <2> HIDE DEF f
  <2> QED BY <2>1, <2>2, Zenon
<1>3. 2 \in 1..Len(f.links) /\ 3 \in 1..Len(f.links)
  BY <1>2
<1>8. /\ h2 \in Seq(Blocks) /\ Len(h2) = r /\ h2[r] = o
      /\ Len(h2) > Len(h) /\ \A p \in 1..Len(h) : h2[p] = h[p]
  BY <1>1
<1> HIDE DEF h2
<1>4. ASSUME NEW c \in DOMAIN bm, bm[c] = old, old # 0 PROVE DataOf(d, a, c)
  <2>1. Right(d, bm, old, x)
    BY <1>2, <1>3
  <2>2. x # 0 /\ x \in DOMAIN bm /\ old = bm[x]
    BY <1>4, <2>1 DEF Right
  <2>3. Faithful(d, bm, h, x, h[old]) /\ Faithful(d, bm, h, c, h[old])
    BY <1>1, <1>4, <2>2 DEF Mapped
  <2>4. c = x
    BY <2>3 DEF Faithful
  <2> QED BY <2>2, <2>4 DEF DataOf
<1>11. /\ DOMAIN bm1 = DOMAIN bm
       /\ \A c \in DOMAIN bm : bm1[c] # bm[c] => bm1[c] = 0 /\ DataOf(d, a, c)
  <2>1. CASE bm1 = bm
    <3> HIDE DEF bm1
    <3> QED BY <2>1
  <2>2. CASE bm1 # bm
    <3>1. bm1 = [c \in DOMAIN bm |-> IF bm[c] = old THEN 0 ELSE bm[c]] /\ old # 0
      BY <2>2 DEF Replaced
    <3> HIDE DEF bm1
    <3> QED BY <1>4, <3>1
  <2> QED BY <2>1, <2>2
<1> HIDE DEF bm1
<1>12. /\ DOMAIN bm2 = DOMAIN bm \cup {a} /\ bm2[a] = r
       /\ \A c \in DOMAIN bm : bm2[c] = bm1[c]
  BY <1>2, <1>11 DEF Stored
<1>13. bm2 \in [DOMAIN bm2 -> 0..Len(h2)]
  <2>1. bm2 = [c \in DOMAIN bm2 |-> bm2[c]]
    BY DEF Stored
  <2> HIDE DEF bm2
  <2>2. ASSUME NEW c \in DOMAIN bm2 PROVE bm2[c] \in 0..r
    <3>1. CASE c = a
      BY <1>1, <1>12, <3>1
    <3>2. CASE c # a
      <4>1. c \in DOMAIN bm /\ (bm2[c] = bm[c] \/ bm2[c] = 0)
        BY <1>11, <1>12, <3>2
      <4>2. bm[c] \in 0..Len(h)
        BY <1>1, <4>1
      <4> QED BY <1>1, <4>1, <4>2
    <3> QED BY <3>1, <3>2
  <2> QED BY <1>8, <2>1, <2>2
<1> HIDE DEF bm2
<1>15. Spared(d, a, bm, bm2)
  BY <1>11, <1>12 DEF Spared
<1>17. ASSUME NEW i \in 1..Len(f.links), i # 3
       PROVE  Right(d, bm2, f.links[i], d[a].links[i])
  <2>1. i \in DOMAIN d[a].links
    <3>1. d[a].links \in Seq(Nat)
      BY <1>1, <1>2 DEF DiskOK
    <3> QED BY <1>2, <3>1
  <2>2. ~DataOf(d, a, d[a].links[i])
    BY <1>1, <1>2, <1>17, <2>1 DEF DataOnce
  <2> QED BY <1>2, <1>15, <2>2, StaysRight
<1>18. /\ Len(o.links) = Len(f.links) /\ o.links[3] = 0
       /\ \A i \in 1..Len(f.links) : i # 3 => o.links[i] = f.links[i]
  BY <1>2, <1>3
<1>19. ~GroupFirst(h2, o.links[2])
  <2>1. ~(f.links[2] \in DOMAIN h /\ h[f.links[2]].type = "CG")
    BY <1>1, ChainFirst
  <2>2. f.links[2] \in DOMAIN h2 => f.links[2] \in DOMAIN h /\ h2[f.links[2]] = h[f.links[2]]
    <3>1. f.links[2] \in 0..Len(h)
      BY <1>2, <1>3
    <3>2. DOMAIN h2 = 1..r /\ DOMAIN h = 1..Len(h)
      BY <1>1, <1>8
    <3> HIDE DEF f
    <3> QED BY <1>1, <1>8, <3>1, <3>2
  <2> QED BY <1>3, <1>18, <2>1, <2>2 DEF GroupFirst
<1>20. Faithful(d, bm2, h2, a, o)
  <2>1. Cleared(d, h2, o, 3)
    BY <1>19 DEF Cleared
  <2>2. \A i \in 1..Len(o.links) : i # 3 => ~Cleared(d, h2, o, i)
    BY DEF Cleared
  <2>3. ASSUME NEW i \in 1..Len(o.links)
        PROVE  IF Cleared(d, h2, o, i) THEN o.links[i] = 0
               ELSE Right(d, bm2, o.links[i], d[a].links[i])
    <3>1. CASE i = 3
      BY <1>18, <2>1, <3>1
    <3>2. CASE i # 3
      BY <1>17, <1>18, <2>2, <3>2
    <3> QED BY <3>1, <3>2
  <2> QED BY <1>2, <1>18, <2>3 DEF Faithful
<1>22. \A c \in DOMAIN bm : bm2[c] # bm[c] /\ bm2[c] # 0 =>
          Faithful(d, bm2, h2, c, h2[bm2[c]])
  BY <1>11, <1>12
<1>23. d[a].type \in Known
  BY DEF Known
<1>24. Loading(d, Front(st), 0, <<Len(h2)>>, bm2, h2, ps)
  BY <1>8, <1>12, <1>13, <1>15, <1>20, <1>22, <1>23, BlockStored
<1> QED BY <1>8, <1>24 DEF bm2, h2, bm1

-----------------------------------------------------------------------------
(* The blocks that are linked from the header.                               *)

\* What following links reaches stays in a set that is closed under them.
LEMMA ReachedWithin ==
    ASSUME NEW S, NEW h \in Seq(S), NEW roots, NEW slots, NEW W, roots \subseteq W,
           \A r \in W : r \in DOMAIN h => LinksIn(h[r], slots) \subseteq W
    PROVE  Reachable(h, roots, slots) \subseteq W \ {0}
<1> DEFINE to == [r \in DOMAIN h |-> LinksIn(h[r], slots)]
<1>1. IsFiniteSet(DOMAIN to) /\ \A r \in W \cap DOMAIN to : to[r] \subseteq W
  <2>1. DOMAIN to = 1..Len(h) /\ Len(h) \in Nat
    OBVIOUS
  <2>2. IsFiniteSet(DOMAIN to)
    BY <2>1, FS_Interval
  <2> QED BY <2>2
<1> HIDE DEF to
<1>2. Closure(roots, to) \subseteq W
  BY <1>1, ClosureIsLeast
<1> QED BY <1>2 DEF Reachable, to

\* It is closed itself, and holds where it started.
LEMMA ReachedCloses ==
    ASSUME NEW S, NEW h \in Seq(S), NEW roots, NEW slots
    PROVE  /\ roots \ {0} \subseteq Reachable(h, roots, slots)
           /\ \A r \in Reachable(h, roots, slots) : r \in DOMAIN h =>
                 LinksIn(h[r], slots) \ {0} \subseteq Reachable(h, roots, slots)
<1> DEFINE to == [r \in DOMAIN h |-> LinksIn(h[r], slots)]
<1>1. IsFiniteSet(DOMAIN to) /\ DOMAIN to = DOMAIN h
      /\ \A r \in DOMAIN h : to[r] = LinksIn(h[r], slots)
  <2>1. DOMAIN to = 1..Len(h) /\ Len(h) \in Nat
    OBVIOUS
  <2>2. IsFiniteSet(DOMAIN to)
    BY <2>1, FS_Interval
  <2> QED BY <2>2
<1>2. Reachable(h, roots, slots) = Closure(roots, to) \ {0}
  BY DEF Reachable
<1> HIDE DEF to
<1>3. /\ roots \subseteq Closure(roots, to)
      /\ \A a \in Closure(roots, to) \cap DOMAIN to : to[a] \subseteq Closure(roots, to)
  BY <1>1, ClosureIsClosed
<1> QED BY <1>1, <1>2, <1>3

\* Every block linked from the header is in the map, under its address.
LEMMA LiveIsMapped ==
    ASSUME NEW d, NEW st, NEW w, NEW rt, NEW bm, NEW h, NEW ps,
           Loading(d, st, w, rt, bm, h, ps), 64 \in DOMAIN bm,
           NEW slots
    PROVE  \A r \in Reachable(h, {bm[64]}, slots) :
              /\ r # 0
              /\ \E a \in DOMAIN bm : r = bm[a]
<1> DEFINE W == {bm[a] : a \in DOMAIN bm} \cup {0}
<1>1. h \in Seq(Blocks) /\ Mapped(d, bm, h) /\ Len(h) \in Nat
  BY DEF Loading, Typed
<1>2. {bm[64]} \subseteq W
  OBVIOUS
<1>3. ASSUME NEW r \in W, r \in DOMAIN h PROVE LinksIn(h[r], slots) \subseteq W
  <2>1. PICK a \in DOMAIN bm : r = bm[a]
    BY <1>1, <1>3
  <2>2. r # 0 /\ h[r] \in Blocks
    BY <1>1, <1>3
  <2>3. Faithful(d, bm, h, a, h[r])
    BY <1>1, <2>1, <2>2 DEF Mapped
  <2>4. h[r].links \in Seq(Nat)
    BY <2>2, BlockFields
  <2>5. ASSUME NEW i \in DOMAIN h[r].links PROVE h[r].links[i] \in W
    <3>1. i \in 1..Len(h[r].links)
      BY <2>4
    <3>2. h[r].links[i] = 0 \/ Right(d, bm, h[r].links[i], d[a].links[i])
      BY <2>3, <3>1 DEF Faithful
    <3> QED BY <3>2 DEF Right
  <2> QED BY <2>5 DEF LinksIn
<1>4. Reachable(h, {bm[64]}, slots) \subseteq W \ {0}
  <2> HIDE DEF W
  <2> QED BY <1>1, <1>2, <1>3, ReachedWithin
<1> QED BY <1>4

-----------------------------------------------------------------------------
(* The steps of the loader.                                                  *)

LEMMA ABlock ==
    ASSUME NEW t \in Types, NEW a \in Nat, NEW l \in Nat, NEW links \in Seq(Nat),
           NEW size \in Nat, NEW records \in Nat, NEW vlsd \in BOOLEAN, NEW k \in Kinds
    PROVE  LET o == [type |-> t, addr |-> a, loc |-> l, links |-> links, size |-> size,
                     records |-> records, vlsd |-> vlsd, kind |-> k]
           IN o \in Blocks /\ o.type = t /\ o.addr = a /\ o.links = links
BY DEF Blocks

LEMMA OneElement ==
    ASSUME NEW s \in Seq(Nat), NEW n \in Nat
    PROVE  [s EXCEPT ![3] = n] \in Seq(Nat)
<1>1. CASE 3 \in 1..Len(s)
  BY <1>1, ExceptSeq
<1>2. CASE 3 \notin 1..Len(s)
  <2>1. DOMAIN s = 1..Len(s)
    OBVIOUS
  <2>2. [s EXCEPT ![3] = n] = s
    BY <1>2, <2>1
  <2> QED BY <2>2
<1> QED BY <1>1, <1>2

LEMMA CreatedFields ==
    ASSUME DiskOK(disk), NEW a \in DOMAIN disk, NEW links \in Seq(Nat)
    PROVE  /\ Created(a, links) \in Blocks
           /\ Created(a, links).type = disk[a].type
           /\ Created(a, links).addr = a
           /\ Created(a, links).links = links
<1> DEFINE k == CASE disk[a].type = "DT" -> "raw" [] disk[a].type = "SD" -> "cont"
                  [] OTHER -> ""
           l == a + 24 + 8 * Len(links)
<1>1. k \in Kinds
  BY DEF Kinds
<1>2. l \in Nat
  <2>1. a \in Nat
    BY DEF DiskOK
  <2>2. Len(links) \in Nat
    OBVIOUS
  <2> QED BY <2>1, <2>2
<1>3. /\ disk[a].type \in Types /\ a \in Nat /\ disk[a].size \in Nat
      /\ disk[a].records \in Nat /\ disk[a].vlsd \in BOOLEAN
  BY DEF DiskOK, Types
<1>4. Created(a, links) =
         [type |-> disk[a].type, addr |-> a, loc |-> l, links |-> links,
          size |-> disk[a].size, records |-> disk[a].records,
          vlsd |-> disk[a].vlsd, kind |-> k]
  BY DEF Created
<1> HIDE DEF k, l
<1>5. LET o == [type |-> disk[a].type, addr |-> a, loc |-> l, links |-> links,
                size |-> disk[a].size, records |-> disk[a].records,
                vlsd |-> disk[a].vlsd, kind |-> k]
      IN o \in Blocks /\ o.type = disk[a].type /\ o.addr = a /\ o.links = links
  BY <1>1, <1>2, <1>3, ABlock, Zenon
<1> QED BY <1>4, <1>5, Zenon

LoadingNow == Loading(disk, stack, want, ret, blockMap, heap, pos)

LEMMA StepKeeps ==
    ASSUME LoadingNow, LoaderStep
    PROVE  LoadingNow'
<1> DEFINE f == stack[Len(stack)]
<1>1. CASE FindLoaded
  <2>1. /\ disk' = disk /\ stack' = stack /\ want' = 0 /\ ret' = <<blockMap[want]>>
        /\ blockMap' = blockMap /\ heap' = heap /\ pos' = pos /\ want \in DOMAIN blockMap
    BY <1>1 DEF FindLoaded
  <2>2. Loading(disk, stack, 0, <<blockMap[want]>>, blockMap, heap, pos)
    BY <2>1, FindKeeps DEF LoadingNow
  <2> QED BY <2>1, <2>2 DEF LoadingNow
<1>2. CASE ReadHeader
  <2> DEFINE st2 == Append(stack, [addr |-> want, links |-> <<>>, back |-> <<>>])
  <2>1. /\ disk' = disk /\ stack' = st2 /\ want' = 0 /\ ret' = ret
        /\ blockMap' = blockMap /\ heap' = heap /\ pos' = <<want, 1>>
        /\ want # 0 /\ want \notin DOMAIN blockMap /\ want \in DOMAIN disk
    BY <1>2 DEF ReadHeader, Missing, HeaderReadable
  <2>2. Loading(disk, st2, 0, ret, blockMap, heap, <<want, 1>>)
    BY <2>1, ReadKeeps DEF LoadingNow
  <2> QED BY <2>1, <2>2 DEF LoadingNow
<1>3. ASSUME Calling, MoreLinks
      PROVE  /\ Loading(disk, stack, 0, <<>>, blockMap, heap, pos) /\ stack # <<>>
             /\ Room(disk, f) /\ LinkHere = NextLink(disk, f)
             /\ Behind = <<f.addr, Len(f.links) + 2>>
             /\ NextLink(disk, f) \in Nat
  <2>1. Loading(disk, stack, 0, <<>>, blockMap, heap, pos) /\ stack # <<>>
    BY <1>3 DEF LoadingNow, Calling
  <2>2. Room(disk, f)
    BY <1>3 DEF MoreLinks, Top, Room
  <2>3. /\ DiskOK(disk) /\ stack \in Seq(Frames) /\ Calls(disk, stack, blockMap)
        /\ Innermost(disk, stack, 0, <<>>, blockMap, pos)
    BY <2>1 DEF Loading, Typed, Walking
  <2> HIDE DEF f
  <2>4. /\ (IF pos[2] > Len(disk[pos[1]].links) THEN 0 ELSE disk[pos[1]].links[pos[2]])
              = NextLink(disk, f)
        /\ <<pos[1], pos[2] + 1>> = <<f.addr, Len(f.links) + 2>>
        /\ NextLink(disk, f) \in Nat
    BY <2>1, <2>2, <2>3, StandsAtLink DEF f
  <2> QED BY <2>1, <2>2, <2>4 DEF LinkHere, Behind
<1>4. CASE SkipLink
  <2> DEFINE st2 == [stack EXCEPT ![Len(stack)] =
                        [stack[Len(stack)] EXCEPT !.links = Append(@, 0)]]
             ps2 == <<f.addr, Len(f.links) + 2>>
  <2>1. Calling /\ MoreLinks /\ LinkHere = 0
    BY <1>4 DEF SkipLink, MoreLinks
  <2>2. Loading(disk, st2, 0, <<>>, blockMap, heap, ps2)
    BY <1>3, <2>1, SkipKeeps
  <2>3. stack' = st2 /\ pos' = ps2
    BY <1>3, <1>4, <2>1 DEF SkipLink, InTop, Top
  <2>4. /\ disk' = disk /\ want' = 0 /\ ret' = <<>>
        /\ blockMap' = blockMap /\ heap' = heap
    BY <1>4, <2>1 DEF SkipLink, Calling
  <2> QED BY <2>2, <2>3, <2>4 DEF LoadingNow
<1>5. CASE FollowLink
  <2> DEFINE ps2 == <<f.addr, Len(f.links) + 2>>
             st2 == [stack EXCEPT ![Len(stack)] =
                        [stack[Len(stack)] EXCEPT !.back = ps2]]
  <2>1. Calling /\ MoreLinks /\ LinkHere # 0
    BY <1>5 DEF FollowLink, MoreLinks
  <2>2. Loading(disk, st2, NextLink(disk, f), <<>>, blockMap, heap, ps2)
    BY <1>3, <2>1, FollowKeeps
  <2>3. stack' = st2 /\ pos' = ps2 /\ want' = NextLink(disk, f)
    BY <1>3, <1>5, <2>1 DEF FollowLink, InTop, Top
  <2>4. disk' = disk /\ ret' = <<>> /\ blockMap' = blockMap /\ heap' = heap
    BY <1>5, <2>1 DEF FollowLink, Calling
  <2> QED BY <2>2, <2>3, <2>4 DEF LoadingNow
<1>6. CASE LinkLoaded
  <2> DEFINE st2 == [stack EXCEPT ![Len(stack)] =
                        [stack[Len(stack)] EXCEPT !.links = Append(@, ret[1])]]
  <2>1. Loading(disk, st2, 0, <<>>, blockMap, heap, f.back) /\ want = 0
    BY <1>6, TakeKeeps DEF LoadingNow, LinkLoaded
  <2>2. /\ disk' = disk /\ stack' = st2 /\ pos' = f.back /\ want' = want /\ ret' = <<>>
        /\ blockMap' = blockMap /\ heap' = heap
    BY <1>6 DEF LinkLoaded, InTop, Top
  <2> QED BY <2>1, <2>2 DEF LoadingNow
<1>7. ASSUME LinksDone
      PROVE  /\ Loading(disk, stack, 0, <<>>, blockMap, heap, pos) /\ stack # <<>>
             /\ ~Room(disk, f) /\ want = 0 /\ f.addr \in DOMAIN disk
             /\ f.links \in Seq(Nat) /\ DiskOK(disk) /\ Len(heap) \in Nat
             /\ heap \in Seq(Blocks)
  <2>1. Loading(disk, stack, 0, <<>>, blockMap, heap, pos) /\ stack # <<>> /\ want = 0
    BY <1>7 DEF LoadingNow, Calling, LinksDone
  <2>2. f \in Frames /\ f.addr \in DOMAIN disk
    <3>1. Len(stack) \in 1..Len(stack) /\ stack \in Seq(Frames)
      BY <2>1 DEF Loading, Typed
    <3> QED BY <2>1, <3>1 DEF Loading, Walking, Calls, Running
  <2>3. Len(f.links) \in Nat /\ f.links \in Seq(Nat)
    BY <2>2, FrameFields
  <2>4. Len(f.links) = Len(disk[f.addr].links)
    BY <1>7 DEF LinksDone, Top
  <2>5. ~Room(disk, f)
    <3> HIDE DEF f
    <3> QED BY <2>3, <2>4 DEF Room
  <2>6. DiskOK(disk) /\ Len(heap) \in Nat /\ heap \in Seq(Blocks)
    BY <2>1 DEF Loading, Typed
  <2> QED BY <2>1, <2>2, <2>3, <2>5, <2>6
<1>8. CASE MakeNothing
  <2>1. LinksDone /\ disk[f.addr].type \notin Known
    BY <1>8 DEF MakeNothing, Top
  <2>2. Loading(disk, Front(stack), 0, <<0>>, blockMap, heap, pos)
    BY <1>7, <2>1, NothingKeeps
  <2>3. /\ disk' = disk /\ stack' = Front(stack) /\ pos' = pos /\ want' = 0
        /\ ret' = <<0>> /\ blockMap' = blockMap /\ heap' = heap
    BY <1>7, <1>8, <2>1 DEF MakeNothing, Return
  <2> QED BY <2>2, <2>3 DEF LoadingNow
<1>9. CASE MakeBlock
  <2> DEFINE o == Created(f.addr, f.links)
             r == Len(heap) + 1
  <2>1. LinksDone /\ disk[f.addr].type \in Known
        /\ ~(disk[f.addr].type = "DG" /\ disk[f.addr].read = "all")
    BY <1>9 DEF MakeBlock, Top, Loads
  <2>2. o \in Blocks /\ o.type = disk[f.addr].type /\ o.addr = f.addr /\ o.links = f.links
    BY <1>7, <2>1, CreatedFields
  <2>3. Loading(disk, Front(stack), 0, <<r>>, Stored(blockMap, f.addr, r),
                Append(heap, o), pos)
    <3> HIDE DEF o
    <3> QED BY <1>7, <2>1, <2>2, BlockKeeps
  <2>4. /\ disk' = disk /\ stack' = Front(stack) /\ pos' = pos /\ want' = 0
        /\ ret' = <<r>> /\ blockMap' = Stored(blockMap, f.addr, r)
        /\ heap' = Append(heap, o)
    <3>1. /\ heap' = Append(heap, Created(Top.addr, Top.links))
          /\ blockMap' = Stored(blockMap, Top.addr, Len(heap) + 1)
          /\ ret' = <<Len(heap) + 1>> /\ stack' = Front(stack)
          /\ disk' = disk /\ pos' = pos /\ want' = want
      BY <1>9 DEF MakeBlock, Return
    <3> QED BY <1>7, <2>1, <3>1 DEF Top
  <2> QED BY <2>3, <2>4 DEF LoadingNow
<1>10. CASE MakeDataGroup
  <2> DEFINE o == Created(f.addr, [f.links EXCEPT ![3] = NewData])
             old == f.links[3]
  <2>1. LinksDone /\ disk[f.addr].type = "DG" /\ disk[f.addr].read = "all"
        /\ (Groups # <<>> => HasData)
    BY <1>10 DEF MakeDataGroup, Top, Loads
  <2>2. Groups = Chain(heap, f.links[2], "CG")
    BY DEF Groups, Top
  <2>3. NewData \in Nat /\ [f.links EXCEPT ![3] = NewData] \in Seq(Nat)
    <3>1. NewData \in Nat
      BY <1>7, <2>1 DEF NewData
    <3> QED BY <1>7, <2>1, <3>1, OneElement
  <2>4. /\ o \in Blocks /\ o.type = disk[f.addr].type /\ o.addr = f.addr
        /\ o.links = [f.links EXCEPT ![3] = NewData]
    BY <1>7, <2>1, <2>3, CreatedFields
  <2>5. /\ disk' = disk /\ stack' = Front(stack) /\ pos' = pos /\ want' = 0
    BY <1>7, <1>10, <2>1 DEF MakeDataGroup, Return
  <2>6. LET made == IF Groups = <<>> THEN <<>> ELSE <<Replacement>>
            r == Len(heap) + Len(made) + 1
        IN /\ heap' = heap \o made \o <<o>>
           /\ blockMap' = Stored(Replaced(blockMap, old, NewData), f.addr, r)
           /\ ret' = <<r>>
    BY <1>10, Zenon DEF MakeDataGroup, Return, Top
  <2> HIDE DEF o
  <2>7. CASE Groups = <<>>
    <3>1. NewData = 0
      BY <2>7 DEF NewData
    <3>2. Loading(disk, Front(stack), 0, <<Len(heap) + 1>>,
                  Stored(Replaced(blockMap, old, 0), f.addr, Len(heap) + 1),
                  Append(heap, o), pos)
      BY <1>7, <2>1, <2>2, <2>4, <2>7, <3>1, EmptyGroupKeeps
    <3>3. Len(heap) + Len(<<>>) + 1 = Len(heap) + 1
      BY <1>7, <2>1
    <3>4. heap \o <<>> \o <<o>> = Append(heap, o)
      <4>1. heap \o <<>> = heap
        BY <1>7, <2>1, ConcatEmptySeq
      <4>2. heap \o <<o>> = Append(heap, o)
        BY <1>7, <2>1, <2>4, AppendIsConcat
      <4> QED BY <4>1, <4>2, Zenon
    <3>5. /\ heap' = Append(heap, o) /\ ret' = <<Len(heap) + 1>>
          /\ blockMap' = Stored(Replaced(blockMap, old, 0), f.addr, Len(heap) + 1)
      BY <2>6, <2>7, <3>1, <3>3, <3>4, Zenon
    <3> QED BY <2>5, <3>2, <3>5, Zenon DEF LoadingNow
  <2>8. CASE Groups # <<>>
    <3> DEFINE k == IF Len(Groups) > 1 THEN "multi" ELSE "cont"
               data == [heap[old] EXCEPT !.kind = k]
    <3>1. NewData = Len(heap) + 1 /\ old # 0 /\ heap[old].type = "DT"
      BY <2>1, <2>8 DEF NewData, HasData, IsData, Top
    <3>2. Replacement = data /\ k \in Kinds
      BY DEF Replacement, Top, Kinds
    <3> HIDE DEF k
    <3>3. Loading(disk, Front(stack), 0, <<Len(heap) + 2>>,
                  Stored(Replaced(blockMap, old, Len(heap) + 1), f.addr, Len(heap) + 2),
                  Append(Append(heap, data), o), pos)
      BY <1>7, <2>1, <2>2, <2>4, <2>8, <3>1, <3>2, GroupKeeps
    <3>4. data \in Blocks
      <4>1. old \in DOMAIN heap
        <5>1. /\ \A i \in 1..Len(f.links) : f.links[i] \in 0..Len(heap)
              /\ Len(f.links) > 2
          BY <1>7, <2>1, LinksOfTop
        <5>2. 3 \in 1..Len(f.links)
          BY <1>7, <2>1, <5>1
        <5>3. old \in 0..Len(heap)
          BY <5>1, <5>2
        <5> HIDE DEF old
        <5> QED BY <1>7, <2>1, <3>1, <5>3
      <4>2. heap[old] \in Blocks
        BY <1>7, <2>1, <4>1
      <4> QED BY <3>2, <4>2, BlockWithKind
    <3> HIDE DEF data, old
    <3>5. Len(heap) + Len(<<data>>) + 1 = Len(heap) + 2
      BY <1>7, <2>1
    <3>6. heap \o <<data>> \o <<o>> = Append(Append(heap, data), o)
      <4>1. heap \o <<data>> = Append(heap, data) /\ Append(heap, data) \in Seq(Blocks)
        BY <1>7, <2>1, <3>4, AppendIsConcat, AppendProperties
      <4>2. Append(heap, data) \o <<o>> = Append(Append(heap, data), o)
        BY <2>4, <4>1, AppendIsConcat
      <4> QED BY <4>1, <4>2, Zenon
    <3>7. /\ heap' = Append(Append(heap, data), o) /\ ret' = <<Len(heap) + 2>>
          /\ blockMap' = Stored(Replaced(blockMap, old, Len(heap) + 1), f.addr,
                                Len(heap) + 2)
      BY <2>6, <2>8, <3>1, <3>2, <3>5, <3>6, Zenon
    <3> QED BY <2>5, <3>3, <3>7, Zenon DEF LoadingNow
  <2> QED BY <2>7, <2>8
<1>11. CASE \/ HeaderThrows \/ StackOverflows \/ LinkThrows
            \/ NoDataCrashes \/ IndexThrows \/ Loaded
  <2>1. UNCHANGED <<disk, stack, want, ret, blockMap, heap, pos>>
    BY <1>11 DEF HeaderThrows, StackOverflows, LinkThrows, NoDataCrashes, IndexThrows,
                 Loaded
  <2> QED BY <2>1 DEF LoadingNow
<1> QED BY <1>1, <1>2, <1>4, <1>5, <1>6, <1>8, <1>9, <1>10, <1>11 DEF LoaderStep

-----------------------------------------------------------------------------
(* Loaded blocks.                                                            *)

LoadInv ==
    /\ result # "none" => stage = "done"
    /\ stage # "done" => LoadingNow

LEMMA LoadStarts ==
    ASSUME Init, \A input \in Inputs : DataOnce(input.disk)
    PROVE  LoadInv
<1>1. /\ stack = <<>> /\ want = 64 /\ ret = <<>> /\ blockMap = <<>> /\ heap = <<>>
      /\ pos = <<64, 1>> /\ result = "none"
  BY DEF Init, HDAddress
<1>2. DiskOK(disk) /\ DataOnce(disk)
  BY InputsAssumption DEF Init
<1>3. DOMAIN blockMap = {} /\ Len(stack) = 0 /\ 1..Len(stack) = {}
      /\ 1..(Len(stack) - 1) = {}
  BY <1>1
<1>4. Typed(disk, stack, want, ret, blockMap, heap)
  <2>1. /\ heap \in Seq(Blocks) /\ stack \in Seq(Frames) /\ want \in Nat
        /\ ret \in Seq(Nat) /\ Len(ret) \in 0..1
    BY <1>1
  <2>2. blockMap \in [DOMAIN blockMap -> 0..Len(heap)]
    <3>1. blockMap = [x \in {} |-> x]
      BY <1>1
    <3> QED BY <1>3, <3>1
  <2>3. DOMAIN blockMap \subseteq DOMAIN disk
    BY <1>3
  <2> QED BY <1>2, <2>1, <2>2, <2>3, Zenon DEF Typed
<1>5. Walking(disk, stack, want, ret, blockMap, pos)
  <2>1. Calls(disk, stack, blockMap)
    BY <1>1, <1>3 DEF Calls
  <2> QED BY <1>1, <1>3, <2>1 DEF Walking
<1>6. Mapped(disk, blockMap, heap)
  BY <1>3 DEF Mapped
<1> QED BY <1>1, <1>2, <1>4, <1>5, <1>6 DEF LoadInv, LoadingNow, Loading

LEMMA LoadSteps ==
    ASSUME LoadInv, [Next]_vars
    PROVE  LoadInv'
<1> DEFINE Loader == <<disk, pos, stack, want, ret, blockMap, heap>>
<1>1. ASSUME UNCHANGED Loader PROVE LoadingNow' = LoadingNow
  BY <1>1 DEF LoadingNow
<1>2. CASE UNCHANGED vars
  <2>1. UNCHANGED Loader /\ stage' = stage /\ result' = result
    BY <1>2 DEF vars, createVars, savingVars, storageVars
  <2> QED BY <1>1, <2>1 DEF LoadInv
<1>3. CASE OpenFails \/ FilterThrows \/ LoadThrows \/ LoadInfo
  <2>1. stage' = "done"
    BY <1>3 DEF OpenFails, FilterThrows, LoadThrows, LoadInfo, End
  <2> QED BY <2>1 DEF LoadInv
<1>4. CASE Open \/ NotEncrypted \/ Encrypted \/ NotCompressed \/ Compressed
  <2>1. UNCHANGED Loader /\ stage # "done" /\ result' = result
    BY <1>4 DEF Open, NotEncrypted, Encrypted, NotCompressed, Compressed, savingVars,
                storageVars
  <2> QED BY <1>1, <2>1 DEF LoadInv
<1>5. CASE LoadID
  <2>1. UNCHANGED Loader /\ stage # "done"
        /\ (stage' = "done" \/ result' = result)
    BY <1>5 DEF LoadID, savingVars, storageVars, End
  <2> QED BY <1>1, <2>1 DEF LoadInv
<1>6. CASE LoadBlocks
  <2>1. LoaderStep /\ stage = "blocks" /\ stage' = stage /\ result' = result
    BY <1>6 DEF LoadBlocks, createVars
  <2> QED BY <2>1, StepKeeps DEF LoadInv
<1>7. CASE TagThrows \/ LoadInfoCrashes
  <2>1. UNCHANGED Loader /\ stage' = stage /\ result' = result
    BY <1>7 DEF TagThrows, LoadInfoCrashes, createVars
  <2> QED BY <1>1, <2>1 DEF LoadInv
<1>8. CASE Save
  <2>1. result = "file" /\ stage' = stage /\ result' = result
    BY <1>8 DEF Save, createVars
  <2> QED BY <2>1 DEF LoadInv
<1> QED BY <1>2, <1>3, <1>4, <1>5, <1>6, <1>7, <1>8 DEF Next

LEMMA LoadInvImplies ==
    ASSUME LoadInv
    PROVE  LoadedIsTheFile
<1> DEFINE live == LinkedBlocks
           Clear(r, i) ==
               /\ i = 3 /\ heap[r].type = "DG" /\ GroupsOf(heap, r) = <<>>
               /\ disk[heap[r].addr].read = "all"
           Fits(r) ==
               LET block == disk[heap[r].addr] IN
               /\ heap[r].type = block.type
               /\ \A i \in DOMAIN block.links :
                   LET to == heap[r].links[i] IN
                   IF /\ block.links[i] # 0 /\ ~Clear(r, i)
                      /\ disk[block.links[i]].type \in Known
                   THEN to # 0 /\ heap[to].addr = block.links[i]
                   ELSE to = 0
               /\ \A s \in live : heap[s].addr = heap[r].addr => s = r
               /\ blockMap[heap[r].addr] = r
<1> SUFFICES ASSUME fate = "returned", stage = "blocks", HasHeader, NEW r \in live
             PROVE  Fits(r)
  BY DEF LoadedIsTheFile
<1>1. LoadingNow /\ 64 \in DOMAIN blockMap
  BY DEF LoadInv, HasHeader, HDAddress
<1>2. /\ DiskOK(disk) /\ Mapped(disk, blockMap, heap) /\ heap \in Seq(Blocks)
      /\ DOMAIN blockMap \subseteq DOMAIN disk /\ Len(heap) \in Nat
      /\ \A a \in DOMAIN blockMap : blockMap[a] \in 0..Len(heap)
  BY <1>1 DEF LoadingNow, Loading, Typed
<1>3. \A s \in live : s # 0 /\ \E a \in DOMAIN blockMap : s = blockMap[a]
  <2>1. live = Reachable(heap, {blockMap[64]}, Nat)
    BY DEF LinkedBlocks, HD, HDAddress
  <2> HIDE DEF live
  <2> QED BY <1>1, <2>1, LiveIsMapped DEF LoadingNow
<1>4. ASSUME NEW a \in DOMAIN blockMap, blockMap[a] # 0
      PROVE  Faithful(disk, blockMap, heap, a, heap[blockMap[a]])
  BY <1>2, <1>4 DEF Mapped
<1>5. PICK a \in DOMAIN blockMap : r = blockMap[a]
  BY <1>3
<1>6. r # 0 /\ Faithful(disk, blockMap, heap, a, heap[r]) /\ r \in DOMAIN heap
  <2>1. r # 0
    BY <1>3
  <2>2. r \in DOMAIN heap
    BY <1>2, <1>5, <2>1
  <2> QED BY <1>4, <1>5, <2>1, <2>2
<1>7. heap[r].addr = a /\ heap[r].type = disk[a].type
      /\ Len(heap[r].links) = Len(disk[a].links) /\ heap[r].links \in Seq(Nat)
      /\ disk[a].links \in Seq(Nat) /\ (disk[a].type = "DG" => Len(disk[a].links) > 2)
  <2>1. heap[r] \in Blocks
    BY <1>2, <1>6
  <2> QED BY <1>2, <1>5, <1>6, <2>1, BlockFields DEF Faithful, DiskOK
<1>8. \A s \in live : heap[s].addr = a => s = r
  <2> SUFFICES ASSUME NEW s \in live, heap[s].addr = a PROVE s = r
    OBVIOUS
  <2>1. PICK b \in DOMAIN blockMap : s = blockMap[b]
    BY <1>3
  <2>2. Faithful(disk, blockMap, heap, b, heap[s])
    <3>1. s # 0
      BY <1>3
    <3> QED BY <1>4, <2>1, <3>1
  <2>3. b = a
    BY <2>2 DEF Faithful
  <2> QED BY <1>5, <2>1, <2>3
<1>9. \A i : Clear(r, i) <=> Cleared(disk, heap, heap[r], i)
  <2>1. ASSUME heap[r].type = "DG"
        PROVE  GroupsOf(heap, r) = <<>> <=> ~GroupFirst(heap, heap[r].links[2])
    <3>1. Linked(heap, r, 2) = heap[r].links[2]
      <4>1. ~(2 > Len(heap[r].links))
        BY <1>7, <2>1
      <4> QED BY <1>6, <4>1 DEF Linked
    <3> QED BY <1>2, <3>1, ChainFirst DEF GroupsOf, GroupFirst
  <2> QED BY <2>1, Zenon DEF Cleared
<1>10. ASSUME NEW i \in DOMAIN disk[a].links
       PROVE  IF /\ disk[a].links[i] # 0 /\ ~Clear(r, i)
                 /\ disk[disk[a].links[i]].type \in Known
              THEN heap[r].links[i] # 0
                   /\ heap[heap[r].links[i]].addr = disk[a].links[i]
              ELSE heap[r].links[i] = 0
  <2> DEFINE to == heap[r].links[i]
             e == disk[a].links[i]
  <2>1. i \in 1..Len(heap[r].links)
    BY <1>7
  <2>2. CASE Clear(r, i)
    <3>1. to = 0
      BY <1>6, <1>9, <2>1, <2>2 DEF Faithful
    <3> HIDE DEF Clear
    <3> QED BY <2>2, <3>1
  <2>3. CASE ~Clear(r, i)
    <3>1. Right(disk, blockMap, to, e)
      <4> HIDE DEF Clear
      <4> QED BY <1>6, <1>9, <2>1, <2>3 DEF Faithful
    <3>2. CASE e # 0 /\ disk[e].type \in Known
      <4>1. e \in DOMAIN blockMap /\ to = blockMap[e] /\ to # 0
        BY <3>1, <3>2 DEF Right
      <4>2. heap[to].addr = e
        BY <1>4, <4>1 DEF Faithful
      <4> HIDE DEF Clear
      <4> QED BY <2>3, <3>2, <4>1, <4>2
    <3>3. CASE ~(e # 0 /\ disk[e].type \in Known)
      <4>1. to = 0
        BY <3>1, <3>3 DEF Right
      <4> HIDE DEF Clear
      <4> QED BY <3>3, <4>1
    <3> QED BY <3>2, <3>3
  <2> QED BY <2>2, <2>3
<1> HIDE DEF Clear
<1> QED BY <1>5, <1>7, <1>8, <1>10, Zenon

\* The blocks in memory are those of the file, each once and linked as there.
THEOREM LoadsTheFile ==
    ASSUME \A input \in Inputs : DataOnce(input.disk)
    PROVE  Spec => []LoadedIsTheFile
<1>1. Init => LoadInv
  BY LoadStarts
<1>2. LoadInv /\ [Next]_vars => LoadInv'
  BY LoadSteps
<1>3. LoadInv => LoadedIsTheFile
  BY LoadInvImplies
<1> QED BY <1>1, <1>2, <1>3, PTL DEF Spec

-----------------------------------------------------------------------------
(* Objects whose pointers lead to objects.                                   *)

Objects(h) ==
    /\ h \in Seq(Blocks)
    /\ \A r \in DOMAIN h : \A i \in DOMAIN h[r].links : h[r].links[i] \in 0..Len(h)

\* Some of their pointers may lead to the next ones made.
Pointing(h, n) ==
    /\ h \in Seq(Blocks)
    /\ \A r \in DOMAIN h : \A i \in DOMAIN h[r].links : h[r].links[i] \in 0..n

LEMMA LinkedIsObject ==
    ASSUME NEW h, Objects(h), NEW r \in 0..Len(h), NEW i \in Nat \ {0}
    PROVE  Linked(h, r, i) \in 0..Len(h)
<1>1. CASE r = 0 \/ i > Len(h[r].links)
  BY <1>1 DEF Linked, Objects
<1>2. CASE ~(r = 0 \/ i > Len(h[r].links))
  <2>1. r \in DOMAIN h
    BY <1>2 DEF Objects
  <2>2. h[r].links \in Seq(Nat)
    BY <2>1, BlockFields DEF Objects
  <2>3. i \in DOMAIN h[r].links
    BY <1>2, <2>2
  <2>4. Linked(h, r, i) = h[r].links[i]
    BY <1>2, Zenon DEF Linked
  <2> QED BY <2>1, <2>3, <2>4 DEF Objects
<1> QED BY <1>1, <1>2

\* What a chain goes through are objects of its type.
LEMMA ChainWithin ==
    ASSUME NEW S, NEW h \in Seq(S), NEW first, NEW type
    PROVE  LET c == Chain(h, first, type)
           IN c \in Seq(DOMAIN h) /\ \A i \in DOMAIN c : h[c[i]].type = type
<1> DEFINE n == Len(h)
           As(r) == IF r \in DOMAIN h /\ h[r].type = type THEN r ELSE 0
<1>1. PICK nth : Walks(h, first, type, nth)
  BY ChainWalks, Zenon
<1> DEFINE some == {m \in 0..n : nth[m] # 0}
           length == Cardinality(some)
<1>2. Chain(h, first, type) = [m \in 1..length |-> nth[m - 1]]
  BY <1>1 DEF Walks
<1>3. nth[0] = As(first) /\ \A m \in 1..n : nth[m] = As(Linked(h, nth[m - 1], 1))
  BY <1>1 DEF Walks
<1>4. n \in Nat /\ DOMAIN h = 1..n /\ 0 \notin DOMAIN h
  OBVIOUS
<1>5. IsFiniteSet(0..n) /\ Cardinality(0..n) = n + 1
  BY <1>4, FS_Interval
<1>6. IsFiniteSet(some) /\ length \in Nat /\ length <= n + 1
  <2>1. some \subseteq 0..n
    OBVIOUS
  <2> HIDE DEF some
  <2> QED BY <1>5, <2>1, FS_Subset, FS_CardinalityType
<1>7. ASSUME NEW m \in 1..n, nth[m - 1] = 0 PROVE nth[m] = 0
  <2>1. As(0) = 0 /\ Linked(h, 0, 1) = 0
    BY <1>4 DEF Linked
  <2> HIDE DEF As
  <2> QED BY <1>3, <1>7, <2>1
<1>8. ASSUME NEW i \in 1..length PROVE i - 1 \in some
  <2> SUFFICES ASSUME i - 1 \notin some PROVE FALSE
    OBVIOUS
  <2>0. i - 1 \in 0..n /\ i \in Nat
    BY <1>6
  <2>1. nth[i - 1] = 0
    BY <2>0
  <2> DEFINE Z == {m \in 0..n : m >= i - 1 => nth[m] = 0}
  <2>2. 0 \in Z
    BY <1>4, <2>0, <2>1
  <2>3. ASSUME NEW m \in 1..n, m - 1 \in Z PROVE m \in Z
    <3>1. CASE m >= i
      <4>1. m - 1 >= i - 1 /\ m - 1 \in 0..n
        BY <2>0, <3>1
      <4>2. nth[m - 1] = 0
        BY <2>3, <4>1
      <4> QED BY <1>7, <4>2
    <3>2. CASE m = i - 1
      BY <2>1, <3>2
    <3>3. CASE m < i - 1
      BY <3>3
    <3> QED BY <2>0, <3>1, <3>2, <3>3
  <2> HIDE DEF Z
  <2>4. \A m \in 0..n : m \in Z
    BY <1>4, <2>2, <2>3, CountUp
  <2>5. \A m \in some : m \in 0..(i - 2)
    BY <2>0, <2>4 DEF Z
  <2>6. some \subseteq 0..(i - 2)
    BY <2>5
  <2> HIDE DEF some
  <2>7. CASE i = 1
    <3>1. some = {}
      BY <2>6, <2>7
    <3> QED BY <2>7, <3>1, FS_EmptySet
  <2>8. CASE i # 1
    <3>1. PICK k \in Nat : k = i - 2
      BY <2>0, <2>8
    <3>2. IsFiniteSet(0..k) /\ Cardinality(0..k) = k + 1
      <4> HIDE <1>4, <1>5, <1>6, <2>0
      <4>1. 0 \in Int /\ k \in Int /\ ~(0 > k) /\ k - 0 + 1 = k + 1
        OBVIOUS
      <4> QED BY <4>1, FS_Interval
    <3>3. length <= k + 1
      <4>1. some \subseteq 0..k
        BY <2>6, <3>1
      <4> QED BY <3>2, <4>1, FS_Subset
    <3> QED BY <1>6, <2>0, <3>1, <3>3
  <2> QED BY <2>7, <2>8
<1>9. ASSUME NEW m \in 0..n, nth[m] # 0 PROVE nth[m] \in DOMAIN h /\ h[nth[m]].type = type
  <2>1. CASE m = 0
    BY <1>3, <1>9, <2>1
  <2>2. CASE m # 0
    BY <1>3, <1>9, <2>2
  <2> QED BY <2>1, <2>2
<1> HIDE DEF length
<1>10. \A i \in 1..length : nth[i - 1] \in DOMAIN h /\ h[nth[i - 1]].type = type
  BY <1>8, <1>9
<1>11. [m \in 1..length |-> nth[m - 1]] \in Seq(DOMAIN h)
  BY <1>6, <1>10
<1> QED BY <1>2, <1>10, <1>11

\* What pointers lead to from objects are objects.
LEMMA ReachedObjects ==
    ASSUME NEW h, Objects(h), NEW roots, roots \subseteq 0..Len(h), NEW slots
    PROVE  Reachable(h, roots, slots) \subseteq 1..Len(h)
<1>1. Len(h) \in Nat /\ h \in Seq(Blocks)
  BY DEF Objects
<1>2. \A r \in 0..Len(h) : r \in DOMAIN h => LinksIn(h[r], slots) \subseteq 0..Len(h)
  BY DEF Objects, LinksIn
<1>3. Reachable(h, roots, slots) \subseteq (0..Len(h)) \ {0}
  BY <1>1, <1>2, ReachedWithin
<1> QED BY <1>1, <1>3

-----------------------------------------------------------------------------
(* The order of the blocks in the new file, and their addresses.             *)

LEMMA AlignedUp ==
    ASSUME NEW n \in Nat
    PROVE  Aligned(n) \in Nat /\ Aligned(n) >= n /\ Aligned(n) % 8 = 0
BY DEF Aligned

\* Each block has its place behind the one before, on a word boundary.
LEMMA PlacesInOrder ==
    ASSUME NEW order \in Seq(DOMAIN heap), order # <<>>,
           \A r \in DOMAIN heap : heap[r].size \in Nat,
           heap[order[1]].size % 8 = 0
    PROVE  /\ Address(order) \in [1..Len(order) -> Nat] /\ Address(order)[1] = 64
           /\ \A m \in 1..Len(order) : Address(order)[m] % 8 = 0
           /\ \A m \in 1..Len(order) : m > 1 =>
                 Address(order)[m - 1] + heap[order[m - 1]].size <= Address(order)[m]
<1> DEFINE n == Len(order)
           size == [m \in 1..n |-> heap[order[m]].size]
           Next1(m, x) == IF m = 2 THEN x + size[m - 1] ELSE Aligned(x + size[m - 1])
           step == [m \in 1..(n - 1) |-> [x \in Nat |-> Next1(m + 1, x)]]
           eq(g) == g = [m \in 1..n |-> IF m = 1 THEN 64
                          ELSE LET behind == g[m - 1] + heap[order[m - 1]].size IN
                               IF m = 2 THEN behind ELSE Aligned(behind)]
           place == CHOOSE g : eq(g)
<1>1. n \in Nat /\ n >= 1 /\ n - 1 \in Nat
  OBVIOUS
<1>2. size \in [1..n -> Nat]
  <2>1. \A m \in 1..n : order[m] \in DOMAIN heap
    OBVIOUS
  <2> QED BY <2>1
<1>3. size[1] % 8 = 0
  BY <1>1
<1>4. \A m \in 1..n : size[m] = heap[order[m]].size
  OBVIOUS
<1> HIDE DEF size, n
<1>5. \A m \in 2..n, x \in Nat : m - 1 \in 1..n /\ Next1(m, x) \in Nat
  <2> SUFFICES ASSUME NEW m \in 2..n, NEW x \in Nat
               PROVE  m - 1 \in 1..n /\ Next1(m, x) \in Nat
    OBVIOUS
  <2>1. m - 1 \in 1..n
    BY <1>1
  <2>2. x + size[m - 1] \in Nat
    BY <1>2, <2>1
  <2> QED BY <2>1, <2>2, AlignedUp
<1>6. step \in [1..(n - 1) -> [Nat -> Nat]]
  <2>1. \A m \in 1..(n - 1) : m + 1 \in 2..n
    BY <1>1
  <2> HIDE DEF Next1
  <2> QED BY <1>5, <2>1
<1>7. PICK g \in [0..(n - 1) -> Nat] : Unfolds(g, n - 1, 64, step)
  <2> HIDE DEF step
  <2> QED BY <1>1, <1>6, Recursion
<1> DEFINE f == [m \in 1..n |-> g[m - 1]]
<1>8. f[1] = 64 /\ \A m \in 2..n : f[m] = Next1(m, f[m - 1]) /\ f[m - 1] \in Nat
  <2>1. g = [m \in 0..(n - 1) |-> IF m = 0 THEN 64 ELSE step[m][g[m - 1]]]
    BY <1>7 DEF Unfolds
  <2>2. 0 \in 0..(n - 1) /\ 1 \in 1..n /\ 1 - 1 = 0
    BY <1>1
  <2> HIDE DEF step
  <2>3. f[1] = 64
    BY <2>1, <2>2
  <2>4. ASSUME NEW m \in 2..n
        PROVE  f[m] = Next1(m, f[m - 1]) /\ f[m - 1] \in Nat
    <3>1. m \in 1..n /\ m - 1 \in 1..n /\ m - 1 \in 1..(n - 1) /\ m - 1 \in 0..(n - 1)
          /\ m - 1 - 1 \in 0..(n - 1) /\ m - 1 # 0 /\ (m - 1) + 1 = m
      BY <1>1
    <3>2. f[m] = g[m - 1] /\ f[m - 1] = g[m - 1 - 1] /\ g[m - 1 - 1] \in Nat
      BY <3>1
    <3>3. g[m - 1] = step[m - 1][g[m - 1 - 1]]
      BY <2>1, <3>1
    <3>4. step[m - 1][g[m - 1 - 1]] = Next1(m, g[m - 1 - 1])
      <4> HIDE DEF Next1
      <4> QED BY <3>1, <3>2 DEF step
    <3> QED BY <3>2, <3>3, <3>4
  <2> QED BY <2>3, <2>4
<1>9. eq(f)
  <2>1. ASSUME NEW m \in 1..n
        PROVE  f[m] = IF m = 1 THEN 64
                      ELSE LET behind == f[m - 1] + heap[order[m - 1]].size IN
                           IF m = 2 THEN behind ELSE Aligned(behind)
    <3>1. CASE m = 1
      BY <1>8, <3>1
    <3>2. CASE m # 1
      <4>1. m \in 2..n /\ m - 1 \in 1..n
        BY <1>1, <3>2
      <4> HIDE DEF f
      <4> QED BY <1>4, <1>8, <3>2, <4>1
    <3> QED BY <3>1, <3>2
  <2>2. f = [m \in 1..n |-> f[m]]
    OBVIOUS
  <2> HIDE DEF f
  <2>3. f = [m \in 1..n |-> IF m = 1 THEN 64
                      ELSE LET behind == f[m - 1] + heap[order[m - 1]].size IN
                           IF m = 2 THEN behind ELSE Aligned(behind)]
    BY <2>1, <2>2, Zenon
  <2> QED BY <2>3, Zenon
<1> HIDE DEF f
<1>10. eq(place)
  BY <1>9, Zenon
<1>11. Address(order) = place
  BY Zenon DEF Address, n, HDAddress
<1>12. place = [m \in 1..n |-> IF m = 1 THEN 64
                          ELSE LET behind == place[m - 1] + heap[order[m - 1]].size IN
                               IF m = 2 THEN behind ELSE Aligned(behind)]
  BY <1>10, Zenon
<1> HIDE DEF place
<1>13. place[1] = 64 /\ \A m \in 2..n : place[m] = Next1(m, place[m - 1])
  <2>1. 1 \in 1..n /\ \A m \in 2..n : m \in 1..n /\ m # 1 /\ m - 1 \in 1..n
    BY <1>1
  <2> QED BY <1>4, <1>12, <2>1
<1>14. \A m \in 1..n : place[m] \in Nat
  <2> DEFINE Z == {m \in 0..(n - 1) : place[m + 1] \in Nat}
  <2>1. 0 \in Z
    BY <1>1, <1>13
  <2>2. ASSUME NEW m \in 1..(n - 1), m - 1 \in Z PROVE m \in Z
    <3>1. m + 1 \in 2..n /\ (m + 1) - 1 = m /\ (m - 1) + 1 = m
      BY <1>1
    <3>2. place[m] \in Nat
      BY <2>2, <3>1
    <3> HIDE DEF Next1
    <3>3. place[m + 1] = Next1(m + 1, place[m])
      BY <1>13, <3>1
    <3>4. Next1(m + 1, place[m]) \in Nat
      BY <1>5, <3>1, <3>2, Zenon
    <3>5. place[m + 1] \in Nat
      BY <3>3, <3>4, Zenon
    <3>6. m \in 0..(n - 1)
      BY <1>1
    <3> QED BY <3>5, <3>6
  <2> HIDE DEF Z
  <2>3. \A m \in 0..(n - 1) : m \in Z
    BY <1>1, <2>1, <2>2, CountUp
  <2>4. \A m \in 1..n : m - 1 \in 0..(n - 1) /\ (m - 1) + 1 = m
    BY <1>1
  <2>5. \A m \in 1..n : m - 1 \in Z
    BY <2>3, <2>4
  <2> QED BY <2>4, <2>5 DEF Z
<1>15. ASSUME NEW m \in 2..n
       PROVE  place[m] % 8 = 0 /\ place[m - 1] + size[m - 1] <= place[m]
  <2>1. m - 1 \in 1..n /\ place[m - 1] \in Nat /\ size[m - 1] \in Nat
    BY <1>1, <1>2, <1>14
  <2>2. CASE m = 2
    <3>1. place[2] = 64 + size[1]
      BY <1>13, <2>2
    <3>2. place[2] % 8 = 0
      BY <1>3, <2>1, <2>2, <3>1
    <3> QED BY <1>13, <2>1, <2>2, <3>1, <3>2
  <2>3. CASE m # 2
    <3>1. place[m] = Aligned(place[m - 1] + size[m - 1])
      BY <1>13, <2>3
    <3>2. place[m - 1] + size[m - 1] \in Nat
      BY <2>1
    <3> QED BY <3>1, <3>2, AlignedUp
  <2> QED BY <2>2, <2>3
<1>16. place \in [1..n -> Nat]
  BY <1>12, <1>14
<1>17. ASSUME NEW m \in 1..n
       PROVE  place[m] % 8 = 0 /\ (m > 1 => place[m - 1] + heap[order[m - 1]].size <= place[m])
  <2>1. CASE m = 1
    BY <1>13, <2>1
  <2>2. CASE m # 1
    <3>1. m \in 2..n /\ m - 1 \in 1..n
      BY <1>1, <2>2
    <3> QED BY <1>4, <1>15, <3>1
  <2> QED BY <2>1, <2>2
<1>18. Len(order) = n
  BY DEF n
<1>19. /\ place \in [1..Len(order) -> Nat] /\ place[1] = 64
       /\ \A m \in 1..Len(order) : place[m] % 8 = 0
       /\ \A m \in 1..Len(order) : m > 1 => place[m - 1] + heap[order[m - 1]].size <= place[m]
  BY <1>13, <1>16, <1>17, <1>18
<1> QED BY <1>11, <1>19, Zenon

\* Before() orders the objects strictly, one behind the other.
LEMMA BeforeOrders ==
    ASSUME NEW rs, \A r \in rs : r \in Nat /\ heap[r].loc \in Nat, NEW rising \in BOOLEAN
    PROVE  /\ \A a \in rs : ~Before(a, a, rising)
           /\ \A a, b \in rs : a = b \/ Before(a, b, rising) \/ Before(b, a, rising)
           /\ \A a, b, c \in rs :
                 Before(a, b, rising) /\ Before(b, c, rising) => Before(a, c, rising)
<1>1. \A a \in rs : ~Before(a, a, rising)
  BY DEF Before
<1>2. \A a, b \in rs : a = b \/ Before(a, b, rising) \/ Before(b, a, rising)
  BY DEF Before
<1>3. \A a, b, c \in rs :
         Before(a, b, rising) /\ Before(b, c, rising) => Before(a, c, rising)
  BY DEF Before
<1> QED BY <1>1, <1>2, <1>3

\* InOrder() lists the set, each element once.
LEMMA InOrderLists ==
    ASSUME NEW rs, IsFiniteSet(rs), \A r \in rs : r \in Nat /\ heap[r].loc \in Nat,
           NEW rising \in BOOLEAN
    PROVE  LET s == InOrder(rs, rising)
           IN /\ s \in Seq(rs) /\ Len(s) = Cardinality(rs)
              /\ \A i, j \in 1..Len(s) : s[i] = s[j] => i = j
              /\ \A r \in rs : \E i \in 1..Len(s) : s[i] = r
<1> DEFINE n == Cardinality(rs)
           Low(r) == {x \in rs : Before(x, r, rising)}
           rank == [r \in rs |-> Cardinality(Low(r))]
           nth(i) == CHOOSE r \in rs : Cardinality(Low(r)) = i - 1
<1>1. n \in Nat
  BY FS_CardinalityType
<1>2. /\ \A a \in rs : ~Before(a, a, rising)
      /\ \A a, b \in rs : a = b \/ Before(a, b, rising) \/ Before(b, a, rising)
      /\ \A a, b, c \in rs :
            Before(a, b, rising) /\ Before(b, c, rising) => Before(a, c, rising)
  BY BeforeOrders, Zenon
<1>3. ASSUME NEW r \in rs
      PROVE  IsFiniteSet(Low(r)) /\ Cardinality(Low(r)) \in 0..(n - 1)
  <2>1. IsFiniteSet(rs \ {r}) /\ Cardinality(rs \ {r}) = n - 1
    BY FS_RemoveElement
  <2>2. Low(r) \subseteq rs \ {r}
    BY <1>2
  <2> HIDE DEF Low
  <2>3. IsFiniteSet(Low(r)) /\ Cardinality(Low(r)) <= Cardinality(rs \ {r})
    BY <2>1, <2>2, FS_Subset
  <2>4. Cardinality(Low(r)) \in Nat
    BY <2>3, FS_CardinalityType
  <2> QED BY <1>1, <2>1, <2>3, <2>4
<1>4. ASSUME NEW a \in rs, NEW b \in rs, Before(a, b, rising)
      PROVE  Cardinality(Low(a)) # Cardinality(Low(b))
  <2>1. Low(a) \subseteq Low(b) \ {a} /\ a \in Low(b)
    BY <1>2, <1>4
  <2> HIDE DEF Low
  <2>2. IsFiniteSet(Low(a)) /\ IsFiniteSet(Low(b)) /\ Cardinality(Low(a)) \in Nat
        /\ Cardinality(Low(b)) \in Nat
    BY <1>3, FS_CardinalityType
  <2>3. IsFiniteSet(Low(b) \ {a}) /\ Cardinality(Low(b) \ {a}) = Cardinality(Low(b)) - 1
    BY <2>1, <2>2, FS_RemoveElement
  <2>4. Cardinality(Low(a)) <= Cardinality(Low(b)) - 1
    BY <2>1, <2>3, FS_Subset
  <2> QED BY <2>2, <2>4
<1>5. rank \in Injection(rs, 0..(n - 1))
  <2>1. rank \in [rs -> 0..(n - 1)]
    BY <1>3
  <2>2. \A a, b \in rs : rank[a] = rank[b] => a = b
    BY <1>2, <1>4
  <2> HIDE DEF rank
  <2> QED BY <2>1, <2>2 DEF Injection, IsInjective
<1>6. IsFiniteSet(0..(n - 1)) /\ Cardinality(0..(n - 1)) = n
  <2>1. PICK k \in Int : k = n - 1
    BY <1>1
  <2>2. IsFiniteSet(0..k) /\ Cardinality(0..k) = IF 0 > k THEN 0 ELSE k - 0 + 1
    BY FS_Interval
  <2> HIDE DEF n
  <2>3. (IF 0 > k THEN 0 ELSE k - 0 + 1) = n
    BY <1>1, <2>1
  <2> QED BY <2>1, <2>2, <2>3
<1>7. rank \in Surjection(rs, 0..(n - 1))
  <2> HIDE DEF rank
  <2> QED BY <1>5, <1>6, FS_Injection
<1>8. \A i \in 1..n : nth(i) \in rs /\ Cardinality(Low(nth(i))) = i - 1
  <2> SUFFICES ASSUME NEW i \in 1..n
               PROVE  nth(i) \in rs /\ Cardinality(Low(nth(i))) = i - 1
    OBVIOUS
  <2>1. i - 1 \in 0..(n - 1)
    BY <1>1
  <2>2. PICK r \in rs : rank[r] = i - 1
    <3> HIDE DEF rank
    <3> QED BY <1>7, <2>1 DEF Surjection
  <2>3. Cardinality(Low(r)) = i - 1
    BY <2>2
  <2> HIDE DEF Low
  <2> QED BY <2>3
<1>9. \A r \in rs : \E i \in 1..n : nth(i) = r
  <2> SUFFICES ASSUME NEW r \in rs PROVE \E i \in 1..n : nth(i) = r
    OBVIOUS
  <2>1. PICK k \in 0..(n - 1) : Cardinality(Low(r)) = k
    BY <1>3
  <2>2. k + 1 \in 1..n /\ (k + 1) - 1 = k
    BY <1>1
  <2>3. nth(k + 1) \in rs /\ Cardinality(Low(nth(k + 1))) = k
    BY <1>8, <2>2
  <2>4. nth(k + 1) = r
    <3> DEFINE t == nth(k + 1)
    <3>1. t \in rs /\ Cardinality(Low(t)) = Cardinality(Low(r))
      BY <2>1, <2>3
    <3> HIDE DEF t
    <3>2. t = r
      BY <1>2, <1>4, <3>1
    <3> QED BY <3>2 DEF t
  <2> QED BY <2>2, <2>4
<1>10. \A i, j \in 1..n : nth(i) = nth(j) => i = j
  <2> HIDE DEF nth
  <2>1. \A i, j \in 1..n : nth(i) = nth(j) => i - 1 = j - 1
    BY <1>8
  <2> QED BY <1>1, <2>1
<1>11. InOrder(rs, rising) = [i \in 1..n |-> nth(i)]
  BY DEF InOrder
<1> HIDE DEF nth, n
<1>12. [i \in 1..n |-> nth(i)] \in Seq(rs) /\ Len([i \in 1..n |-> nth(i)]) = n
  <2>1. \A i \in 1..n : nth(i) \in rs
    BY <1>8
  <2>2. [i \in 1..n |-> nth(i)] \in [1..n -> rs]
    BY <2>1
  <2> QED BY <1>1, <2>2
<1>13. \A i \in 1..n : [j \in 1..n |-> nth(j)][i] = nth(i)
  OBVIOUS
<1> DEFINE t == [i \in 1..n |-> nth(i)]
<1>14. t \in Seq(rs) /\ Len(t) = n /\ \A i \in 1..n : t[i] = nth(i)
  BY <1>12, <1>13
<1> HIDE DEF t
<1>15. /\ t \in Seq(rs) /\ Len(t) = Cardinality(rs)
       /\ \A i, j \in 1..Len(t) : t[i] = t[j] => i = j
       /\ \A r \in rs : \E i \in 1..Len(t) : t[i] = r
  BY <1>9, <1>10, <1>14 DEF n
<1> QED BY <1>11, <1>15 DEF t

-----------------------------------------------------------------------------
(* What the blocks are packed to.                                            *)

\* A list of blocks: the header hd, and the others that are linked from it.
Listed(h, hd, ps) ==
    /\ ps \in Seq(DOMAIN h) /\ ps # <<>> /\ ps[1] = hd
    /\ \A i, j \in 1..Len(ps) : ps[i] = ps[j] => i = j
    /\ {ps[i] : i \in 1..Len(ps)} = Reachable(h, {hd}, Nat)

\* They have their places behind each other.
Placed(h, ps) ==
    /\ h[ps[1]].loc = 64
    /\ \A i \in 1..Len(ps) : h[ps[i]].loc % 8 = 0
    /\ \A i, j \in 1..Len(ps) : i < j => h[ps[i]].loc + h[ps[i]].size <= h[ps[j]].loc

LEMMA HeadAndRest ==
    ASSUME NEW S, NEW s \in Seq(S), NEW a, NEW order, order = <<a>> \o s
    PROVE  /\ Len(order) = Len(s) + 1 /\ order[1] = a
           /\ \A i \in 1..Len(s) : order[i + 1] = s[i]
           /\ \A i \in 1..Len(order) : i # 1 => i - 1 \in 1..Len(s) /\ order[i] = s[i - 1]
OBVIOUS

LEMMA OrderLists ==
    ASSUME Objects(heap), HD \in DOMAIN heap, NEW rising \in BOOLEAN
    PROVE  Listed(heap, HD, <<HD>> \o InOrder(LinkedBlocks \ {HD}, rising))
<1> DEFINE hd == HD
           L == LinkedBlocks
           rs == L \ {hd}
           s == InOrder(rs, rising)
           order == <<hd>> \o s
<1>1. heap \in Seq(Blocks) /\ Len(heap) \in Nat /\ DOMAIN heap = 1..Len(heap)
  BY DEF Objects
<1>2. L = Reachable(heap, {hd}, Nat)
  BY DEF LinkedBlocks
<1>3. L \subseteq 1..Len(heap)
  <2>1. {hd} \subseteq 0..Len(heap)
    BY <1>1
  <2> HIDE DEF L, hd
  <2> QED BY <1>2, <2>1, ReachedObjects
<1>4. hd \in L
  <2>1. {hd} \ {0} \subseteq Reachable(heap, {hd}, Nat)
    <3> HIDE DEF hd
    <3> QED BY <1>1, ReachedCloses
  <2>2. hd # 0
    BY <1>1
  <2> QED BY <1>2, <2>1, <2>2
<1> HIDE DEF L, hd
<1>5. IsFiniteSet(rs) /\ rs \subseteq DOMAIN heap
  <2>1. IsFiniteSet(1..Len(heap))
    BY <1>1, FS_Interval
  <2> QED BY <1>1, <1>3, <2>1, FS_Subset
<1>6. \A r \in rs : r \in Nat /\ heap[r].loc \in Nat
  <2> SUFFICES ASSUME NEW r \in DOMAIN heap PROVE r \in Nat /\ heap[r].loc \in Nat
    BY <1>5
  <2>1. heap[r] \in Blocks /\ r \in Nat
    BY <1>1
  <2> QED BY <2>1 DEF Blocks
<1>7. s \in Seq(rs) /\ (\A i, j \in 1..Len(s) : s[i] = s[j] => i = j)
      /\ \A r \in rs : \E i \in 1..Len(s) : s[i] = r
  <2> HIDE DEF rs
  <2> QED BY <1>5, <1>6, InOrderLists
<1>8. order \in Seq(DOMAIN heap)
  <2>1. s \in Seq(DOMAIN heap)
    BY <1>5, <1>7
  <2>2. hd \in DOMAIN heap
    BY <1>1, <1>3, <1>4
  <2> HIDE DEF s
  <2> QED BY <2>1, <2>2
<1> HIDE DEF s
<1>9. /\ Len(order) = Len(s) + 1 /\ order[1] = hd
      /\ \A i \in 1..Len(s) : order[i + 1] = s[i]
      /\ \A i \in 1..Len(order) : i # 1 => i - 1 \in 1..Len(s) /\ order[i] = s[i - 1]
  BY <1>7, HeadAndRest
<1>10. \A i \in 1..Len(s) : s[i] \in rs
  BY <1>7
<1> HIDE DEF order
<1>11. \A i, j \in 1..Len(order) : order[i] = order[j] => i = j
  <2> SUFFICES ASSUME NEW i \in 1..Len(order), NEW j \in 1..Len(order), order[i] = order[j]
               PROVE  i = j
    OBVIOUS
  <2>1. \A k \in 1..Len(order) : k # 1 => order[k] # hd
    <3>1. \A k \in 1..Len(s) : s[k] # hd
      BY <1>10
    <3> QED BY <1>9, <3>1
  <2>2. CASE i = 1 \/ j = 1
    BY <1>9, <2>1, <2>2
  <2>3. CASE i # 1 /\ j # 1
    <3>1. s[i - 1] = s[j - 1] /\ i - 1 \in 1..Len(s) /\ j - 1 \in 1..Len(s)
      BY <1>9, <2>3
    <3>2. i - 1 = j - 1
      BY <1>7, <3>1
    <3> QED BY <1>8, <3>2
  <2> QED BY <2>2, <2>3
<1>12. {order[i] : i \in 1..Len(order)} = L
  <2>1. ASSUME NEW i \in 1..Len(order) PROVE order[i] \in L
    <3>1. CASE i = 1
      BY <1>4, <1>9, <3>1
    <3>2. CASE i # 1
      <4>1. i - 1 \in 1..Len(s) /\ order[i] = s[i - 1]
        BY <1>9, <3>2
      <4>2. s[i - 1] \in rs
        BY <1>10, <4>1
      <4> QED BY <4>1, <4>2
    <3> QED BY <3>1, <3>2
  <2>2. ASSUME NEW r \in L PROVE \E i \in 1..Len(order) : order[i] = r
    <3>1. CASE r = hd
      <4>1. 1 \in 1..Len(order)
        BY <1>7, <1>9
      <4> QED BY <1>9, <3>1, <4>1
    <3>2. CASE r # hd
      <4>0. r \in rs
        BY <3>2
      <4>1. PICK i \in 1..Len(s) : s[i] = r
        BY <1>7, <4>0, Zenon
      <4>2. i + 1 \in 1..Len(order)
        BY <1>7, <1>9
      <4> QED BY <1>9, <4>1, <4>2
    <3> QED BY <3>1, <3>2
  <2> QED BY <2>1, <2>2
<1>13. order # <<>>
  BY <1>7, <1>9
<1>14. Listed(heap, hd, order)
  BY <1>2, <1>8, <1>9, <1>11, <1>12, <1>13 DEF Listed
<1> QED BY <1>14 DEF order, s, L, hd

LEMMA FunctionIsSeq ==
    ASSUME NEW S, NEW n \in Nat, NEW f \in [1..n -> S]
    PROVE  f \in Seq(S) /\ Len(f) = n
OBVIOUS

LEMMA BlockWithLoc ==
    ASSUME NEW o \in Blocks, NEW l \in Nat
    PROVE  LET b == [o EXCEPT !.loc = l]
           IN b \in Blocks /\ b.loc = l /\ b.links = o.links /\ b.size = o.size
BY DEF Blocks

\* Objects with the same links are linked the same.
LEMMA SameLinks ==
    ASSUME NEW h, Objects(h), NEW h2 \in Seq(Blocks), Len(h2) = Len(h),
           \A r \in DOMAIN h : h2[r].links = h[r].links
    PROVE  /\ Objects(h2)
           /\ \A roots, slots : Reachable(h2, roots, slots) = Reachable(h, roots, slots)
<1>1. DOMAIN h2 = DOMAIN h
  BY DEF Objects
<1>2. Objects(h2)
  BY <1>1 DEF Objects
<1>3. ASSUME NEW roots, NEW slots
      PROVE  Reachable(h2, roots, slots) = Reachable(h, roots, slots)
  <2>1. \A r \in DOMAIN h : LinksIn(h2[r], slots) = LinksIn(h[r], slots)
    BY DEF LinksIn
  <2>2. [r \in DOMAIN h2 |-> LinksIn(h2[r], slots)] = [r \in DOMAIN h |-> LinksIn(h[r], slots)]
    BY <1>1, <2>1
  <2> QED BY <2>2, Zenon DEF Reachable
<1> QED BY <1>2, <1>3

\* What is behind another is behind all those before it.
LEMMA BehindAll ==
    ASSUME NEW n \in Nat, NEW place \in [1..n -> Nat], NEW size \in [1..n -> Nat],
           \A m \in 1..n : m > 1 => place[m - 1] + size[m - 1] <= place[m]
    PROVE  \A i, j \in 1..n : i < j => place[i] + size[i] <= place[j]
<1> SUFFICES ASSUME NEW i \in 1..n
             PROVE  \A j \in 1..n : i < j => place[i] + size[i] <= place[j]
  OBVIOUS
<1> DEFINE Z == {m \in 0..n : i < m => place[i] + size[i] <= place[m]}
<1>1. 0 \in Z
  OBVIOUS
<1>2. ASSUME NEW m \in 1..n, m - 1 \in Z PROVE m \in Z
  <2>1. CASE i < m - 1
    <3>1. m - 1 \in 1..n /\ place[i] + size[i] <= place[m - 1]
      BY <1>2, <2>1
    <3>2. place[m - 1] + size[m - 1] <= place[m]
      BY <2>1
    <3>3. place[i] + size[i] <= place[m]
      <4>1. place[i] \in Nat /\ size[i] \in Nat /\ place[m] \in Nat /\ place[m - 1] \in Nat
            /\ size[m - 1] \in Nat
        BY <3>1
      <4> QED BY <3>1, <3>2, <4>1
    <3> QED BY <3>3
  <2>2. CASE i = m - 1
    <3>1. m > 1 /\ place[m - 1] + size[m - 1] <= place[m]
      BY <2>2
    <3> QED BY <2>2, <3>1
  <2>3. CASE i > m - 1
    BY <2>3
  <2> QED BY <2>1, <2>2, <2>3
<1> HIDE DEF Z
<1>3. \A m \in 0..n : m \in Z
  BY <1>1, <1>2, CountUp
<1>4. \A m \in 1..n : m \in Z
  BY <1>3
<1> QED BY <1>4 DEF Z

\* The packed blocks with their new locations.
Relocated(order) ==
    [r \in DOMAIN heap |->
       IF r \in Range(order)
       THEN [heap[r] EXCEPT !.loc = Address(order)[SelectInSeq(order, LAMBDA x : x = r)]]
       ELSE heap[r]]

LEMMA PackPlaces ==
    ASSUME Objects(heap), NEW hd, hd \in DOMAIN heap, heap[hd].size % 8 = 0,
           NEW order, Listed(heap, hd, order),
           NEW h2, h2 = Relocated(order)
    PROVE  Objects(h2) /\ Listed(h2, hd, order) /\ Placed(h2, order)
           /\ Len(h2) = Len(heap) /\ \A r \in DOMAIN heap : h2[r].size = heap[r].size
<1> DEFINE n == Len(order)
           place == Address(order)
<1>1. /\ order \in Seq(DOMAIN heap) /\ order # <<>> /\ order[1] = hd
      /\ \A i, j \in 1..n : order[i] = order[j] => i = j
  BY DEF Listed
<1>2. heap \in Seq(Blocks) /\ DOMAIN heap = 1..Len(heap) /\ Len(heap) \in Nat /\ n \in Nat
      /\ \A i \in 1..n : order[i] \in DOMAIN heap
  BY <1>1 DEF Objects
<1>3. \A r \in DOMAIN heap : heap[r] \in Blocks /\ heap[r].size \in Nat
  <2>1. \A r \in DOMAIN heap : heap[r] \in Blocks
    BY <1>2
  <2> QED BY <2>1 DEF Blocks
<1>4. /\ place \in [1..n -> Nat] /\ place[1] = 64
      /\ \A m \in 1..n : place[m] % 8 = 0
      /\ \A m \in 1..n : m > 1 => place[m - 1] + heap[order[m - 1]].size <= place[m]
  BY <1>1, <1>3, PlacesInOrder
<1> HIDE DEF place
<1>5. \A r \in Range(order) : \E i \in 1..n : order[i] = r
  BY <1>1 DEF Range
<1>6. \A i \in 1..n : order[i] \in Range(order)
  BY <1>1 DEF Range
<1>7. ASSUME NEW i \in 1..n
      PROVE  SelectInSeq(order, LAMBDA x : x = order[i]) = i
  <2>1. {j \in 1..Len(order) : order[j] = order[i]} = {i}
    BY <1>1
  <2>2. Min({i}) = i
    BY DEF Min
  <2> QED BY <2>1, <2>2 DEF SelectInSeq
<1>8. \A i \in 1..n : h2[order[i]] = [heap[order[i]] EXCEPT !.loc = place[i]]
  <2> SUFFICES ASSUME NEW i \in 1..n
               PROVE  h2[order[i]] = [heap[order[i]] EXCEPT !.loc = place[i]]
    OBVIOUS
  <2>1. h2[order[i]] = [heap[order[i]] EXCEPT !.loc =
                          place[SelectInSeq(order, LAMBDA x : x = order[i])]]
    BY <1>2, <1>6 DEF place, Relocated
  <2> QED BY <1>7, <2>1
<1>9. \A r \in DOMAIN heap : r \notin Range(order) => h2[r] = heap[r]
  BY DEF Relocated
<1>10. DOMAIN h2 = DOMAIN heap
  BY DEF Relocated
<1>11. \A i \in 1..n : /\ h2[order[i]] \in Blocks /\ h2[order[i]].loc = place[i]
                       /\ h2[order[i]].links = heap[order[i]].links
                       /\ h2[order[i]].size = heap[order[i]].size
  <2> SUFFICES ASSUME NEW i \in 1..n
               PROVE  /\ h2[order[i]] \in Blocks /\ h2[order[i]].loc = place[i]
                      /\ h2[order[i]].links = heap[order[i]].links
                      /\ h2[order[i]].size = heap[order[i]].size
    OBVIOUS
  <2>1. heap[order[i]] \in Blocks /\ place[i] \in Nat
    BY <1>2, <1>3, <1>4
  <2>2. h2[order[i]] = [heap[order[i]] EXCEPT !.loc = place[i]]
    BY <1>8
  <2>3. LET b == [heap[order[i]] EXCEPT !.loc = place[i]]
        IN /\ b \in Blocks /\ b.loc = place[i] /\ b.links = heap[order[i]].links
           /\ b.size = heap[order[i]].size
    BY <2>1, BlockWithLoc, Zenon
  <2> QED BY <2>2, <2>3, Zenon
<1>12. \A r \in DOMAIN heap : /\ h2[r] \in Blocks /\ h2[r].links = heap[r].links
                              /\ h2[r].size = heap[r].size
  <2> SUFFICES ASSUME NEW r \in DOMAIN heap
               PROVE  /\ h2[r] \in Blocks /\ h2[r].links = heap[r].links
                      /\ h2[r].size = heap[r].size
    OBVIOUS
  <2>1. CASE r \in Range(order)
    <3>1. PICK i \in 1..n : order[i] = r
      BY <1>5, <2>1
    <3> HIDE DEF n
    <3> QED BY <1>11, <3>1
  <2>2. CASE r \notin Range(order)
    BY <1>3, <1>9, <2>2
  <2> QED BY <2>1, <2>2
<1>13. h2 \in Seq(Blocks) /\ Len(h2) = Len(heap)
  <2>1. h2 \in [1..Len(heap) -> Blocks]
    <3>1. h2 = [r \in DOMAIN h2 |-> h2[r]]
      BY DEF Relocated
    <3> QED BY <1>2, <1>10, <1>12, <3>1
  <2> QED BY <1>2, <2>1, FunctionIsSeq
<1> HIDE DEF n
<1>14. Objects(h2) /\ Reachable(h2, {hd}, Nat) = Reachable(heap, {hd}, Nat)
  <2>1. \A r \in DOMAIN heap : h2[r].links = heap[r].links
    BY <1>12
  <2>2. Objects(h2)
    BY <1>13, <2>1, SameLinks
  <2>3. \A roots, slots : Reachable(h2, roots, slots) = Reachable(heap, roots, slots)
    <3> HIDE DEF Objects
    <3> QED BY <1>13, <2>1, SameLinks, Zenon
  <2> QED BY <2>2, <2>3
<1>15. Listed(h2, hd, order)
  BY <1>10, <1>14 DEF Listed, n
<1>16. \A i, j \in 1..n : i < j => place[i] + heap[order[i]].size <= place[j]
  <2> DEFINE size == [m \in 1..n |-> heap[order[m]].size]
  <2>1. size \in [1..n -> Nat]
    BY <1>2, <1>3
  <2>2. \A m \in 1..n : size[m] = heap[order[m]].size
    OBVIOUS
  <2> HIDE DEF size
  <2>3. \A m \in 1..n : m > 1 => place[m - 1] + size[m - 1] <= place[m]
    <3>1. \A m \in 1..n : m > 1 => m - 1 \in 1..n
      BY <1>2
    <3> QED BY <1>4, <2>2, <3>1
  <2>4. \A i, j \in 1..n : i < j => place[i] + size[i] <= place[j]
    BY <1>2, <1>4, <2>1, <2>3, BehindAll
  <2> QED BY <2>2, <2>4
<1>17. Placed(h2, order)
  <2>1. 1 \in 1..n
    BY <1>1, <1>2 DEF n
  <2>2. \A i \in 1..n : h2[order[i]].loc = place[i] /\ h2[order[i]].size = heap[order[i]].size
    BY <1>11
  <2>3. h2[order[1]].loc = 64
    BY <1>4, <2>1, <2>2
  <2>4. \A i \in 1..n : h2[order[i]].loc % 8 = 0
    BY <1>4, <2>2
  <2>5. \A i, j \in 1..n : i < j =>
           h2[order[i]].loc + h2[order[i]].size <= h2[order[j]].loc
    BY <1>16, <2>2
  <2> QED BY <2>3, <2>4, <2>5 DEF Placed, n
<1> QED BY <1>12, <1>13, <1>14, <1>15, <1>17

-----------------------------------------------------------------------------
(* What sorting does to the objects.                                         *)

LEMMA PointingObjects ==
    ASSUME NEW h
    PROVE  Objects(h) <=> Pointing(h, Len(h))
BY DEF Objects, Pointing

LEMMA PointingFurther ==
    ASSUME NEW h, NEW n \in Nat, NEW m \in Nat, Pointing(h, n), n <= m
    PROVE  Pointing(h, m)
<1>1. \A x \in 0..n : x \in 0..m
  OBVIOUS
<1> QED BY <1>1 DEF Pointing

LEMMA PointingMore ==
    ASSUME NEW h, NEW n \in Nat, Pointing(h, n), NEW o \in Blocks,
           \A i \in DOMAIN o.links : o.links[i] \in 0..n
    PROVE  /\ Pointing(Append(h, o), n) /\ Len(Append(h, o)) = Len(h) + 1
           /\ \A r \in DOMAIN h : r \in DOMAIN Append(h, o) /\ Append(h, o)[r] = h[r]
<1>1. h \in Seq(Blocks)
  BY DEF Pointing
<1>2. /\ Append(h, o) \in Seq(Blocks) /\ Len(Append(h, o)) = Len(h) + 1
      /\ Append(h, o)[Len(h) + 1] = o
      /\ \A r \in DOMAIN h : r \in DOMAIN Append(h, o) /\ Append(h, o)[r] = h[r]
      /\ \A r \in DOMAIN Append(h, o) : r = Len(h) + 1 \/ r \in DOMAIN h
  BY <1>1
<1> DEFINE g == Append(h, o)
<1> HIDE DEF g
<1>3. ASSUME NEW r \in DOMAIN g, NEW i \in DOMAIN g[r].links PROVE g[r].links[i] \in 0..n
  <2>1. CASE r = Len(h) + 1
    <3>1. g[r] = o
      BY <1>2, <2>1 DEF g
    <3> QED BY <1>3, <3>1
  <2>2. CASE r \in DOMAIN h
    <3>1. g[r] = h[r]
      BY <1>2, <2>2 DEF g
    <3> QED BY <1>3, <2>2, <3>1 DEF Pointing
  <2> QED BY <1>2, <2>1, <2>2 DEF g
<1> QED BY <1>2, <1>3 DEF Pointing, g

LEMMA BlockWithLinks ==
    ASSUME NEW o \in Blocks, NEW s \in Seq(Nat)
    PROVE  LET b == [o EXCEPT !.links = s]
           IN b \in Blocks /\ b.links = s /\ b.size = o.size
BY DEF Blocks

LEMMA ElementChanged ==
    ASSUME NEW s \in Seq(Nat), NEW i \in Nat, NEW x \in Nat
    PROVE  LET t == [s EXCEPT ![i] = x]
           IN t \in Seq(Nat) /\ DOMAIN t = DOMAIN s /\ \A k \in DOMAIN t : t[k] = x \/ t[k] = s[k]
<1>1. Len(s) \in Nat /\ DOMAIN s = 1..Len(s) /\ s \in [1..Len(s) -> Nat]
  OBVIOUS
<1> DEFINE t == [s EXCEPT ![i] = x]
<1>2. DOMAIN t = 1..Len(s) /\ \A k \in DOMAIN t : t[k] = x \/ t[k] = s[k]
  BY <1>1
<1>3. t \in [1..Len(s) -> Nat]
  BY <1>1
<1> HIDE DEF t
<1>4. t \in Seq(Nat)
  BY <1>1, <1>3
<1> QED BY <1>1, <1>2, <1>4 DEF t

Relinked(h, r, i, x) == [h EXCEPT ![r].links[i] = x]

LEMMA PointingElsewhere ==
    ASSUME NEW h, NEW n \in Nat, Pointing(h, n), NEW r \in DOMAIN h, NEW i \in Nat,
           NEW x \in 0..n
    PROVE  /\ Pointing(Relinked(h, r, i, x), n) /\ Len(Relinked(h, r, i, x)) = Len(h)
           /\ \A q \in DOMAIN h : Relinked(h, r, i, x)[q].size = h[q].size
<1> DEFINE s == [h[r].links EXCEPT ![i] = x]
           b == [h[r] EXCEPT !.links = s]
           g == [h EXCEPT ![r] = b]
<1>1. h \in Seq(Blocks) /\ h[r] \in Blocks /\ \A q \in DOMAIN h : h[q] \in Blocks
  BY DEF Pointing
<1>2. h[r].links \in Seq(Nat)
  BY <1>1, BlockFields
<1>3. /\ s \in Seq(Nat) /\ DOMAIN s = DOMAIN h[r].links
      /\ \A k \in DOMAIN s : s[k] = x \/ s[k] = h[r].links[k]
  <2>1. x \in Nat
    OBVIOUS
  <2> QED BY <1>2, <2>1, ElementChanged, Zenon
<1>4. \A k \in DOMAIN s : s[k] \in 0..n
  <2> HIDE DEF s
  <2> QED BY <1>3 DEF Pointing
<1> HIDE DEF s
<1>5. b \in Blocks /\ b.links = s /\ b.size = h[r].size
  BY <1>1, <1>3, BlockWithLinks, Zenon
<1> HIDE DEF b
<1>6. /\ g \in Seq(Blocks) /\ Len(g) = Len(h) /\ g[r] = b /\ DOMAIN g = DOMAIN h
      /\ \A q \in DOMAIN h : q # r => g[q] = h[q]
  BY <1>1, <1>5
<1> HIDE DEF g
<1>7. Pointing(g, n)
  <2> SUFFICES ASSUME NEW q \in DOMAIN g, NEW k \in DOMAIN g[q].links
               PROVE  g[q].links[k] \in 0..n
    BY <1>6 DEF Pointing
  <2>1. CASE q = r
    BY <1>4, <1>5, <1>6, <2>1
  <2>2. CASE q # r
    BY <1>6, <2>2 DEF Pointing
  <2> QED BY <2>1, <2>2
<1>8. \A q \in DOMAIN h : g[q].size = h[q].size
  BY <1>5, <1>6
<1>9. g = Relinked(h, r, i, x)
  BY DEF g, b, s, Relinked
<1> QED BY <1>6, <1>7, <1>8, <1>9

LEMMA SumIsNat ==
    ASSUME \A r \in DOMAIN heap : heap[r].records \in Nat, NEW cgs \in Seq(DOMAIN heap)
    PROVE  SumOf(cgs) \in Nat
<1> DEFINE n == Len(cgs)
           rec == [m \in 1..n |-> heap[cgs[m]].records]
           step == [m \in 1..n |-> [x \in Nat |-> x + rec[m]]]
           eq(g) == g = [m \in 0..n |-> IF m = 0 THEN 0
                                         ELSE g[m - 1] + heap[cgs[m]].records]
           upto == CHOOSE g : eq(g)
<1>1. n \in Nat /\ \A m \in 1..n : cgs[m] \in DOMAIN heap
  OBVIOUS
<1>2. rec \in [1..n -> Nat] /\ \A m \in 1..n : rec[m] = heap[cgs[m]].records
  BY <1>1
<1> HIDE DEF rec
<1>3. step \in [1..n -> [Nat -> Nat]]
  BY <1>2
<1>4. PICK g \in [0..n -> Nat] : Unfolds(g, n, 0, step)
  <2> HIDE DEF step
  <2> QED BY <1>1, <1>3, Recursion
<1>5. eq(g)
  <2>1. g = [m \in 0..n |-> IF m = 0 THEN 0 ELSE step[m][g[m - 1]]]
    BY <1>4 DEF Unfolds
  <2>2. ASSUME NEW m \in 0..n
        PROVE  (IF m = 0 THEN 0 ELSE step[m][g[m - 1]]) =
               (IF m = 0 THEN 0 ELSE g[m - 1] + heap[cgs[m]].records)
    <3>1. m # 0 => m \in 1..n /\ g[m - 1] \in Nat
      OBVIOUS
    <3>2. m # 0 => step[m][g[m - 1]] = g[m - 1] + heap[cgs[m]].records
      BY <1>2, <3>1
    <3> HIDE DEF step
    <3> QED BY <3>2
  <2> HIDE DEF step
  <2> QED BY <2>1, <2>2, Zenon
<1> HIDE DEF step
<1>6. eq(upto)
  BY <1>5, Zenon
<1>7. SumOf(cgs) = upto[n]
  BY Zenon DEF SumOf
<1>8. upto = [m \in 0..n |-> IF m = 0 THEN 0 ELSE upto[m - 1] + heap[cgs[m]].records]
  BY <1>6, Zenon
<1> HIDE DEF upto
<1> DEFINE Z == {m \in 0..n : upto[m] \in Nat}
<1>9. 0 \in Z
  <2>1. 0 \in 0..n
    BY <1>1
  <2> QED BY <1>8, <2>1
<1>10. ASSUME NEW m \in 1..n, m - 1 \in Z PROVE m \in Z
  <2>1. m \in 0..n /\ m # 0 /\ upto[m - 1] \in Nat
    BY <1>10
  <2>2. upto[m] = upto[m - 1] + rec[m]
    BY <1>2, <1>8, <2>1
  <2> QED BY <1>2, <2>1, <2>2
<1> HIDE DEF Z
<1>11. \A m \in 0..n : m \in Z
  BY <1>1, <1>9, <1>10, CountUp
<1>12. n \in 0..n
  BY <1>1
<1> QED BY <1>7, <1>11, <1>12 DEF Z

LEMMA BlockWithData ==
    ASSUME NEW o \in Blocks, NEW k \in Kinds, NEW n \in Nat
    PROVE  LET b == [o EXCEPT !.kind = k, !.size = n]
           IN b \in Blocks /\ b.links = o.links
BY DEF Blocks

LEMMA DataForIsBlock ==
    ASSUME Objects(heap), NEW dt \in DOMAIN heap, NEW cgs \in Seq(DOMAIN heap)
    PROVE  /\ DataFor(dt, cgs) \in Blocks
           /\ \A i \in DOMAIN DataFor(dt, cgs).links : DataFor(dt, cgs).links[i] \in 0..Len(heap)
<1> DEFINE k == IF Len(cgs) = 1 THEN "disc" ELSE "subset"
           s == SumOf(cgs)
           n == 24 + s
<1>1. \A r \in DOMAIN heap : heap[r] \in Blocks
  BY DEF Objects
<1>2. \A r \in DOMAIN heap : heap[r].records \in Nat
  BY <1>1 DEF Blocks
<1>3. s \in Nat
  BY <1>2, SumIsNat
<1>4. k \in Kinds
  BY DEF Kinds
<1> HIDE DEF k, s
<1>5. n \in Nat
  BY <1>3
<1>6. DataFor(dt, cgs) = [heap[dt] EXCEPT !.kind = k, !.size = n]
  BY DEF DataFor, k, s
<1> HIDE DEF n
<1>7. heap[dt] \in Blocks
  BY <1>1
<1>8. DataFor(dt, cgs) \in Blocks /\ DataFor(dt, cgs).links = heap[dt].links
  <2>1. LET b == [heap[dt] EXCEPT !.kind = k, !.size = n]
        IN b \in Blocks /\ b.links = heap[dt].links
    BY <1>4, <1>5, <1>7, BlockWithData, Zenon
  <2> QED BY <1>6, <2>1, Zenon
<1> QED BY <1>8 DEF Objects

LEMMA WithoutOne ==
    ASSUME NEW S, NEW s \in Seq(S), NEW i \in 1..Len(s)
    PROVE  RemoveAt(s, i) \in Seq(S)
<1>1. SubSeq(s, 1, i - 1) \in Seq(S) /\ SubSeq(s, i + 1, Len(s)) \in Seq(S)
  OBVIOUS
<1> QED BY <1>1 DEF RemoveAt

\* What the groups of a data group are, and its data.
LEMMA PartsOf ==
    ASSUME Objects(heap), HD \in DOMAIN heap, NEW dg \in Range(DataGroups)
    PROVE  /\ dg \in DOMAIN heap /\ GroupsOf(heap, dg) \in Seq(DOMAIN heap)
           /\ Linked(heap, dg, 1) \in 0..Len(heap) /\ Linked(heap, dg, 3) \in 0..Len(heap)
           /\ DataKind(dg) \in IDs => Linked(heap, dg, 3) \in DOMAIN heap
<1>1. heap \in Seq(Blocks) /\ DOMAIN heap = 1..Len(heap)
  BY DEF Objects
<1>2. DataGroups \in Seq(DOMAIN heap)
  BY <1>1, ChainWithin DEF DataGroups
<1>3. dg \in DOMAIN heap
  BY <1>2 DEF Range
<1>4. GroupsOf(heap, dg) \in Seq(DOMAIN heap)
  BY <1>1, ChainWithin DEF GroupsOf
<1>5. Linked(heap, dg, 1) \in 0..Len(heap) /\ Linked(heap, dg, 3) \in 0..Len(heap)
  <2>1. dg \in 0..Len(heap) /\ 1 \in Nat \ {0} /\ 3 \in Nat \ {0}
    BY <1>1, <1>3
  <2> QED BY <2>1, LinkedIsObject
<1>6. DataKind(dg) \in IDs => Linked(heap, dg, 3) # 0
  BY DEF DataKind, IDs
<1> QED BY <1>1, <1>3, <1>4, <1>5, <1>6

Links(h, n, r, i, x) == n \in Nat /\ r \in DOMAIN h /\ i \in Nat /\ x \in 0..n

\* Objects of the same size, with links that may lead elsewhere.
Reshaped(h, g, n) ==
    /\ Pointing(g, n) /\ DOMAIN g = DOMAIN h /\ Len(g) = Len(h)
    /\ \A q \in DOMAIN h : g[q].size = h[q].size

LEMMA RelinkedAgain ==
    ASSUME NEW h, NEW g, NEW n, Reshaped(h, g, n),
           NEW r, NEW i, NEW x, Links(h, n, r, i, x)
    PROVE  Reshaped(h, Relinked(g, r, i, x), n)
<1> DEFINE f == Relinked(g, r, i, x)
<1>1. n \in Nat /\ r \in DOMAIN g /\ i \in Nat /\ x \in 0..n /\ Pointing(g, n)
  BY DEF Links, Reshaped
<1>2. Pointing(f, n) /\ Len(f) = Len(g) /\ \A q \in DOMAIN g : f[q].size = g[q].size
  BY <1>1, PointingElsewhere
<1>3. DOMAIN f = DOMAIN g
  BY DEF Relinked
<1> HIDE DEF f
<1>4. Reshaped(h, f, n)
  BY <1>2, <1>3 DEF Reshaped
<1> QED BY <1>4 DEF f

\* Objects that were changed and got others behind them.
Grown(h, g) ==
    /\ Objects(g)
    /\ \A r \in DOMAIN h : r \in DOMAIN g /\ g[r].size = h[r].size

LEMMA GrownByTwo ==
    ASSUME NEW h, h \in Seq(Blocks), NEW g, Pointing(g, Len(h) + 2), Len(g) = Len(h),
           \A q \in DOMAIN h : g[q].size = h[q].size,
           NEW o \in Blocks, \A i \in DOMAIN o.links : o.links[i] \in 0..Len(h),
           NEW p \in Blocks, \A i \in DOMAIN p.links : p.links[i] \in 0..Len(h)
    PROVE  Grown(h, g \o <<o, p>>)
<1> DEFINE n == Len(h) + 2
           g1 == Append(g, o)
           g2 == Append(g1, p)
<1>1. /\ n \in Nat /\ g \in Seq(Blocks) /\ DOMAIN g = DOMAIN h /\ Len(h) \in Nat
      /\ \A x \in 0..Len(h) : x \in 0..n
  BY DEF Pointing
<1>2. g \o <<o, p>> = g2
  BY <1>1
<1> HIDE DEF n
<1>3. /\ Pointing(g1, n) /\ Len(g1) = Len(g) + 1
      /\ \A r \in DOMAIN g : r \in DOMAIN g1 /\ g1[r] = g[r]
  <2>1. Pointing(g, n) /\ \A i \in DOMAIN o.links : o.links[i] \in 0..n
    BY <1>1 DEF n
  <2> QED BY <1>1, <2>1, PointingMore, Zenon
<1> HIDE DEF g1
<1>4. /\ Pointing(g2, n) /\ Len(g2) = Len(g1) + 1
      /\ \A r \in DOMAIN g1 : r \in DOMAIN g2 /\ g2[r] = g1[r]
  <2>1. \A i \in DOMAIN p.links : p.links[i] \in 0..n
    BY <1>1
  <2> QED BY <1>1, <1>3, <2>1, PointingMore, Zenon
<1> HIDE DEF g2
<1>5. Len(g2) = n
  BY <1>1, <1>3, <1>4 DEF n
<1>6. Objects(g2)
  BY <1>4, <1>5, PointingObjects
<1>7. \A r \in DOMAIN h : r \in DOMAIN g2 /\ g2[r].size = h[r].size
  BY <1>1, <1>3, <1>4
<1> QED BY <1>2, <1>6, <1>7 DEF Grown

\* A group of variable-length data becomes an SD block.
LEMMA MoveKeeps ==
    ASSUME Objects(heap), HD \in DOMAIN heap, NEW dg \in Range(DataGroups),
           DataKind(dg) \in IDs, NEW i \in Movable(dg), MoveVLSD(dg, i)
    PROVE  Grown(heap, heap')
<1> DEFINE cgs == GroupsOf(heap, dg)
           cg == cgs[i]
           next == cgs[i + 1]
           left == RemoveAt(cgs, i + 1)
           dt == Linked(heap, dg, 3)
           n == Len(heap) + 2
           sd(garbage) == [type |-> "SD", addr |-> 0, loc |-> garbage, links |-> <<>>,
                           size |-> 24 + heap[next].records, records |-> 0,
                           vlsd |-> FALSE, kind |-> "disc"]
           p == DataFor(dt, left)
<1>1. heap \in Seq(Blocks) /\ Len(heap) \in Nat /\ DOMAIN heap = 1..Len(heap)
  BY DEF Objects
<1>2. dg \in DOMAIN heap /\ cgs \in Seq(DOMAIN heap) /\ dt \in DOMAIN heap
  BY PartsOf
<1>3. i \in 1..Len(cgs) /\ i + 1 \in 1..Len(cgs)
  <2>1. i \in 1..(Len(cgs) - 1)
    BY DEF Movable
  <2>2. Len(cgs) \in Nat
    BY <1>2
  <2> HIDE DEF cgs
  <2> QED BY <2>1, <2>2
<1> HIDE DEF cgs
<1>4. cg \in DOMAIN heap /\ next \in DOMAIN heap /\ left \in Seq(DOMAIN heap)
  BY <1>2, <1>3, WithoutOne
<1>5. PICK cn \in Channels(cg), garbage \in Garbage :
         heap' = [heap EXCEPT ![cn].links[6] = Len(heap) + 1,
                              ![cg].links[1] = Linked(heap, next, 1),
                              ![dg].links[3] = Len(heap) + 2]
                 \o <<sd(garbage), p>>
  BY Zenon DEF MoveVLSD, cgs
<1>6. p \in Blocks /\ \A k \in DOMAIN p.links : p.links[k] \in 0..Len(heap)
  <2> HIDE DEF dt, left
  <2> QED BY <1>2, <1>4, DataForIsBlock
<1>7. sd(garbage) \in Blocks /\ sd(garbage).links = <<>>
  <2>1. heap[next] \in Blocks
    BY <1>1, <1>4
  <2>2. heap[next].records \in Nat
    BY <2>1 DEF Blocks
  <2>3. 24 + heap[next].records \in Nat
    BY <2>2
  <2>4. "SD" \in Types /\ 0 \in Nat /\ garbage \in Nat /\ <<>> \in Seq(Nat)
        /\ FALSE \in BOOLEAN /\ "disc" \in Kinds
    BY GarbageAssumption DEF Types, Kinds
  <2> HIDE DEF next
  <2> QED BY <2>3, <2>4, ABlock, Zenon
<1>8. cn \in DOMAIN heap
  <2>1. Linked(heap, cg, 2) \in 0..Len(heap)
    <3>1. cg \in 0..Len(heap) /\ 2 \in Nat \ {0}
      BY <1>1, <1>4
    <3> QED BY <3>1, LinkedIsObject
  <2>2. cn \in Reachable(heap, {Linked(heap, cg, 2)}, 1..2)
    BY DEF Channels
  <2>3. {Linked(heap, cg, 2)} \subseteq 0..Len(heap)
    BY <2>1
  <2> QED BY <1>1, <2>2, <2>3, ReachedObjects
<1>9. Linked(heap, next, 1) \in 0..n
  <2>1. next \in 0..Len(heap) /\ 1 \in Nat \ {0}
    BY <1>1, <1>4
  <2>2. Linked(heap, next, 1) \in 0..Len(heap)
    BY <2>1, LinkedIsObject
  <2> QED BY <1>1, <2>2
<1>10. Pointing(heap, n)
  BY <1>1, PointingObjects, PointingFurther
<1>11. n \in Nat /\ Len(heap) + 1 \in 0..n /\ Len(heap) + 2 \in 0..n
       /\ 6 \in Nat /\ 1 \in Nat /\ 3 \in Nat
  BY <1>1
<1> DEFINE g == Relinked(Relinked(Relinked(heap, cn, 6, Len(heap) + 1),
                                 cg, 1, Linked(heap, next, 1)), dg, 3, Len(heap) + 2)
<1>12. Pointing(g, n) /\ Len(g) = Len(heap) /\ \A q \in DOMAIN heap : g[q].size = heap[q].size
  <2> HIDE DEF n, cg, next
  <2> DEFINE x1 == Len(heap) + 1
             x2 == Linked(heap, next, 1)
             x3 == Len(heap) + 2
             g1 == Relinked(heap, cn, 6, x1)
             g2 == Relinked(g1, cg, 1, x2)
             g3 == Relinked(g2, dg, 3, x3)
  <2>1. /\ Links(heap, n, cn, 6, x1) /\ Links(heap, n, cg, 1, x2)
        /\ Links(heap, n, dg, 3, x3)
    BY <1>2, <1>4, <1>8, <1>9, <1>11, Zenon DEF Links
  <2>2. Reshaped(heap, heap, n)
    BY <1>10 DEF Reshaped
  <2> HIDE DEF x1, x2, x3
  <2>3. Reshaped(heap, g1, n)
    BY <2>1, <2>2, RelinkedAgain, Zenon
  <2> HIDE DEF g1
  <2>4. Reshaped(heap, g2, n)
    BY <2>1, <2>3, RelinkedAgain, Zenon
  <2> HIDE DEF g2
  <2>5. Reshaped(heap, g3, n)
    BY <2>1, <2>4, RelinkedAgain, Zenon
  <2> HIDE DEF g3
  <2> QED BY <2>5, Zenon DEF Reshaped, g3, g2, g1, x3, x2, x1
<1> HIDE DEF g, sd, p
<1>13. \A k \in DOMAIN sd(garbage).links : sd(garbage).links[k] \in 0..Len(heap)
  BY <1>7
<1>14. Grown(heap, g \o <<sd(garbage), p>>)
  BY <1>1, <1>6, <1>7, <1>12, <1>13, GrownByTwo
<1> QED BY <1>5, <1>14, Zenon DEF g, Relinked

LEMMA GrownByThree ==
    ASSUME NEW h, h \in Seq(Blocks), NEW n, n = Len(h) + 3, NEW g, Reshaped(h, g, n),
           NEW o \in Blocks, \A i \in DOMAIN o.links : o.links[i] \in 0..n,
           NEW p \in Blocks, \A i \in DOMAIN p.links : p.links[i] \in 0..n,
           NEW q \in Blocks, \A i \in DOMAIN q.links : q.links[i] \in 0..n
    PROVE  Grown(h, g \o <<o, p, q>>)
<1> DEFINE g1 == Append(g, o)
           g2 == Append(g1, p)
           g3 == Append(g2, q)
<1>1. /\ n \in Nat /\ Pointing(g, n) /\ g \in Seq(Blocks) /\ DOMAIN g = DOMAIN h
      /\ Len(g) = Len(h) /\ Len(h) \in Nat /\ \A r \in DOMAIN h : g[r].size = h[r].size
  BY DEF Pointing, Reshaped
<1>2. g \o <<o, p, q>> = g3
  BY <1>1
<1>3. /\ Pointing(g1, n) /\ Len(g1) = Len(g) + 1
      /\ \A r \in DOMAIN g : r \in DOMAIN g1 /\ g1[r] = g[r]
  BY <1>1, PointingMore, Zenon
<1> HIDE DEF g1
<1>4. /\ Pointing(g2, n) /\ Len(g2) = Len(g1) + 1
      /\ \A r \in DOMAIN g1 : r \in DOMAIN g2 /\ g2[r] = g1[r]
  BY <1>1, <1>3, PointingMore, Zenon
<1> HIDE DEF g2
<1>5. /\ Pointing(g3, n) /\ Len(g3) = Len(g2) + 1
      /\ \A r \in DOMAIN g2 : r \in DOMAIN g3 /\ g3[r] = g2[r]
  BY <1>1, <1>4, PointingMore, Zenon
<1> HIDE DEF g3
<1>6. Len(g3) = n
  BY <1>1, <1>3, <1>4, <1>5
<1>7. Objects(g3)
  BY <1>5, <1>6, PointingObjects
<1>8. \A r \in DOMAIN h : r \in DOMAIN g3 /\ g3[r].size = h[r].size
  BY <1>1, <1>3, <1>4, <1>5
<1> QED BY <1>2, <1>7, <1>8 DEF Grown

\* The groups behind the first get a data group.
LEMMA SplitKeeps ==
    ASSUME Objects(heap), HD \in DOMAIN heap, NEW dg \in Splitting,
           DataKind(dg) \in IDs, SplitGroup(dg)
    PROVE  Grown(heap, heap')
<1> DEFINE cgs == GroupsOf(heap, dg)
           dt == Linked(heap, dg, 3)
           new == Len(heap) + 1
           n == Len(heap) + 3
           to(i) == CASE i = 1 -> Linked(heap, dg, 1)
                      [] i = 2 -> cgs[2]
                      [] i = 3 -> new + 2
                      [] OTHER -> 0
           links == [i \in 1..64 |-> to(i)]
           o(garbage) == [type |-> "DG", addr |-> 0, loc |-> garbage, links |-> links,
                          size |-> 64, records |-> 0, vlsd |-> FALSE, kind |-> ""]
           p == DataFor(dt, <<cgs[1]>>)
           q == DataFor(dt, Tail(cgs))
<1>1. heap \in Seq(Blocks) /\ Len(heap) \in Nat /\ DOMAIN heap = 1..Len(heap)
  BY DEF Objects
<1>2. dg \in Range(DataGroups) /\ Len(cgs) > 1
  BY DEF Splitting
<1>3. /\ dg \in DOMAIN heap /\ cgs \in Seq(DOMAIN heap) /\ dt \in DOMAIN heap
      /\ Linked(heap, dg, 1) \in 0..Len(heap)
  BY <1>2, PartsOf
<1> HIDE DEF cgs
<1>4. cgs[1] \in DOMAIN heap /\ cgs[2] \in DOMAIN heap /\ Tail(cgs) \in Seq(DOMAIN heap)
      /\ <<cgs[1]>> \in Seq(DOMAIN heap)
  <2>1. 1 \in 1..Len(cgs) /\ 2 \in 1..Len(cgs) /\ cgs # <<>>
    BY <1>2, <1>3
  <2> QED BY <1>3, <2>1
<1>5. PICK garbage \in Garbage :
         heap' = [heap EXCEPT ![cgs[1]].links[1] = 0, ![dg].links[1] = new,
                              ![dg].links[3] = new + 1]
                 \o <<o(garbage), p, q>>
  BY Zenon DEF SplitGroup, cgs
<1> HIDE DEF dt
<1>6. /\ p \in Blocks /\ \A k \in DOMAIN p.links : p.links[k] \in 0..Len(heap)
      /\ q \in Blocks /\ \A k \in DOMAIN q.links : q.links[k] \in 0..Len(heap)
  BY <1>3, <1>4, DataForIsBlock
<1> HIDE DEF p, q
<1>7. links \in Seq(Nat) /\ DOMAIN links = 1..64 /\ \A i \in 1..64 : links[i] \in 0..n
  <2>1. /\ Linked(heap, dg, 1) \in 0..n /\ cgs[2] \in 0..n /\ new + 2 \in 0..n /\ 0 \in 0..n
    BY <1>1, <1>3, <1>4
  <2>2. \A i \in 1..64 : to(i) \in 0..n
    BY <2>1
  <2>3. DOMAIN links = 1..64 /\ \A i \in 1..64 : links[i] = to(i)
    OBVIOUS
  <2> HIDE DEF to
  <2>4. \A i \in 1..64 : links[i] \in 0..n
    BY <2>2, <2>3
  <2>5. \A i \in 1..64 : links[i] \in Nat
    <3>1. \A x \in 0..n : x \in Nat
      OBVIOUS
    <3> HIDE DEF links, n
    <3> QED BY <2>4, <3>1
  <2>6. links \in [1..64 -> Nat]
    BY <2>5
  <2>7. 64 \in Nat
    OBVIOUS
  <2> HIDE DEF links
  <2> QED BY <2>3, <2>4, <2>6, <2>7, FunctionIsSeq
<1> HIDE DEF to, links
<1>8. o(garbage) \in Blocks /\ o(garbage).links = links
  <2>1. /\ "DG" \in Types /\ 0 \in Nat /\ garbage \in Nat /\ 64 \in Nat
        /\ FALSE \in BOOLEAN /\ "" \in Kinds
    BY GarbageAssumption DEF Types, Kinds
  <2> DEFINE size == 64
             none == 0
  <2>2. size \in Nat /\ none \in Nat
    BY <2>1
  <2> HIDE DEF size, none
  <2>3. LET b == [type |-> "DG", addr |-> none, loc |-> garbage, links |-> links,
                  size |-> size, records |-> none, vlsd |-> FALSE, kind |-> ""]
        IN b \in Blocks /\ b.type = "DG" /\ b.addr = none /\ b.links = links
    BY <1>7, <2>1, <2>2, ABlock, Zenon
  <2> QED BY <2>3, Zenon DEF size, none
<1>9. \A k \in DOMAIN o(garbage).links : o(garbage).links[k] \in 0..n
  <2> HIDE DEF o
  <2> QED BY <1>7, <1>8, Zenon
<1>10. /\ \A k \in DOMAIN p.links : p.links[k] \in 0..n
       /\ \A k \in DOMAIN q.links : q.links[k] \in 0..n
  BY <1>1, <1>6
<1>11. Reshaped(heap, heap, n)
  BY <1>1, PointingObjects, PointingFurther DEF Reshaped
<1>12. n \in Nat /\ new \in 0..n /\ new + 1 \in 0..n /\ 0 \in 0..n /\ 1 \in Nat /\ 3 \in Nat
  BY <1>1
<1> DEFINE x2 == new
           x3 == new + 1
           g1 == Relinked(heap, cgs[1], 1, 0)
           g2 == Relinked(g1, dg, 1, x2)
           g3 == Relinked(g2, dg, 3, x3)
<1>13. Reshaped(heap, g3, n)
  <2>1. /\ Links(heap, n, cgs[1], 1, 0) /\ Links(heap, n, dg, 1, x2)
        /\ Links(heap, n, dg, 3, x3)
    <3> HIDE DEF n
    <3> QED BY <1>3, <1>4, <1>12, Zenon DEF Links
  <2> HIDE DEF x2, x3, n
  <2>2. Reshaped(heap, g1, n)
    BY <1>11, <2>1, RelinkedAgain, Zenon
  <2> HIDE DEF g1
  <2>3. Reshaped(heap, g2, n)
    BY <2>1, <2>2, RelinkedAgain, Zenon
  <2> HIDE DEF g2
  <2> QED BY <2>1, <2>3, RelinkedAgain, Zenon
<1>14. n = Len(heap) + 3
  OBVIOUS
<1> HIDE DEF g3, o, n
<1>15. Grown(heap, g3 \o <<o(garbage), p, q>>)
  BY <1>1, <1>6, <1>8, <1>9, <1>10, <1>13, <1>14, GrownByThree, Zenon
<1> QED BY <1>5, <1>15, Zenon DEF g3, g2, g1, x2, x3, Relinked

\* The header block takes whole words in every object of it, too.
EvenObjects(h) == \A r \in DOMAIN h : h[r].addr = 64 => h[r].size % 8 = 0

LEMMA OneMoreObject ==
    ASSUME NEW h, Objects(h), EvenObjects(h), NEW o \in Blocks,
           \A i \in DOMAIN o.links : o.links[i] \in 0..(Len(h) + 1),
           o.addr = 64 => o.size % 8 = 0
    PROVE  Objects(Append(h, o)) /\ EvenObjects(Append(h, o))
<1> DEFINE n == Len(h) + 1
           g == Append(h, o)
<1>1. h \in Seq(Blocks) /\ Len(h) \in Nat /\ n \in Nat
  BY DEF Objects
<1>2. Pointing(h, n)
  BY <1>1, PointingObjects, PointingFurther
<1>3. /\ Pointing(g, n) /\ Len(g) = n
      /\ \A r \in DOMAIN h : r \in DOMAIN g /\ g[r] = h[r]
  BY <1>1, <1>2, PointingMore
<1>4. g[n] = o /\ DOMAIN g = DOMAIN h \cup {n}
  BY <1>1
<1> HIDE DEF g
<1>5. Objects(g)
  BY <1>3, PointingObjects
<1>6. EvenObjects(g)
  BY <1>3, <1>4 DEF EvenObjects
<1> QED BY <1>5, <1>6 DEF g

LEMMA CreatedSize ==
    ASSUME NEW a, NEW links
    PROVE  Created(a, links).size = disk[a].size
BY DEF Created

LEMMA KindOnly ==
    ASSUME NEW o \in Blocks, NEW k \in Kinds
    PROVE  LET b == [o EXCEPT !.kind = k]
           IN b \in Blocks /\ b.addr = o.addr /\ b.links = o.links /\ b.size = o.size
BY DEF Blocks

\* What the loader makes are objects whose pointers lead to objects.
LEMMA LoaderObjects ==
    ASSUME LoadingNow, LoaderStep, Objects(heap), EvenObjects(heap), EvenHeader(disk)
    PROVE  Objects(heap') /\ EvenObjects(heap') /\ EvenHeader(disk')
<1> DEFINE f == stack[Len(stack)]
<1>1. heap \in Seq(Blocks) /\ Len(heap) \in Nat /\ DOMAIN heap = 1..Len(heap)
      /\ \A r \in DOMAIN heap : heap[r] \in Blocks
  BY DEF Objects
<1>2. ASSUME LinksDone
      PROVE  /\ f.addr \in DOMAIN disk /\ f.links \in Seq(Nat) /\ DiskOK(disk)
             /\ \A i \in 1..Len(f.links) : f.links[i] \in 0..Len(heap)
             /\ disk[f.addr].type = "DG" => Len(f.links) > 2
  <2>1. Loading(disk, stack, 0, <<>>, blockMap, heap, pos) /\ stack # <<>>
    BY <1>2 DEF LoadingNow, Calling, LinksDone
  <2>2. DiskOK(disk) /\ f \in Frames
    <3>1. Len(stack) \in 1..Len(stack) /\ stack \in Seq(Frames)
      BY <2>1 DEF Loading, Typed
    <3> QED BY <2>1, <3>1 DEF Loading, Typed
  <2>3. ~Room(disk, f)
    <3>1. Len(f.links) = Len(disk[f.addr].links) /\ Len(f.links) \in Nat
      BY <1>2, <2>2, FrameFields DEF LinksDone, Top
    <3> HIDE DEF f
    <3> QED BY <3>1 DEF Room
  <2>4. /\ f.addr \in DOMAIN disk /\ f.links \in Seq(Nat)
        /\ \A i \in 1..Len(f.links) :
              /\ Right(disk, blockMap, f.links[i], disk[f.addr].links[i])
              /\ f.links[i] \in 0..Len(heap)
        /\ disk[f.addr].type = "DG" => Len(f.links) > 2
    <3>1. /\ f.addr \in DOMAIN disk /\ f.addr \notin DOMAIN blockMap
          /\ f.links \in Seq(Nat) /\ Len(f.links) = Len(disk[f.addr].links)
          /\ \A i \in 1..Len(f.links) :
                /\ Right(disk, blockMap, f.links[i], disk[f.addr].links[i])
                /\ f.links[i] \in 0..Len(heap)
          /\ disk[f.addr].type = "DG" => Len(f.links) > 2
      BY <2>1, <2>3, LinksOfTop, Zenon
    <3> HIDE DEF f
    <3> QED BY <3>1, Zenon
  <2> HIDE DEF f
  <2> QED BY <2>2, <2>4
<1>3. CASE MakeBlock
  <2> DEFINE o == Created(f.addr, f.links)
  <2>1. LinksDone /\ heap' = Append(heap, o) /\ disk' = disk
    BY <1>3 DEF MakeBlock, Top
  <2>2. o \in Blocks /\ o.addr = f.addr /\ o.links = f.links /\ o.size = disk[f.addr].size
    BY <1>2, <2>1, CreatedFields, CreatedSize
  <2>3. f.addr = 64 => o.size % 8 = 0
    BY <1>2, <2>1, <2>2 DEF EvenHeader, HDAddress
  <2>4. \A i \in DOMAIN o.links : o.links[i] \in 0..(Len(heap) + 1)
    <3>1. DOMAIN o.links = 1..Len(f.links)
      BY <1>2, <2>1, <2>2
    <3>2. \A x \in 0..Len(heap) : x \in 0..(Len(heap) + 1)
      BY <1>1
    <3> HIDE DEF o, f
    <3> QED BY <1>2, <2>1, <2>2, <3>1, <3>2
  <2> HIDE DEF o, f
  <2>5. Objects(Append(heap, o)) /\ EvenObjects(Append(heap, o))
    BY <2>2, <2>3, <2>4, OneMoreObject
  <2> QED BY <2>1, <2>5
<1>4. CASE MakeDataGroup
  <2> DEFINE o == Created(f.addr, [f.links EXCEPT ![3] = NewData])
             old == f.links[3]
  <2>1. LinksDone /\ disk[f.addr].type = "DG" /\ disk' = disk
        /\ (Groups # <<>> => HasData)
    BY <1>4 DEF MakeDataGroup, Top, Loads
  <2>2. /\ NewData \in Nat /\ (Groups = <<>> => NewData = 0)
        /\ (Groups # <<>> => NewData = Len(heap) + 1)
    BY <1>1 DEF NewData
  <2>3. [f.links EXCEPT ![3] = NewData] \in Seq(Nat)
    BY <1>2, <2>1, <2>2, OneElement
  <2>4. /\ o \in Blocks /\ o.addr = f.addr /\ o.size = disk[f.addr].size
        /\ o.links = [f.links EXCEPT ![3] = NewData]
    BY <1>2, <2>1, <2>3, CreatedFields, CreatedSize
  <2>5. f.addr = 64 => o.size % 8 = 0
    BY <1>2, <2>1, <2>4 DEF EvenHeader, HDAddress
  <2>6. \A i \in DOMAIN o.links : o.links[i] = NewData \/ o.links[i] \in 0..Len(heap)
    <3> DEFINE s == f.links
               t == [s EXCEPT ![3] = NewData]
    <3>1. s \in Seq(Nat) /\ 3 \in Nat /\ \A i \in DOMAIN s : s[i] \in 0..Len(heap)
      BY <1>2, <2>1
    <3> HIDE DEF s
    <3>2. \A i \in DOMAIN t : t[i] = NewData \/ t[i] = s[i]
      BY <2>2, <3>1, ElementChanged
    <3>3. DOMAIN t = DOMAIN s
      BY <2>2, <3>1, ElementChanged
    <3>4. o.links = t
      BY <2>4 DEF s
    <3> HIDE DEF t, o
    <3> QED BY <3>1, <3>2, <3>3, <3>4
  <2>7. LET made == IF Groups = <<>> THEN <<>> ELSE <<Replacement>>
        IN heap' = heap \o made \o <<o>>
    BY <1>4, Zenon DEF MakeDataGroup, Top
  <2> HIDE DEF o
  <2>8. CASE Groups = <<>>
    <3>1. heap \o <<>> \o <<o>> = Append(heap, o)
      <4>1. heap \o <<>> = heap
        BY <1>1, ConcatEmptySeq
      <4>2. heap \o <<o>> = Append(heap, o)
        BY <1>1, <2>4, AppendIsConcat
      <4> QED BY <4>1, <4>2, Zenon
    <3>2. heap' = Append(heap, o)
      BY <2>7, <2>8, <3>1, Zenon
    <3>3. \A i \in DOMAIN o.links : o.links[i] \in 0..(Len(heap) + 1)
      BY <1>1, <2>2, <2>6, <2>8
    <3>4. Objects(Append(heap, o)) /\ EvenObjects(Append(heap, o))
      BY <2>4, <2>5, <3>3, OneMoreObject
    <3> QED BY <2>1, <3>2, <3>4
  <2>9. CASE Groups # <<>>
    <3> DEFINE k == IF Len(Groups) > 1 THEN "multi" ELSE "cont"
               data == [heap[old] EXCEPT !.kind = k]
               h1 == Append(heap, data)
    <3>1. old # 0
      BY <2>1, <2>9 DEF HasData, IsData, Top
    <3>2. Replacement = data /\ k \in Kinds
      BY DEF Replacement, Top, Kinds
    <3> HIDE DEF k
    <3>3. old \in DOMAIN heap
      <4>1. 3 \in 1..Len(f.links)
        BY <1>2, <2>1
      <4>2. old \in 0..Len(heap)
        BY <1>2, <2>1, <4>1
      <4> HIDE DEF old
      <4> QED BY <1>1, <3>1, <4>2
    <3>4. /\ data \in Blocks /\ data.addr = heap[old].addr /\ data.links = heap[old].links
          /\ data.size = heap[old].size
      <4>1. heap[old] \in Blocks
        BY <1>1, <3>3
      <4> HIDE DEF old
      <4>2. LET b == [heap[old] EXCEPT !.kind = k]
            IN /\ b \in Blocks /\ b.addr = heap[old].addr /\ b.links = heap[old].links
               /\ b.size = heap[old].size
        BY <3>2, <4>1, KindOnly, Zenon
      <4> QED BY <4>2, Zenon
    <3> HIDE DEF data, old
    <3>5. \A i \in DOMAIN data.links : data.links[i] \in 0..(Len(heap) + 1)
      <4>1. \A x \in 0..Len(heap) : x \in 0..(Len(heap) + 1)
        BY <1>1
      <4> QED BY <3>3, <3>4, <4>1 DEF Objects
    <3>6. data.addr = 64 => data.size % 8 = 0
      BY <3>3, <3>4 DEF EvenObjects
    <3>7. Objects(h1) /\ EvenObjects(h1) /\ Len(h1) = Len(heap) + 1
      <4>1. Len(h1) = Len(heap) + 1
        BY <1>1
      <4> QED BY <3>4, <3>5, <3>6, <4>1, OneMoreObject
    <3>8. heap \o <<data>> \o <<o>> = Append(h1, o)
      <4>1. heap \o <<data>> = h1 /\ h1 \in Seq(Blocks)
        BY <1>1, <3>4, AppendIsConcat, AppendProperties
      <4> HIDE DEF h1
      <4>2. h1 \o <<o>> = Append(h1, o)
        BY <2>4, <4>1, AppendIsConcat
      <4> QED BY <4>1, <4>2, Zenon
    <3>9. heap' = Append(h1, o)
      BY <2>7, <2>9, <3>2, <3>8, Zenon
    <3> HIDE DEF h1
    <3>10. \A i \in DOMAIN o.links : o.links[i] \in 0..(Len(h1) + 1)
      BY <1>1, <2>2, <2>6, <2>9, <3>7
    <3>11. Objects(Append(h1, o)) /\ EvenObjects(Append(h1, o))
      BY <2>4, <2>5, <3>7, <3>10, OneMoreObject
    <3> QED BY <2>1, <3>9, <3>11
  <2> QED BY <2>8, <2>9
<1>5. CASE \/ FindLoaded \/ ReadHeader \/ HeaderThrows \/ StackOverflows
           \/ LinkThrows \/ SkipLink \/ FollowLink \/ LinkLoaded
           \/ MakeNothing \/ NoDataCrashes \/ IndexThrows \/ Loaded
  <2>1. heap' = heap /\ disk' = disk
    BY <1>5 DEF FindLoaded, ReadHeader, HeaderThrows, StackOverflows, LinkThrows, SkipLink,
                FollowLink, LinkLoaded, MakeNothing, NoDataCrashes, IndexThrows, Loaded
  <2> QED BY <2>1
<1> QED BY <1>3, <1>4, <1>5 DEF LoaderStep

-----------------------------------------------------------------------------
(* Saved blocks.                                                             *)

WrittenFrom(h, r) ==
    [ref |-> r, at |-> h[r].loc, len |-> WrittenLength(h[r]),
     links |-> [i \in DOMAIN h[r].links |->
                  IF h[r].links[i] = 0 THEN 0 ELSE h[h[r].links[i]].loc]]

\* The blocks ps are packed, and the first of them are in the file o.
Saved(h, hd, ps, o) ==
    /\ Listed(h, hd, ps) /\ Placed(h, ps)
    /\ \E n \in 0..Len(ps) : o = [i \in 1..n |-> WrittenFrom(h, ps[i])]

Header(h, hd) == hd \in DOMAIN h /\ h[hd].size % 8 = 0

SaveInv ==
    /\ LoadInv /\ Objects(heap) /\ EvenHeader(disk)
    /\ stage # "done" => EvenObjects(heap)
    /\ result = "file" => Header(heap, HD)
    /\ result # "file" => packed = <<>>
    /\ packed = <<>> => out = <<>>
    /\ packed # <<>> => Saved(heap, HD, packed, out)

LEMMA NothingWritten ==
    ASSUME NEW h, NEW hd, NEW ps, Listed(h, hd, ps), Placed(h, ps)
    PROVE  Saved(h, hd, ps, <<>>)
<1>1. 0 \in 0..Len(ps)
  BY DEF Listed
<1>2. <<>> = [i \in 1..0 |-> WrittenFrom(h, ps[i])]
  OBVIOUS
<1> QED BY <1>1, <1>2 DEF Saved

LEMMA OneMoreWritten ==
    ASSUME NEW h, NEW hd, NEW ps, NEW o, Saved(h, hd, ps, o), Len(o) < Len(ps)
    PROVE  Saved(h, hd, ps, Append(o, WrittenFrom(h, ps[Len(o) + 1])))
<1> DEFINE m == Len(ps)
           w == [i \in 1..m |-> WrittenFrom(h, ps[i])]
           S == {w[i] : i \in 1..m}
<1>1. PICK n \in 0..m : o = [i \in 1..n |-> WrittenFrom(h, ps[i])]
  BY DEF Saved
<1>2. m \in Nat
  BY DEF Saved, Listed
<1> HIDE DEF m
<1>3. \A i \in 1..m : w[i] = WrittenFrom(h, ps[i]) /\ w[i] \in S
  OBVIOUS
<1> HIDE DEF w, S
<1>4. n \in Nat /\ \A i \in 1..n : i \in 1..m
  BY <1>2
<1>5. o \in [1..n -> S] /\ \A i \in 1..n : o[i] = w[i]
  <2>1. \A i \in 1..n : WrittenFrom(h, ps[i]) \in S
    BY <1>3, <1>4
  <2> QED BY <1>1, <1>3, <1>4, <2>1
<1>6. o \in Seq(S) /\ Len(o) = n
  BY <1>4, <1>5, FunctionIsSeq
<1>7. n + 1 \in 1..m /\ n + 1 \in 0..m
  BY <1>2, <1>4, <1>6 DEF m
<1> DEFINE g == Append(o, w[n + 1])
<1>8. /\ DOMAIN g = 1..(n + 1) /\ g[n + 1] = w[n + 1]
      /\ \A i \in 1..n : g[i] = w[i]
  BY <1>3, <1>4, <1>5, <1>6, <1>7
<1>9. g = [i \in 1..(n + 1) |-> g[i]]
  BY <1>3, <1>4, <1>6, <1>7, <1>8
<1> HIDE DEF g
<1>10. \A i \in 1..(n + 1) : g[i] = WrittenFrom(h, ps[i])
  <2>1. \A i \in 1..(n + 1) : i = n + 1 \/ i \in 1..n
    BY <1>4
  <2> QED BY <1>3, <1>4, <1>7, <1>8, <2>1
<1>11. g = [i \in 1..(n + 1) |-> WrittenFrom(h, ps[i])]
  BY <1>9, <1>10
<1>12. g = Append(o, WrittenFrom(h, ps[Len(o) + 1]))
  BY <1>3, <1>6, <1>7 DEF g
<1>13. Listed(h, hd, ps) /\ Placed(h, ps)
  BY DEF Saved
<1> QED BY <1>7, <1>11, <1>12, <1>13, Zenon DEF Saved, m

LEMMA SaveStarts ==
    ASSUME Init, \A input \in Inputs : DataOnce(input.disk) /\ EvenHeader(input.disk)
    PROVE  SaveInv
<1>1. LoadInv
  BY LoadStarts
<1>2. heap = <<>> /\ result = "none" /\ packed = <<>> /\ out = <<>> /\ EvenHeader(disk)
  BY DEF Init
<1>3. Objects(heap) /\ EvenObjects(heap)
  BY <1>2 DEF Objects, EvenObjects
<1> QED BY <1>1, <1>2, <1>3 DEF SaveInv

\* Saving goes on from a loaded file.
LEMMA SavingKeeps ==
    ASSUME SaveInv, SavingStep, result = "file", UNCHANGED createVars
    PROVE  SaveInv'
<1>1. /\ LoadInv' /\ stage = "done" /\ stage' = stage /\ result' = result
      /\ Objects(heap) /\ EvenHeader(disk) /\ Header(heap, HD)
  <2>1. stage = "done" /\ stage' = stage
    BY DEF SaveInv, LoadInv, createVars
  <2> QED BY <2>1 DEF SaveInv, LoadInv, createVars
<1>2. HD' = HD /\ disk' = disk
  BY DEF SavingStep, Sort, SortCrashes, Pack, WriteBlock, WriteThrows, HD
<1>3. CASE Sort
  <2>1. Grown(heap, heap')
    <3>1. HD \in DOMAIN heap /\ \A dg \in Splitting : DataKind(dg) \in IDs
      BY <1>1, <1>3 DEF Sort, Header
    <3>2. ASSUME NEW dg \in Range(DataGroups), NEW i \in Movable(dg), MoveVLSD(dg, i)
          PROVE  Grown(heap, heap')
      <4>1. dg \in Splitting
        <5>1. i \in 1..(Len(GroupsOf(heap, dg)) - 1)
          BY <3>2 DEF Movable
        <5>2. GroupsOf(heap, dg) \in Seq(DOMAIN heap)
          BY <1>1, <3>1, PartsOf
        <5>3. Len(GroupsOf(heap, dg)) > 1
          BY <5>1, <5>2
        <5> QED BY <3>2, <5>3 DEF Splitting
      <4> QED BY <1>1, <3>1, <3>2, <4>1, MoveKeeps
    <3>3. ASSUME NEW dg \in Splitting, SplitGroup(dg)
          PROVE  Grown(heap, heap')
      BY <1>1, <3>1, <3>3, SplitKeeps
    <3> QED BY <1>3, <3>2, <3>3, Zenon DEF Sort
  <2>2. Objects(heap') /\ Header(heap', HD)
    BY <1>1, <2>1 DEF Grown, Header
  <2>3. packed = <<>> /\ packed' = packed /\ out' = out
    BY <1>3 DEF Sort, Opened
  <2> QED BY <1>1, <1>2, <2>2, <2>3 DEF SaveInv
<1>4. CASE SortCrashes \/ WriteThrows
  <2>1. heap' = heap /\ packed' = packed /\ out' = out
    BY <1>4 DEF SortCrashes, WriteThrows
  <2> QED BY <1>1, <1>2, <2>1 DEF SaveInv
<1>5. CASE Pack
  <2>1. packed = <<>> /\ out' = out /\ out = <<>>
    BY <1>5 DEF Pack, Opened, SaveInv
  <2>2. PICK rising \in BOOLEAN :
           LET order == <<HD>> \o InOrder(LinkedBlocks \ {HD}, rising)
           IN packed' = order /\ heap' = Relocated(order)
    BY <1>5, Zenon DEF Pack, Relocated
  <2> DEFINE order == <<HD>> \o InOrder(LinkedBlocks \ {HD}, rising)
             h2 == Relocated(order)
  <2>3. packed' = order /\ heap' = h2
    BY <2>2, Zenon
  <2>4. HD \in DOMAIN heap /\ heap[HD].size % 8 = 0
    BY <1>1 DEF Header
  <2>5. Listed(heap, HD, order)
    BY <1>1, <2>4, OrderLists
  <2> HIDE DEF order
  <2>6. /\ Objects(h2) /\ Listed(h2, HD, order) /\ Placed(h2, order)
        /\ Len(h2) = Len(heap) /\ \A r \in DOMAIN heap : h2[r].size = heap[r].size
    <3> DEFINE hd == HD
    <3>1. hd \in DOMAIN heap /\ heap[hd].size % 8 = 0 /\ Listed(heap, hd, order)
      BY <2>4, <2>5
    <3> HIDE DEF hd
    <3> QED BY <1>1, <3>1, PackPlaces DEF hd
  <2>7. DOMAIN h2 = DOMAIN heap
    BY DEF Relocated
  <2> HIDE DEF h2
  <2>8. Header(h2, HD)
    BY <2>4, <2>6, <2>7 DEF Header
  <2>9. Saved(h2, HD, order, <<>>) /\ order # <<>>
    BY <2>6, NothingWritten DEF Listed
  <2> QED BY <1>1, <1>2, <2>1, <2>3, <2>6, <2>8, <2>9 DEF SaveInv
<1>6. CASE WriteBlock
  <2>1. /\ packed # <<>> /\ Len(out) < Len(packed) /\ heap' = heap /\ packed' = packed
        /\ out' = Append(out, Written(packed[Len(out) + 1]))
    BY <1>6 DEF WriteBlock, Saving
  <2>2. \A r : Written(r) = WrittenFrom(heap, r)
    BY DEF Written, WrittenFrom
  <2>3. Saved(heap, HD, packed, out)
    BY <2>1 DEF SaveInv
  <2>4. Saved(heap, HD, packed, Append(out, WrittenFrom(heap, packed[Len(out) + 1])))
    BY <2>1, <2>3, OneMoreWritten
  <2> QED BY <1>1, <1>2, <2>1, <2>2, <2>4 DEF SaveInv
<1> QED BY <1>3, <1>4, <1>5, <1>6 DEF SavingStep

LEMMA SaveSteps ==
    ASSUME SaveInv, [Next]_vars
    PROVE  SaveInv'
<1>0. LoadInv'
  BY LoadSteps DEF SaveInv
<1>1. CASE UNCHANGED vars
  <2>1. UNCHANGED <<heap, disk, stage, result, packed, out, blockMap>>
    BY <1>1 DEF vars, createVars, savingVars, storageVars
  <2>2. HD' = HD
    BY <2>1 DEF HD
  <2> QED BY <1>0, <2>1, <2>2 DEF SaveInv
<1>2. CASE OpenFails \/ FilterThrows \/ LoadThrows \/ Open \/ NotEncrypted \/ Encrypted
           \/ NotCompressed \/ Compressed \/ LoadID
  <2>1. /\ UNCHANGED <<heap, disk, packed, out, blockMap>> /\ stage # "done"
        /\ (result' = result \/ result' \in {"null", "threw"})
    BY <1>2 DEF OpenFails, FilterThrows, LoadThrows, Open, NotEncrypted, Encrypted,
                NotCompressed, Compressed, LoadID, End, savingVars, storageVars
  <2>2. HD' = HD /\ result = "none"
    BY <2>1 DEF HD, SaveInv, LoadInv
  <2> QED BY <1>0, <2>1, <2>2 DEF SaveInv
<1>3. CASE LoadInfo
  <2>1. /\ UNCHANGED <<heap, disk, packed, out, blockMap>> /\ stage = "blocks" /\ HasHeader
        /\ stage' = "done"
    BY <1>3 DEF LoadInfo, End, savingVars, storageVars
  <2>2. HD' = HD /\ packed = <<>>
    BY <2>1 DEF HD, SaveInv, LoadInv
  <2>3. Header(heap, HD)
    <3>1. LoadingNow /\ 64 \in DOMAIN blockMap /\ HD = blockMap[64]
      BY <2>1 DEF SaveInv, LoadInv, HasHeader, HD, HDAddress
    <3>2. blockMap[64] # 0 /\ blockMap[64] \in 0..Len(heap) /\ heap \in Seq(Blocks)
      BY <3>1 DEF LoadingNow, Loading, Walking, Typed
    <3>3. heap[blockMap[64]].addr = 64
      BY <3>1, <3>2 DEF LoadingNow, Loading, Mapped, Faithful
    <3>4. blockMap[64] \in DOMAIN heap
      BY <3>2
    <3>5. EvenObjects(heap)
      BY <2>1 DEF SaveInv
    <3> QED BY <3>1, <3>3, <3>4, <3>5 DEF EvenObjects, Header
  <2> QED BY <1>0, <2>1, <2>2, <2>3 DEF SaveInv
<1>4. CASE LoadBlocks
  <2>1. /\ LoaderStep /\ stage = "blocks" /\ stage' = stage /\ result' = result
        /\ packed' = packed
    BY <1>4 DEF LoadBlocks, createVars
  <2>2. out' = out
    BY <2>1 DEF LoaderStep, FindLoaded, ReadHeader, HeaderThrows, StackOverflows, LinkThrows,
                SkipLink, FollowLink, LinkLoaded, MakeNothing, MakeBlock, NoDataCrashes,
                IndexThrows, MakeDataGroup, Loaded
  <2>3. result = "none" /\ packed = <<>> /\ out = <<>>
    BY <2>1 DEF SaveInv, LoadInv
  <2>4. Objects(heap') /\ EvenObjects(heap') /\ EvenHeader(disk')
    BY <2>1, LoaderObjects DEF SaveInv, LoadInv
  <2> QED BY <1>0, <2>1, <2>2, <2>3, <2>4 DEF SaveInv
<1>5. CASE TagThrows \/ LoadInfoCrashes
  <2>1. UNCHANGED <<heap, disk, stage, result, packed, out, blockMap>>
    BY <1>5 DEF TagThrows, LoadInfoCrashes, createVars
  <2>2. HD' = HD
    BY <2>1 DEF HD
  <2> QED BY <1>0, <2>1, <2>2 DEF SaveInv
<1>6. CASE Save
  BY <1>6, SavingKeeps DEF Save
<1> QED BY <1>1, <1>2, <1>3, <1>4, <1>5, <1>6 DEF Next

LEMMA SaveInvImplies ==
    ASSUME SaveInv
    PROVE  SavedFileReadsBack
<1> SUFFICES ASSUME packed # <<>>, Len(out) = Len(packed)
             PROVE  LET place == [i \in DOMAIN out |-> out[i].at]
                        Of(r) == CHOOSE i \in DOMAIN out : out[i].ref = r
                    IN /\ {out[i].ref : i \in DOMAIN out} = LinkedBlocks
                       /\ IsInjective([i \in DOMAIN out |-> out[i].ref])
                       /\ place[Of(HD)] = HDAddress
                       /\ \A i \in DOMAIN out :
                            LET block == heap[out[i].ref] IN
                            /\ place[i] % 8 = 0
                            /\ \A k \in DOMAIN block.links :
                                out[i].links[k] =
                                    IF block.links[k] = 0 THEN 0
                                    ELSE place[Of(block.links[k])]
                            /\ \A j \in (i + 1)..Len(out) :
                                \/ place[i] + block.size <= place[j]
                                \/ place[j] + out[j].len <= place[i]
  BY Zenon DEF SavedFileReadsBack
<1> DEFINE m == Len(packed)
           place == [i \in DOMAIN out |-> out[i].at]
           Of(r) == CHOOSE i \in DOMAIN out : out[i].ref = r
           hd == HD
<1>1. Saved(heap, hd, packed, out) /\ Objects(heap)
  BY DEF SaveInv
<1>2. Listed(heap, hd, packed) /\ Placed(heap, packed)
  BY <1>1 DEF Saved
<1>3. /\ m \in Nat /\ packed \in Seq(DOMAIN heap) /\ packed[1] = hd /\ packed # <<>>
      /\ \A i, j \in 1..m : packed[i] = packed[j] => i = j
      /\ {packed[i] : i \in 1..m} = LinkedBlocks
  <2> HIDE DEF hd
  <2>1. /\ packed \in Seq(DOMAIN heap) /\ packed # <<>> /\ packed[1] = hd
        /\ \A i, j \in 1..Len(packed) : packed[i] = packed[j] => i = j
        /\ {packed[i] : i \in 1..Len(packed)} = Reachable(heap, {hd}, Nat)
    BY <1>2 DEF Listed
  <2>2. LinkedBlocks = Reachable(heap, {hd}, Nat)
    BY DEF LinkedBlocks, hd
  <2>3. m \in Nat
    BY <2>1
  <2> QED BY <2>1, <2>2, <2>3, Zenon
<1>3a. 1 \in 1..m /\ \A i \in 1..m : packed[i] \in DOMAIN heap
  BY <1>3
<1>4. DOMAIN out = 1..m /\ \A i \in 1..m : out[i] = WrittenFrom(heap, packed[i])
  <2>1. PICK n \in 0..m : out = [i \in 1..n |-> WrittenFrom(heap, packed[i])]
    BY <1>1 DEF Saved
  <2>2. n \in Nat
    BY <1>3
  <2>3. Len(out) = n
    <3> DEFINE S == {out[i] : i \in 1..n}
    <3>1. out \in [1..n -> S]
      BY <2>1
    <3> HIDE DEF S
    <3> QED BY <2>2, <3>1, FunctionIsSeq
  <2> QED BY <2>1, <2>3
<1> HIDE DEF m, hd
<1>5. \A i \in 1..m : /\ out[i].ref = packed[i] /\ out[i].at = heap[packed[i]].loc
                      /\ out[i].links = [k \in DOMAIN heap[packed[i]].links |->
                                           IF heap[packed[i]].links[k] = 0 THEN 0
                                           ELSE heap[heap[packed[i]].links[k]].loc]
  BY <1>4 DEF WrittenFrom
<1>5a. \A i \in 1..m : out[i].ref = packed[i]
  BY <1>5
<1>6. \A i \in 1..m : place[i] = heap[packed[i]].loc
  BY <1>4, <1>5
<1>7. \A i \in 1..m : Of(packed[i]) = i
  <2> SUFFICES ASSUME NEW i \in 1..m PROVE Of(packed[i]) = i
    OBVIOUS
  <2>1. i \in DOMAIN out /\ out[i].ref = packed[i]
    BY <1>4, <1>5
  <2>2. Of(packed[i]) \in DOMAIN out /\ out[Of(packed[i])].ref = packed[i]
    BY <2>1, Zenon
  <2> HIDE DEF Of
  <2> QED BY <1>3, <1>4, <1>5a, <2>2
<1> HIDE DEF Of
<1>8. {out[i].ref : i \in DOMAIN out} = LinkedBlocks
  BY <1>3, <1>4, <1>5a
<1>9. IsInjective([i \in DOMAIN out |-> out[i].ref])
  BY <1>3, <1>4, <1>5a DEF IsInjective
<1>10. place[Of(hd)] = HDAddress
  <2>1. Of(hd) = 1
    BY <1>3, <1>3a, <1>7
  <2>2. place[1] = heap[packed[1]].loc
    BY <1>3a, <1>6
  <2>3. heap[packed[1]].loc = 64
    BY <1>2 DEF Placed
  <2> HIDE DEF place
  <2> QED BY <2>1, <2>2, <2>3 DEF HDAddress
<1>11. ASSUME NEW i \in DOMAIN out
       PROVE  LET block == heap[out[i].ref] IN
              /\ place[i] % 8 = 0
              /\ \A k \in DOMAIN block.links :
                  out[i].links[k] = IF block.links[k] = 0 THEN 0
                                    ELSE place[Of(block.links[k])]
              /\ \A j \in (i + 1)..Len(out) :
                  \/ place[i] + block.size <= place[j]
                  \/ place[j] + out[j].len <= place[i]
  <2> DEFINE r == packed[i]
             links == heap[r].links
  <2>1. i \in 1..m /\ out[i].ref = r /\ r \in DOMAIN heap
    BY <1>3a, <1>4, <1>5a, <1>11
  <2>2. place[i] % 8 = 0
    BY <1>2, <1>6, <2>1 DEF Placed, m
  <2>3. ASSUME NEW k \in DOMAIN links, links[k] # 0
        PROVE  heap[links[k]].loc = place[Of(links[k])]
    <3>1. links[k] \in LinkedBlocks
      <4>1. LinkedBlocks = Reachable(heap, {hd}, Nat) /\ r \in LinkedBlocks
        BY <1>3, <2>1 DEF LinkedBlocks, hd
      <4>2. links \in Seq(Nat) /\ heap \in Seq(Blocks)
        <5>1. heap[r] \in Blocks
          BY <1>1, <2>1 DEF Objects
        <5> QED BY <1>1, <5>1, BlockFields DEF Objects
      <4>3. k \in Nat
        BY <4>2, <2>3
      <4>4. links[k] \in LinksIn(heap[r], Nat)
        BY <2>3, <4>3 DEF LinksIn
      <4> HIDE DEF links, r
      <4>5. LinksIn(heap[r], Nat) \ {0} \subseteq LinkedBlocks
        BY <2>1, <4>1, <4>2, ReachedCloses
      <4> QED BY <2>3, <4>4, <4>5
    <3>2. PICK j \in 1..m : packed[j] = links[k]
      BY <1>3, <3>1
    <3> QED BY <1>6, <1>7, <3>2
  <2>4. ASSUME NEW k \in DOMAIN links
        PROVE  out[i].links[k] = IF links[k] = 0 THEN 0 ELSE place[Of(links[k])]
    <3>1. out[i].links[k] = IF links[k] = 0 THEN 0 ELSE heap[links[k]].loc
      <4>1. out[i].links = [l \in DOMAIN links |-> IF links[l] = 0 THEN 0
                                                  ELSE heap[links[l]].loc]
        BY <1>5, <2>1
      <4> HIDE DEF links
      <4> QED BY <4>1
    <3> HIDE DEF place, links
    <3> QED BY <2>3, <3>1
  <2>5. ASSUME NEW j \in (i + 1)..Len(out)
        PROVE  place[i] + heap[r].size <= place[j]
    <3>1. j \in 1..m /\ i < j
      BY <1>3, <2>1 DEF m
    <3> QED BY <1>2, <1>6, <2>1, <3>1 DEF Placed, m
  <2> HIDE DEF place
  <2> QED BY <2>1, <2>2, <2>4, <2>5
<1> HIDE DEF place
<1> QED BY <1>8, <1>9, <1>10, <1>11, Zenon DEF place, Of, hd

\* What save() writes reads back as the blocks there were, each at a place of its
\* own and linked as in memory.
THEOREM SavesTheFile ==
    ASSUME \A input \in Inputs : DataOnce(input.disk) /\ EvenHeader(input.disk)
    PROVE  Spec => []SavedFileReadsBack
<1>1. Init => SaveInv
  BY SaveStarts
<1>2. SaveInv /\ [Next]_vars => SaveInv'
  BY SaveSteps
<1>3. SaveInv => SavedFileReadsBack
  BY SaveInvImplies
<1> QED BY <1>1, <1>2, <1>3, PTL DEF Spec

-----------------------------------------------------------------------------
(* What can be opened.                                                       *)

LEMMA TwoMembers ==
    ASSUME NEW S, IsFiniteSet(S), NEW a \in S, NEW b \in S, a # b
    PROVE  Cardinality(S) > 1
<1>1. IsFiniteSet({a}) /\ Cardinality({a}) = 1
  BY FS_Singleton
<1>2. Cardinality({a} \cup {b}) = 2 /\ IsFiniteSet({a} \cup {b})
  BY <1>1, FS_AddElement
<1>3. Cardinality({a} \cup {b}) <= Cardinality(S)
  <2>1. {a} \cup {b} \subseteq S
    OBVIOUS
  <2> QED BY <2>1, FS_Subset
<1>4. Cardinality(S) \in Nat
  BY FS_CardinalityType
<1> QED BY <1>2, <1>3, <1>4

LEMMA OneMember ==
    ASSUME NEW S, NEW a, S \subseteq {a}
    PROVE  IsFiniteSet(S) /\ ~(Cardinality(S) > 1)
<1>1. IsFiniteSet({a}) /\ Cardinality({a}) = 1
  BY FS_Singleton
<1>2. IsFiniteSet(S) /\ Cardinality(S) <= 1
  BY <1>1, FS_Subset
<1>3. Cardinality(S) \in Nat
  BY <1>2, FS_CardinalityType
<1> QED BY <1>2, <1>3

\* A chain has a second block where the first one links to another of its type.
LEMMA ChainSecond ==
    ASSUME NEW S, NEW h \in Seq(S), NEW first, NEW type
    PROVE  Len(Chain(h, first, type)) > 1 <=>
               /\ first \in DOMAIN h /\ h[first].type = type
               /\ Linked(h, first, 1) \in DOMAIN h /\ h[Linked(h, first, 1)].type = type
<1> DEFINE n == Len(h)
           As(r) == IF r \in DOMAIN h /\ h[r].type = type THEN r ELSE 0
<1>1. PICK nth : Walks(h, first, type, nth)
  BY ChainWalks, Zenon
<1> DEFINE some == {m \in 0..n : nth[m] # 0}
           length == Cardinality(some)
<1>2. Chain(h, first, type) = [m \in 1..length |-> nth[m - 1]]
  BY <1>1 DEF Walks
<1>3. nth[0] = As(first) /\ \A m \in 1..n : nth[m] = As(Linked(h, nth[m - 1], 1))
  BY <1>1 DEF Walks
<1>4. IsFiniteSet(some) /\ length \in Nat
  <2>1. IsFiniteSet(0..n)
    BY FS_Interval
  <2> QED BY <2>1, FS_Subset, FS_CardinalityType
<1>5. n \in Nat /\ DOMAIN h = 1..n /\ 0 \notin DOMAIN h
  OBVIOUS
<1>6. Len(Chain(h, first, type)) = length
  <2> HIDE DEF length
  <2> QED BY <1>2, <1>4
<1>7. As(0) = 0 /\ Linked(h, 0, 1) = 0
  BY <1>5 DEF Linked
<1>8. \A r : /\ As(r) # 0 <=> r \in DOMAIN h /\ h[r].type = type
             /\ As(r) # 0 => As(r) = r
  BY <1>5
<1> HIDE DEF As
<1>9. ASSUME As(first) # 0, As(Linked(h, first, 1)) # 0
      PROVE  length > 1
  <2>1. first \in DOMAIN h /\ nth[0] = first
    BY <1>3, <1>8, <1>9
  <2>2. 0 \in 0..n /\ 1 \in 0..n /\ 1 \in 1..n
    BY <1>5, <2>1
  <2>3. nth[1] = As(Linked(h, nth[0], 1))
    <3>1. 1 - 1 = 0
      OBVIOUS
    <3> QED BY <1>3, <2>2, <3>1
  <2>4. 0 \in some /\ 1 \in some
    BY <1>3, <1>9, <2>1, <2>2, <2>3
  <2> HIDE DEF some
  <2> QED BY <1>4, <2>4, TwoMembers
<1>10. ASSUME As(first) = 0 \/ As(Linked(h, first, 1)) = 0
       PROVE  ~(length > 1)
  <2> DEFINE Z == {m \in 0..n : m > 0 => nth[m] = 0}
  <2>1. 0 \in Z
    BY <1>5
  <2>2. ASSUME NEW m \in 1..n, m - 1 \in Z PROVE m \in Z
    <3>1. nth[m] = As(Linked(h, nth[m - 1], 1))
      BY <1>3
    <3>2. CASE m = 1
      <4>1. nth[m - 1] = As(first)
        BY <1>3, <3>2
      <4>2. CASE As(first) = 0
        BY <1>7, <3>1, <4>1, <4>2
      <4>3. CASE As(first) # 0
        <5>1. As(first) = first
          BY <1>8, <4>3
        <5> QED BY <1>10, <3>1, <4>1, <4>3, <5>1
      <4> QED BY <4>2, <4>3
    <3>3. CASE m # 1
      <4>1. m - 1 > 0
        BY <3>3
      <4>2. nth[m - 1] = 0
        BY <2>2, <4>1
      <4> QED BY <1>7, <3>1, <4>2
    <3> QED BY <3>2, <3>3
  <2> HIDE DEF Z
  <2>3. \A m \in 0..n : m \in Z
    BY <1>5, <2>1, <2>2, CountUp
  <2>4. some \subseteq {0}
    BY <1>5, <2>3 DEF Z
  <2> HIDE DEF some
  <2> QED BY <2>4, OneMember
<1> HIDE DEF length
<1>11. Len(Chain(h, first, type)) > 1 <=> As(first) # 0 /\ As(Linked(h, first, 1)) # 0
  BY <1>6, <1>9, <1>10
<1> QED BY <1>8, <1>11

-----------------------------------------------------------------------------
(* The blocks of the file d that links lead to.                              *)

LinksOf(d, a) ==
    IF a \in DOMAIN d /\ d[a].read \notin {"none", "header"}
    THEN Range(d[a].links) \ {0} ELSE {}
From(d, S) == Closure(S, [a \in DOMAIN d |-> LinksOf(d, a)])

LEMMA FromCloses ==
    ASSUME NEW d, IsFiniteSet(DOMAIN d), NEW S
    PROVE  /\ S \subseteq From(d, S)
           /\ \A a \in From(d, S) : LinksOf(d, a) \subseteq From(d, S)
<1> DEFINE to == [a \in DOMAIN d |-> LinksOf(d, a)]
<1>1. DOMAIN to = DOMAIN d /\ \A a \in DOMAIN d : to[a] = LinksOf(d, a)
  OBVIOUS
<1>2. \A a : a \notin DOMAIN d => LinksOf(d, a) = {}
  BY DEF LinksOf
<1>3. From(d, S) = Closure(S, to)
  BY DEF From
<1> HIDE DEF to
<1>4. /\ S \subseteq Closure(S, to)
      /\ \A a \in Closure(S, to) \cap DOMAIN to : to[a] \subseteq Closure(S, to)
  BY <1>1, ClosureIsClosed
<1> QED BY <1>1, <1>2, <1>3, <1>4

LEMMA FromLeast ==
    ASSUME NEW d, IsFiniteSet(DOMAIN d), NEW S, NEW V, S \subseteq V,
           \A a \in V : LinksOf(d, a) \subseteq V
    PROVE  From(d, S) \subseteq V
<1> DEFINE to == [a \in DOMAIN d |-> LinksOf(d, a)]
<1>1. DOMAIN to = DOMAIN d /\ \A a \in DOMAIN d : to[a] = LinksOf(d, a)
  OBVIOUS
<1>2. From(d, S) = Closure(S, to)
  BY DEF From
<1>3. IsFiniteSet(DOMAIN to) /\ \A a \in V \cap DOMAIN to : to[a] \subseteq V
  BY <1>1
<1> HIDE DEF to
<1>4. Closure(S, to) \subseteq V
  BY <1>3, ClosureIsLeast
<1> QED BY <1>2, <1>4

\* The channel groups of a data group, in the file.
GroupAt(d, links, i) ==
    {a \in DOMAIN d : i <= Len(links) /\ links[i] = a /\ d[a].type = "CG"}
GroupsFrom(d, a) ==
    Closure(GroupAt(d, d[a].links, 2), [c \in DOMAIN d |-> GroupAt(d, d[c].links, 1)])
DataFits(d, a) ==
    GroupsFrom(d, a) # {} =>
        /\ d[a].links[3] # 0 /\ d[d[a].links[3]].type = "DT"
        /\ Cardinality(GroupsFrom(d, a)) > 1 => d[d[a].links[3]].read = "all"

\* A data group has a group on disk if its link leads to one, and more of them
\* if that one links to another.
LEMMA GroupsThere ==
    ASSUME NEW d, DiskOK(d), NEW a \in DOMAIN d
    PROVE  /\ GroupsFrom(d, a) # {} <=> GroupAt(d, d[a].links, 2) # {}
           /\ \A x \in GroupAt(d, d[a].links, 2) :
                 x \notin GroupAt(d, d[x].links, 1) =>
                    (Cardinality(GroupsFrom(d, a)) > 1 <=> GroupAt(d, d[x].links, 1) # {})
<1> DEFINE S == GroupAt(d, d[a].links, 2)
           to == [c \in DOMAIN d |-> GroupAt(d, d[c].links, 1)]
           G == Closure(S, to)
<1>1. DOMAIN to = DOMAIN d /\ IsFiniteSet(DOMAIN to) /\ GroupsFrom(d, a) = G
      /\ \A c \in DOMAIN d : to[c] = GroupAt(d, d[c].links, 1)
  BY DEF DiskOK, GroupsFrom
<1>2. \A c, e : \A ls, i : c \in GroupAt(d, ls, i) /\ e \in GroupAt(d, ls, i) => c = e
  BY DEF GroupAt
<1>3. \A ls, i : GroupAt(d, ls, i) \subseteq DOMAIN d
  BY DEF GroupAt
<1> HIDE DEF to
<1>4. S \subseteq G /\ \A c \in G \cap DOMAIN to : to[c] \subseteq G
  <2> HIDE DEF S
  <2> QED BY <1>1, ClosureIsClosed
<1>5. G \subseteq DOMAIN d
  <2>1. S \subseteq DOMAIN d /\ \A c \in DOMAIN d \cap DOMAIN to : to[c] \subseteq DOMAIN d
    BY <1>1, <1>3
  <2> HIDE DEF S
  <2> QED BY <1>1, <2>1, ClosureIsLeast
<1>6. S = {} => G = {}
  <2>1. ASSUME S = {} PROVE G \subseteq {}
    <3>1. S \subseteq {} /\ \A c \in {} \cap DOMAIN to : to[c] \subseteq {}
      BY <2>1
    <3> HIDE DEF S
    <3> QED BY <1>1, <3>1, ClosureIsLeast
  <2> QED BY <2>1
<1>7. ASSUME NEW x \in S, x \notin GroupAt(d, d[x].links, 1)
      PROVE  Cardinality(G) > 1 <=> GroupAt(d, d[x].links, 1) # {}
  <2>1. x \in DOMAIN d /\ to[x] = GroupAt(d, d[x].links, 1) /\ x \in G
    BY <1>1, <1>3, <1>4
  <2>2. ASSUME NEW y \in GroupAt(d, d[x].links, 1) PROVE Cardinality(G) > 1
    <3>1. y \in G /\ x # y
      BY <1>1, <1>4, <1>7, <2>1, <2>2
    <3>2. IsFiniteSet(G)
      <4>1. IsFiniteSet(DOMAIN d)
        BY DEF DiskOK
      <4> HIDE DEF G
      <4> QED BY <1>5, <4>1, FS_Subset
    <3> HIDE DEF G
    <3> QED BY <2>1, <3>1, <3>2, TwoMembers
  <2>3. ASSUME GroupAt(d, d[x].links, 1) = {} PROVE ~(Cardinality(G) > 1)
    <3>1. S \subseteq {x} /\ \A c \in {x} \cap DOMAIN to : to[c] \subseteq {x}
      BY <1>2, <2>1, <2>3
    <3>2. G \subseteq {x}
      <4> HIDE DEF S
      <4> QED BY <1>1, <3>1, ClosureIsLeast
    <3> HIDE DEF G
    <3> QED BY <3>2, OneMember
  <2> QED BY <2>2, <2>3
<1> HIDE DEF G
<1> QED BY <1>1, <1>4, <1>6, <1>7

\* A pointer that is right for a link leads to a block of a type where the link
\* leads to one.
LEMMA SameType ==
    ASSUME NEW d, NEW st, NEW w, NEW rt, NEW bm, NEW h, NEW ps,
           Loading(d, st, w, rt, bm, h, ps), NEW p, NEW x, Right(d, bm, p, x),
           NEW t \in Known
    PROVE  /\ p \in DOMAIN h /\ h[p].type = t <=> x # 0 /\ d[x].type = t
           /\ x # 0 /\ d[x].type = t => x \in DOMAIN bm /\ Faithful(d, bm, h, x, h[p])
<1>1. /\ h \in Seq(Blocks) /\ DOMAIN h = 1..Len(h) /\ Len(h) \in Nat
      /\ Mapped(d, bm, h) /\ \A c \in DOMAIN bm : bm[c] \in 0..Len(h)
  BY Addresses DEF Loading, Typed
<1>2. ASSUME x # 0, d[x].type = t
      PROVE  /\ p \in DOMAIN h /\ h[p].type = t /\ x \in DOMAIN bm
             /\ Faithful(d, bm, h, x, h[p])
  <2>1. x \in DOMAIN bm /\ p = bm[x] /\ p # 0
    BY <1>2 DEF Right
  <2>2. p \in DOMAIN h
    BY <1>1, <2>1
  <2>3. Faithful(d, bm, h, x, h[p])
    BY <1>1, <2>1 DEF Mapped
  <2> QED BY <1>2, <2>1, <2>2, <2>3 DEF Faithful
<1>3. ASSUME p \in DOMAIN h, h[p].type = t
      PROVE  x # 0 /\ d[x].type = t
  <2>1. p # 0
    BY <1>1, <1>3
  <2>2. x # 0 /\ d[x].type \in Known /\ x \in DOMAIN bm /\ p = bm[x]
    BY <2>1 DEF Right
  <2>3. Faithful(d, bm, h, x, h[p])
    BY <1>1, <2>1, <2>2 DEF Mapped
  <2> QED BY <1>3, <2>2, <2>3 DEF Faithful
<1> QED BY <1>2, <1>3

\* Where a data group is complete, what load() of it asks of the objects is what
\* DataFits asks of the file.
LEMMA LoadsFits ==
    ASSUME NEW d, NEW st, NEW bm, NEW h, NEW ps, NEW a, NEW ls,
           Loading(d, st, 0, <<>>, bm, h, ps), st # <<>>, ~Room(d, st[Len(st)]),
           a = st[Len(st)].addr, ls = st[Len(st)].links, d[a].type = "DG",
           \A x \in GroupAt(d, d[a].links, 2) : x \notin GroupAt(d, d[x].links, 1)
    PROVE  DataFits(d, a) <=>
               /\ Chain(h, ls[2], "CG") # <<>> => IsData(h, ls[3])
               /\ ~(/\ Len(Chain(h, ls[2], "CG")) > 1 /\ IsData(h, ls[3])
                    /\ d[h[ls[3]].addr].read # "all")
<1> DEFINE p == ls[2]
           x == d[a].links[2]
           old == ls[3]
           z == d[a].links[3]
           G == GroupsFrom(d, a)
           one == GroupAt(d, d[a].links, 2)
<1>1. /\ a \in DOMAIN d /\ Len(ls) = Len(d[a].links) /\ Len(ls) > 2 /\ ls \in Seq(Nat)
      /\ \A i \in 1..Len(ls) : Right(d, bm, ls[i], d[a].links[i]) /\ ls[i] \in 0..Len(h)
  <2> DEFINE f == st[Len(st)]
  <2>1. /\ f.addr \in DOMAIN d /\ f.addr \notin DOMAIN bm
        /\ f.links \in Seq(Nat) /\ Len(f.links) = Len(d[f.addr].links)
        /\ \A i \in 1..Len(f.links) :
              /\ Right(d, bm, f.links[i], d[f.addr].links[i])
              /\ f.links[i] \in 0..Len(h)
        /\ d[f.addr].type = "DG" => Len(f.links) > 2
    BY LinksOfTop, Zenon
  <2>2. f.addr = a /\ f.links = ls
    OBVIOUS
  <2> HIDE DEF f
  <2> QED BY <2>1, <2>2, Zenon
<1>2. 2 \in 1..Len(ls) /\ 3 \in 1..Len(ls)
  BY <1>1
<1>3. Right(d, bm, p, x) /\ Right(d, bm, old, z) /\ p \in 0..Len(h) /\ old \in 0..Len(h)
  BY <1>1, <1>2
<1>4. /\ h \in Seq(Blocks) /\ DOMAIN h = 1..Len(h) /\ Len(h) \in Nat /\ DiskOK(d)
      /\ DOMAIN bm \subseteq DOMAIN d /\ DOMAIN d \subseteq Nat \ {0}
  <2>1. Typed(d, st, 0, <<>>, bm, h)
    BY DEF Loading
  <2>2. DOMAIN d \subseteq Nat \ {0}
    BY <2>1, Addresses, Zenon
  <2> QED BY <2>1, <2>2 DEF Typed
<1>5. "CG" \in Known /\ "DT" \in Known
  BY DEF Known
<1> HIDE DEF p, x, old, z
<1>6. /\ p \in DOMAIN h /\ h[p].type = "CG" <=> x # 0 /\ d[x].type = "CG"
      /\ x # 0 /\ d[x].type = "CG" => x \in DOMAIN bm /\ Faithful(d, bm, h, x, h[p])
  BY <1>3, <1>5, SameType
<1>7. one = {e \in DOMAIN d : x = e /\ d[e].type = "CG"}
  BY <1>1, <1>2 DEF GroupAt, x
<1>8. p \in DOMAIN h /\ h[p].type = "CG" <=> one # {}
  BY <1>4, <1>6, <1>7
<1>9. Chain(h, p, "CG") # <<>> <=> G # {}
  <2>1. Chain(h, p, "CG") # <<>> <=> p \in DOMAIN h /\ h[p].type = "CG"
    BY <1>4, ChainFirst
  <2>2. G # {} <=> one # {}
    BY <1>1, <1>4, GroupsThere
  <2> HIDE DEF G, one
  <2> QED BY <1>8, <2>1, <2>2
<1>10. ASSUME one # {}
       PROVE  Len(Chain(h, p, "CG")) > 1 <=> Cardinality(G) > 1
  <2>1. /\ x \in one /\ x \in DOMAIN d /\ d[x].type = "CG" /\ p \in DOMAIN h
        /\ h[p].type = "CG" /\ Faithful(d, bm, h, x, h[p])
    BY <1>4, <1>6, <1>7, <1>10
  <2>2. h[p].links \in Seq(Nat) /\ Len(h[p].links) = Len(d[x].links)
        /\ \A i \in 1..Len(h[p].links) : Right(d, bm, h[p].links[i], d[x].links[i])
    <3>1. h[p] \in Blocks
      BY <1>4, <2>1
    <3>2. \A i : ~Cleared(d, h, h[p], i)
      BY <2>1 DEF Cleared
    <3> QED BY <2>1, <3>1, <3>2, BlockFields DEF Faithful
  <2>3. Cardinality(G) > 1 <=> GroupAt(d, d[x].links, 1) # {}
    <3>1. x \notin GroupAt(d, d[x].links, 1)
      BY <2>1
    <3> HIDE DEF G
    <3> QED BY <1>1, <1>4, <2>1, <3>1, GroupsThere DEF G
  <2>4. Len(Chain(h, p, "CG")) > 1 <=>
            Linked(h, p, 1) \in DOMAIN h /\ h[Linked(h, p, 1)].type = "CG"
    BY <1>4, <2>1, ChainSecond
  <2>5. CASE Len(h[p].links) < 1
    <3>1. Linked(h, p, 1) = 0
      BY <2>2, <2>5 DEF Linked
    <3>2. GroupAt(d, d[x].links, 1) = {}
      BY <2>2, <2>5 DEF GroupAt
    <3> HIDE DEF G
    <3> QED BY <1>4, <2>3, <2>4, <3>1, <3>2
  <2>6. CASE ~(Len(h[p].links) < 1)
    <3> DEFINE q == Linked(h, p, 1)
               y == d[x].links[1]
    <3>1. q = h[p].links[1] /\ 1 \in 1..Len(h[p].links)
      BY <1>4, <2>1, <2>2, <2>6 DEF Linked
    <3>2. Right(d, bm, q, y)
      BY <2>2, <3>1
    <3>3. GroupAt(d, d[x].links, 1) = {e \in DOMAIN d : y = e /\ d[e].type = "CG"}
      <4>1. 1 <= Len(d[x].links)
        BY <2>2, <2>6
      <4> QED BY <4>1 DEF GroupAt
    <3> HIDE DEF q, y
    <3>4. /\ q \in DOMAIN h /\ h[q].type = "CG" <=> y # 0 /\ d[y].type = "CG"
          /\ y # 0 /\ d[y].type = "CG" => y \in DOMAIN bm
      BY <1>5, <3>2, SameType
    <3>5. q \in DOMAIN h /\ h[q].type = "CG" <=> GroupAt(d, d[x].links, 1) # {}
      BY <1>4, <3>3, <3>4
    <3> HIDE DEF G
    <3> QED BY <2>3, <2>4, <3>5 DEF q
  <2> QED BY <2>5, <2>6
<1>11. IsData(h, old) <=> z # 0 /\ d[z].type = "DT"
  <2>1. old \in DOMAIN h /\ h[old].type = "DT" <=> z # 0 /\ d[z].type = "DT"
    BY <1>3, <1>5, SameType
  <2> QED BY <1>3, <1>4, <2>1 DEF IsData
<1>12. IsData(h, old) => h[old].addr = z
  <2>1. z # 0 /\ d[z].type = "DT" => Faithful(d, bm, h, z, h[old])
    BY <1>3, <1>5, SameType
  <2> QED BY <1>11, <2>1 DEF Faithful
<1>13. Len(Chain(h, p, "CG")) > 1 => Chain(h, p, "CG") # <<>>
  OBVIOUS
<1>14. DataFits(d, a) <=> (G # {} => /\ z # 0 /\ d[z].type = "DT"
                                     /\ Cardinality(G) > 1 => d[z].read = "all")
  BY Zenon DEF DataFits, G, z
<1>15. G # {} <=> one # {}
  BY <1>1, <1>4, GroupsThere
<1> HIDE DEF G, one
<1>16. DataFits(d, a) <=>
           /\ Chain(h, p, "CG") # <<>> => IsData(h, old)
           /\ ~(/\ Len(Chain(h, p, "CG")) > 1 /\ IsData(h, old)
                /\ d[h[old].addr].read # "all")
  BY <1>9, <1>10, <1>11, <1>12, <1>13, <1>14, <1>15
<1> QED BY <1>16, Zenon DEF p, old

-----------------------------------------------------------------------------
(* What the loader has been through is good.                                 *)

\* A block that can be read, with data where it needs some.
Fits(d, a) ==
    /\ a \in DOMAIN d /\ d[a].read # "none"
    /\ d[a].links # <<>> => d[a].read # "header"
    /\ d[a].type = "DG" /\ d[a].read = "all" => DataFits(d, a)

\* Such blocks, with all that they lead to, and no way back.
Solid(d, G) ==
    \A a \in G :
        Fits(d, a) /\ LinksOf(d, a) \subseteq G /\ a \notin From(d, LinksOf(d, a))

Through(d, G, f) ==
    /\ d[f.addr].read # "none"
    /\ f.links # <<>> \/ f.back # <<>> => d[f.addr].read # "header"
    /\ \A i \in 1..Len(f.links) : d[f.addr].links[i] \in G \cup {0}

Checked(d, st, rt, bm, G) ==
    /\ Solid(d, G) /\ DOMAIN bm \subseteq G
    /\ \A k \in 1..Len(st) : Through(d, G, st[k])
    /\ rt # <<>> /\ st # <<>> => NextLink(d, st[Len(st)]) \in G
    /\ rt # <<>> /\ st = <<>> => 64 \in G /\ Right(d, bm, rt[1], 64)

LEMMA SolidMore ==
    ASSUME NEW d, IsFiniteSet(DOMAIN d), NEW G, Solid(d, G), NEW a, Fits(d, a),
           LinksOf(d, a) \subseteq G
    PROVE  Solid(d, G \cup {a})
<1>1. ASSUME a \notin G PROVE a \notin From(d, LinksOf(d, a))
  <2>1. \A b \in G : LinksOf(d, b) \subseteq G
    BY DEF Solid
  <2>2. From(d, LinksOf(d, a)) \subseteq G
    BY <2>1, FromLeast
  <2> QED BY <1>1, <2>2
<1>2. CASE a \in G
  <2>1. G \cup {a} = G
    BY <1>2
  <2> QED BY <2>1
<1>3. CASE a \notin G
  <2> SUFFICES ASSUME NEW b \in G \cup {a}
               PROVE  /\ Fits(d, b) /\ LinksOf(d, b) \subseteq G \cup {a}
                      /\ b \notin From(d, LinksOf(d, b))
    BY DEF Solid
  <2>1. CASE b = a
    BY <1>1, <1>3, <2>1
  <2>2. CASE b \in G
    BY <2>2 DEF Solid
  <2> QED BY <2>1, <2>2
<1> QED BY <1>2, <1>3

LEMMA ThroughMore ==
    ASSUME NEW d, NEW G, NEW G2, G \subseteq G2, NEW f, Through(d, G, f)
    PROVE  Through(d, G2, f)
BY DEF Through

\* The innermost call changes.
LEMMA TopThrough ==
    ASSUME NEW d, NEW G, NEW st \in Seq(Frames), st # <<>>,
           \A k \in 1..Len(st) : Through(d, G, st[k]), NEW f, Through(d, G, f)
    PROVE  LET st2 == [st EXCEPT ![Len(st)] = f]
           IN Len(st2) = Len(st) /\ \A k \in 1..Len(st2) : Through(d, G, st2[k])
<1> DEFINE st2 == [st EXCEPT ![Len(st)] = f]
<1>1. DOMAIN st2 = DOMAIN st /\ DOMAIN st = 1..Len(st) /\ Len(st) \in Nat
      /\ st2[Len(st)] = f
      /\ \A k \in 1..Len(st) : k # Len(st) => st2[k] = st[k]
  OBVIOUS
<1>2. Len(st2) = Len(st)
  <2> DEFINE n == Len(st)
             S == Frames \cup {f}
  <2>1. n \in Nat /\ \A k \in 1..n : st2[k] \in S
    <3>1. \A k \in 1..Len(st) : st[k] \in Frames
      OBVIOUS
    <3> HIDE DEF st2
    <3> QED BY <1>1, <3>1
  <2>2. st2 = [k \in 1..n |-> st2[k]]
    BY <1>1
  <2> HIDE DEF st2, S, n
  <2>3. st2 \in [1..n -> S]
    BY <2>1, <2>2
  <2>4. Len(st2) = n
    BY <2>1, <2>3, FunctionIsSeq
  <2> QED BY <2>4 DEF n
<1> HIDE DEF st2
<1>3. \A k \in 1..Len(st) : Through(d, G, st2[k])
  BY <1>1
<1> QED BY <1>2, <1>3 DEF st2

LEMMA LinkThrough ==
    ASSUME NEW d, NEW G, NEW f \in Frames, Through(d, G, f), NEW p \in Nat,
           NextLink(d, f) \in G \cup {0}, d[f.addr].read # "header"
    PROVE  Through(d, G, [f EXCEPT !.links = Append(@, p)])
<1> DEFINE s == Append(f.links, p)
           g == [f EXCEPT !.links = s]
<1>1. f.links \in Seq(Nat) /\ Len(f.links) \in Nat
  BY FrameFields
<1>2. s \in Seq(Nat) /\ Len(s) = Len(f.links) + 1
  BY <1>1
<1>3. g.addr = f.addr /\ g.links = s
  <2> HIDE DEF s
  <2> QED BY <1>2, FrameWithLinks
<1> HIDE DEF s
<1>4. ASSUME NEW i \in 1..Len(s) PROVE d[f.addr].links[i] \in G \cup {0}
  <2>1. i \in 1..Len(f.links) \/ i = Len(f.links) + 1
    BY <1>1, <1>2
  <2> QED BY <2>1 DEF Through, NextLink
<1>5. Through(d, G, g)
  <2> HIDE DEF g
  <2> QED BY <1>3, <1>4 DEF Through
<1>6. g = [f EXCEPT !.links = Append(@, p)]
  BY DEF g, s
<1> QED BY <1>5, <1>6

LEMMA BackThrough ==
    ASSUME NEW d, NEW G, NEW f \in Frames, Through(d, G, f), NEW s \in Seq(Nat),
           d[f.addr].read # "header"
    PROVE  Through(d, G, [f EXCEPT !.back = s])
<1> DEFINE g == [f EXCEPT !.back = s]
<1>1. g.addr = f.addr /\ g.links = f.links
  BY FrameWithBack
<1> HIDE DEF g
<1>2. Through(d, G, g)
  BY <1>1 DEF Through
<1> QED BY <1>2 DEF g

\* A call returns the block it was for, with all that its links lead to.
LEMMA CallChecked ==
    ASSUME NEW d, NEW st, NEW bm, NEW h, NEW ps, NEW G, NEW a, NEW bm2, NEW p,
           Loading(d, st, 0, <<>>, bm, h, ps), st # <<>>, ~Room(d, st[Len(st)]),
           Checked(d, st, <<>>, bm, G), a = st[Len(st)].addr,
           d[a].type = "DG" /\ d[a].read = "all" => DataFits(d, a),
           DOMAIN bm2 \subseteq DOMAIN bm \cup {a}, Right(d, bm2, p, a)
    PROVE  \E G2 : Checked(d, Front(st), <<p>>, bm2, G2)
<1> DEFINE f == st[Len(st)]
           G2 == G \cup {a}
           n == Len(st)
           st2 == Front(st)
<1>1. /\ st \in Seq(Frames) /\ n \in Nat /\ n \in 1..n /\ Calls(d, st, bm) /\ DiskOK(d)
      /\ IsFiniteSet(DOMAIN d)
  BY DEF Loading, Typed, Walking, DiskOK
<1>2. f \in Frames /\ Through(d, G, f)
  BY <1>1 DEF Checked
<1>3. a \in DOMAIN d /\ Len(f.links) = Len(d[a].links) /\ f.links \in Seq(Nat)
  <2>1. /\ f.addr \in DOMAIN d /\ f.addr \notin DOMAIN bm
        /\ f.links \in Seq(Nat) /\ Len(f.links) = Len(d[f.addr].links)
        /\ \A i \in 1..Len(f.links) :
              /\ Right(d, bm, f.links[i], d[f.addr].links[i])
              /\ f.links[i] \in 0..Len(h)
        /\ d[f.addr].type = "DG" => Len(f.links) > 2
    BY LinksOfTop, Zenon
  <2>2. f.addr = a
    OBVIOUS
  <2> HIDE DEF f
  <2> QED BY <2>1, <2>2, Zenon
<1> HIDE DEF f
<1>4. d[a].links \in Seq(Nat) /\ f.addr = a
  BY <1>1, <1>3 DEF DiskOK, f
<1>5. Fits(d, a)
  <2>1. d[a].links # <<>> => f.links # <<>>
    BY <1>3, <1>4
  <2> QED BY <1>2, <1>3, <1>4, <2>1 DEF Through, Fits
<1>6. LinksOf(d, a) \subseteq G
  <2>1. \A i \in 1..Len(d[a].links) : d[a].links[i] \in G \cup {0}
    BY <1>2, <1>3, <1>4 DEF Through
  <2>2. DOMAIN d[a].links = 1..Len(d[a].links)
    BY <1>4
  <2> QED BY <2>1, <2>2 DEF LinksOf, Range
<1>7. Solid(d, G2)
  BY <1>1, <1>5, <1>6, SolidMore DEF Checked
<1>8. DOMAIN bm2 \subseteq G2
  BY DEF Checked
<1>9. /\ st2 \in Seq(Frames) /\ Len(st2) = n - 1
      /\ \A k \in 1..(n - 1) : st2[k] = st[k]
  BY <1>1, FrontOf
<1> HIDE DEF st2
<1>10. \A k \in 1..Len(st2) : Through(d, G2, st2[k])
  <2>1. \A k \in 1..Len(st2) : k \in 1..n /\ st2[k] = st[k]
    BY <1>1, <1>9
  <2>2. \A k \in 1..n : Through(d, G, st[k])
    BY DEF Checked
  <2> QED BY <2>1, <2>2, ThroughMore
<1>11. ASSUME st2 # <<>> PROVE NextLink(d, st2[Len(st2)]) \in G2
  <2>1. n - 1 \in 1..(n - 1)
    BY <1>1, <1>9, <1>11
  <2>2. Waiting(d, st[n - 1], st[(n - 1) + 1].addr)
    BY <1>1, <2>1 DEF Calls
  <2>3. (n - 1) + 1 = n
    BY <1>1
  <2> QED BY <1>4, <1>9, <2>1, <2>2, <2>3 DEF Waiting, f
<1>12. ASSUME st2 = <<>> PROVE a = 64
  <2>1. n = 1
    BY <1>1, <1>9, <1>12
  <2> QED BY <1>1, <1>4, <2>1 DEF Calls, f
<1>13. <<p>>[1] = p
  OBVIOUS
<1>14. Checked(d, st2, <<p>>, bm2, G2)
  <2> HIDE DEF G2
  <2>1. st2 = <<>> => 64 \in G2 /\ Right(d, bm2, p, 64)
    BY <1>12 DEF G2
  <2> QED BY <1>7, <1>8, <1>10, <1>11, <1>13, <2>1 DEF Checked
<1> QED BY <1>14 DEF st2

-----------------------------------------------------------------------------
(* Every step of the loader goes on with good blocks.                        *)

LEMMA FindChecked ==
    ASSUME NEW d, NEW st, NEW w, NEW rt, NEW bm, NEW h, NEW ps, NEW G,
           Loading(d, st, w, rt, bm, h, ps), Checked(d, st, rt, bm, G), w \in DOMAIN bm
    PROVE  Checked(d, st, <<bm[w]>>, bm, G)
<1>1. w # 0 /\ DOMAIN bm # {}
  BY Addresses DEF Loading
<1>2. st # <<>>
  BY <1>1 DEF Loading, Walking
<1>3. NextLink(d, st[Len(st)]) = w
  BY <1>1, <1>2 DEF Loading, Walking, Innermost, Waiting
<1>4. w \in G
  BY DEF Checked
<1> QED BY <1>2, <1>3, <1>4 DEF Checked

LEMMA ReadChecked ==
    ASSUME NEW d, NEW st, NEW w, NEW rt, NEW bm, NEW h, NEW ps, NEW G,
           Loading(d, st, w, rt, bm, h, ps), Checked(d, st, rt, bm, G),
           w # 0, d[w].read # "none"
    PROVE  Checked(d, Append(st, [addr |-> w, links |-> <<>>, back |-> <<>>]), rt, bm, G)
<1> DEFINE f == [addr |-> w, links |-> <<>>, back |-> <<>>]
           st2 == Append(st, f)
<1>1. rt = <<>> /\ w \in Nat /\ st \in Seq(Frames)
  BY DEF Loading, Typed, Walking
<1>2. f \in Frames /\ f.addr = w /\ f.links = <<>> /\ f.back = <<>>
  BY <1>1 DEF Frames
<1>3. Through(d, G, f)
  <2>1. Len(f.links) = 0
    BY <1>2
  <2>2. 1..Len(f.links) = {}
    BY <2>1
  <2> HIDE DEF f
  <2> QED BY <1>2, <2>2 DEF Through
<1> HIDE DEF f
<1>4. /\ Len(st2) = Len(st) + 1 /\ Len(st) \in Nat /\ st2[Len(st) + 1] = f
      /\ \A k \in 1..Len(st) : st2[k] = st[k]
  BY <1>1, <1>2
<1> HIDE DEF st2
<1>5. ASSUME NEW k \in 1..Len(st2) PROVE Through(d, G, st2[k])
  <2>1. CASE k \in 1..Len(st)
    BY <1>4, <2>1 DEF Checked
  <2>2. CASE k = Len(st) + 1
    BY <1>3, <1>4, <2>2
  <2> QED BY <1>4, <2>1, <2>2
<1>6. Checked(d, st2, rt, bm, G)
  BY <1>1, <1>5 DEF Checked
<1> QED BY <1>6 DEF st2, f

\* The innermost call is another frame for its block.
LEMMA TopChecked ==
    ASSUME NEW d, NEW st \in Seq(Frames), NEW rt, NEW bm, NEW G, st # <<>>,
           Checked(d, st, rt, bm, G), NEW f, Through(d, G, f)
    PROVE  Checked(d, [st EXCEPT ![Len(st)] = f], <<>>, bm, G)
<1> DEFINE st2 == [st EXCEPT ![Len(st)] = f]
<1>1. \A k \in 1..Len(st) : Through(d, G, st[k])
  BY DEF Checked
<1>2. LET s == [st EXCEPT ![Len(st)] = f]
      IN Len(s) = Len(st) /\ \A k \in 1..Len(s) : Through(d, G, s[k])
  BY <1>1, TopThrough, Zenon
<1>3. \A k \in 1..Len(st2) : Through(d, G, st2[k])
  BY <1>2
<1> HIDE DEF st2
<1>4. Checked(d, st2, <<>>, bm, G)
  BY <1>3 DEF Checked
<1> QED BY <1>4 DEF st2

LEMMA NextChecked ==
    ASSUME NEW d, NEW st \in Seq(Frames), NEW rt, NEW bm, NEW G, st # <<>>,
           Checked(d, st, rt, bm, G), NEW p \in Nat,
           NextLink(d, st[Len(st)]) \in G \cup {0}, d[st[Len(st)].addr].read # "header"
    PROVE  Checked(d, [st EXCEPT ![Len(st)] =
                         [st[Len(st)] EXCEPT !.links = Append(@, p)]], <<>>, bm, G)
<1> DEFINE f == st[Len(st)]
           g == [f EXCEPT !.links = Append(@, p)]
<1>1. f \in Frames /\ Through(d, G, f)
  <2>1. Len(st) \in 1..Len(st)
    OBVIOUS
  <2> QED BY <2>1 DEF Checked
<1>2. Through(d, G, g)
  <2>1. NextLink(d, f) \in G \cup {0} /\ d[f.addr].read # "header"
    OBVIOUS
  <2> HIDE DEF f
  <2> QED BY <1>1, <2>1, LinkThrough
<1> HIDE DEF g
<1>3. Checked(d, [st EXCEPT ![Len(st)] = g], <<>>, bm, G)
  BY <1>2, TopChecked
<1> QED BY <1>3 DEF g

LEMMA FollowChecked ==
    ASSUME NEW d, NEW st \in Seq(Frames), NEW bm, NEW G, st # <<>>,
           Checked(d, st, <<>>, bm, G), NEW s \in Seq(Nat),
           d[st[Len(st)].addr].read # "header"
    PROVE  Checked(d, [st EXCEPT ![Len(st)] = [st[Len(st)] EXCEPT !.back = s]],
                   <<>>, bm, G)
<1> DEFINE f == st[Len(st)]
           g == [f EXCEPT !.back = s]
<1>1. f \in Frames /\ Through(d, G, f)
  <2>1. Len(st) \in 1..Len(st)
    OBVIOUS
  <2> QED BY <2>1 DEF Checked
<1>2. Through(d, G, g)
  <2>1. d[f.addr].read # "header"
    OBVIOUS
  <2> HIDE DEF f
  <2> QED BY <1>1, <2>1, BackThrough
<1> HIDE DEF g
<1>3. Checked(d, [st EXCEPT ![Len(st)] = g], <<>>, bm, G)
  BY <1>2, TopChecked
<1> QED BY <1>3 DEF g

\* The first channel group of a data group, loaded with it, is not its own next.
LEMMA NotItsNext ==
    ASSUME NEW d, NEW st, NEW bm, NEW h, NEW ps, NEW G, NEW a,
           Loading(d, st, 0, <<>>, bm, h, ps), st # <<>>, ~Room(d, st[Len(st)]),
           a = st[Len(st)].addr, d[a].type = "DG", Solid(d, G), DOMAIN bm \subseteq G
    PROVE  \A x \in GroupAt(d, d[a].links, 2) : x \notin GroupAt(d, d[x].links, 1)
<1> DEFINE f == st[Len(st)]
<1>1. /\ f.addr \in DOMAIN d /\ f.addr \notin DOMAIN bm
      /\ f.links \in Seq(Nat) /\ Len(f.links) = Len(d[f.addr].links)
      /\ \A i \in 1..Len(f.links) :
            /\ Right(d, bm, f.links[i], d[f.addr].links[i])
            /\ f.links[i] \in 0..Len(h)
      /\ d[f.addr].type = "DG" => Len(f.links) > 2
  BY LinksOfTop, Zenon
<1>2. f.addr = a
  OBVIOUS
<1> HIDE DEF f
<1>3. 2 \in 1..Len(f.links) /\ Right(d, bm, f.links[2], d[a].links[2])
  <2>1. Len(f.links) > 2 /\ f.links \in Seq(Nat)
    BY <1>1, <1>2, Zenon
  <2>2. 2 \in 1..Len(f.links)
    BY <2>1
  <2> QED BY <1>1, <1>2, <2>2, Zenon
<1>4. DiskOK(d) /\ IsFiniteSet(DOMAIN d)
  BY DEF Loading, Typed, DiskOK
<1> SUFFICES ASSUME NEW x \in GroupAt(d, d[a].links, 2), x \in GroupAt(d, d[x].links, 1)
             PROVE  FALSE
  OBVIOUS
<1>5. x \in DOMAIN d /\ d[x].type = "CG" /\ d[a].links[2] = x /\ x # 0
      /\ 1 <= Len(d[x].links) /\ d[x].links[1] = x /\ d[x].links \in Seq(Nat)
  BY <1>4 DEF GroupAt, DiskOK
<1>6. x \in G
  <2>1. d[x].type \in Known
    BY <1>5 DEF Known
  <2> QED BY <1>3, <1>5, <2>1 DEF Right
<1>7. d[x].read \notin {"none", "header"} /\ x \notin From(d, LinksOf(d, x))
  <2>1. Fits(d, x) /\ x \notin From(d, LinksOf(d, x))
    BY <1>6 DEF Solid
  <2>2. d[x].links # <<>>
    BY <1>5
  <2> QED BY <2>1, <2>2 DEF Fits
<1>8. x \in LinksOf(d, x)
  <2>1. 1 \in DOMAIN d[x].links
    BY <1>5
  <2> QED BY <1>5, <1>7, <2>1 DEF LinksOf, Range
<1> QED BY <1>4, <1>7, <1>8, FromCloses

CheckedNow == \E G : Checked(disk, stack, ret, blockMap, G)

LEMMA StepChecks ==
    ASSUME LoadingNow, CheckedNow, LoaderStep
    PROVE  CheckedNow'
<1> DEFINE f == stack[Len(stack)]
<1>0. PICK G : Checked(disk, stack, ret, blockMap, G)
  BY DEF CheckedNow
<1>1. CASE FindLoaded
  <2>1. /\ disk' = disk /\ stack' = stack /\ ret' = <<blockMap[want]>>
        /\ blockMap' = blockMap /\ want \in DOMAIN blockMap
    BY <1>1 DEF FindLoaded
  <2>2. Checked(disk, stack, <<blockMap[want]>>, blockMap, G)
    BY <1>0, <2>1, FindChecked DEF LoadingNow
  <2> QED BY <2>1, <2>2 DEF CheckedNow
<1>2. CASE ReadHeader
  <2> DEFINE st2 == Append(stack, [addr |-> want, links |-> <<>>, back |-> <<>>])
  <2>1. /\ disk' = disk /\ stack' = st2 /\ ret' = ret /\ blockMap' = blockMap
        /\ want # 0 /\ disk[want].read # "none"
    BY <1>2 DEF ReadHeader, Missing, HeaderReadable
  <2>2. Checked(disk, st2, ret, blockMap, G)
    BY <1>0, <2>1, ReadChecked DEF LoadingNow
  <2> HIDE DEF st2
  <2> QED BY <2>1, <2>2 DEF CheckedNow
<1>3. ASSUME MoreLinks
      PROVE  /\ stack \in Seq(Frames) /\ stack # <<>> /\ ret = <<>>
             /\ LinkHere = NextLink(disk, f) /\ Behind \in Seq(Nat)
  <2>1. Loading(disk, stack, 0, <<>>, blockMap, heap, pos) /\ stack # <<>> /\ ret = <<>>
    BY <1>3 DEF LoadingNow, Calling, MoreLinks
  <2>2. Room(disk, f)
    BY <1>3 DEF MoreLinks, Top, Room
  <2>3. /\ DiskOK(disk) /\ stack \in Seq(Frames) /\ Calls(disk, stack, blockMap)
        /\ Innermost(disk, stack, 0, <<>>, blockMap, pos)
    BY <2>1 DEF Loading, Typed, Walking
  <2>4. f \in Frames
    <3>1. Len(stack) \in 1..Len(stack)
      BY <2>1, <2>3
    <3> QED BY <2>3, <3>1
  <2>5. /\ (IF pos[2] > Len(disk[pos[1]].links) THEN 0 ELSE disk[pos[1]].links[pos[2]])
              = NextLink(disk, f)
        /\ <<pos[1], pos[2] + 1>> = <<f.addr, Len(f.links) + 2>>
    <3> HIDE DEF f
    <3> QED BY <2>1, <2>2, <2>3, StandsAtLink DEF f
  <2> HIDE DEF f
  <2>6. <<f.addr, Len(f.links) + 2>> \in Seq(Nat)
    <3>1. f.addr \in Nat /\ Len(f.links) + 2 \in Nat
      BY <2>4, FrameFields
    <3> QED BY <3>1
  <2> QED BY <2>1, <2>3, <2>5, <2>6 DEF LinkHere, Behind
<1>4. CASE SkipLink
  <2> DEFINE st2 == [stack EXCEPT ![Len(stack)] =
                        [stack[Len(stack)] EXCEPT !.links = Append(@, 0)]]
  <2>1. MoreLinks /\ LinkHere = 0 /\ disk[f.addr].read # "header"
    BY <1>4 DEF SkipLink, LinksReadable, Top
  <2>2. Checked(disk, st2, <<>>, blockMap, G)
    <3>1. NextLink(disk, stack[Len(stack)]) \in G \cup {0} /\ 0 \in Nat
      BY <1>3, <2>1
    <3> QED BY <1>0, <1>3, <2>1, <3>1, NextChecked, Zenon
  <2>3. stack' = st2 /\ disk' = disk /\ ret' = <<>> /\ blockMap' = blockMap
    BY <1>3, <1>4, <2>1 DEF SkipLink, InTop, Top
  <2> HIDE DEF st2
  <2> QED BY <2>2, <2>3 DEF CheckedNow
<1>5. CASE FollowLink
  <2> DEFINE st2 == [stack EXCEPT ![Len(stack)] =
                        [stack[Len(stack)] EXCEPT !.back = Behind]]
  <2>1. MoreLinks /\ disk[f.addr].read # "header"
    BY <1>5 DEF FollowLink, LinksReadable, Top
  <2>2. Checked(disk, st2, <<>>, blockMap, G)
    BY <1>0, <1>3, <2>1, FollowChecked
  <2>3. stack' = st2 /\ disk' = disk /\ ret' = <<>> /\ blockMap' = blockMap
    BY <1>3, <1>5, <2>1 DEF FollowLink, InTop, Top
  <2> HIDE DEF st2
  <2> QED BY <2>2, <2>3 DEF CheckedNow
<1>6. CASE LinkLoaded
  <2> DEFINE st2 == [stack EXCEPT ![Len(stack)] =
                        [stack[Len(stack)] EXCEPT !.links = Append(@, ret[1])]]
  <2>1. ret # <<>> /\ stack # <<>>
    BY <1>6 DEF LinkLoaded
  <2>2. /\ stack \in Seq(Frames) /\ ret[1] \in Nat
        /\ Innermost(disk, stack, want, ret, blockMap, pos)
    BY <2>1 DEF LoadingNow, Loading, Typed, Walking
  <2>3. f.back # <<>>
    <3>1. Waiting(disk, f, NextLink(disk, f))
      BY <2>1, <2>2 DEF Innermost
    <3> HIDE DEF f
    <3> QED BY <3>1 DEF Waiting
  <2>4. NextLink(disk, f) \in G /\ disk[f.addr].read # "header"
    <3>1. Len(stack) \in 1..Len(stack)
      BY <2>1, <2>2
    <3> QED BY <1>0, <2>1, <2>3, <3>1 DEF Checked, Through
  <2>5. Checked(disk, st2, <<>>, blockMap, G)
    <3>1. NextLink(disk, stack[Len(stack)]) \in G \cup {0}
      BY <2>4
    <3> QED BY <1>0, <2>1, <2>2, <2>4, <3>1, NextChecked, Zenon
  <2>6. /\ stack' = st2 /\ disk' = disk /\ ret' = <<>> /\ blockMap' = blockMap
    BY <1>6 DEF LinkLoaded, InTop, Top
  <2> HIDE DEF st2
  <2> QED BY <2>5, <2>6 DEF CheckedNow
<1>7. ASSUME LinksDone
      PROVE  /\ Loading(disk, stack, 0, <<>>, blockMap, heap, pos) /\ stack # <<>>
             /\ ~Room(disk, f) /\ Checked(disk, stack, <<>>, blockMap, G)
             /\ Len(heap) \in Nat /\ f.addr \in DOMAIN disk
  <2>1. Loading(disk, stack, 0, <<>>, blockMap, heap, pos) /\ stack # <<>> /\ ret = <<>>
    BY <1>7 DEF LoadingNow, Calling, LinksDone
  <2>2. f \in Frames /\ f.addr \in DOMAIN disk
    <3>1. Len(stack) \in 1..Len(stack) /\ stack \in Seq(Frames)
      BY <2>1 DEF Loading, Typed
    <3> QED BY <2>1, <3>1 DEF Loading, Walking, Calls, Running
  <2>3. Len(f.links) \in Nat
    BY <2>2, FrameFields
  <2>4. Len(f.links) = Len(disk[f.addr].links)
    BY <1>7 DEF LinksDone, Top
  <2>5. ~Room(disk, f)
    <3> HIDE DEF f
    <3> QED BY <2>3, <2>4 DEF Room
  <2>6. Len(heap) \in Nat
    BY <2>1 DEF Loading, Typed
  <2> QED BY <1>0, <2>1, <2>2, <2>5, <2>6
\* What a call leaves, with p for its block.
<1>8. ASSUME LinksDone, NEW bm2, NEW p,
             disk[f.addr].type = "DG" /\ disk[f.addr].read = "all" =>
                 DataFits(disk, f.addr),
             DOMAIN bm2 \subseteq DOMAIN blockMap \cup {f.addr},
             Right(disk, bm2, p, f.addr),
             disk' = disk, stack' = Front(stack), ret' = <<p>>, blockMap' = bm2
      PROVE  CheckedNow'
  <2>1. \E G2 : Checked(disk, Front(stack), <<p>>, bm2, G2)
    BY <1>7, <1>8, CallChecked
  <2> QED BY <1>8, <2>1 DEF CheckedNow
<1>9. ASSUME LinksDone, NEW bm, DOMAIN bm = DOMAIN blockMap, NEW p \in Nat, p # 0
      PROVE  /\ DOMAIN Stored(bm, f.addr, p) \subseteq DOMAIN blockMap \cup {f.addr}
             /\ disk[f.addr].type \in Known =>
                    Right(disk, Stored(bm, f.addr, p), p, f.addr)
  <2>1. f.addr \notin DOMAIN blockMap /\ f.addr # 0
    <3>1. f.addr \notin DOMAIN blockMap
      BY <1>7, <1>9, LinksOfTop
    <3>2. DOMAIN disk \subseteq Nat \ {0}
      BY Addresses DEF LoadingNow, Loading
    <3> QED BY <1>7, <1>9, <3>1, <3>2
  <2> HIDE DEF f
  <2> QED BY <1>9, <2>1 DEF Stored, Right
<1>10. CASE MakeNothing
  <2>1. LinksDone /\ disk[f.addr].type \notin Known
    BY <1>10 DEF MakeNothing, Top
  <2>2. disk' = disk /\ stack' = Front(stack) /\ ret' = <<0>> /\ blockMap' = blockMap
    BY <1>10 DEF MakeNothing, Return
  <2>3. Right(disk, blockMap, 0, f.addr) /\ disk[f.addr].type # "DG"
    BY <2>1 DEF Right, Known
  <2> QED BY <1>8, <2>1, <2>2, <2>3
<1>11. CASE MakeBlock
  <2> DEFINE r == Len(heap) + 1
             bm2 == Stored(blockMap, f.addr, r)
  <2>1. LinksDone /\ disk[f.addr].type \in Known
        /\ ~(disk[f.addr].type = "DG" /\ disk[f.addr].read = "all")
    BY <1>11 DEF MakeBlock, Top, Loads
  <2>2. disk' = disk /\ stack' = Front(stack) /\ ret' = <<r>> /\ blockMap' = bm2
    BY <1>11 DEF MakeBlock, Return, Top
  <2>3. r \in Nat /\ r # 0
    BY <1>7, <2>1
  <2> HIDE DEF r
  <2>4. DOMAIN bm2 \subseteq DOMAIN blockMap \cup {f.addr} /\ Right(disk, bm2, r, f.addr)
    BY <1>9, <2>1, <2>3
  <2> HIDE DEF bm2
  <2> QED BY <1>8, <2>1, <2>2, <2>4
<1>12. CASE MakeDataGroup
  <2> DEFINE old == f.links[3]
             made == IF Groups = <<>> THEN <<>> ELSE <<Replacement>>
             r == Len(heap) + Len(made) + 1
             bm == Replaced(blockMap, old, NewData)
             bm2 == Stored(bm, f.addr, r)
  <2>1. LinksDone /\ disk[f.addr].type = "DG" /\ (Groups # <<>> => HasData)
        /\ ~(Len(Groups) > 1 /\ CutInside)
    BY <1>12 DEF MakeDataGroup, Top, Loads
  <2>2. disk' = disk /\ stack' = Front(stack)
    BY <1>12 DEF MakeDataGroup, Return
  <2>3. ret' = <<r>> /\ blockMap' = bm2
    BY <1>12, Zenon DEF MakeDataGroup, Return, Top
  <2>4. r \in Nat /\ r # 0
    <3>1. Len(made) \in Nat
      <4>1. Len(<<>>) = 0 /\ Len(<<Replacement>>) = 1
        OBVIOUS
      <4> QED BY <4>1
    <3> HIDE DEF made
    <3> QED BY <1>7, <2>1, <3>1
  <2>5. DOMAIN bm = DOMAIN blockMap
    BY DEF Replaced
  <2>6. disk[f.addr].type \in Known
    BY <2>1 DEF Known
  <2> HIDE DEF r, bm
  <2>7. DOMAIN bm2 \subseteq DOMAIN blockMap \cup {f.addr} /\ Right(disk, bm2, r, f.addr)
    BY <1>9, <2>1, <2>4, <2>5, <2>6
  <2>8. DataFits(disk, f.addr)
    <3>1. /\ Chain(heap, f.links[2], "CG") # <<>> => IsData(heap, f.links[3])
          /\ ~(/\ Len(Chain(heap, f.links[2], "CG")) > 1 /\ IsData(heap, f.links[3])
               /\ disk[heap[f.links[3]].addr].read # "all")
      BY <2>1 DEF Groups, HasData, CutInside, Top
    <3>2. \A x \in GroupAt(disk, disk[f.addr].links, 2) :
              x \notin GroupAt(disk, disk[x].links, 1)
      BY <1>7, <2>1, NotItsNext DEF Checked
    <3> QED BY <1>7, <2>1, <3>1, <3>2, LoadsFits
  <2> HIDE DEF bm2
  <2> QED BY <1>8, <2>1, <2>2, <2>3, <2>7, <2>8
<1>13. CASE \/ HeaderThrows \/ StackOverflows \/ LinkThrows
            \/ NoDataCrashes \/ IndexThrows \/ Loaded
  <2>1. UNCHANGED <<disk, stack, ret, blockMap>>
    BY <1>13 DEF HeaderThrows, StackOverflows, LinkThrows, NoDataCrashes, IndexThrows,
                 Loaded
  <2> QED BY <2>1 DEF CheckedNow
<1> QED BY <1>1, <1>2, <1>4, <1>5, <1>6, <1>10, <1>11, <1>12, <1>13 DEF LoaderStep

-----------------------------------------------------------------------------
(* A file whose blocks fit is loaded.                                        *)

\* BlocksFit, of the file d.
DiskFits(d) ==
    /\ 64 \in DOMAIN d /\ d[64].type = "HD"
    /\ \A a \in From(d, {64}) : Fits(d, a) /\ a \notin From(d, LinksOf(d, a))

LEMMA DiskFitsNow ==
    BlocksFit <=> DiskFits(disk)
<1>1. \A S : OnDisk(S) = From(disk, S)
  BY DEF OnDisk, From, LinksFrom, LinksOf
<1>2. \A a : LinksFrom(a) = LinksOf(disk, a)
  BY DEF LinksFrom, LinksOf
<1>3. \A a : GroupsOnDisk(a) = GroupsFrom(disk, a)
  BY DEF GroupsOnDisk, GroupsFrom, IfGroup, GroupAt
<1>4. \A a : DataGroupFits(a) <=> DataFits(disk, a)
  BY <1>3 DEF DataGroupFits, DataFits
<1> QED BY <1>1, <1>2, <1>4, Zenon DEF BlocksFit, Acyclic, DiskFits, Fits, HDAddress

\* What is loaded from the header on fits.
LEMMA LoadedFits ==
    ASSUME NEW d, NEW w, NEW rt, NEW bm, NEW h, NEW ps, NEW G,
           Loading(d, <<>>, w, rt, bm, h, ps), Checked(d, <<>>, rt, bm, G), rt # <<>>,
           64 \in DOMAIN bm, h[bm[64]].type = "HD"
    PROVE  DiskFits(d)
<1>1. Solid(d, G) /\ 64 \in G
  BY DEF Checked
<1>2. IsFiniteSet(DOMAIN d) /\ 64 \in DOMAIN d
  BY DEF Loading, Typed, DiskOK
<1>3. From(d, {64}) \subseteq G
  <2>1. {64} \subseteq G /\ \A a \in G : LinksOf(d, a) \subseteq G
    BY <1>1 DEF Solid
  <2> QED BY <1>2, <2>1, FromLeast
<1>4. d[64].type = "HD"
  <2>1. bm[64] # 0
    BY DEF Loading, Walking
  <2>2. Faithful(d, bm, h, 64, h[bm[64]])
    BY <2>1 DEF Loading, Mapped
  <2> QED BY <2>2 DEF Faithful
<1> QED BY <1>1, <1>2, <1>3, <1>4 DEF DiskFits, Solid

\* Links from the header on never lead back, and there are not more of them in a
\* row than there are blocks.
LEMMA NoWayBack ==
    ASSUME NEW d, IsFiniteSet(DOMAIN d), DiskFits(d), NEW n \in Nat, NEW row,
           n > 0 => row[1] = 64,
           \A k \in 1..(n - 1) : row[k + 1] # 0 /\ row[k + 1] \in Range(d[row[k]].links)
    PROVE  /\ \A k \in 1..n : row[k] \in From(d, {64})
           /\ n <= Cardinality(DOMAIN d)
<1> DEFINE R == From(d, {64})
           Good(m) == /\ row[m] \in R
                      /\ \A j \in 1..(m - 1) : row[m] \in From(d, LinksOf(d, row[j]))
           Z == {m \in 0..n : m > 0 => Good(m)}
<1>1. 64 \in R /\ \A a \in R : LinksOf(d, a) \subseteq R
  BY FromCloses
<1>2. R \subseteq DOMAIN d
  BY DEF DiskFits, Fits
<1>3. \A a \in R : Fits(d, a) /\ a \notin From(d, LinksOf(d, a))
  BY DEF DiskFits
<1>4. \A a \in R : \A b \in Range(d[a].links) : b # 0 => b \in LinksOf(d, a)
  <2> SUFFICES ASSUME NEW a \in R, NEW b \in Range(d[a].links), b # 0
               PROVE  b \in LinksOf(d, a)
    OBVIOUS
  <2>1. d[a].links # <<>>
    BY DEF Range
  <2>2. d[a].read \notin {"none", "header"}
    BY <1>3, <2>1 DEF Fits
  <2> QED BY <1>2, <2>2 DEF LinksOf
<1> HIDE DEF R
<1>5. 0 \in Z
  OBVIOUS
<1>6. ASSUME NEW m \in 1..n, m - 1 \in Z PROVE m \in Z
  <2>1. CASE m = 1
    <3>1. row[m] \in R
      BY <1>1, <2>1
    <3>2. 1..(m - 1) = {}
      BY <2>1
    <3> QED BY <3>1, <3>2
  <2>2. CASE m # 1
    <3>1. m - 1 \in 1..(n - 1) /\ m - 1 \in 1..n /\ (m - 1) + 1 = m /\ m - 1 > 0
      BY <2>2
    <3>2. Good(m - 1)
      BY <1>6, <3>1
    <3>3. row[m] # 0 /\ row[m] \in Range(d[row[m - 1]].links)
      BY <3>1
    <3>4. row[m - 1] \in R
      BY <3>2
    <3>5. row[m] \in LinksOf(d, row[m - 1])
      BY <1>4, <3>3, <3>4
    <3>6. row[m] \in R
      BY <1>1, <3>4, <3>5
    <3>7. ASSUME NEW j \in 1..(m - 1)
          PROVE  row[m] \in From(d, LinksOf(d, row[j]))
      <4>1. CASE j = m - 1
        BY <3>5, <4>1, FromCloses
      <4>2. CASE j # m - 1
        <5>1. j \in 1..((m - 1) - 1)
          BY <4>2
        <5>2. row[m - 1] \in From(d, LinksOf(d, row[j]))
          BY <3>2, <5>1
        <5> QED BY <3>5, <5>2, FromCloses
      <4> QED BY <4>1, <4>2
    <3> QED BY <3>6, <3>7
  <2> QED BY <2>1, <2>2
<1>7. \A m \in 0..n : m \in Z
  <2> HIDE DEF Z
  <2> QED BY <1>5, <1>6, CountUp
<1>8. \A m \in 1..n : Good(m)
  BY <1>7
<1>9. ASSUME NEW j \in 1..n, NEW k \in 1..n, j < k PROVE row[j] # row[k]
  <2>1. j \in 1..(k - 1)
    BY <1>9
  <2>2. row[k] \in From(d, LinksOf(d, row[j])) /\ row[j] \in R
    BY <1>8, <2>1
  <2> QED BY <1>3, <2>2
<1>10. n <= Cardinality(DOMAIN d)
  <2> DEFINE g == [k \in 1..n |-> row[k]]
  <2>1. g \in [1..n -> DOMAIN d]
    BY <1>2, <1>8
  <2>2. \A j, k \in 1..n : g[j] = g[k] => j = k
    <3> SUFFICES ASSUME NEW j \in 1..n, NEW k \in 1..n, j # k PROVE row[j] # row[k]
      OBVIOUS
    <3>1. j < k \/ k < j
      OBVIOUS
    <3> QED BY <1>9, <3>1
  <2> HIDE DEF g
  <2>3. g \in Injection(1..n, DOMAIN d)
    BY <2>1, <2>2 DEF Injection, IsInjective
  <2>4. IsFiniteSet(1..n) /\ Cardinality(1..n) = n
    BY FS_Interval
  <2>5. Cardinality(1..n) <= Cardinality(DOMAIN d)
    BY <2>3, FS_Injection
  <2> QED BY <2>4, <2>5
<1> QED BY <1>8, <1>10 DEF R

\* The calls are for blocks that the header leads to; so is one that is about to
\* be made, and the stack has room for it.
LEMMA CallsWithin ==
    ASSUME NEW d, NEW st, NEW w, NEW rt, NEW bm, NEW h, NEW ps,
           Loading(d, st, w, rt, bm, h, ps), DiskFits(d), RoomForAll(d)
    PROVE  /\ \A k \in 1..Len(st) : st[k].addr \in From(d, {64})
           /\ w # 0 => w \in From(d, {64}) /\ Len(st) < Depth
<1> DEFINE m == Len(st)
           row == [k \in 1..(m + 1) |-> IF k <= m THEN st[k].addr ELSE w]
           n == IF w = 0 THEN m ELSE m + 1
<1>1. /\ st \in Seq(Frames) /\ m \in Nat /\ IsFiniteSet(DOMAIN d) /\ DiskOK(d)
      /\ Calls(d, st, bm)
  BY DEF Loading, Typed, Walking, DiskOK
<1>2. /\ \A k \in 1..m : row[k] = st[k].addr
      /\ row[m + 1] = w
  BY <1>1
<1> HIDE DEF row
<1>3. ASSUME NEW k \in 1..m, NEW a, a # 0, Waiting(d, st[k], a)
      PROVE  a \in Range(d[row[k]].links)
  <2>1. st[k] \in Frames /\ st[k].addr \in DOMAIN d
    BY <1>1 DEF Calls, Running
  <2>2. d[st[k].addr].links \in Seq(Nat) /\ Len(st[k].links) \in Nat
    BY <1>1, <2>1, FrameFields DEF DiskOK
  <2>3. Len(st[k].links) + 1 \in DOMAIN d[st[k].addr].links
    BY <1>3, <2>2 DEF Waiting, Room
  <2> QED BY <1>2, <1>3, <2>3 DEF Waiting, NextLink, Range
<1>4. ASSUME NEW k \in 1..(n - 1)
      PROVE  row[k + 1] # 0 /\ row[k + 1] \in Range(d[row[k]].links)
  <2>1. CASE k < m
    <3>1. k \in 1..m /\ k + 1 \in 1..m /\ k \in 1..(m - 1)
      BY <1>1, <2>1
    <3>2. Waiting(d, st[k], st[k + 1].addr)
      BY <1>1, <3>1 DEF Calls
    <3>3. st[k + 1].addr # 0
      BY <1>1, <3>1 DEF Calls, Running, DiskOK
    <3> QED BY <1>2, <1>3, <3>1, <3>2, <3>3
  <2>2. CASE ~(k < m)
    <3>1. k = m /\ w # 0 /\ m \in 1..m
      BY <1>1, <2>2
    <3>2. st # <<>>
      BY <1>1, <3>1
    <3>3. Waiting(d, st[m], w)
      BY <3>1, <3>2 DEF Loading, Walking, Innermost
    <3> HIDE DEF m
    <3> QED BY <1>2, <1>3, <3>1, <3>3
  <2> QED BY <2>1, <2>2
<1>5. n > 0 => row[1] = 64
  <2>1. CASE m > 0
    <3>1. st # <<>> /\ 1 \in 1..m
      BY <1>1, <2>1
    <3> QED BY <1>1, <1>2, <3>1 DEF Calls
  <2>2. CASE ~(m > 0)
    <3>1. m = 0 /\ st = <<>>
      BY <1>1, <2>2
    <3>2. ASSUME w # 0 PROVE w = 64
      BY <3>1, <3>2 DEF Loading, Walking
    <3>3. m + 1 = 1
      BY <3>1
    <3>4. row[1] = w
      BY <1>2, <3>3
    <3> HIDE DEF m
    <3> QED BY <3>1, <3>2, <3>4
  <2> QED BY <2>1, <2>2
<1>6. n \in Nat
  BY <1>1
<1>7. n >= m /\ (w # 0 => n = m + 1)
  BY <1>1
<1> HIDE DEF n, m
<1>8. (\A k \in 1..n : row[k] \in From(d, {64})) /\ n <= Cardinality(DOMAIN d)
  BY <1>1, <1>4, <1>5, <1>6, NoWayBack
<1>9. \A k \in 1..m : row[k] \in From(d, {64})
  BY <1>1, <1>6, <1>7, <1>8
<1>10. ASSUME w # 0 PROVE w \in From(d, {64}) /\ m < Depth
  <2>1. n = m + 1 /\ n \in 1..n
    BY <1>1, <1>7, <1>10
  <2>2. w \in From(d, {64})
    BY <1>2, <1>8, <2>1
  <2>3. Cardinality(DOMAIN d) \in Nat /\ Cardinality(DOMAIN d) <= Depth
    BY <1>1, FS_CardinalityType DEF RoomForAll
  <2> QED BY <1>1, <1>8, <2>1, <2>2, <2>3, DepthAssumption
<1> QED BY <1>2, <1>9, <1>10 DEF m

\* With all blocks there, no step of the loader fails.
LEMMA LoaderFails ==
    ASSUME LoadingNow, CheckedNow, RoomForAll(disk), DiskFits(disk), LoaderStep
    PROVE  fate' \notin {"threw", "crashed"}
<1> DEFINE f == stack[Len(stack)]
<1>1. /\ \A k \in 1..Len(stack) : stack[k].addr \in From(disk, {64})
      /\ want # 0 => want \in From(disk, {64}) /\ Len(stack) < Depth
  BY CallsWithin DEF LoadingNow
<1>2. \A a \in From(disk, {64}) : Fits(disk, a)
  BY DEF DiskFits
<1>3. ASSUME Missing PROVE HeaderReadable /\ Len(stack) < Depth
  <2>1. want # 0
    BY <1>3 DEF Missing
  <2> QED BY <1>1, <1>2, <2>1 DEF Fits, HeaderReadable
<1>4. ASSUME Calling
      PROVE  /\ Loading(disk, stack, 0, <<>>, blockMap, heap, pos) /\ stack # <<>>
             /\ f \in Frames /\ Fits(disk, f.addr) /\ Len(f.links) \in Nat
             /\ disk[f.addr].links \in Seq(Nat)
  <2>1. Loading(disk, stack, 0, <<>>, blockMap, heap, pos) /\ stack # <<>>
    BY <1>4 DEF LoadingNow, Calling
  <2>2. Len(stack) \in 1..Len(stack) /\ stack \in Seq(Frames)
    BY <2>1 DEF Loading, Typed
  <2>3. f \in Frames /\ Fits(disk, f.addr)
    BY <1>1, <1>2, <2>2
  <2>4. disk[f.addr].links \in Seq(Nat)
    BY <2>1, <2>3 DEF Fits, Loading, Typed, DiskOK
  <2> HIDE DEF f
  <2> QED BY <2>1, <2>3, <2>4, FrameFields
<1>5. ASSUME MoreLinks PROVE LinksReadable
  <2>1. Calling /\ Len(f.links) < Len(disk[f.addr].links)
    BY <1>5 DEF MoreLinks, Top
  <2> HIDE DEF f
  <2>2. disk[f.addr].links # <<>>
    BY <1>4, <2>1
  <2>3. disk[f.addr].read # "header"
    BY <1>4, <2>1, <2>2 DEF Fits
  <2> QED BY <2>3 DEF LinksReadable, Top, f
<1>6. ASSUME LinksDone, Loads
      PROVE  /\ Groups # <<>> => HasData
             /\ ~(Len(Groups) > 1 /\ HasData /\ CutInside)
  <2>1. Calling /\ Len(f.links) = Len(disk[f.addr].links)
    BY <1>6 DEF LinksDone, Top
  <2>2. ~Room(disk, f)
    <3> HIDE DEF f
    <3> QED BY <1>4, <2>1 DEF Room
  <2>3. disk[f.addr].type = "DG" /\ disk[f.addr].read = "all"
    BY <1>6 DEF Loads, Top
  <2>4. DataFits(disk, f.addr)
    <3> HIDE DEF f
    <3> QED BY <1>4, <2>1, <2>3 DEF Fits
  <2>5. PICK G : Solid(disk, G) /\ DOMAIN blockMap \subseteq G
    BY DEF CheckedNow, Checked
  <2>6. \A x \in GroupAt(disk, disk[f.addr].links, 2) :
            x \notin GroupAt(disk, disk[x].links, 1)
    BY <1>4, <2>1, <2>2, <2>3, <2>5, NotItsNext
  <2>7. /\ Chain(heap, f.links[2], "CG") # <<>> => IsData(heap, f.links[3])
        /\ ~(/\ Len(Chain(heap, f.links[2], "CG")) > 1 /\ IsData(heap, f.links[3])
             /\ disk[heap[f.links[3]].addr].read # "all")
    BY <1>4, <2>1, <2>2, <2>3, <2>4, <2>6, LoadsFits
  <2> QED BY <2>7 DEF Groups, HasData, CutInside, Top
<1>7. ~HeaderThrows
  BY <1>3 DEF HeaderThrows
<1>8. ~StackOverflows
  <2>1. Missing => Len(stack) # Depth
    <3>1. Len(stack) \in Nat
      BY DEF LoadingNow, Loading, Typed
    <3> QED BY <1>3, <3>1, DepthAssumption
  <2> QED BY <2>1 DEF StackOverflows
<1>9. ~LinkThrows
  BY <1>5 DEF LinkThrows
<1>10. ~NoDataCrashes
  BY <1>6 DEF NoDataCrashes
<1>11. ~IndexThrows
  BY <1>6 DEF IndexThrows
<1>12. fate = "running" /\ (fate' = fate \/ fate' = "returned")
  BY <1>7, <1>8, <1>9, <1>10, <1>11
     DEF LoaderStep, FindLoaded, ReadHeader, SkipLink, FollowLink, LinkLoaded,
         MakeNothing, MakeBlock, MakeDataGroup, Loaded, Missing, MoreLinks, LinksDone,
         Calling
<1> QED BY <1>12

\* Nor is there no header behind it.
LEMMA HeaderThere ==
    ASSUME LoadingNow, CheckedNow, DiskFits(disk), stack = <<>>, ret # <<>>
    PROVE  HasHeader
<1>1. PICK G : Checked(disk, stack, ret, blockMap, G)
  BY DEF CheckedNow
<1>2. Right(disk, blockMap, ret[1], 64)
  BY <1>1 DEF Checked
<1>3. 64 # 0 /\ disk[64].type = "HD" /\ "HD" \in Known
  BY DEF DiskFits, Known
<1>4. 64 \in DOMAIN blockMap /\ blockMap[64] # 0
  BY <1>2, <1>3 DEF Right
<1>5. Faithful(disk, blockMap, heap, 64, heap[blockMap[64]])
  BY <1>4 DEF LoadingNow, Loading, Mapped
<1> QED BY <1>3, <1>4, <1>5, Zenon DEF Faithful, HasHeader, HD, HDAddress

LEMMA FitsWithHeader ==
    ASSUME LoadingNow, CheckedNow, HasHeader, stack = <<>>, ret # <<>>
    PROVE  BlocksFit
<1>1. PICK G : Checked(disk, stack, ret, blockMap, G)
  BY DEF CheckedNow
<1>2. 64 \in DOMAIN blockMap /\ heap[blockMap[64]].type = "HD"
  BY DEF HasHeader, HD, HDAddress
<1>3. DiskFits(disk)
  BY <1>1, <1>2, LoadedFits DEF LoadingNow
<1> QED BY <1>3, DiskFitsNow

\* The loader only returns from its outermost call, and fails or returns once.
LEMMA LoaderReturns ==
    ASSUME LoaderStep
    PROVE  fate = "running" /\ (fate' = "returned" => stack' = <<>> /\ ret' # <<>>)
BY DEF LoaderStep, FindLoaded, ReadHeader, HeaderThrows, StackOverflows, LinkThrows,
       SkipLink, FollowLink, LinkLoaded, MakeNothing, MakeBlock, NoDataCrashes,
       IndexThrows, MakeDataGroup, Loaded, Missing, MoreLinks, LinksDone, Calling

-----------------------------------------------------------------------------
(* The layers around the file.                                               *)

LayerSet == [kind : {"aes", "hs"}, valid : BOOLEAN, small : BOOLEAN]

\* Which layers there may be.
LEMMA KindsOf ==
    ASSUME NEW ls \in Seq(LayerSet)
    PROVE  [i \in DOMAIN ls |-> ls[i].kind] \in
               {<<>>, <<"aes">>, <<"hs">>, <<"aes", "hs">>} <=>
           \/ Len(ls) = 0 \/ Len(ls) = 1
           \/ Len(ls) = 2 /\ ls[1].kind = "aes" /\ ls[2].kind = "hs"
<1> DEFINE K == [i \in DOMAIN ls |-> ls[i].kind]
           n == Len(ls)
<1>1. n \in Nat /\ DOMAIN ls = 1..n /\ DOMAIN K = 1..n
  OBVIOUS
<1>2. \A i \in 1..n : ls[i].kind \in {"aes", "hs"} /\ K[i] = ls[i].kind
  <2>1. \A i \in 1..n : ls[i] \in LayerSet
    BY <1>1
  <2>2. \A o \in LayerSet : o.kind \in {"aes", "hs"}
    BY DEF LayerSet
  <2>3. \A i \in 1..n : K[i] = ls[i].kind
    BY <1>1
  <2> HIDE DEF K, n
  <2> QED BY <2>1, <2>2, <2>3
<1>3. K \in [1..n -> {"aes", "hs"}]
  BY <1>1, <1>2
<1> HIDE DEF K, n
<1>4. K \in Seq({"aes", "hs"}) /\ Len(K) = n
  BY <1>1, <1>3, FunctionIsSeq
<1>5. K = <<>> <=> n = 0
  BY <1>4
<1>6. K \in {<<"aes">>, <<"hs">>} <=> n = 1
  <2>1. ASSUME n = 1 PROVE K \in {<<"aes">>, <<"hs">>}
    <3>1. K = <<K[1]>> /\ 1 \in 1..n
      BY <1>4, <2>1
    <3> QED BY <1>2, <3>1
  <2> QED BY <1>4, <2>1
<1>7. K = <<"aes", "hs">> <=> n = 2 /\ ls[1].kind = "aes" /\ ls[2].kind = "hs"
  <2>1. ASSUME n = 2 PROVE K = <<ls[1].kind, ls[2].kind>>
    <3>1. K = <<K[1], K[2]>> /\ 1 \in 1..n /\ 2 \in 1..n
      BY <1>4, <2>1
    <3> QED BY <1>2, <3>1
  <2>2. ASSUME K = <<"aes", "hs">> PROVE n = 2
    BY <1>4, <2>2
  <2>3. ASSUME K = <<"aes", "hs">> PROVE ls[1].kind = "aes" /\ ls[2].kind = "hs"
    <3>1. 1 \in 1..n /\ 2 \in 1..n
      BY <2>2, <2>3
    <3> QED BY <1>2, <2>3, <3>1
  <2> QED BY <2>1, <2>2, <2>3
<1>8. K \in {<<>>, <<"aes">>, <<"hs">>, <<"aes", "hs">>} <=>
         n = 0 \/ n = 1 \/ (n = 2 /\ ls[1].kind = "aes" /\ ls[2].kind = "hs")
  BY <1>5, <1>6, <1>7
<1> QED BY <1>8 DEF K, n

Layers == Len(source.layers)
InAES == Layers > 0 /\ source.layers[1].kind = "aes"

LEMMA LayersFitWhen ==
    ASSUME SourceOK(source)
    PROVE  /\ Layers \in Nat /\ (Encrypts <=> InAES)
           /\ LayersFit <=>
                /\ \/ Layers = 0 \/ Layers = 1
                   \/ Layers = 2 /\ source.layers[1].kind = "aes"
                                 /\ source.layers[2].kind = "hs"
                /\ \A i \in 1..Layers : source.layers[i].valid
                /\ InAES => /\ Password = "right"
                            /\ source.tag \/ ~source.layers[1].small
           /\ \A i \in 1..Layers : /\ source.layers[i].kind \in {"aes", "hs"}
                                   /\ source.layers[i].valid \in BOOLEAN
                                   /\ source.layers[i].small \in BOOLEAN
<1> DEFINE ls == source.layers
<1>1. ls \in Seq(LayerSet)
  BY DEF SourceOK, LayerSet
<1>2. \A o \in LayerSet : o.kind \in {"aes", "hs"} /\ o.valid \in BOOLEAN /\ o.small \in BOOLEAN
  BY DEF LayerSet
<1> HIDE DEF ls
<1>3. Len(ls) \in Nat /\ DOMAIN ls = 1..Len(ls) /\ (ls # <<>> <=> Len(ls) > 0)
      /\ \A i \in 1..Len(ls) : ls[i] \in LayerSet
  BY <1>1
<1>4. Len(ls) > 0 => Head(ls) = ls[1]
  BY <1>1, <1>3
<1>5. Encrypts <=> Len(ls) > 0 /\ ls[1].kind = "aes"
  BY <1>3, <1>4 DEF Encrypts, ls
<1>6. \/ source.device = "right"
      \/ source.device = "none" /\ source.default = "right"
      <=> Password = "right"
  BY DEF Password
<1>7. [i \in DOMAIN ls |-> ls[i].kind] \in {<<>>, <<"aes">>, <<"hs">>, <<"aes", "hs">>} <=>
           \/ Len(ls) = 0 \/ Len(ls) = 1
           \/ Len(ls) = 2 /\ ls[1].kind = "aes" /\ ls[2].kind = "hs"
  BY <1>1, KindsOf
<1>8. LayersFit <=>
        /\ [i \in DOMAIN ls |-> ls[i].kind] \in {<<>>, <<"aes">>, <<"hs">>, <<"aes", "hs">>}
        /\ \A i \in DOMAIN ls : ls[i].valid
        /\ Encrypts => /\ \/ source.device = "right"
                          \/ source.device = "none" /\ source.default = "right"
                       /\ source.tag \/ ~Head(ls).small
  BY Zenon DEF LayersFit, ls
<1>9. LayersFit <=>
        /\ \/ Len(ls) = 0 \/ Len(ls) = 1
           \/ Len(ls) = 2 /\ ls[1].kind = "aes" /\ ls[2].kind = "hs"
        /\ \A i \in 1..Len(ls) : ls[i].valid
        /\ Len(ls) > 0 /\ ls[1].kind = "aes" =>
              Password = "right" /\ (source.tag \/ ~ls[1].small)
  BY <1>3, <1>4, <1>5, <1>6, <1>7, <1>8, Zenon
<1>10. \A i \in 1..Len(ls) :
          /\ ls[i].kind \in {"aes", "hs"} /\ ls[i].valid \in BOOLEAN
          /\ ls[i].small \in BOOLEAN
  BY <1>2, <1>3
<1> QED BY <1>3, <1>5, <1>9, <1>10 DEF Layers, InAES, ls

\* Without the key nothing is decrypted; with one, it is where that is wrong.
Untouched ==
    /\ peeled = 0 /\ garbled = FALSE
    /\ InAES => Password \in {"none", "empty"}
Decrypted ==
    /\ peeled = 1 /\ InAES /\ source.layers[1].valid
    /\ Password \in {"right", "wrong"} /\ garbled = (Password = "wrong")

PeeledInv ==
    /\ stage \in {"open", "aes", "hs"} => at = "start"
    /\ stage \in {"open", "aes"} => peeled = 0 /\ garbled = FALSE
    /\ stage = "hs" => Untouched \/ Decrypted
    /\ stage = "id" =>
        /\ AllPeeled => LayersFit
        /\ LayersFit /\ (Encrypts => source.tag) => AllPeeled
    /\ stage = "blocks" => LayersFit

\* The compressed layer, or the end of them, behind what is decrypted.
LEMMA LastFilter ==
    ASSUME SourceOK(source), Untouched \/ Decrypted, at = "start", ~FirstReadThrows
    PROVE  /\ Shows("hs") /\ Layer.valid =>
                /\ peeled + 1 = Layers /\ garbled = FALSE => LayersFit
                /\ LayersFit => peeled + 1 = Layers /\ garbled = FALSE
           /\ ~(Shows("hs") /\ Layer.valid) =>
                /\ peeled = Layers /\ garbled = FALSE => LayersFit
                /\ LayersFit => peeled = Layers /\ garbled = FALSE
<1> DEFINE L1 == source.layers[1]
           L2 == source.layers[2]
           all == \A i \in 1..Layers : source.layers[i].valid
           tag == source.tag
<1>1. /\ Layers \in Nat
      /\ LayersFit <=>
           /\ Layers = 0 \/ Layers = 1 \/ (Layers = 2 /\ L1.kind = "aes" /\ L2.kind = "hs")
           /\ all
           /\ InAES => Password = "right" /\ (tag \/ ~L1.small)
      /\ InAES <=> Layers > 0 /\ L1.kind = "aes"
  BY LayersFitWhen, Zenon DEF InAES
<1>2. Layers > 0 => L1.kind \in {"aes", "hs"}
  <2>1. Layers > 0 => 1 \in 1..Layers
    BY <1>1
  <2> QED BY <2>1, LayersFitWhen
<1>3. /\ Layers = 0 => all
      /\ Layers = 1 => (all <=> L1.valid)
      /\ Layers = 2 => (all <=> L1.valid /\ L2.valid)
  BY <1>1
<1> HIDE DEF all
<1>4. CASE Untouched
  <2>1. peeled = 0 /\ garbled = FALSE /\ peeled + 1 = 1
        /\ (InAES => Password \in {"none", "empty"})
    BY <1>4 DEF Untouched
  <2>2. Layer = L1
    BY <2>1, Zenon DEF Layer
  <2>3. Shows("hs") <=> Layers > 0 /\ L1.kind = "hs"
    BY <2>1, <2>2 DEF Shows, Layers
  <2> HIDE DEF L1, L2
  <2>4. InAES => ~LayersFit
    BY <1>1, <2>1
  <2>5. CASE Layers = 0
    BY <1>1, <1>3, <2>1, <2>3, <2>5
  <2>6. CASE Layers = 1
    <3>1. ~InAES => L1.kind = "hs"
      BY <1>1, <1>2, <2>6
    <3>2. Layers > 0
      BY <2>6
    <3> QED BY <1>1, <1>3, <2>1, <2>2, <2>3, <2>4, <2>6, <3>1, <3>2
  <2>7. CASE Layers # 0 /\ Layers # 1
    <3>1. Layers > 0
      BY <1>1, <2>7
    <3>2. ~LayersFit
      BY <1>1, <2>4, <2>7, <3>1
    <3> QED BY <2>1, <2>7, <3>2
  <2> QED BY <2>5, <2>6, <2>7
<1>5. CASE Decrypted
  <2>1. peeled = 1 /\ InAES /\ L1.valid /\ Password \in {"right", "wrong"}
        /\ garbled = (Password = "wrong") /\ peeled + 1 = 2
    BY <1>5 DEF Decrypted
  <2>2. Layer = L2 /\ source.layers[peeled] = L1
    BY <2>1, Zenon DEF Layer
  <2>3. Shows("hs") <=> garbled = FALSE /\ Layers > 1 /\ L2.kind = "hs"
    BY <2>1, <2>2 DEF Shows, Layers
  <2>4. garbled = FALSE => tag \/ ~L1.small
    <3>1. Decrypting
      BY <2>1, <2>2 DEF Decrypting, InAES
    <3> QED BY <2>2, <3>1 DEF FirstReadThrows
  <2>5. garbled = FALSE <=> Password = "right"
    BY <2>1
  <2> HIDE DEF L1, L2, tag
  <2>6. Layers > 0 /\ L1.kind = "aes"
    BY <1>1, <2>1
  <2>7. LayersFit <=>
          /\ Layers = 1 \/ (Layers = 2 /\ L2.kind = "hs" /\ L2.valid)
          /\ garbled = FALSE
    <3>1. Layers # 0
      BY <2>6
    <3> QED BY <1>1, <1>3, <2>1, <2>4, <2>5, <2>6, <3>1
  <2>8. CASE Layers = 1
    <3>1. ~(Layers > 1)
      BY <2>8
    <3> QED BY <2>1, <2>3, <2>7, <2>8, <3>1
  <2>9. CASE Layers = 2
    <3>1. Layers > 1 /\ Layers # 1
      BY <2>9
    <3> QED BY <2>1, <2>2, <2>3, <2>7, <2>9, <3>1
  <2>10. CASE Layers # 1 /\ Layers # 2
    BY <2>1, <2>7, <2>10
  <2> QED BY <2>8, <2>9, <2>10
<1> QED BY <1>4, <1>5

-----------------------------------------------------------------------------
(* What is opened.                                                           *)

Excused == ~Opens \/ (Encrypts /\ ~source.tag)

OpenInv ==
    /\ LoadInv /\ SourceOK(source) /\ RoomForAll(disk)
    /\ stage \in {"open", "aes", "hs", "id", "blocks", "done"}
    /\ PeeledInv
    /\ stage \in {"aes", "hs", "id", "blocks"} => source.open
    /\ stage = "blocks" => source.id = "mdf"
    /\ stage \notin {"blocks", "done"} => fate = "running"
    /\ stage # "done" =>
        /\ CheckedNow
        /\ fate = "returned" => stack = <<>> /\ ret # <<>>
        /\ fate \in {"threw", "crashed"} => Excused
    /\ stage = "done" => result # "none"
    /\ result = "file" => Opens
    /\ result \in {"null", "threw"} => Excused

LEMMA OpenInvImplies ==
    ASSUME OpenInv
    PROVE  OpensExactly
<1>1. result = "file" => Opens
  BY DEF OpenInv
<1>2. ASSUME Opens, result \in {"null", "threw"} PROVE Encrypts /\ ~source.tag
  BY <1>2 DEF OpenInv, Excused
<1>3. ASSUME Opens, fate = "crashed", result = "none" PROVE Encrypts /\ ~source.tag
  <2>1. stage # "done"
    BY <1>3 DEF OpenInv
  <2> QED BY <1>3, <2>1 DEF OpenInv, Excused
<1> QED BY <1>1, <1>2, <1>3 DEF OpensExactly

LEMMA OpenStarts ==
    ASSUME Init, \A input \in Inputs : DataOnce(input.disk) /\ RoomForAll(input.disk)
    PROVE  OpenInv
<1>1. /\ stage = "open" /\ result = "none" /\ fate = "running" /\ peeled = 0
      /\ garbled = FALSE /\ at = "start" /\ stack = <<>> /\ ret = <<>> /\ blockMap = <<>>
  BY DEF Init
<1>2. LoadInv
  BY LoadStarts
<1>3. SourceOK(source) /\ RoomForAll(disk)
  BY InputsAssumption DEF Init
<1>4. CheckedNow
  <2>1. DOMAIN blockMap = {} /\ 1..Len(stack) = {}
    <3>1. Len(stack) = 0
      BY <1>1
    <3> QED BY <1>1, <3>1
  <2>2. Solid(disk, {})
    BY DEF Solid
  <2>3. Checked(disk, stack, ret, blockMap, {})
    BY <1>1, <2>1, <2>2 DEF Checked
  <2> QED BY <2>3 DEF CheckedNow
<1>5. PeeledInv
  BY <1>1 DEF PeeledInv
<1> QED BY <1>1, <1>2, <1>3, <1>4, <1>5 DEF OpenInv

\* Whether it can be opened does not change.
LEMMA StaysOpenable ==
    ASSUME UNCHANGED <<source, disk>>
    PROVE  /\ Opens' <=> Opens
           /\ Excused' <=> Excused
           /\ LayersFit' <=> LayersFit
           /\ Encrypts' <=> Encrypts
           /\ InAES' <=> InAES
           /\ Layers' = Layers
           /\ Password' = Password
           /\ BlocksFit' <=> BlocksFit
<1>1. /\ LayersFit' <=> LayersFit
      /\ Encrypts' <=> Encrypts
  BY DEF LayersFit, Encrypts
<1>2. /\ InAES' <=> InAES
      /\ Layers' = Layers
      /\ Password' = Password
  BY DEF InAES, Layers, Password
<1>3. BlocksFit' <=> BlocksFit
  <2>1. BlocksFit' <=> DiskFits(disk)'
    BY DiskFitsNow, PTL
  <2>2. DiskFits(disk)' <=> DiskFits(disk)
    OBVIOUS
  <2> QED BY <2>1, <2>2, DiskFitsNow
<1>4. Opens' <=> Opens
  BY <1>1, <1>3 DEF Opens
<1>5. Excused' <=> Excused
  BY <1>1, <1>4 DEF Excused
<1> QED BY <1>1, <1>2, <1>3, <1>4, <1>5

LEMMA StaysWrapped ==
    ASSUME source' = source
    PROVE  /\ LayersFit' <=> LayersFit
           /\ Encrypts' <=> Encrypts
           /\ InAES' <=> InAES
           /\ Layers' = Layers
           /\ Password' = Password
           /\ source.layers[1]' = source.layers[1]
BY DEF LayersFit, Encrypts, InAES, Layers, Password

\* The filters come off one by one.
LEMMA PeeledSteps ==
    ASSUME SourceOK(source), PeeledInv, [Next]_vars, source' = source
    PROVE  PeeledInv'
<1>1. CASE UNCHANGED vars \/ LoadBlocks \/ TagThrows \/ LoadInfoCrashes \/ Save
  <2>1. UNCHANGED <<stage, peeled, at, garbled>>
    BY <1>1 DEF vars, createVars, LoadBlocks, TagThrows, LoadInfoCrashes, Save
  <2>2. /\ AllPeeled' <=> AllPeeled
        /\ Untouched' <=> Untouched
        /\ Decrypted' <=> Decrypted
    BY <2>1, StaysWrapped DEF AllPeeled, Untouched, Decrypted
  <2> QED BY <2>1, <2>2, StaysWrapped DEF PeeledInv
<1>2. CASE OpenFails \/ FilterThrows \/ LoadThrows \/ LoadInfo
  <2>1. stage' = "done"
    BY <1>2 DEF OpenFails, FilterThrows, LoadThrows, LoadInfo, End
  <2> QED BY <2>1 DEF PeeledInv
<1>3. CASE Open
  <2>1. stage = "open" /\ stage' = "aes" /\ UNCHANGED <<peeled, at, garbled>>
    BY <1>3 DEF Open
  <2> QED BY <2>1 DEF PeeledInv
\* The outermost layer.
<1>4. ASSUME stage = "aes"
      PROVE  /\ peeled = 0 /\ garbled = FALSE /\ at = "start"
             /\ Layer = source.layers[1]
             /\ Shows("aes") <=> InAES
  <2>1. peeled = 0 /\ garbled = FALSE /\ at = "start"
    BY <1>4 DEF PeeledInv
  <2>2. Layer = source.layers[1]
    <3>1. peeled + 1 = 1
      BY <2>1
    <3> QED BY <3>1, Zenon DEF Layer
  <2>3. Shows("aes") <=> InAES
    <3>1. peeled < Len(source.layers) <=> Layers > 0
      BY <2>1, LayersFitWhen DEF Layers
    <3> QED BY <2>1, <2>2, <3>1, Zenon DEF Shows, InAES
  <2> QED BY <2>1, <2>2, <2>3
<1>5. CASE NotEncrypted
  <2>1. /\ stage = "aes" /\ stage' = "hs" /\ at' = "start"
        /\ UNCHANGED <<peeled, garbled>>
        /\ Shows("aes") => Password \in {"none", "empty"}
    BY <1>5 DEF NotEncrypted, SeekBack
  <2>2. Untouched'
    BY <1>4, <2>1, StaysWrapped DEF Untouched
  <2> QED BY <2>1, <2>2 DEF PeeledInv
<1>6. CASE Encrypted
  <2>1. /\ stage = "aes" /\ stage' = "hs" /\ at' = "start" /\ peeled' = peeled + 1
        /\ Shows("aes") /\ Layer.valid /\ Password \in {"right", "wrong"}
        /\ garbled' = (Password = "wrong")
    BY <1>6 DEF Encrypted
  <2>2. peeled' = 1
    BY <1>4, <2>1
  <2>3. Decrypted'
    BY <1>4, <2>1, <2>2, StaysWrapped DEF Decrypted
  <2> QED BY <2>1, <2>3 DEF PeeledInv
<1>7. CASE NotCompressed \/ Compressed
  <2>1. /\ stage = "hs" /\ stage' = "id" /\ garbled' = garbled /\ ~FirstReadThrows
        /\ IF Shows("hs") /\ Layer.valid THEN peeled' = peeled + 1 ELSE peeled' = peeled
    BY <1>7 DEF NotCompressed, Compressed
  <2>2. (Untouched \/ Decrypted) /\ at = "start" /\ garbled \in BOOLEAN
    BY <2>1 DEF PeeledInv, Untouched, Decrypted
  <2>3. /\ peeled' = Layers /\ garbled = FALSE => LayersFit
        /\ LayersFit => peeled' = Layers /\ garbled = FALSE
    BY <2>1, <2>2, LastFilter
  <2>4. AllPeeled' <=> peeled' = Layers /\ garbled = FALSE
    BY <2>1, <2>2, StaysWrapped DEF AllPeeled, Layers
  <2> QED BY <2>1, <2>3, <2>4, StaysWrapped DEF PeeledInv
<1>8. CASE LoadID
  <2>1. stage = "id" /\ (stage' = "done" \/ (stage' = "blocks" /\ AllPeeled))
    BY <1>8 DEF LoadID, End
  <2> QED BY <2>1, StaysWrapped DEF PeeledInv
<1> QED BY <1>1, <1>2, <1>3, <1>5, <1>6, <1>7, <1>8 DEF Next

\* What the filters refuse cannot be opened.
LEMMA FilterRefuses ==
    ASSUME SourceOK(source), PeeledInv, FilterThrows
    PROVE  Excused
<1>1. CASE stage = "aes"
  <2>1. /\ Shows("aes")
        /\ Password = "none" \/ (Password \in {"right", "wrong"} /\ ~Layer.valid)
    BY <1>1 DEF FilterThrows
  <2>2. peeled = 0
    BY <1>1 DEF PeeledInv
  <2>3. Layer = source.layers[1]
    <3>1. peeled + 1 = 1
      BY <2>2
    <3> QED BY <3>1, Zenon DEF Layer
  <2>4. InAES /\ 1 \in 1..Layers
    <3>1. Layers > 0
      BY <2>1, <2>2, LayersFitWhen DEF Shows, Layers
    <3>2. 1 \in 1..Layers
      BY <3>1, LayersFitWhen
    <3> QED BY <2>1, <2>3, <3>1, <3>2 DEF Shows, InAES
  <2>5. ~LayersFit
    BY <2>1, <2>3, <2>4, LayersFitWhen
  <2> QED BY <2>5 DEF Excused, Opens
<1>2. CASE stage = "hs"
  <2>1. FirstReadThrows
    BY <1>2 DEF FilterThrows
  <2>2. Untouched \/ Decrypted
    BY <1>2 DEF PeeledInv
  <2>3. ~Untouched
    <3>1. peeled > 0
      BY <2>1 DEF FirstReadThrows, Decrypting
    <3> QED BY <3>1 DEF Untouched
  <2>4. InAES /\ garbled = (Password = "wrong") /\ source.layers[peeled] = source.layers[1]
    BY <2>2, <2>3 DEF Decrypted
  <2>5. source.layers[1].small /\ (garbled \/ ~source.tag)
    BY <2>1, <2>4 DEF FirstReadThrows
  <2>6. ~LayersFit \/ ~source.tag
    BY <2>4, <2>5, LayersFitWhen
  <2> QED BY <2>4, <2>6, LayersFitWhen DEF Excused, Opens
<1> QED BY <1>1, <1>2 DEF FilterThrows

\* Nobody writes to what is opened.
LEMMA SourceStays ==
    ASSUME [Next]_vars
    PROVE  source' = source /\ disk' = disk
<1>1. CASE UNCHANGED vars
  BY <1>1 DEF vars, createVars, savingVars, storageVars
<1>2. CASE OpenFails \/ Open \/ NotEncrypted \/ Encrypted \/ FilterThrows
           \/ NotCompressed \/ Compressed \/ LoadID \/ LoadThrows \/ LoadInfo
  BY <1>2 DEF OpenFails, Open, NotEncrypted, Encrypted, FilterThrows, NotCompressed,
              Compressed, LoadID, LoadThrows, LoadInfo, savingVars, storageVars
<1>3. CASE TagThrows \/ LoadInfoCrashes
  BY <1>3 DEF TagThrows, LoadInfoCrashes, createVars
<1>4. CASE LoadBlocks
  <2>1. LoaderStep /\ source' = source
    BY <1>4 DEF LoadBlocks, createVars
  <2> QED BY <2>1
        DEF LoaderStep, FindLoaded, ReadHeader, HeaderThrows, StackOverflows, LinkThrows,
            SkipLink, FollowLink, LinkLoaded, MakeNothing, MakeBlock, NoDataCrashes,
            IndexThrows, MakeDataGroup, Loaded
<1>5. CASE Save
  BY <1>5 DEF Save, SavingStep, Sort, SortCrashes, Pack, WriteBlock, WriteThrows,
              createVars
<1> QED BY <1>1, <1>2, <1>3, <1>4, <1>5 DEF Next

\* What the loader has been through stays while it waits.
LEMMA StaysChecked ==
    ASSUME UNCHANGED <<disk, stack, ret, blockMap>>
    PROVE  CheckedNow' <=> CheckedNow
BY DEF CheckedNow

LEMMA OpenSteps ==
    ASSUME OpenInv, [Next]_vars
    PROVE  OpenInv'
<1>1. /\ LoadInv' /\ PeeledInv' /\ source' = source /\ disk' = disk
      /\ SourceOK(source') /\ RoomForAll(disk')
  <2>1. source' = source /\ disk' = disk
    BY SourceStays
  <2>2. LoadInv'
    BY LoadSteps DEF OpenInv
  <2>3. PeeledInv'
    BY <2>1, PeeledSteps DEF OpenInv
  <2> QED BY <2>1, <2>2, <2>3 DEF OpenInv
<1>2. /\ Opens' <=> Opens
      /\ Excused' <=> Excused
  BY <1>1, StaysOpenable
<1>3. stage # "done" => LoadingNow /\ result = "none" /\ CheckedNow
  BY DEF OpenInv, LoadInv
<1>4. ASSUME UNCHANGED <<stage, result, fate, stack, ret, blockMap>> PROVE OpenInv'
  <2>1. CheckedNow' <=> CheckedNow
    BY <1>1, <1>4, StaysChecked
  <2> QED BY <1>1, <1>2, <1>4, <2>1 DEF OpenInv
<1>5. CASE UNCHANGED vars
  BY <1>4, <1>5 DEF vars, createVars, savingVars, storageVars
\* An end.
<1>6. ASSUME stage' = "done",
             (result' = "file" /\ Opens) \/ (result' \in {"null", "threw"} /\ Excused)
      PROVE  OpenInv'
  BY <1>1, <1>2, <1>6 DEF OpenInv
<1>7. CASE OpenFails
  <2>1. ~source.open /\ stage' = "done" /\ result' = "null"
    BY <1>7 DEF OpenFails, End
  <2> QED BY <1>6, <2>1 DEF Excused, Opens
<1>8. CASE FilterThrows
  <2>1. stage' = "done" /\ result' = "null"
    BY <1>8 DEF FilterThrows, End
  <2> QED BY <1>6, <1>8, <2>1, FilterRefuses DEF OpenInv
<1>9. CASE Open \/ NotEncrypted \/ Encrypted \/ NotCompressed \/ Compressed
  <2>1. /\ UNCHANGED <<result, fate, stack, ret, blockMap>>
        /\ stage \in {"open", "aes", "hs"} /\ stage' \in {"aes", "hs", "id"}
        /\ source.open
    BY <1>9 DEF Open, NotEncrypted, Encrypted, NotCompressed, Compressed, savingVars,
                storageVars, OpenInv
  <2>2. CheckedNow' <=> CheckedNow
    BY <1>1, <2>1, StaysChecked
  <2> QED BY <1>1, <1>2, <2>1, <2>2 DEF OpenInv
<1>10. CASE LoadID
  <2>1. /\ stage = "id" /\ UNCHANGED <<fate, stack, ret, blockMap>>
        /\ \/ AllPeeled /\ source.id = "short" /\ stage' = "done" /\ result' = "threw"
           \/ AllPeeled /\ source.id = "mdf" /\ stage' = "blocks" /\ result' = result
           \/ /\ ~AllPeeled \/ source.id = "other"
              /\ stage' = "done" /\ result' = "null"
    BY <1>10 DEF LoadID, End, savingVars, storageVars
  <2>2. CASE source.id = "mdf" /\ stage' = "blocks" /\ result' = result
    <3>1. CheckedNow' <=> CheckedNow
      BY <1>1, <2>1, StaysChecked
    <3> QED BY <1>1, <1>2, <2>1, <2>2, <3>1 DEF OpenInv
  <2>3. CASE source.id # "mdf" /\ stage' = "done" /\ result' \in {"threw", "null"}
    BY <1>6, <2>3 DEF Excused, Opens
  <2>4. CASE ~AllPeeled /\ stage' = "done" /\ result' = "null"
    <3>1. Excused
      BY <2>1, <2>4 DEF OpenInv, PeeledInv, Excused, Opens
    <3> QED BY <1>6, <2>4, <3>1
  <2> QED BY <2>1, <2>2, <2>3, <2>4
<1>11. CASE LoadBlocks
  <2>1. /\ LoaderStep /\ stage = "blocks" /\ UNCHANGED <<stage, result>>
    BY <1>11 DEF LoadBlocks, createVars
  <2>2. CheckedNow'
    BY <1>3, <2>1, StepChecks
  <2>3. fate' = "returned" => stack' = <<>> /\ ret' # <<>>
    BY <2>1, LoaderReturns
  <2>4. fate' \in {"threw", "crashed"} => Excused
    <3>1. ASSUME fate' \in {"threw", "crashed"} PROVE ~DiskFits(disk)
      BY <1>3, <2>1, <3>1, LoaderFails DEF OpenInv
    <3> QED BY <3>1, DiskFitsNow DEF Excused, Opens
  <2> QED BY <1>1, <1>2, <2>1, <2>2, <2>3, <2>4 DEF OpenInv
<1>12. CASE TagThrows
  <2>1. /\ stage = "blocks" /\ fate' = "threw" /\ ~source.tag
        /\ Len(source.layers) > 0 /\ Head(source.layers).kind = "aes"
        /\ UNCHANGED <<stage, result, stack, ret, blockMap>>
    BY <1>12 DEF TagThrows, createVars
  <2>2. Excused
    <3>1. source.layers # <<>>
      BY <2>1
    <3> QED BY <2>1, <3>1 DEF Excused, Encrypts
  <2>3. CheckedNow' <=> CheckedNow
    BY <1>1, <2>1, StaysChecked
  <2> QED BY <1>1, <1>2, <2>1, <2>2, <2>3 DEF OpenInv
<1>13. CASE LoadThrows
  <2>1. stage = "blocks" /\ fate = "threw" /\ stage' = "done" /\ result' = "threw"
    BY <1>13 DEF LoadThrows, End
  <2> QED BY <1>6, <2>1 DEF OpenInv
<1>14. CASE LoadInfo
  <2>1. /\ stage = "blocks" /\ fate = "returned" /\ HasHeader /\ stage' = "done"
        /\ result' = IF source.metadata THEN "file" ELSE "null"
    BY <1>14 DEF LoadInfo, End
  <2>2. BlocksFit
    BY <1>3, <2>1, FitsWithHeader DEF OpenInv
  <2>3. source.metadata => Opens
    BY <2>1, <2>2 DEF OpenInv, PeeledInv, Opens
  <2>4. ~source.metadata => Excused
    BY DEF Excused, Opens
  <2> QED BY <1>6, <2>1, <2>3, <2>4
<1>15. CASE LoadInfoCrashes
  <2>1. /\ stage = "blocks" /\ fate = "returned" /\ ~HasHeader /\ fate' = "crashed"
        /\ UNCHANGED <<stage, result, stack, ret, blockMap>>
    BY <1>15 DEF LoadInfoCrashes, createVars
  <2>2. Excused
    <3>1. ~DiskFits(disk)
      BY <1>3, <2>1, HeaderThere DEF OpenInv
    <3> QED BY <3>1, DiskFitsNow DEF Excused, Opens
  <2>3. CheckedNow' <=> CheckedNow
    BY <1>1, <2>1, StaysChecked
  <2> QED BY <1>1, <1>2, <2>1, <2>2, <2>3 DEF OpenInv
<1>16. CASE Save
  <2>1. stage = "done" /\ stage' = stage /\ result' = result
    BY <1>16 DEF Save, createVars, OpenInv, LoadInv
  <2> QED BY <1>1, <1>2, <2>1 DEF OpenInv
<1> QED BY <1>5, <1>7, <1>8, <1>9, <1>10, <1>11, <1>12, <1>13, <1>14, <1>15, <1>16
        DEF Next

\* Create() gives a file for a source that is one, and for no other.
THEOREM OpensTheFile ==
    ASSUME \A input \in Inputs : DataOnce(input.disk) /\ RoomForAll(input.disk)
    PROVE  Spec => []OpensExactly
<1>1. Init => OpenInv
  BY OpenStarts
<1>2. OpenInv /\ [Next]_vars => OpenInv'
  BY OpenSteps
<1>3. OpenInv => OpensExactly
  BY OpenInvImplies
<1> QED BY <1>1, <1>2, <1>3, PTL DEF Spec
=============================================================================
