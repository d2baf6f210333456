------------------------------ MODULE DataFacts ------------------------------
(***************************************************************************)
(* Induction over data, from the one well-foundedness fact of the library  *)
(* that takes no operator as a parameter (WFMin): induction over the       *)
(* natural numbers as membership in a set, and what a fold over 1..n       *)
(* computes, whose step is given as a function.  FoldLeft and FlattenSeq   *)
(* of SequencesExt are recursive functions over such steps.  Also what is  *)
(* needed of sequences, of finite sets of numbers, and of such a set in    *)
(* order (Sorted).                                                         *)
(***************************************************************************)
EXTENDS SortedSets, Integers, SequencesExt, FiniteSetsExt, WellFoundedInduction,
        FiniteSetTheorems, SequenceTheorems, TLAPS

(***************************************************************************)
(* Induction: a set that has 0 and with n also n + 1 has every number.     *)
(***************************************************************************)
LEMMA NatInduct ==
  ASSUME NEW T, 0 \in T, \A n \in Nat : n \in T => n + 1 \in T
  PROVE  \A n \in Nat : n \in T
<1> SUFFICES ASSUME NEW m \in Nat, m \notin T PROVE FALSE
  OBVIOUS
<1> DEFINE S == {n \in Nat : n \notin T}
<1>1. S \subseteq Nat /\ S # {}
  OBVIOUS
<1>2. PICK x \in S : \A y \in S : ~(<<y, x>> \in OpToRel(<, Nat))
  BY <1>1, NatLessThanWellFounded, WFMin
<1>3. x \in Nat /\ x # 0
  OBVIOUS
<1>4. x - 1 \in Nat /\ x - 1 < x
  BY <1>3
<1>5. <<x - 1, x>> \in OpToRel(<, Nat)
  BY <1>3, <1>4 DEF OpToRel
<1>6. x - 1 \in T
  BY <1>2, <1>4, <1>5
<1> QED BY <1>3, <1>4, <1>6

----------------------------------------------------------------------------
(* The greatest element of a set of numbers.                               *)

\* Where there is a greatest element, Max is that element.
LEMMA MaxIs ==
  ASSUME NEW s \in SUBSET Int, NEW m \in s, \A y \in s : m >= y
  PROVE  Max(s) = m
<1>1. \E x \in s : \A y \in s : x >= y
  OBVIOUS
<1>2. Max(s) = CHOOSE x \in s : \A y \in s : x >= y
  BY DEF Max
<1>3. Max(s) \in s /\ \A y \in s : Max(s) >= y
  BY <1>1, <1>2, Zenon
<1>4. Max(s) \in Int /\ m \in Int /\ Max(s) >= m /\ m >= Max(s)
  BY <1>3
<1> QED BY <1>4

\* Every non-empty set of numbers up to n has one.
LEMMA MaxIn ==
  ASSUME NEW n \in Nat, NEW s \in SUBSET (1..n), s # {}
  PROVE  Max(s) \in s /\ \A y \in s : Max(s) >= y
<1> DEFINE T == {k \in Nat : \A t \in SUBSET (1..k) : t = {} \/ \E x \in t : \A y \in t : x >= y}
<1>1. 0 \in T
  OBVIOUS
<1>2. ASSUME NEW k \in Nat, k \in T PROVE k + 1 \in T
  <2> SUFFICES ASSUME NEW t \in SUBSET (1..(k+1)), t # {}
               PROVE  \E x \in t : \A y \in t : x >= y
    OBVIOUS
  <2>1. CASE k + 1 \in t
    BY <2>1
  <2>2. CASE k + 1 \notin t
    <3>1. t \in SUBSET (1..k)
      BY <2>2
    <3> QED BY <1>2, <3>1
  <2> QED BY <2>1, <2>2
<1> HIDE DEF T
<1>3. n \in T
  BY <1>1, <1>2, NatInduct
<1>4. \E x \in s : \A y \in s : x >= y
  BY <1>3 DEF T
<1> QED BY <1>4 DEF Max

\* The initial segments of the numbers a fold over 1..n goes through.
LEMMA Segments ==
  ASSUME NEW n \in Nat, NEW k \in 1..n
  PROVE  /\ Max(1..k) = k /\ (1..k) \ {k} = 1..(k - 1)
         /\ 1..k \in SUBSET (1..n) /\ 1..k # {}
<1>1. 1..k \in SUBSET Int /\ k \in 1..k /\ \A y \in 1..k : k >= y
  OBVIOUS
<1>2. Max(1..k) = k
  BY <1>1, MaxIs
<1>3. (1..k) \ {k} = 1..(k - 1)
  OBVIOUS
<1>4. 1..k \in SUBSET (1..n) /\ 1..k # {}
  OBVIOUS
<1> QED BY <1>2, <1>3, <1>4

----------------------------------------------------------------------------
(* Folds over 1..n.                                                        *)

Steps(S, n) == [S \X (1..n) -> S]

\* it is the function MapThenFoldSet recurs through, with Max to choose.
IsFold(it, S, base, n, step) ==
  /\ it \in [SUBSET (1..n) -> S]
  /\ \A s \in SUBSET (1..n) :
       it[s] = IF s = {} THEN base ELSE step[<<it[s \ {Max(s)}], Max(s)>>]

\* F has the results after 0, 1, .. n steps, and it agrees with them.
IsRun(F, it, S, base, n, step) ==
  /\ F \in [0..n -> S]
  /\ F[0] = base
  /\ \A k \in 1..n : F[k] = step[<<F[k - 1], k>>]
  /\ \A k \in 0..n : F[k] = it[1..k]

\* There is such a function: what makes the recursive definition one.
LEMMA FoldExists ==
  ASSUME NEW S, NEW base \in S, NEW n \in Nat, NEW step \in Steps(S, n)
  PROVE  \E it : IsFold(it, S, base, n, step)
<1> DEFINE Good(k) ==
      \E it \in [SUBSET (1..k) -> S] :
           \A s \in SUBSET (1..k) :
             it[s] = IF s = {} THEN base ELSE step[<<it[s \ {Max(s)}], Max(s)>>]
<1> DEFINE T == {k \in Nat : k <= n => Good(k)}
<1> HIDE DEF Good
<1>1. Good(0)
  <2> DEFINE it == [s \in SUBSET (1..0) |-> base]
  <2>1. \A s \in SUBSET (1..0) : s = {}
    OBVIOUS
  <2>2. it \in [SUBSET (1..0) -> S]
    OBVIOUS
  <2>3. \A s \in SUBSET (1..0) : it[s] = IF s = {} THEN base ELSE step[<<it[s \ {Max(s)}], Max(s)>>]
    BY <2>1
  <2> HIDE DEF it
  <2> QED BY <2>2, <2>3 DEF Good
<1>2. ASSUME NEW k \in Nat, k \in T PROVE k + 1 \in T
  <2> SUFFICES ASSUME k + 1 <= n PROVE Good(k + 1)
    OBVIOUS
  <2>1. Good(k)
    BY <1>2
  <2>2. PICK it \in [SUBSET (1..k) -> S] :
           \A s \in SUBSET (1..k) :
             it[s] = IF s = {} THEN base ELSE step[<<it[s \ {Max(s)}], Max(s)>>]
    BY <2>1 DEF Good
  <2> DEFINE up == [s \in SUBSET (1..(k + 1)) |->
                     IF k + 1 \in s THEN step[<<it[s \ {k + 1}], k + 1>>] ELSE it[s]]
  <2>3. ASSUME NEW s \in SUBSET (1..(k + 1)), k + 1 \in s PROVE Max(s) = k + 1
    <3>1. s \in SUBSET Int /\ \A y \in s : k + 1 >= y
      OBVIOUS
    <3> QED BY <2>3, <3>1, MaxIs
  <2>4. \A s \in SUBSET (1..(k + 1)) : /\ k + 1 \notin s => s \in SUBSET (1..k)
                                       /\ s \ {k + 1} \in SUBSET (1..k)
    OBVIOUS
  <2>5. up \in [SUBSET (1..(k + 1)) -> S]
    <3> SUFFICES ASSUME NEW s \in SUBSET (1..(k + 1)) PROVE up[s] \in S
      OBVIOUS
    <3>1. k + 1 \in 1..n
      OBVIOUS
    <3> QED BY <2>4, <3>1 DEF Steps
  <2>6. ASSUME NEW s \in SUBSET (1..(k + 1))
        PROVE  up[s] = IF s = {} THEN base ELSE step[<<up[s \ {Max(s)}], Max(s)>>]
    <3>1. CASE k + 1 \in s
      <4>1. Max(s) = k + 1 /\ s # {}
        BY <3>1, <2>3
      <4>2. s \ {k + 1} \in SUBSET (1..(k + 1)) /\ up[s \ {k + 1}] = it[s \ {k + 1}]
        OBVIOUS
      <4> QED BY <3>1, <4>1, <4>2
    <3>2. CASE k + 1 \notin s
      <4>1. s \in SUBSET (1..k) /\ up[s] = it[s]
        BY <3>2, <2>4
      <4>2. s \ {Max(s)} \in SUBSET (1..(k+1)) /\ k + 1 \notin s \ {Max(s)}
        BY <3>2
      <4>3. up[s \ {Max(s)}] = it[s \ {Max(s)}]
        BY <4>2
      <4> HIDE DEF up
      <4> QED BY <4>1, <4>3, <2>2
    <3> QED BY <3>1, <3>2
  <2> HIDE DEF up
  <2> QED BY <2>5, <2>6 DEF Good
<1>3. 0 \in T
  BY <1>1
<1> HIDE DEF T
<1>4. n \in T
  BY <1>2, <1>3, NatInduct
<1>5. Good(n)
  BY <1>4 DEF T
<1> QED BY <1>5 DEF Good, IsFold

\* Whatever obeys the recursion wherever its arguments are in S has results in S,
\* one step after the other.
LEMMA FoldRuns ==
  ASSUME NEW S, NEW base \in S, NEW n \in Nat, NEW step \in Steps(S, n), NEW it,
         it[{}] = base,
         \A s \in SUBSET (1..n) :
           s # {} /\ it[s \ {Max(s)}] \in S => it[s] = step[<<it[s \ {Max(s)}], Max(s)>>]
  PROVE  \E F : IsRun(F, it, S, base, n, step)
<1> DEFINE T == {k \in Nat : k <= n => it[1..k] \in S}
<1>2. 0 \in T
  <2>1. 1..0 = {}
    OBVIOUS
  <2> QED BY <2>1
<1>3. ASSUME NEW k \in Nat, k \in T PROVE k + 1 \in T
  <2> SUFFICES ASSUME k + 1 <= n PROVE it[1..(k + 1)] \in S
    OBVIOUS
  <2>1. it[1..k] \in S /\ k + 1 \in 1..n /\ (k + 1) - 1 = k
    BY <1>3
  <2>2. it[1..(k+1)] = step[<<it[1..k], k + 1>>]
    BY <2>1, Segments
  <2> QED BY <2>1, <2>2 DEF Steps
<1> HIDE DEF T
<1>4. \A k \in Nat : k \in T
  BY <1>2, <1>3, NatInduct
<1> DEFINE F == [k \in 0..n |-> it[1..k]]
<1>5. F \in [0..n -> S]
  BY <1>4 DEF T
<1>6. F[0] = base
  <2>1. 1..0 = {}
    OBVIOUS
  <2> QED BY <2>1
<1>7. ASSUME NEW k \in 1..n PROVE F[k] = step[<<F[k - 1], k>>]
  <2>1. k - 1 \in 0..n /\ k \in 0..n
    OBVIOUS
  <2>2. it[1..(k - 1)] \in S
    BY <2>1, <1>5
  <2> QED BY Segments, <2>1, <2>2
<1>8. \A k \in 0..n : F[k] = it[1..k]
  OBVIOUS
<1> HIDE DEF F
<1> QED BY <1>5, <1>6, <1>7, <1>8 DEF IsRun

----------------------------------------------------------------------------
(* Sequences.                                                              *)

\* The lesser of two numbers.
LEMMA MinOfTwo ==
  ASSUME NEW a \in Nat, NEW b \in Nat
  PROVE  Min({a, b}) = IF a <= b THEN a ELSE b
<1> DEFINE m == IF a <= b THEN a ELSE b
<1>1. m \in {a, b} /\ \A y \in {a, b} : m <= y
  OBVIOUS
<1>2. Min({a, b}) = CHOOSE x \in {a, b} : \A y \in {a, b} : x <= y
  BY DEF Min
<1>3. Min({a, b}) \in {a, b} /\ \A y \in {a, b} : Min({a, b}) <= y
  BY <1>1, <1>2, Zenon
<1>4. Min({a, b}) <= m /\ m <= Min({a, b}) /\ m \in Nat /\ Min({a, b}) \in Nat
  BY <1>1, <1>3
<1> QED BY <1>4

\* A function on 1..n is a sequence.
LEMMA FunIsSeq ==
  ASSUME NEW S, NEW n \in Nat, NEW f \in [1..n -> S]
  PROVE  f \in Seq(S) /\ Len(f) = n
OBVIOUS

\* A sequence over a set is one over a larger set.
LEMMA WiderSeq ==
  ASSUME NEW S, NEW T \in SUBSET S, NEW s \in Seq(T)
  PROVE  s \in Seq(S)
OBVIOUS

\* An element of a sequence.
LEMMA ElementIn ==
  ASSUME NEW S, NEW s \in Seq(S), NEW i \in 1..Len(s)
  PROVE  s[i] \in S
OBVIOUS

\* Even numbers add up to an even one.
LEMMA EvenSum ==
  ASSUME NEW m \in Nat, NEW n \in Nat, m % 2 = 0, n % 2 = 0
  PROVE  (m + n) % 2 = 0
OBVIOUS

\* The first n of a sequence.
LEMMA Start ==
  ASSUME NEW S, NEW s \in Seq(S), NEW n \in Nat, n <= Len(s)
  PROVE  /\ SubSeq(s, 1, n) \in Seq(S) /\ Len(SubSeq(s, 1, n)) = n
         /\ \A i \in 1..n : SubSeq(s, 1, n)[i] = s[i]
<1>1. SubSeq(s, 1, n) \in Seq(S)
  OBVIOUS
<1>2. Len(SubSeq(s, 1, n)) = n
  OBVIOUS
<1>3. ASSUME NEW i \in 1..n PROVE SubSeq(s, 1, n)[i] = s[i]
  OBVIOUS
<1> QED BY <1>1, <1>2, <1>3, Zenon

\* What is left of the first n elements after k of them.
LEMMA Rest ==
  ASSUME NEW S, NEW s \in Seq(S), NEW k \in Nat, NEW n \in Nat, n <= Len(s)
  PROVE  /\ SubSeq(s, k + 1, n) \in Seq(S)
         /\ Len(SubSeq(s, k + 1, n)) = IF k <= n THEN n - k ELSE 0
         /\ \A i \in 1..n - k : SubSeq(s, k + 1, n)[i] = s[i + k]
<1> DEFINE t == SubSeq(s, k + 1, n)
<1>1. \A i \in k + 1..n : s[i] \in S
  OBVIOUS
<1>2. /\ t \in Seq(S) /\ Len(t) = IF k + 1 <= n THEN n - (k + 1) + 1 ELSE 0
      /\ \A i \in 1..n - (k + 1) + 1 : t[i] = s[(k + 1) + i - 1]
  BY <1>1, SubSeqProperties
<1> HIDE DEF t
<1>3. Len(t) = IF k <= n THEN n - k ELSE 0
  BY <1>2
<1>4. ASSUME NEW i \in 1..n - k PROVE t[i] = s[i + k]
  <2>1. i \in 1..n - (k + 1) + 1 /\ (k + 1) + i - 1 = i + k
    OBVIOUS
  <2> QED BY <2>1, <1>2
<1>5. \A i \in 1..n - k : t[i] = s[i + k]
  BY <1>4
<1> QED BY <1>2, <1>3, <1>5, Zenon DEF t

----------------------------------------------------------------------------
(* Sets of numbers in order.                                               *)

\* A finite set of numbers has a bound.
LEMMA HasBound ==
  ASSUME NEW S \in SUBSET Nat, IsFiniteSet(S)
  PROVE  \E n \in Nat : \A x \in S : x <= n
<1>1. PICK c \in Nat : ExistsSurjection(1..c, S)
  BY FS_NatSurjection
<1>2. PICK f \in [1..c -> S] : \A x \in S : \E i \in 1..c : f[i] = x
  BY <1>1 DEF ExistsSurjection, Surjection
<1> DEFINE T == {k \in Nat : k <= c => \E n \in Nat : \A i \in 1..k : f[i] <= n}
<1>3. 0 \in T
  OBVIOUS
<1>4. ASSUME NEW k \in Nat, k \in T PROVE k + 1 \in T
  <2> SUFFICES ASSUME k + 1 <= c
               PROVE  \E n \in Nat : \A i \in 1..k + 1 : f[i] <= n
    OBVIOUS
  <2>1. PICK n \in Nat : \A i \in 1..k : f[i] <= n
    BY <1>4
  <2>2. \A i \in 1..k + 1 : i \in 1..k \/ i = k + 1
    OBVIOUS
  <2>3. f[k + 1] \in Nat /\ \A i \in 1..k : f[i] \in Nat
    <3>1. \A i \in 1..c : f[i] \in S
      BY <1>2
    <3>2. k + 1 \in 1..c /\ \A i \in 1..k : i \in 1..c
      BY c \in Nat
    <3>3. \A i \in 1..c : f[i] \in Nat
      BY <3>1
    <3> QED BY <3>2, <3>3
  <2>4. CASE f[k + 1] <= n
    BY <2>1, <2>2, <2>4
  <2>5. CASE f[k + 1] > n
    <3>1. \A i \in 1..k : f[i] <= f[k + 1]
      BY <2>1, <2>3, <2>5
    <3>2. \A i \in 1..k + 1 : f[i] <= f[k + 1]
      BY <2>2, <2>3, <3>1
    <3> QED BY <2>3, <3>2
  <2> QED BY <2>3, <2>4, <2>5
<1> HIDE DEF T
<1>5. c \in T
  BY <1>3, <1>4, NatInduct
<1>6. PICK n \in Nat : \A i \in 1..c : f[i] <= n
  BY <1>5 DEF T
<1>7. \A x \in S : x <= n
  BY <1>2, <1>6
<1> QED BY <1>7

\* What comes before x in the order of A.
Before(A, x) == {y \in A : y < x}

\* A subset of 1..n is finite, with at most n elements.
LEMMA Upto ==
  ASSUME NEW n \in Nat, NEW A \in SUBSET (1..n)
  PROVE  IsFiniteSet(A) /\ Cardinality(A) \in Nat /\ Cardinality(A) <= n
<1>1. IsFiniteSet(1..n) /\ Cardinality(1..n) = n
  BY FS_Interval
<1> QED BY <1>1, FS_Subset, FS_CardinalityType

\* An element has a rank, from 0.
LEMMA RankIn ==
  ASSUME NEW n \in Nat, NEW A \in SUBSET (1..n), NEW x \in A
  PROVE  Cardinality(Before(A, x)) \in Nat /\ Cardinality(Before(A, x)) < Cardinality(A)
<1>1. /\ IsFiniteSet(A \ {x}) /\ Cardinality(A \ {x}) = Cardinality(A) - 1
      /\ Cardinality(A) \in Nat
  BY Upto, FS_RemoveElement
<1>2. Before(A, x) \in SUBSET (A \ {x})
  BY DEF Before
<1>3. Cardinality(Before(A, x)) <= Cardinality(A \ {x}) /\ IsFiniteSet(Before(A, x))
  BY <1>1, <1>2, FS_Subset
<1>4. Cardinality(Before(A, x)) \in Nat
  BY <1>3, FS_CardinalityType
<1> QED BY <1>1, <1>3, <1>4

\* Numbers above all others come last, in their order.
LEMMA Appended ==
  ASSUME NEW n \in Nat, NEW A \in SUBSET (1..n), NEW k \in Nat
  PROVE  Cardinality(A \cup (n + 1..n + k)) = Cardinality(A) + k
<1>1. IsFiniteSet(A) /\ Cardinality(A) \in Nat
  BY Upto
<1>2. IsFiniteSet(n + 1..n + k) /\ Cardinality(n + 1..n + k) = k
  BY FS_Interval
<1> DEFINE I == n + 1..n + k
<1>3. A \cap I = {}
  OBVIOUS
<1>4. IsFiniteSet(I) /\ Cardinality(I) = k
  BY <1>2
<1> HIDE DEF I
<1>5. Cardinality(A \cup I) = Cardinality(A) + k - 0
  BY <1>1, <1>3, <1>4, FS_Union, FS_EmptySet
<1>6. Cardinality(A) + k - 0 = Cardinality(A) + k
  BY <1>1
<1> QED BY <1>5, <1>6 DEF I

\* Consecutive numbers above all others follow in their order.
LEMMA SortedAppends ==
  ASSUME NEW n \in Nat, NEW A \in SUBSET (1..n), NEW k \in Nat
  PROVE  Sorted(A \cup (n + 1..n + k)) =
           [i \in 1..Cardinality(A) + k |->
              IF i <= Cardinality(A) THEN Sorted(A)[i] ELSE n + (i - Cardinality(A))]
<1> DEFINE B == A \cup (n + 1..n + k)
           c == Cardinality(A)
<1>1. c \in Nat /\ Cardinality(B) = c + k
  BY Upto, Appended
<1>2. ASSUME NEW x \in A PROVE Cardinality(Before(B, x)) = Cardinality(Before(A, x))
  <2>1. Before(B, x) = Before(A, x)
    BY DEF Before
  <2> QED BY <2>1
<1>3. ASSUME NEW j \in 1..k PROVE Cardinality(Before(B, n + j)) = c + (j - 1)
  <2>1. Before(B, n + j) = A \cup (n + 1..n + (j - 1))
    <3>1. \A y \in A : y \in Int /\ y < n + j
      OBVIOUS
    <3>2. \A y \in n + 1..n + k : y < n + j <=> y \in n + 1..n + (j - 1)
      OBVIOUS
    <3>3. \A y \in n + 1..n + (j - 1) : y \in n + 1..n + k
      OBVIOUS
    <3> DEFINE I == n + 1..n + k
               J == n + 1..n + (j - 1)
    <3>4. /\ B = A \cup I
          /\ \A y \in I : y < n + j <=> y \in J
          /\ \A y \in J : y \in I
      BY <3>2, <3>3
    <3> HIDE DEF B, I, J
    <3>5. Before(B, n + j) = A \cup J
      BY <3>1, <3>4 DEF Before
    <3> QED BY <3>5 DEF J
  <2> DEFINE p == j - 1
  <2>2. p \in Nat
    OBVIOUS
  <2> HIDE DEF p
  <2>3. Cardinality(A \cup (n + 1..n + p)) = Cardinality(A) + p
    BY <2>2, Appended
  <2> QED BY <2>1, <2>3 DEF p
<1> HIDE DEF B, c
<1>4. ASSUME NEW i \in 1..c
      PROVE  (CHOOSE x \in B : Cardinality(Before(B, x)) = i - 1) = Sorted(A)[i]
  <2>1. ASSUME NEW x
        PROVE  (x \in B /\ Cardinality(Before(B, x)) = i - 1)
               <=> (x \in A /\ Cardinality(Before(A, x)) = i - 1)
    <3>1. CASE x \in A
      BY <1>2, <3>1 DEF B
    <3>2. CASE x \in B /\ x \notin A
      <4>1. x - n \in 1..k /\ n + (x - n) = x
        BY <3>2 DEF B
      <4>2. Cardinality(Before(B, x)) = c + ((x - n) - 1)
        BY <1>3, <4>1
      <4> QED BY <1>1, <3>2, <4>1, <4>2
    <3>3. CASE x \notin B /\ x \notin A
      BY <3>3
    <3> QED BY <3>1, <3>2, <3>3 DEF B
  <2>2. (CHOOSE x : x \in B /\ Cardinality(Before(B, x)) = i - 1)
        = (CHOOSE x : x \in A /\ Cardinality(Before(A, x)) = i - 1)
    BY <2>1, Zenon
  <2>3. Sorted(A)[i] = CHOOSE x \in A : Cardinality(Before(A, x)) = i - 1
    BY DEF Sorted, Before, c
  <2> QED BY <2>2, <2>3
<1>5. ASSUME NEW i \in c + 1..c + k
      PROVE  (CHOOSE x \in B : Cardinality(Before(B, x)) = i - 1) = n + (i - c)
  <2>1. i - c \in 1..k /\ n + (i - c) \in B
    BY <1>1 DEF B
  <2>2. Cardinality(Before(B, n + (i - c))) = i - 1
    BY <1>1, <1>3, <2>1
  <2>3. ASSUME NEW x \in B, Cardinality(Before(B, x)) = i - 1
        PROVE  x = n + (i - c)
    <3>1. CASE x \in A
      <4>1. Cardinality(Before(A, x)) \in Nat /\ Cardinality(Before(A, x)) < c
        BY <3>1, RankIn DEF c
      <4> QED BY <1>1, <1>2, <2>3, <3>1, <4>1
    <3>2. CASE x \notin A
      <4>1. x - n \in 1..k /\ n + (x - n) = x
        BY <3>2 DEF B
      <4>2. Cardinality(Before(B, x)) = c + ((x - n) - 1)
        BY <1>3, <4>1
      <4> QED BY <1>1, <2>3, <4>1, <4>2
    <3> QED BY <3>1, <3>2
  <2> QED BY <2>1, <2>2, <2>3
<1>6. Sorted(B) = [i \in 1..c + k |->
                     CHOOSE x \in B : Cardinality(Before(B, x)) = i - 1]
  BY <1>1 DEF Sorted, Before
<1>7. \A i \in 1..c + k : i \in 1..c \/ i \in c + 1..c + k
  BY <1>1
<1>8. \A i \in c + 1..c + k : ~(i <= c)
  BY <1>1
<1>9. Sorted(B) = [i \in 1..c + k |-> IF i <= c THEN Sorted(A)[i] ELSE n + (i - c)]
  BY <1>1, <1>4, <1>5, <1>6, <1>7, <1>8
<1> QED BY <1>9 DEF B, c

\* The sequence has the elements of the set, and no others.
LEMMA SortedIn ==
  ASSUME NEW n \in Nat, NEW A \in SUBSET (1..n)
  PROVE  Sorted(A) \in [1..Cardinality(A) -> A]
<1> DEFINE T == {m \in Nat : \A S \in SUBSET (1..m) : Sorted(S) \in [1..Cardinality(S) -> S]}
<1>1. 0 \in T
  <2>1. \A S \in SUBSET (1..0) : S = {}
    OBVIOUS
  <2>2. Cardinality({}) = 0 /\ 1..0 = {}
    BY FS_EmptySet
  <2>3. Sorted({}) = [i \in 1..0 |-> CHOOSE x \in {} : Cardinality({y \in {} : y < x}) = i - 1]
    BY <2>2, Zenon DEF Sorted
  <2>4. Sorted({}) \in [1..0 -> {}]
    BY <2>2, <2>3, Zenon
  <2> QED BY <2>1, <2>2, <2>4
<1>2. ASSUME NEW m \in Nat, m \in T PROVE m + 1 \in T
  <2> SUFFICES ASSUME NEW S \in SUBSET (1..(m + 1)) PROVE Sorted(S) \in [1..Cardinality(S) -> S]
    OBVIOUS
  <2>1. CASE m + 1 \notin S
    <3>1. S \in SUBSET (1..m)
      BY <2>1
    <3> QED BY <1>2, <3>1
  <2>2. CASE m + 1 \in S
    <3> DEFINE R == S \ {m + 1}
               c == Cardinality(R)
    <3>1. R \in SUBSET (1..m) /\ S = R \cup (m + 1..m + 1)
      BY <2>2
    <3>2. c \in Nat /\ Cardinality(S) = c + 1
      <4> HIDE DEF R
      <4>1. Cardinality(R \cup (m + 1..m + 1)) = Cardinality(R) + 1
        BY <3>1, Appended
      <4> QED BY <3>1, <4>1, Upto
    <3>3. Sorted(R) \in [1..c -> R]
      BY <1>2, <3>1
    <3>4. Sorted(S) = [i \in 1..c + 1 |-> IF i <= c THEN Sorted(R)[i] ELSE m + (i - c)]
      <4> HIDE DEF R
      <4>1. Sorted(R \cup (m + 1..m + 1)) =
              [i \in 1..Cardinality(R) + 1 |->
                 IF i <= Cardinality(R) THEN Sorted(R)[i] ELSE m + (i - Cardinality(R))]
        BY <3>1, SortedAppends
      <4> QED BY <3>1, <4>1
    <3> HIDE DEF R, c
    <3>5. ASSUME NEW i \in 1..c + 1
          PROVE  (IF i <= c THEN Sorted(R)[i] ELSE m + (i - c)) \in S
      <4>1. CASE i <= c
        BY <3>1, <3>2, <3>3, <4>1
      <4>2. CASE i = c + 1
        BY <2>2, <3>2, <4>2
      <4> QED BY <3>2, <4>1, <4>2
    <3> QED BY <3>2, <3>4, <3>5
  <2> QED BY <2>1, <2>2
<1> HIDE DEF T
<1>3. n \in T
  BY <1>1, <1>2, NatInduct
<1> QED BY <1>3 DEF T

----------------------------------------------------------------------------
\* A smaller element has fewer before it.
LEMMA RankGrows ==
  ASSUME NEW n \in Nat, NEW A \in SUBSET (1..n), NEW x \in A, NEW y \in A, x < y
  PROVE  Cardinality(Before(A, x)) < Cardinality(Before(A, y))
<1> DEFINE B == Before(A, y)
<1>1. B \in SUBSET (1..n) /\ x \in B
  BY DEF Before
<1>2. Before(B, x) = Before(A, x)
  <2>1. \A z \in A : z < x => z < y
    OBVIOUS
  <2> QED BY <2>1 DEF Before
<1> HIDE DEF B
<1>3. Cardinality(Before(B, x)) < Cardinality(B)
  BY <1>1, RankIn
<1> QED BY <1>2, <1>3 DEF B

\* Every element stands where as many stand before it.
LEMMA SortedAt ==
  ASSUME NEW n \in Nat, NEW A \in SUBSET (1..n), NEW x \in A
  PROVE  /\ Cardinality(Before(A, x)) + 1 \in 1..Cardinality(A)
         /\ Sorted(A)[Cardinality(Before(A, x)) + 1] = x
<1> DEFINE c == Cardinality(A)
           k == Cardinality(Before(A, x))
<1>1. c \in Nat /\ k \in Nat /\ k < c
  BY Upto, RankIn
<1>2. ASSUME NEW y \in A, Cardinality(Before(A, y)) = k PROVE y = x
  <2>1. x \in 1..n /\ y \in 1..n
    OBVIOUS
  <2>2. ~(x < y)
    <3> SUFFICES ASSUME x < y PROVE FALSE
      OBVIOUS
    <3>1. Cardinality(Before(A, x)) < Cardinality(Before(A, y))
      BY RankGrows
    <3> QED BY <1>1, <1>2, <3>1
  <2>3. ~(y < x)
    <3> SUFFICES ASSUME y < x PROVE FALSE
      OBVIOUS
    <3>1. Cardinality(Before(A, y)) < Cardinality(Before(A, x))
      BY RankGrows
    <3> QED BY <1>1, <1>2, <3>1
  <2> QED BY <2>1, <2>2, <2>3
<1>3. (CHOOSE y \in A : Cardinality(Before(A, y)) = k) = x
  BY <1>2
<1>4. Sorted(A) = [i \in 1..c |-> CHOOSE y \in A : Cardinality(Before(A, y)) = i - 1]
  BY DEF Sorted, Before
<1> HIDE DEF c, k
<1>5. k + 1 \in 1..c /\ (k + 1) - 1 = k
  BY <1>1
<1>6. Sorted(A)[k + 1] = CHOOSE y \in A : Cardinality(Before(A, y)) = k
  BY <1>4, <1>5
<1> QED BY <1>3, <1>5, <1>6 DEF c, k

\* Every place is taken by the element with as many before it.
LEMMA SortedRank ==
  ASSUME NEW n \in Nat, NEW A \in SUBSET (1..n), NEW i \in 1..Cardinality(A)
  PROVE  Sorted(A)[i] \in A /\ Cardinality(Before(A, Sorted(A)[i])) = i - 1
<1> DEFINE c == Cardinality(A)
           rank == [x \in A |-> Cardinality(Before(A, x)) + 1]
<1>1. c \in Nat /\ IsFiniteSet(A) /\ IsFiniteSet(1..c) /\ Cardinality(1..c) = c
  <2>1. c \in Nat /\ IsFiniteSet(A)
    BY Upto
  <2> HIDE DEF c
  <2>2. IsFiniteSet(1..c) /\ Cardinality(1..c) = IF 1 > c THEN 0 ELSE c - 1 + 1
    BY <2>1, FS_Interval
  <2> QED BY <2>1, <2>2
<1>2. \A x \in A : rank[x] \in 1..c /\ Cardinality(Before(A, x)) \in Nat
  BY SortedAt, RankIn
<1>3. rank \in [A -> 1..c]
  BY <1>2
<1>4. ASSUME NEW x \in A, NEW y \in A, rank[x] = rank[y] PROVE x = y
  <2>1. Cardinality(Before(A, x)) = Cardinality(Before(A, y))
    BY <1>2, <1>4
  <2>2. x \in 1..n /\ y \in 1..n /\ Cardinality(Before(A, x)) \in Nat
    BY <1>2
  <2>3. ~(x < y)
    <3> SUFFICES ASSUME x < y PROVE FALSE
      OBVIOUS
    <3>1. Cardinality(Before(A, x)) < Cardinality(Before(A, y))
      BY RankGrows
    <3> QED BY <2>1, <2>2, <3>1
  <2>4. ~(y < x)
    <3> SUFFICES ASSUME y < x PROVE FALSE
      OBVIOUS
    <3>1. Cardinality(Before(A, y)) < Cardinality(Before(A, x))
      BY RankGrows
    <3> QED BY <2>1, <2>2, <3>1
  <2> QED BY <2>2, <2>3, <2>4
<1> HIDE DEF rank
<1>5. rank \in Injection(A, 1..c)
  BY <1>3, <1>4 DEF Injection, IsInjective
<1>6. rank \in Surjection(A, 1..c)
  BY <1>1, <1>5, FS_Injection
<1>7. PICK x \in A : rank[x] = i
  BY <1>6 DEF Surjection
<1>8. Cardinality(Before(A, x)) + 1 = i
  BY <1>7 DEF rank
<1>9. Sorted(A)[i] = x
  BY <1>8, SortedAt
<1> QED BY <1>2, <1>8, <1>9

----------------------------------------------------------------------------
(* Flattened sequences.                                                    *)

\* The results after 0, 1, .. n sequences.
LEMMA Flattened ==
  ASSUME NEW S, NEW ss \in Seq(Seq(S))
  PROVE  \E F \in [0..Len(ss) -> Seq(S)] :
           /\ F[0] = <<>>
           /\ \A k \in 1..Len(ss) : F[k] = F[k - 1] \o ss[k]
           /\ FlattenSeq(ss) = F[Len(ss)]
<1> DEFINE n == Len(ss)
           step == [p \in Seq(S) \X (1..n) |-> p[1] \o ss[p[2]]]
           rec(g) == [i \in 1..n |-> IF i = 1 THEN ss[i] ELSE g[i - 1] \o ss[i]]
           it == CHOOSE g : g = rec(g)
<1>1. n \in Nat /\ <<>> \in Seq(S) /\ \A k \in 1..n : ss[k] \in Seq(S)
  OBVIOUS
<1>2. step \in Steps(Seq(S), n)
  BY <1>1, ConcatProperties DEF Steps
<1>3. ASSUME NEW a \in Seq(S), NEW k \in 1..n PROVE step[<<a, k>>] = a \o ss[k]
  OBVIOUS
<1>4. n # 0 => FlattenSeq(ss) = it[n]
  BY DEF FlattenSeq
<1> HIDE DEF step, it, n
<1>5. PICK h : IsFold(h, Seq(S), <<>>, n, step)
  BY <1>1, <1>2, FoldExists
<1>6. PICK F : IsRun(F, h, Seq(S), <<>>, n, step)
  <2>1. h[{}] = <<>> /\ \A s \in SUBSET (1..n) :
           s # {} /\ h[s \ {Max(s)}] \in Seq(S) => h[s] = step[<<h[s \ {Max(s)}], Max(s)>>]
    BY <1>5 DEF IsFold
  <2> QED BY <1>1, <1>2, <2>1, FoldRuns
<1>7. F \in [0..n -> Seq(S)] /\ F[0] = <<>>
  BY <1>6 DEF IsRun
<1>8. ASSUME NEW k \in 1..n PROVE F[k] = F[k - 1] \o ss[k]
  <2>1. k - 1 \in 0..n
    BY <1>1
  <2> QED BY <1>3, <1>6, <2>1 DEF IsRun
<1> DEFINE f == [i \in 1..n |-> F[i]]
<1>9. f = rec(f)
  <2> SUFFICES ASSUME NEW i \in 1..n
               PROVE  F[i] = IF i = 1 THEN ss[i] ELSE f[i - 1] \o ss[i]
    OBVIOUS
  <2>1. CASE i = 1
    <3>1. F[1] = F[0] \o ss[1] /\ ss[1] \in Seq(S)
      <4>1. 1 \in 1..n /\ 1 - 1 = 0
        BY <2>1
      <4> QED BY <1>1, <1>8, <4>1
    <3> QED BY <1>7, <2>1, <3>1, ConcatEmptySeq
  <2>2. CASE i # 1
    <3>1. i - 1 \in 1..n
      BY <1>1, <2>2
    <3> QED BY <1>8, <2>2, <3>1
  <2> QED BY <2>1, <2>2
<1> HIDE DEF f
<1>10. it = rec(it)
  BY <1>9 DEF it
<1> DEFINE T == {k \in Nat : k + 1 \in 1..n => it[k + 1] = F[k + 1]}
<1>11. ASSUME NEW i \in 1..n, i # 1 => it[i - 1] = F[i - 1]
       PROVE  it[i] = F[i]
  <2>1. it[i] = IF i = 1 THEN ss[i] ELSE it[i - 1] \o ss[i]
    BY <1>10
  <2>2. CASE i = 1
    <3>1. F[1] = F[0] \o ss[1] /\ ss[1] \in Seq(S)
      <4>1. 1 \in 1..n /\ 1 - 1 = 0
        BY <2>2
      <4> QED BY <1>1, <1>8, <4>1
    <3> QED BY <1>7, <2>1, <2>2, <3>1, ConcatEmptySeq
  <2>3. CASE i # 1
    BY <1>8, <1>11, <2>1, <2>3
  <2> QED BY <2>2, <2>3
<1>12. 0 \in T
  BY <1>11
<1>13. ASSUME NEW k \in Nat, k \in T PROVE k + 1 \in T
  <2> SUFFICES ASSUME (k + 1) + 1 \in 1..n PROVE it[(k + 1) + 1] = F[(k + 1) + 1]
    OBVIOUS
  <2>1. k + 1 \in 1..n /\ ((k + 1) + 1) - 1 = k + 1
    BY <1>1
  <2> QED BY <1>11, <1>13, <2>1
<1> HIDE DEF T
<1>14. \A k \in Nat : k \in T
  BY <1>12, <1>13, NatInduct
<1>15. ASSUME n # 0 PROVE it[n] = F[n]
  <2>1. n - 1 \in Nat /\ (n - 1) + 1 = n /\ n \in 1..n
    BY <1>1, <1>15
  <2> QED BY <1>14, <2>1 DEF T
<1>16. FlattenSeq(ss) = F[n]
  <2>1. CASE n = 0
    <3>1. FlattenSeq(ss) = ss /\ ss = <<>>
      BY <2>1 DEF FlattenSeq, n
    <3> QED BY <1>7, <2>1, <3>1
  <2> QED BY <1>4, <1>15, <2>1
<1> QED BY <1>7, <1>8, <1>16 DEF n

LEMMA FlattenEmpty == FlattenSeq(<<>>) = <<>>
BY DEF FlattenSeq

\* Pieces over S make a sequence over S.
LEMMA FlattenIn ==
  ASSUME NEW S, NEW ss \in Seq(Seq(S))
  PROVE  FlattenSeq(ss) \in Seq(S)
<1>1. PICK F \in [0..Len(ss) -> Seq(S)] : FlattenSeq(ss) = F[Len(ss)]
  BY Flattened
<1>2. Len(ss) \in 0..Len(ss)
  OBVIOUS
<1> QED BY <1>1, <1>2

\* One sequence more comes last.
LEMMA FlattenAppend ==
  ASSUME NEW S, NEW ss \in Seq(Seq(S)), NEW s \in Seq(S)
  PROVE  FlattenSeq(Append(ss, s)) = FlattenSeq(ss) \o s
<1> DEFINE n == Len(ss)
           tt == Append(ss, s)
<1>1. /\ n \in Nat /\ tt \in Seq(Seq(S)) /\ Len(tt) = n + 1 /\ tt[n + 1] = s
      /\ \A i \in 1..n : tt[i] = ss[i]
  BY AppendProperties
<1>2. PICK F \in [0..n -> Seq(S)] :
           /\ F[0] = <<>>
           /\ \A k \in 1..n : F[k] = F[k - 1] \o ss[k]
           /\ FlattenSeq(ss) = F[n]
  BY Flattened
<1> HIDE DEF tt, n
<1>3. PICK G \in [0..n + 1 -> Seq(S)] :
           /\ G[0] = <<>>
           /\ \A k \in 1..n + 1 : G[k] = G[k - 1] \o tt[k]
           /\ FlattenSeq(tt) = G[n + 1]
  <2>1. PICK G \in [0..Len(tt) -> Seq(S)] :
           /\ G[0] = <<>>
           /\ \A k \in 1..Len(tt) : G[k] = G[k - 1] \o tt[k]
           /\ FlattenSeq(tt) = G[Len(tt)]
    BY <1>1, Flattened
  <2> QED BY <1>1, <2>1
<1> DEFINE T == {k \in Nat : k <= n => F[k] = G[k]}
<1>4. 0 \in T
  BY <1>2, <1>3
<1>5. ASSUME NEW k \in Nat, k \in T PROVE k + 1 \in T
  <2> SUFFICES ASSUME k + 1 <= n PROVE F[k + 1] = G[k + 1]
    OBVIOUS
  <2>1. k + 1 \in 1..n /\ k + 1 \in 1..n + 1 /\ (k + 1) - 1 = k /\ F[k] = G[k]
    BY <1>1, <1>5
  <2> QED BY <1>1, <1>2, <1>3, <2>1
<1> HIDE DEF T
<1>6. F[n] = G[n]
  <2>1. n \in T
    BY <1>1, <1>4, <1>5, NatInduct
  <2> QED BY <1>1, <2>1 DEF T
<1>7. n + 1 \in 1..n + 1 /\ (n + 1) - 1 = n
  <2>1. n \in Nat
    BY <1>1
  <2> QED BY <2>1
<1>8. G[n + 1] = G[n] \o s
  BY <1>1, <1>3, <1>7
<1> QED BY <1>2, <1>3, <1>6, <1>8 DEF tt
\* A set of numbers that is not empty has a smallest.
LEMMA MinOf ==
  ASSUME NEW s \in SUBSET Nat, s # {}
  PROVE  Min(s) \in s /\ \A y \in s : Min(s) <= y
<1>1. PICK x \in s : \A y \in s : ~(<<y, x>> \in OpToRel(<, Nat))
  BY NatLessThanWellFounded, WFMin
<1>2. x \in s /\ \A y \in s : x <= y
  <2> SUFFICES ASSUME NEW y \in s PROVE x <= y
    BY <1>1
  <2>1. ~(y < x)
    BY <1>1 DEF OpToRel
  <2> QED BY <2>1
<1>3. Min(s) = CHOOSE z \in s : \A y \in s : z <= y
  BY DEF Min
<1> QED BY <1>2, <1>3, Zenon

\* And a largest, if it has a bound.
LEMMA MaxOf ==
  ASSUME NEW n \in Nat, NEW s \in SUBSET (0..n), s # {}
  PROVE  Max(s) \in s /\ \A y \in s : Max(s) >= y
<1> DEFINE d == {n - x : x \in s}
<1>1. d \in SUBSET Nat /\ d # {}
  <2>1. \A x \in s : n - x \in Nat
    OBVIOUS
  <2>2. PICK x \in s : TRUE
    OBVIOUS
  <2>3. n - x \in d
    OBVIOUS
  <2> QED BY <2>1, <2>3
<1>2. Min(d) \in d /\ \A y \in d : Min(d) <= y
  BY <1>1, MinOf
<1>3. PICK x \in s : Min(d) = n - x
  BY <1>2
<1>4. \A y \in s : x >= y
  <2> SUFFICES ASSUME NEW y \in s PROVE x >= y
    OBVIOUS
  <2>1. Min(d) <= n - y
    BY <1>2
  <2>2. x \in Int /\ y \in Int
    OBVIOUS
  <2> HIDE DEF d
  <2> QED BY <1>3, <2>1, <2>2
<1>5. Max(s) = CHOOSE z \in s : \A y \in s : z >= y
  BY DEF Max
<1> QED BY <1>4, <1>5, Zenon

\* One of finitely many things is as large as any.
LEMMA Largest ==
  ASSUME NEW A, IsFiniteSet(A), A # {}, NEW f \in [A -> Nat]
  PROVE  \E m \in A : \A a \in A : f[a] <= f[m]
<1> DEFINE S == {f[a] : a \in A}
<1>1. S \in SUBSET Nat /\ f \in Surjection(A, S) /\ S # {}
  <2>1. \A a \in A : f[a] \in Nat /\ f[a] \in S
    OBVIOUS
  <2>2. f \in [A -> S]
    BY <2>1
  <2>3. PICK a \in A : TRUE
    OBVIOUS
  <2> QED BY <2>1, <2>2, <2>3 DEF Surjection
<1> HIDE DEF S
<1>2. IsFiniteSet(S)
  BY <1>1, FS_Surjection
<1>3. PICK n \in Nat : \A x \in S : x <= n
  BY <1>1, <1>2, HasBound
<1>4. S \in SUBSET (0..n)
  BY <1>1, <1>3
<1>5. Max(S) \in S /\ \A y \in S : Max(S) >= y
  BY <1>1, <1>4, MaxOf
<1>6. PICK m \in A : Max(S) = f[m]
  BY <1>5 DEF S
<1>7. \A a \in A : f[a] \in S /\ f[a] \in Nat
  BY <1>1 DEF S
<1>8. \A a \in A : f[a] <= f[m]
  BY <1>5, <1>6, <1>7
<1> QED BY <1>8

\* A set in order is a sequence of its elements, each once.
LEMMA SortedSeq ==
  ASSUME NEW n \in Nat, NEW A \in SUBSET (1..n)
  PROVE  /\ Sorted(A) \in Seq(A) /\ Len(Sorted(A)) = Cardinality(A) /\ Cardinality(A) \in Nat
         /\ \A i, j \in 1..Len(Sorted(A)) : Sorted(A)[i] = Sorted(A)[j] => i = j
         /\ \A x \in A : \E i \in 1..Len(Sorted(A)) : Sorted(A)[i] = x
<1> DEFINE c == Cardinality(A)
           s == Sorted(A)
<1>1. c \in Nat /\ s \in [1..c -> A]
  BY Upto, SortedIn
<1>2. s \in Seq(A) /\ Len(s) = c
  <2> HIDE DEF s, c
  <2> QED BY <1>1, FunIsSeq
<1>3. ASSUME NEW i \in 1..c, NEW j \in 1..c, s[i] = s[j] PROVE i = j
  <2>1. Cardinality(Before(A, s[i])) = i - 1 /\ Cardinality(Before(A, s[j])) = j - 1
    BY SortedRank
  <2>2. i - 1 = j - 1
    BY <1>3, <2>1
  <2>3. i \in Int /\ j \in Int
    BY <1>1
  <2> QED BY <2>2, <2>3
<1>4. \A x \in A : \E i \in 1..c : s[i] = x
  BY SortedAt
<1> QED BY <1>1, <1>2, <1>3, <1>4

=============================================================================
