--------------------------- MODULE BodyEditProofs ---------------------------
(***************************************************************************)
(* For any body, any handlers and any chain of stubs and text edits:       *)
(*   - every operand, offset and delta stays a number of its field         *)
(*     (BodyTypes);                                                        *)
(*   - a stub takes the source locations behind it along                   *)
(*     (LinesAlwaysFollowInsertions);                                      *)
(*   - handlers that every text states cover and land where they did       *)
(*     (HandlersAlwaysFollow), and the body assembles to itself from its   *)
(*     own text (AlwaysRoundTrips);                                        *)
(*   - every jump goes where it went (JumpsAlwaysFollow), if besides the   *)
(*     body ends plainly and no two labels can meet.                       *)
(* The way there: a text is a body with labels between its instructions    *)
(* (EmitsAs), and a body is a text without them (ParsesAs); either is the  *)
(* other with lines left out (Thins), so offsets agree (ThinOffsets) and   *)
(* what leads to a point does so in both (Leads, LeadsThinned,             *)
(* LeadsThickened).  Instructions stay in the order of the program         *)
(* (InOrder), which is why leaving one out leads to the next.              *)
(***************************************************************************)
EXTENDS BodyEdit, DataFacts

----------------------------------------------------------------------------
(* Sums and offsets.                                                        *)

\* The sums of 0, 1, .. n numbers.
LEMMA Totals ==
  ASSUME NEW ns \in Seq(Nat)
  PROVE  \E F \in [0..Len(ns) -> Nat] :
           /\ F[0] = 0
           /\ \A k \in 1..Len(ns) : F[k] = F[k - 1] + ns[k]
           /\ Total(ns) = F[Len(ns)]
<1> DEFINE n == Len(ns)
           D == DOMAIN ns
           step == [p \in Nat \X (1..n) |-> p[1] + ns[p[2]]]
           rec(g) == [s \in SUBSET D |-> IF s = {} THEN 0
                                         ELSE g[s \ {Max(s)}] + ns[Max(s)]]
           it == CHOOSE g : g = rec(g)
<1>1. n \in Nat /\ D = 1..n /\ \A k \in 1..n : ns[k] \in Nat
  OBVIOUS
<1>2. step \in Steps(Nat, n)
  <2>1. ASSUME NEW p \in Nat \X (1..n) PROVE p[1] + ns[p[2]] \in Nat
    BY <1>1
  <2> QED BY <2>1 DEF Steps
<1>3. Total(ns) = it[D]
  BY DEF Total, FoldLeft, MapThenFoldSet
<1>4. ASSUME NEW s \in SUBSET (1..n), s # {} PROVE Max(s) \in 1..n
  BY <1>1, <1>4, MaxIn
<1>5. ASSUME NEW a \in Nat, NEW k \in 1..n PROVE step[<<a, k>>] = a + ns[k]
  OBVIOUS
<1> HIDE DEF step, D, it, n
<1>6. PICK h : IsFold(h, Nat, 0, n, step)
  BY <1>1, <1>2, FoldExists
<1>7. h = rec(h)
  <2>1. ASSUME NEW s \in SUBSET (1..n), s # {} PROVE h[s \ {Max(s)}] \in Nat
    <3>1. s \ {Max(s)} \in SUBSET (1..n)
      OBVIOUS
    <3> QED BY <3>1, <1>6 DEF IsFold
  <2>2. h = [s \in SUBSET (1..n) |-> h[s]]
    BY <1>6 DEF IsFold
  <2>3. ASSUME NEW s \in SUBSET (1..n)
        PROVE  h[s] = IF s = {} THEN 0 ELSE h[s \ {Max(s)}] + ns[Max(s)]
    BY <2>1, <1>4, <1>5, <1>6 DEF IsFold
  <2> QED BY <2>2, <2>3, <1>1
<1> HIDE DEF rec
<1>8. it = rec(it)
  BY <1>7 DEF it
<1>9. \A s \in SUBSET (1..n) :
        it[s] = IF s = {} THEN 0 ELSE it[s \ {Max(s)}] + ns[Max(s)]
  BY <1>1, <1>8 DEF rec
<1>10. PICK F : IsRun(F, it, Nat, 0, n, step)
  <2>1. ASSUME NEW s \in SUBSET (1..n), s # {}, it[s \ {Max(s)}] \in Nat
        PROVE  it[s] = step[<<it[s \ {Max(s)}], Max(s)>>]
    BY <2>1, <1>4, <1>5, <1>9
  <2>2. it[{}] = 0
    BY <1>9
  <2>3. 0 \in Nat /\ n \in Nat
    BY <1>1
  <2> QED BY <1>2, <2>1, <2>2, <2>3, FoldRuns, Zenon
<1>11. ASSUME NEW k \in 1..n PROVE F[k] = F[k - 1] + ns[k]
  <2>1. k - 1 \in 0..n
    BY <1>1
  <2> QED BY <2>1, <1>5, <1>10 DEF IsRun
<1>12. n \in 0..n /\ F[n] = it[1..n]
  BY <1>1, <1>10 DEF IsRun
<1> QED BY <1>1, <1>3, <1>10, <1>11, <1>12 DEF IsRun, n

\* Sums are determined by their steps.
LEMMA SameSums ==
  ASSUME NEW n \in Nat, NEW F, NEW G, NEW ns \in [1..n -> Nat], F[0] = G[0],
         \A k \in 1..n : F[k] = F[k - 1] + ns[k] /\ G[k] = G[k - 1] + ns[k]
  PROVE  F[n] = G[n]
<1> DEFINE T == {k \in Nat : k <= n => F[k] = G[k]}
<1>1. 0 \in T
  OBVIOUS
<1>2. ASSUME NEW k \in Nat, k \in T PROVE k + 1 \in T
  <2> SUFFICES ASSUME k + 1 <= n PROVE F[k + 1] = G[k + 1]
    OBVIOUS
  <2>1. k + 1 \in 1..n /\ (k + 1) - 1 = k /\ F[k] = G[k]
    BY <1>2
  <2> QED BY <2>1
<1> HIDE DEF T
<1>3. n \in T
  BY <1>1, <1>2, NatInduct
<1> QED BY <1>3 DEF T

\* One number more.
LEMMA TotalStart ==
  ASSUME NEW ns \in Seq(Nat)
  PROVE  /\ Total(SubSeq(ns, 1, 0)) = 0
         /\ \A k \in 1..Len(ns) :
              Total(SubSeq(ns, 1, k)) = Total(SubSeq(ns, 1, k - 1)) + ns[k]
         /\ \A k \in 0..Len(ns) : Total(SubSeq(ns, 1, k)) \in Nat
<1> DEFINE n == Len(ns)
<1>1. PICK F \in [0..n -> Nat] : /\ F[0] = 0
                                 /\ \A k \in 1..n : F[k] = F[k - 1] + ns[k]
  BY Totals
<1>2. ASSUME NEW k \in 0..n PROVE Total(SubSeq(ns, 1, k)) = F[k]
  <2> DEFINE t == SubSeq(ns, 1, k)
  <2>1. t \in Seq(Nat) /\ Len(t) = k /\ \A i \in 1..k : t[i] = ns[i]
    BY Start
  <2> HIDE DEF t
  <2>2. PICK G \in [0..k -> Nat] : /\ G[0] = 0
                                   /\ \A i \in 1..k : G[i] = G[i - 1] + t[i]
                                   /\ Total(t) = G[k]
    <3>1. PICK G \in [0..Len(t) -> Nat] : /\ G[0] = 0
                                   /\ \A i \in 1..Len(t) : G[i] = G[i - 1] + t[i]
                                   /\ Total(t) = G[Len(t)]
      BY <2>1, Totals
    <3> QED BY <2>1, <3>1
  <2>3. t \in [1..k -> Nat] /\ k \in Nat
    BY <2>1
  <2>4. ASSUME NEW i \in 1..k PROVE F[i] = F[i - 1] + t[i] /\ G[i] = G[i - 1] + t[i]
    <3>1. i \in 1..n
      OBVIOUS
    <3>2. F[i] = F[i - 1] + ns[i]
      BY <1>1, <3>1
    <3> QED BY <3>2, <2>1, <2>2
  <2>5. F[0] = G[0]
    BY <1>1, <2>2
  <2> HIDE DEF n
  <2>6. F[k] = G[k]
    BY <2>3, <2>4, <2>5, SameSums, Zenon
  <2> QED BY <2>2, <2>6 DEF t
<1>3. 0 \in 0..n /\ \A k \in 1..n : k \in 0..n /\ k - 1 \in 0..n
  OBVIOUS
<1> HIDE DEF n
<1>4. ASSUME NEW k \in 1..n PROVE Total(SubSeq(ns, 1, k)) = Total(SubSeq(ns, 1, k - 1)) + ns[k]
  BY <1>1, <1>2, <1>3
<1>5. ASSUME NEW k \in 0..n PROVE Total(SubSeq(ns, 1, k)) \in Nat
  BY <1>1, <1>2
<1> QED BY <1>1, <1>2, <1>3, <1>4, <1>5 DEF n

AddedIds == {"nop", "log", "new"}

\* What kind an instruction of a name is.
Known == {<<Program[i].id, Program[i].kind>> : i \in DOMAIN Program}
         \union {<<a, a>> : a \in AddedIds}

Instructions ==
  {x \in [id : Ids \union AddedIds, kind : Kinds \union AddedIds,
          len : Nat \ {0}, rel : Int] :
     <<x.id, x.kind>> \in Known /\ (x.kind \notin Addressing => x.rel = 0)}

Lines ==
  {x \in [id : Ids \union AddedIds \union {"label"},
          kind : Kinds \union AddedIds \union {"label"}, len : Nat, name : Int] :
     \/ x.id = "label" /\ x.kind = "label" /\ x.len = 0
     \/ <<x.id, x.kind>> \in Known /\ x.kind # "label" /\ x.len # 0}

Originals ==
  [id : Ids, kind : Kinds, len : Nat \ {0}, dest : {Program[i].dest : i \in DOMAIN Program}]

Items == Instructions \union Lines \union Originals

LEMMA ItemLen == \A x \in Items : x.len \in Nat
BY DEF Items, Instructions, Lines, Originals

LEMMA ItemSeqs ==
  /\ Seq(Instructions) \subseteq Seq(Items) /\ Seq(Lines) \subseteq Seq(Items)
  /\ Program \in Seq(Items)
<1>1. Instructions \in SUBSET Items /\ Lines \in SUBSET Items /\ Originals \in SUBSET Items
  BY DEF Items
<1>2. Program \in Seq(Originals)
  BY ProgramAssumption DEF Originals
<1> HIDE DEF Items, Instructions, Lines, Originals
<1> QED BY <1>1, <1>2, WiderSeq

\* Offsets are sums of lengths.
LEMMA Offsets ==
  ASSUME NEW s \in Seq(Items)
  PROVE  /\ OffsetOf(s, 1) = 0
         /\ \A i \in 1..Len(s) : OffsetOf(s, i + 1) = OffsetOf(s, i) + s[i].len
         /\ \A i \in 1..Len(s) + 1 : OffsetOf(s, i) \in Nat
         /\ OffsetOf(s, Len(s) + 1) = Size(s)
<1> DEFINE n == Len(s)
           ns == [i \in 1..n |-> s[i].len]
<1>1. n \in Nat /\ DOMAIN s = 1..n /\ \A i \in 1..n : s[i] \in Items
  OBVIOUS
<1>2. ns \in Seq(Nat) /\ Len(ns) = n /\ \A i \in 1..n : ns[i] = s[i].len
  <2>1. ns \in [1..n -> Nat]
    BY <1>1, ItemLen
  <2>2. \A i \in 1..n : ns[i] = s[i].len
    OBVIOUS
  <2> HIDE DEF ns, n
  <2> QED BY <1>1, <2>1, <2>2, FunIsSeq
<1>3. ASSUME NEW i \in 1..n + 1 PROVE OffsetOf(s, i) = Total(SubSeq(ns, 1, i - 1))
  <2> DEFINE t == SubSeq(s, 1, i - 1)
             u == SubSeq(ns, 1, i - 1)
             w == [j \in DOMAIN t |-> t[j].len]
  <2>0. i - 1 \in Nat /\ i - 1 <= n /\ i - 1 <= Len(s) /\ n = Len(s)
    BY <1>1
  <2>1. t \in Seq(Items) /\ Len(t) = i - 1 /\ \A j \in 1..i - 1 : t[j] = s[j]
    BY <2>0, Start
  <2>2. u \in Seq(Nat) /\ Len(u) = i - 1 /\ \A j \in 1..i - 1 : u[j] = ns[j]
    <3> HIDE DEF ns
    <3> QED BY <1>2, <2>0, Start
  <2>3. OffsetOf(s, i) = Total(w)
    BY DEF OffsetOf, Size
  <2> HIDE DEF t, u, ns, n
  <2>4. DOMAIN t = 1..i - 1 /\ DOMAIN u = 1..i - 1
    BY <2>1, <2>2
  <2>5. w = u
    <3>1. \A j \in 1..i - 1 : j \in 1..n
      BY <2>0
    <3>2. \A j \in 1..i - 1 : t[j].len = u[j]
      BY <1>2, <2>1, <2>2, <3>1
    <3>3. u = [j \in 1..i - 1 |-> u[j]]
      BY <2>2, <2>4
    <3> QED BY <2>4, <3>2, <3>3
  <2> QED BY <2>3, <2>5 DEF u
<1>4. Size(s) = Total(SubSeq(ns, 1, n))
  <2>1. Size(s) = Total(ns)
    BY <1>1 DEF Size
  <2>2. SubSeq(ns, 1, n) = ns
    <3> HIDE DEF ns
    <3> QED BY <1>2
  <2> QED BY <2>1, <2>2
<1> HIDE DEF ns
<1>5. /\ Total(SubSeq(ns, 1, 0)) = 0
      /\ \A k \in 1..n : Total(SubSeq(ns, 1, k)) = Total(SubSeq(ns, 1, k - 1)) + ns[k]
      /\ \A k \in 0..n : Total(SubSeq(ns, 1, k)) \in Nat
  <2>1. /\ Total(SubSeq(ns, 1, 0)) = 0
        /\ \A k \in 1..Len(ns) : Total(SubSeq(ns, 1, k)) = Total(SubSeq(ns, 1, k - 1)) + ns[k]
        /\ \A k \in 0..Len(ns) : Total(SubSeq(ns, 1, k)) \in Nat
    BY <1>2, TotalStart, Zenon
  <2> QED BY <1>2, <2>1
<1> HIDE DEF n
<1>6. OffsetOf(s, 1) = 0
  <2>1. 1 \in 1..n + 1 /\ 1 - 1 = 0
    BY <1>1
  <2> QED BY <1>3, <1>5, <2>1
<1>7. ASSUME NEW i \in 1..n PROVE OffsetOf(s, i + 1) = OffsetOf(s, i) + s[i].len
  <2>1. i \in 1..n + 1 /\ i + 1 \in 1..n + 1 /\ (i + 1) - 1 = i
    BY <1>1
  <2> QED BY <1>2, <1>3, <1>5, <2>1
<1>8. ASSUME NEW i \in 1..n + 1 PROVE OffsetOf(s, i) \in Nat
  <2>1. i - 1 \in 0..n
    BY <1>1
  <2> QED BY <1>3, <1>5, <2>1
<1>9. OffsetOf(s, n + 1) = Size(s)
  <2>1. n + 1 \in 1..n + 1 /\ (n + 1) - 1 = n
    BY <1>1
  <2> QED BY <1>3, <1>4, <2>1
<1> QED BY <1>6, <1>7, <1>8, <1>9 DEF n

\* What starts with 0 and grows by the lengths is the offsets.
LEMMA OffsetsAre ==
  ASSUME NEW s \in Seq(Items), NEW n \in 0..Len(s), NEW F, F[1] = 0,
         \A i \in 1..n : F[i + 1] = F[i] + s[i].len
  PROVE  \A i \in 1..n + 1 : OffsetOf(s, i) = F[i]
<1> DEFINE T == {k \in Nat : k <= n => OffsetOf(s, k + 1) = F[k + 1]}
<1>1. 0 \in T
  BY Offsets
<1>2. ASSUME NEW k \in Nat, k \in T PROVE k + 1 \in T
  <2> SUFFICES ASSUME k + 1 <= n PROVE OffsetOf(s, (k + 1) + 1) = F[(k + 1) + 1]
    OBVIOUS
  <2>1. k + 1 \in 1..n /\ k + 1 \in 1..Len(s)
    OBVIOUS
  <2>2. OffsetOf(s, k + 1) = F[k + 1]
    BY <1>2
  <2>3. OffsetOf(s, (k + 1) + 1) = OffsetOf(s, k + 1) + s[k + 1].len
    BY <2>1, Offsets
  <2> QED BY <2>1, <2>2, <2>3
<1> HIDE DEF T
<1>3. \A k \in Nat : k \in T
  BY <1>1, <1>2, NatInduct
<1> SUFFICES ASSUME NEW i \in 1..n + 1 PROVE OffsetOf(s, i) = F[i]
  OBVIOUS
<1>4. i - 1 \in T /\ i - 1 <= n /\ (i - 1) + 1 = i
  BY <1>3
<1> QED BY <1>4 DEF T

\* Later instructions have greater offsets.
LEMMA OffsetsGrow ==
  ASSUME NEW s \in Seq(Items), NEW i \in 1..Len(s) + 1, NEW j \in 1..Len(s) + 1, i <= j
  PROVE  /\ OffsetOf(s, i) <= OffsetOf(s, j)
         /\ i < j /\ s[i].len # 0 => OffsetOf(s, i) < OffsetOf(s, j)
<1> DEFINE T == {k \in Nat : i + k <= Len(s) + 1 =>
                   /\ OffsetOf(s, i) <= OffsetOf(s, i + k)
                   /\ k # 0 /\ s[i].len # 0 => OffsetOf(s, i) < OffsetOf(s, i + k)}
<1>0. Len(s) \in Nat /\ \A k \in 1..Len(s) + 1 : OffsetOf(s, k) \in Nat
  BY Offsets
<1>1. 0 \in T
  BY <1>0
<1>2. ASSUME NEW k \in Nat, k \in T PROVE k + 1 \in T
  <2> SUFFICES ASSUME i + (k + 1) <= Len(s) + 1
               PROVE  /\ OffsetOf(s, i) <= OffsetOf(s, i + (k + 1))
                      /\ s[i].len # 0 => OffsetOf(s, i) < OffsetOf(s, i + (k + 1))
    OBVIOUS
  <2>1. i + k \in 1..Len(s) /\ i + k \in 1..Len(s) + 1 /\ i + (k + 1) \in 1..Len(s) + 1
        /\ i + (k + 1) = (i + k) + 1 /\ i + k <= Len(s) + 1
    BY <1>0
  <2>2. OffsetOf(s, i + (k + 1)) = OffsetOf(s, i + k) + s[i + k].len
    BY <2>1, Offsets
  <2>3. s[i + k].len \in Nat
    BY <2>1, ItemLen, ElementIn
  <2>4. OffsetOf(s, i) \in Nat /\ OffsetOf(s, i + k) \in Nat
    BY <1>0, <2>1
  <2>5. /\ OffsetOf(s, i) <= OffsetOf(s, i + k)
        /\ k # 0 /\ s[i].len # 0 => OffsetOf(s, i) < OffsetOf(s, i + k)
    BY <1>2, <2>1
  <2>6. OffsetOf(s, i) <= OffsetOf(s, i + (k + 1))
    BY <2>2, <2>3, <2>4, <2>5
  <2>7. ASSUME s[i].len # 0 PROVE OffsetOf(s, i) < OffsetOf(s, i + (k + 1))
    <3>1. CASE k = 0
      <4>1. i + k = i
        BY <3>1
      <4> QED BY <2>2, <2>3, <2>4, <2>7, <4>1
    <3>2. CASE k # 0
      BY <2>2, <2>3, <2>4, <2>5, <2>7, <3>2
    <3> QED BY <3>1, <3>2
  <2> QED BY <2>6, <2>7
<1> HIDE DEF T
<1>3. j - i \in T
  BY <1>1, <1>2, NatInduct
<1>4. i + (j - i) = j /\ (i < j => j - i # 0)
  OBVIOUS
<1> QED BY <1>0, <1>3, <1>4 DEF T

\* What an insertion leaves where.
LEMMA InsertedIs ==
  ASSUME NEW S, NEW s \in Seq(S), NEW new \in Seq(S), NEW i \in 1..Len(s) + 1
  PROVE  /\ InsertedAt(s, i, new) \in Seq(S)
         /\ Len(InsertedAt(s, i, new)) = Len(s) + Len(new)
         /\ \A k \in 1..i - 1 : InsertedAt(s, i, new)[k] = s[k]
         /\ \A k \in 1..Len(new) : InsertedAt(s, i, new)[i - 1 + k] = new[k]
         /\ \A k \in i..Len(s) : InsertedAt(s, i, new)[k + Len(new)] = s[k]
<1> DEFINE a == SubSeq(s, 1, i - 1)
           b == SubSeq(s, i, Len(s))
           r == InsertedAt(s, i, new)
<1>0. Len(s) \in Nat /\ Len(new) \in Nat /\ i - 1 \in Nat /\ (i - 1) + 1 = i
  OBVIOUS
<1>1. a \in Seq(S) /\ Len(a) = i - 1 /\ \A k \in 1..i - 1 : a[k] = s[k]
  BY <1>0, Start
<1>2. /\ b \in Seq(S) /\ Len(b) = Len(s) - (i - 1)
      /\ \A k \in 1..Len(s) - (i - 1) : b[k] = s[k + (i - 1)]
  <2>1. /\ SubSeq(s, (i - 1) + 1, Len(s)) \in Seq(S)
        /\ Len(SubSeq(s, (i - 1) + 1, Len(s))) = IF i - 1 <= Len(s) THEN Len(s) - (i - 1) ELSE 0
        /\ \A k \in 1..Len(s) - (i - 1) : SubSeq(s, (i - 1) + 1, Len(s))[k] = s[k + (i - 1)]
    BY <1>0, Rest
  <2> QED BY <1>0, <2>1
<1>3. r = (a \o new) \o b
  BY DEF InsertedAt
<1> HIDE DEF a, b, r
<1>4. /\ a \o new \in Seq(S) /\ Len(a \o new) = (i - 1) + Len(new)
      /\ \A k \in 1..(i - 1) + Len(new) :
           (a \o new)[k] = IF k <= i - 1 THEN a[k] ELSE new[k - (i - 1)]
  <2>1. a \in Seq(S) /\ Len(a) = i - 1
    BY <1>1
  <2>2. /\ a \o new \in Seq(S) /\ Len(a \o new) = Len(a) + Len(new)
        /\ \A k \in 1..Len(a) + Len(new) :
             (a \o new)[k] = IF k <= Len(a) THEN a[k] ELSE new[k - Len(a)]
    BY <2>1, ConcatProperties
  <2> QED BY <2>1, <2>2
<1> DEFINE w == a \o new
<1>5. /\ r \in Seq(S) /\ Len(r) = Len(s) + Len(new)
      /\ \A k \in 1..Len(s) + Len(new) :
           r[k] = IF k <= (i - 1) + Len(new) THEN w[k] ELSE b[k - ((i - 1) + Len(new))]
  <2>1. w \in Seq(S) /\ b \in Seq(S) /\ Len(w) = (i - 1) + Len(new) /\ r = w \o b
    BY <1>2, <1>3, <1>4
  <2> HIDE DEF w
  <2>2. /\ w \o b \in Seq(S) /\ Len(w \o b) = Len(w) + Len(b)
        /\ \A k \in 1..Len(w) + Len(b) :
             (w \o b)[k] = IF k <= Len(w) THEN w[k] ELSE b[k - Len(w)]
    BY <2>1, ConcatProperties
  <2>3. Len(w) + Len(b) = Len(s) + Len(new)
    BY <1>0, <1>2, <2>1
  <2> QED BY <2>1, <2>2, <2>3
<1>6. ASSUME NEW k \in 1..i - 1 PROVE r[k] = s[k]
  <2>1. k \in 1..Len(s) + Len(new) /\ k \in 1..(i - 1) + Len(new) /\ k <= i - 1
    BY <1>0
  <2> QED BY <1>1, <1>4, <1>5, <2>1
<1>7. ASSUME NEW k \in 1..Len(new) PROVE r[i - 1 + k] = new[k]
  <2>1. /\ i - 1 + k \in 1..Len(s) + Len(new) /\ i - 1 + k \in 1..(i - 1) + Len(new)
        /\ i - 1 + k <= (i - 1) + Len(new)
        /\ ~(i - 1 + k <= i - 1) /\ (i - 1 + k) - (i - 1) = k
    BY <1>0
  <2>2. w[i - 1 + k] = new[k]
    BY <1>4, <2>1
  <2> HIDE DEF w
  <2> QED BY <1>5, <2>1, <2>2
<1>8. ASSUME NEW k \in i..Len(s) PROVE r[k + Len(new)] = s[k]
  <2>1. /\ k + Len(new) \in 1..Len(s) + Len(new)
        /\ ~(k + Len(new) <= (i - 1) + Len(new))
        /\ (k + Len(new)) - ((i - 1) + Len(new)) = k - (i - 1)
        /\ k - (i - 1) \in 1..Len(s) - (i - 1) /\ (k - (i - 1)) + (i - 1) = k
    BY <1>0
  <2> QED BY <1>2, <1>5, <2>1
<1> QED BY <1>5, <1>6, <1>7, <1>8 DEF r

\* The same, as one fact about the result.
Placed(r, s, new, i) ==
  /\ Len(r) = Len(s) + Len(new)
  /\ \A k \in 1..i - 1 : r[k] = s[k]
  /\ \A k \in 1..Len(new) : r[i - 1 + k] = new[k]
  /\ \A k \in i..Len(s) : r[k + Len(new)] = s[k]

LEMMA InsertedPlaced ==
  ASSUME NEW S, NEW s \in Seq(S), NEW new \in Seq(S), NEW i \in 1..Len(s) + 1
  PROVE  /\ InsertedAt(s, i, new) \in Seq(S)
         /\ Placed(InsertedAt(s, i, new), s, new, i)
<1> DEFINE r == InsertedAt(s, i, new)
<1>1. /\ r \in Seq(S)
      /\ Len(r) = Len(s) + Len(new)
      /\ \A k \in 1..i - 1 : r[k] = s[k]
      /\ \A k \in 1..Len(new) : r[i - 1 + k] = new[k]
      /\ \A k \in i..Len(s) : r[k + Len(new)] = s[k]
  BY InsertedIs, Zenon
<1> HIDE DEF r
<1> QED BY <1>1, Zenon DEF Placed, r

\* Every index of what an insertion leaves is one of these.
LEMMA InsertedSplit ==
  ASSUME NEW n \in Nat, NEW m \in Nat, NEW i \in 1..n + 1, NEW k \in 1..n + m
  PROVE  \/ k \in 1..i - 1
         \/ \E j \in 1..m : k = i - 1 + j
         \/ \E j \in i..n : k = j + m
<1>1. CASE k <= i - 1
  BY <1>1
<1>2. CASE i - 1 < k /\ k <= i - 1 + m
  <2>1. k - (i - 1) \in 1..m /\ k = i - 1 + (k - (i - 1))
    BY <1>2
  <2> QED BY <2>1
<1>3. CASE i - 1 + m < k
  <2>1. k - m \in i..n /\ k = (k - m) + m
    BY <1>3
  <2> QED BY <2>1
<1> QED BY <1>1, <1>2, <1>3

\* The offsets of what an insertion leaves.
LEMMA InsertedOffsets ==
  ASSUME NEW s \in Seq(Items), NEW new \in Seq(Items), NEW i \in 1..Len(s) + 1
  PROVE  /\ \A k \in 1..i : OffsetOf(InsertedAt(s, i, new), k) = OffsetOf(s, k)
         /\ \A k \in i..Len(s) + 1 :
              OffsetOf(InsertedAt(s, i, new), k + Len(new)) = OffsetOf(s, k) + Size(new)
         /\ Size(InsertedAt(s, i, new)) = Size(s) + Size(new)
<1> DEFINE r == InsertedAt(s, i, new)
           n == Len(s)
           m == Len(new)
           F == [k \in 1..(n + m) + 1 |->
                   IF k <= i THEN OffsetOf(s, k)
                   ELSE IF k <= i + m THEN OffsetOf(s, i) + OffsetOf(new, k - i + 1)
                   ELSE OffsetOf(s, k - m) + Size(new)]
<1>0. n \in Nat /\ m \in Nat /\ i - 1 \in Nat
  OBVIOUS
<1>1. /\ r \in Seq(Items) /\ Len(r) = n + m
      /\ \A k \in 1..i - 1 : r[k] = s[k]
      /\ \A k \in 1..m : r[i - 1 + k] = new[k]
      /\ \A k \in i..n : r[k + m] = s[k]
  <2> HIDE DEF r
  <2>1. r \in Seq(Items) /\ Placed(r, s, new, i)
    BY InsertedPlaced, Zenon DEF r
  <2> QED BY <2>1, Zenon DEF Placed
<1>2. /\ OffsetOf(s, 1) = 0
      /\ \A k \in 1..n : OffsetOf(s, k + 1) = OffsetOf(s, k) + s[k].len
      /\ \A k \in 1..n + 1 : OffsetOf(s, k) \in Nat
      /\ OffsetOf(s, n + 1) = Size(s)
  BY Offsets
<1>3. /\ OffsetOf(new, 1) = 0
      /\ \A k \in 1..m : OffsetOf(new, k + 1) = OffsetOf(new, k) + new[k].len
      /\ \A k \in 1..m + 1 : OffsetOf(new, k) \in Nat
      /\ OffsetOf(new, m + 1) = Size(new)
  BY Offsets
<1>4. \A k \in 1..n + m : r[k].len \in Nat
  BY <1>1, ItemLen, ElementIn
<1> HIDE DEF r, n, m
<1>4a. i \in 1..n + 1 /\ i \in Nat
  BY <1>0 DEF n
<1>5. F[1] = 0
  <2>1. 1 \in 1..(n + m) + 1 /\ 1 <= i
    BY <1>0, <1>4a
  <2> QED BY <1>2, <2>1
<1>6. ASSUME NEW k \in 1..n + m PROVE F[k + 1] = F[k] + r[k].len
  <2>0. k + 1 \in 1..(n + m) + 1 /\ k \in 1..(n + m) + 1
    BY <1>0
  <2>1. CASE k < i
    <3>1. k \in 1..i - 1 /\ k \in 1..n /\ k + 1 <= i /\ k <= i
      BY <1>0, <1>4a, <2>1
    <3> QED BY <1>1, <1>2, <2>0, <3>1
  <2>2. CASE k = i /\ m # 0
    <3>1. ~(k + 1 <= i) /\ k + 1 <= i + m /\ k <= i /\ (k + 1) - i + 1 = 2
      BY <1>0, <1>4a, <2>2
    <3>2. 1 \in 1..m /\ 1 + 1 = 2 /\ i - 1 + 1 = k
      BY <1>0, <1>4a, <2>2
    <3>3. F[k + 1] = OffsetOf(s, i) + OffsetOf(new, 2) /\ F[k] = OffsetOf(s, i)
      BY <2>0, <2>2, <3>1
    <3>4. OffsetOf(new, 2) = new[1].len /\ r[k] = new[1]
      <4>1. OffsetOf(new, 1 + 1) = OffsetOf(new, 1) + new[1].len
        BY <1>3, <3>2
      <4>2. r[i - 1 + 1] = new[1]
        BY <1>1, <3>2
      <4>3. r[k] = new[1]
        BY <3>2, <4>2
      <4>4. new[1].len \in Nat
        BY <1>4, <4>3
      <4>5. OffsetOf(new, 2) = 0 + new[1].len
        BY <1>3, <3>2, <4>1
      <4> QED BY <4>3, <4>4, <4>5
    <3> QED BY <3>3, <3>4
  <2>3. CASE i < k /\ k < i + m
    <3>1. ~(k + 1 <= i) /\ k + 1 <= i + m /\ ~(k <= i) /\ k <= i + m
      BY <1>0, <1>4a, <2>3
    <3>2. k - i + 1 \in 1..m /\ (k + 1) - i + 1 = (k - i + 1) + 1 /\ i - 1 + (k - i + 1) = k
          /\ i \in 1..n + 1
      BY <1>0, <1>4a, <2>3
    <3>3. F[k + 1] = OffsetOf(s, i) + OffsetOf(new, (k - i + 1) + 1)
          /\ F[k] = OffsetOf(s, i) + OffsetOf(new, k - i + 1)
      BY <2>0, <3>1, <3>2
    <3>4. OffsetOf(new, (k - i + 1) + 1) = OffsetOf(new, k - i + 1) + new[k - i + 1].len
      BY <1>3, <3>2
    <3>5. r[k] = new[k - i + 1]
      BY <1>1, <3>2
    <3>6. OffsetOf(s, i) \in Nat /\ OffsetOf(new, k - i + 1) \in Nat /\ r[k].len \in Nat
      <4>1. k - i + 1 \in 1..m + 1
        BY <1>0, <3>2
      <4> QED BY <1>2, <1>3, <1>4, <3>2, <4>1
    <3> QED BY <3>3, <3>4, <3>5, <3>6
  <2>4. CASE k = i + m
    <3>1. k - m = i /\ i \in i..n /\ i \in 1..n /\ ~(k + 1 <= i) /\ ~(k + 1 <= i + m)
          /\ (k + 1) - m = i + 1
      BY <1>0, <1>4a, <2>4
    <3>2. F[k + 1] = OffsetOf(s, i + 1) + Size(new)
      BY <2>0, <3>1
    <3>3. F[k] = OffsetOf(s, i) + Size(new)
      <4>1. CASE m = 0
        <5>1. k = i /\ Size(new) = 0
          BY <1>0, <1>3, <1>4a, <2>4, <4>1
        <5>2. F[k] = OffsetOf(s, i)
          BY <2>0, <5>1
        <5> QED BY <1>2, <1>4a, <5>1, <5>2
      <4>2. CASE m # 0
        <5>1. ~(k <= i) /\ k <= i + m /\ k - i + 1 = m + 1
          BY <1>0, <1>4a, <2>4, <4>2
        <5> QED BY <1>3, <2>0, <5>1
      <4> QED BY <4>1, <4>2
    <3>4. OffsetOf(s, i + 1) = OffsetOf(s, i) + s[i].len /\ r[k] = s[i]
      BY <1>1, <1>2, <2>4, <3>1
    <3>5. OffsetOf(s, i) \in Nat /\ Size(new) \in Nat /\ r[k].len \in Nat
      <4>1. m + 1 \in 1..m + 1
        BY <1>0
      <4> QED BY <1>2, <1>3, <1>4, <1>4a, <4>1
    <3> QED BY <3>2, <3>3, <3>4, <3>5
  <2>5. CASE i + m < k
    <3>1. k - m \in i..n /\ k - m \in 1..n /\ k - m \in 1..n + 1 /\ (k - m) + m = k
          /\ (k + 1) - m = (k - m) + 1 /\ ~(k <= i) /\ ~(k <= i + m)
          /\ ~(k + 1 <= i) /\ ~(k + 1 <= i + m)
      BY <1>0, <1>4a, <2>5
    <3>2. F[k + 1] = OffsetOf(s, (k - m) + 1) + Size(new) /\ F[k] = OffsetOf(s, k - m) + Size(new)
      BY <2>0, <3>1
    <3>3. OffsetOf(s, (k - m) + 1) = OffsetOf(s, k - m) + s[k - m].len
      BY <1>2, <3>1
    <3>4. r[k] = s[k - m]
      BY <1>1, <3>1
    <3>5. OffsetOf(s, k - m) \in Nat /\ Size(new) \in Nat /\ r[k].len \in Nat
      <4>1. m + 1 \in 1..m + 1
        BY <1>0
      <4> QED BY <1>2, <1>3, <1>4, <3>1, <4>1
    <3> QED BY <3>2, <3>3, <3>4, <3>5
  <2>6. k < i \/ (k = i /\ m # 0) \/ (i < k /\ k < i + m) \/ k = i + m \/ i + m < k
    BY <1>0, <1>4a
  <2> QED BY <2>1, <2>2, <2>3, <2>4, <2>5, <2>6
<1>7. \A k \in 1..(n + m) + 1 : OffsetOf(r, k) = F[k]
  <2>1. n + m \in 0..Len(r)
    BY <1>0, <1>1
  <2> HIDE DEF F
  <2> QED BY <1>1, <1>5, <1>6, <2>1, OffsetsAre, Zenon
<1>8. ASSUME NEW k \in 1..i PROVE OffsetOf(r, k) = OffsetOf(s, k)
  <2>1. k \in 1..(n + m) + 1 /\ k <= i
    BY <1>0, <1>4a
  <2> QED BY <1>7, <2>1
<1>9. ASSUME NEW k \in i..n + 1 PROVE OffsetOf(r, k + m) = OffsetOf(s, k) + Size(new)
  <2>0. k + m \in 1..(n + m) + 1 /\ (k + m) - m = k
    BY <1>0, <1>4a
  <2>1. CASE k = i
    <3>1. CASE m = 0
      <4>1. k + m = k /\ Size(new) = 0 /\ k \in 1..i /\ k \in 1..n + 1
        BY <1>0, <1>3, <1>4a, <2>1, <3>1
      <4> QED BY <1>2, <1>8, <4>1
    <3>2. CASE m # 0
      <4>1. ~(k + m <= i) /\ k + m <= i + m /\ (k + m) - i + 1 = m + 1
        BY <1>0, <1>4a, <2>1, <3>2
      <4> QED BY <1>3, <1>7, <2>0, <2>1, <4>1
    <3> QED BY <3>1, <3>2
  <2>2. CASE i < k
    <3>1. ~(k + m <= i) /\ ~(k + m <= i + m)
      BY <1>0, <1>4a, <2>2
    <3> QED BY <1>7, <2>0, <3>1
  <2> QED BY <1>4a, <2>1, <2>2
<1>10. Size(r) = Size(s) + Size(new)
  <2>1. n + 1 \in i..n + 1 /\ (n + 1) + m = Len(r) + 1
    BY <1>0, <1>1, <1>4a
  <2>2. OffsetOf(r, Len(r) + 1) = Size(r)
    BY <1>1, Offsets
  <2>3. OffsetOf(r, (n + 1) + m) = OffsetOf(s, n + 1) + Size(new)
    BY <1>9, <2>1
  <2> QED BY <1>2, <2>1, <2>2, <2>3
<1> QED BY <1>8, <1>9, <1>10 DEF r, n, m

\* A set of numbers in order.
LEMMA SortedGrows ==
  ASSUME NEW n \in Nat, NEW A \in SUBSET (1..n),
         NEW i \in 1..Cardinality(A), NEW j \in 1..Cardinality(A), i < j
  PROVE  Sorted(A)[i] < Sorted(A)[j]
<1> DEFINE x == Sorted(A)[i]
           y == Sorted(A)[j]
<1>1. x \in A /\ Cardinality(Before(A, x)) = i - 1
  BY SortedRank
<1>2. y \in A /\ Cardinality(Before(A, y)) = j - 1
  BY SortedRank
<1>3. x \in Int /\ y \in Int /\ i \in Int /\ j \in Int
  <2>1. Cardinality(A) \in Nat
    BY Upto
  <2>2. x \in 1..n /\ y \in 1..n
    BY <1>1, <1>2
  <2> QED BY <2>1, <2>2
<1> HIDE DEF x, y
<1>4. x # y
  BY <1>1, <1>2, <1>3
<1>5. ~(y < x)
  <2> SUFFICES ASSUME y < x PROVE FALSE
    OBVIOUS
  <2>1. Cardinality(Before(A, y)) < Cardinality(Before(A, x))
    BY <1>1, <1>2, RankGrows
  <2> QED BY <1>1, <1>2, <1>3, <2>1
<1> QED BY <1>3, <1>4, <1>5 DEF x, y

\* pos picks numbers up to m, in order; they are K.
Picks(pos, n, m, K) ==
  /\ n \in Nat /\ pos \in [1..n -> 1..m]
  /\ \A i, j \in 1..n : i < j => pos[i] < pos[j]
  /\ \A i \in 1..n : pos[i] \in K
  /\ \A k \in 1..m : k \in K => \E i \in 1..n : pos[i] = k

LEMMA PicksExist ==
  ASSUME NEW m \in Nat, NEW K \in SUBSET (1..m)
  PROVE  \E n \in Nat : \E pos \in [1..n -> 1..m] : Picks(pos, n, m, K)
<1>1. Cardinality(K) \in Nat /\ Sorted(K) \in [1..Cardinality(K) -> K]
  BY SortedIn, Upto
<1>2. Sorted(K) \in [1..Cardinality(K) -> 1..m]
  BY <1>1
<1>3. \A i, j \in 1..Cardinality(K) : i < j => Sorted(K)[i] < Sorted(K)[j]
  BY SortedGrows
<1>4. \A k \in K : \E i \in 1..Cardinality(K) : Sorted(K)[i] = k
  BY SortedAt
<1>5. Picks(Sorted(K), Cardinality(K), m, K)
  BY <1>1, <1>2, <1>3, <1>4 DEF Picks
<1> QED BY <1>1, <1>2, <1>5

Picked(t, pos, n) == [i \in 1..n |-> t[pos[i]]]

\* The lines Only leaves are those that are picked.
LEMMA OnlyIs ==
  ASSUME NEW S, NEW t \in Seq(S), NEW K, NEW n, NEW pos, Picks(pos, n, Len(t), K)
  PROVE  Only(t, K) = Picked(t, pos, n)
<1> DEFINE m == Len(t)
           ss == [k \in 1..m |-> IF k \in K THEN <<t[k]>> ELSE <<>>]
           UpTo(k, i) == \A j \in 1..n : j <= i <=> pos[j] <= k
           part(i) == [j \in 1..i |-> t[pos[j]]]
<1>1. m \in Nat /\ DOMAIN t = 1..m /\ \A k \in 1..m : t[k] \in S
  OBVIOUS
<1>2. /\ n \in Nat /\ pos \in [1..n -> 1..m]
      /\ \A i, j \in 1..n : i < j => pos[i] < pos[j]
      /\ \A i \in 1..n : pos[i] \in K
      /\ \A k \in 1..m : k \in K => \E i \in 1..n : pos[i] = k
  BY DEF Picks
<1>3. ss \in Seq(Seq(S)) /\ Len(ss) = m
  <2>1. \A k \in 1..m : (IF k \in K THEN <<t[k]>> ELSE <<>>) \in Seq(S)
    BY <1>1
  <2>2. ss \in [1..m -> Seq(S)]
    BY <2>1
  <2> HIDE DEF ss, m
  <2> QED BY <1>1, <2>2, FunIsSeq
<1>4. Only(t, K) = FlattenSeq(ss)
  BY <1>1 DEF Only
<1>5. \A k \in 1..m : ss[k] = IF k \in K THEN <<t[k]>> ELSE <<>>
  OBVIOUS
<1> HIDE DEF ss, m
<1>6. PICK F \in [0..m -> Seq(S)] : /\ F[0] = <<>>
                                    /\ \A k \in 1..m : F[k] = F[k - 1] \o ss[k]
                                    /\ FlattenSeq(ss) = F[m]
  <2>1. PICK F \in [0..Len(ss) -> Seq(S)] :
           /\ F[0] = <<>>
           /\ \A k \in 1..Len(ss) : F[k] = F[k - 1] \o ss[k]
           /\ FlattenSeq(ss) = F[Len(ss)]
    BY <1>3, Flattened
  <2> QED BY <1>3, <2>1
<1> DEFINE T == {k \in Nat : k <= m => \A i \in 0..n : UpTo(k, i) => F[k] = part(i)}
<1>7. 0 \in T
  <2> SUFFICES ASSUME NEW i \in 0..n, UpTo(0, i) PROVE F[0] = part(i)
    OBVIOUS
  <2>1. i = 0
    <3> SUFFICES ASSUME i # 0 PROVE FALSE
      OBVIOUS
    <3>1. 1 \in 1..n /\ 1 <= i
      BY <1>2
    <3>2. pos[1] <= 0 /\ pos[1] \in 1..m
      BY <1>2, <3>1
    <3> QED BY <1>1, <3>2
  <2> QED BY <1>6, <2>1
<1>8. ASSUME NEW k \in Nat, k \in T PROVE k + 1 \in T
  <2> SUFFICES ASSUME k + 1 <= m, NEW i \in 0..n, UpTo(k + 1, i) PROVE F[k + 1] = part(i)
    OBVIOUS
  <2>1. k + 1 \in 1..m /\ (k + 1) - 1 = k /\ k <= m /\ k \in 0..m
    BY <1>1
  <2>2. F[k + 1] = F[k] \o ss[k + 1]
    BY <1>6, <2>1
  <2>3. CASE k + 1 \in K
    <3>1. PICK l \in 1..n : pos[l] = k + 1
      BY <1>2, <2>1, <2>3
    <3>2. l = i
      <4>1. l <= i
        BY <3>1
      <4>2. ~(l < i)
        <5> SUFFICES ASSUME l < i PROVE FALSE
          OBVIOUS
        <5>1. i \in 1..n /\ pos[l] < pos[i] /\ pos[i] <= k + 1 /\ pos[i] \in 1..m
          BY <1>2
        <5> QED BY <1>1, <3>1, <5>1
      <4> QED BY <1>2, <4>1, <4>2
    <3>3. i - 1 \in 0..n /\ UpTo(k, i - 1)
      <4>1. ASSUME NEW j \in 1..n PROVE j <= i - 1 <=> pos[j] <= k
        <5>1. j <= i <=> pos[j] <= k + 1
          OBVIOUS
        <5>2. j # i => pos[j] # k + 1
          BY <1>2, <3>1, <3>2
        <5>3. pos[j] \in 1..m /\ pos[i] = k + 1
          BY <1>2, <3>1, <3>2
        <5> QED BY <1>1, <1>2, <5>1, <5>2, <5>3
      <4> QED BY <1>2, <3>2, <4>1
    <3>4. F[k] = part(i - 1)
      BY <1>8, <2>1, <3>3
    <3>5. part(i - 1) \in Seq(S) /\ Len(part(i - 1)) = i - 1
      <4>1. part(i - 1) \in [1..i - 1 -> S] /\ i - 1 \in Nat
        BY <1>1, <1>2, <3>2
      <4> HIDE DEF part
      <4> QED BY <4>1, FunIsSeq
    <3>6. ss[k + 1] = <<t[pos[i]]>> /\ t[pos[i]] \in S
      BY <1>1, <1>5, <2>1, <2>3, <3>1, <3>2
    <3>7. part(i) = part(i - 1) \o <<t[pos[i]]>>
      BY <3>5, <3>6, <3>2, <1>2
    <3> QED BY <2>2, <3>4, <3>6, <3>7
  <2>4. CASE k + 1 \notin K
    <3>1. \A j \in 1..n : pos[j] # k + 1
      BY <1>2, <2>4
    <3>2. UpTo(k, i)
      <4>1. ASSUME NEW j \in 1..n PROVE j <= i <=> pos[j] <= k
        <5>1. pos[j] \in 1..m /\ pos[j] # k + 1 /\ (j <= i <=> pos[j] <= k + 1)
          BY <1>2, <3>1
        <5> QED BY <1>1, <5>1
      <4> QED BY <4>1
    <3>3. F[k] = part(i)
      BY <1>8, <2>1, <3>2
    <3>4. F[k] \in Seq(S) /\ ss[k + 1] = <<>>
      BY <1>5, <1>6, <2>1, <2>4
    <3> QED BY <2>2, <3>3, <3>4, ConcatEmptySeq
  <2> QED BY <2>3, <2>4
<1> HIDE DEF T
<1>9. m \in T
  BY <1>1, <1>7, <1>8, NatInduct
<1>10. UpTo(m, n)
  BY <1>1, <1>2
<1>11. m <= m /\ n \in 0..n
  BY <1>1, <1>2
<1>12. F[m] = part(n)
  <2> HIDE DEF UpTo, part
  <2> QED BY <1>9, <1>10, <1>11, Zenon DEF T
<1> QED BY <1>4, <1>6, <1>12 DEF Picked

\* t is s without some of its lines: its i-th line is the pos[i]-th of s.
Thins(s, t, pos) ==
  /\ pos \in [1..Len(t) -> 1..Len(s)]
  /\ \A i, j \in 1..Len(t) : i < j => pos[i] < pos[j]
  /\ \A i \in 1..Len(t) : /\ t[i].id = s[pos[i]].id
                          /\ t[i].kind = s[pos[i]].kind
                          /\ t[i].len = s[pos[i]].len

Stays(t, pos, k) == \E i \in 1..Len(t) : pos[i] = k

\* The lines of s before k are the lines of t before i.
Cuts(t, pos, k, i) ==
  i \in 1..Len(t) + 1 /\ \A j \in 1..Len(t) : j < i <=> pos[j] < k

LEMMA CutExists ==
  ASSUME NEW s, NEW t, NEW pos, Thins(s, t, pos), NEW k \in Int, Len(t) \in Nat
  PROVE  \E i \in 1..Len(t) + 1 : Cuts(t, pos, k, i)
<1> DEFINE n == Len(t)
           R == {j \in 1..n : ~(pos[j] < k)}
<1>1. /\ pos \in [1..n -> 1..Len(s)]
      /\ \A i, j \in 1..n : i < j => pos[i] < pos[j]
  BY DEF Thins
<1>1a. \A j \in 1..n : pos[j] \in Int
  BY <1>1
<1>2. CASE R = {}
  <2>1. n + 1 \in 1..n + 1 /\ \A j \in 1..n : j < n + 1 <=> pos[j] < k
    BY <1>2
  <2> QED BY <2>1 DEF Cuts
<1>3. CASE R # {}
  <2>1. R \in SUBSET Nat
    OBVIOUS
  <2> DEFINE i == Min(R)
  <2>2. i \in R /\ \A j \in R : i <= j
    BY <1>3, <2>1, MinOf
  <2> HIDE DEF i
  <2>3. i \in 1..n /\ ~(pos[i] < k)
    BY <2>2
  <2>4. ASSUME NEW j \in 1..n PROVE j < i <=> pos[j] < k
    <3>1. CASE j < i
      <4>1. ~(i <= j)
        BY <2>3, <3>1
      <4>2. j \notin R
        BY <2>2, <4>1
      <4> QED BY <3>1, <4>2
    <3>2. CASE ~(j < i)
      <4>1. j = i \/ i < j
        BY <2>3, <3>2
      <4>2. pos[i] <= pos[j] /\ pos[i] \in Int /\ pos[j] \in Int
        BY <1>1, <1>1a, <2>3, <4>1
      <4> QED BY <2>3, <3>2, <4>2
    <3> QED BY <3>1, <3>2
  <2>5. i \in 1..n + 1
    BY <2>3
  <2> QED BY <2>4, <2>5 DEF Cuts
<1> QED BY <1>2, <1>3

\* In front of a line that stays.
LEMMA CutAt ==
  ASSUME NEW s, NEW t, NEW pos, Thins(s, t, pos), Len(t) \in Nat, NEW i \in 1..Len(t)
  PROVE  Cuts(t, pos, pos[i], i) /\ Cuts(t, pos, pos[i] + 1, i + 1) /\ pos[i] \in 1..Len(s)
<1> DEFINE n == Len(t)
<1>1. /\ pos \in [1..n -> 1..Len(s)]
      /\ \A k, j \in 1..n : k < j => pos[k] < pos[j]
  BY DEF Thins
<1>2. \A j \in 1..n : pos[j] \in Int
  BY <1>1
<1>3. ASSUME NEW j \in 1..n PROVE (j < i <=> pos[j] < pos[i]) /\ (j < i + 1 <=> pos[j] < pos[i] + 1)
  <2>1. j < i => pos[j] < pos[i]
    BY <1>1
  <2>2. i < j => pos[i] < pos[j]
    BY <1>1
  <2>3. j < i \/ j = i \/ i < j
    OBVIOUS
  <2>4. pos[i] \in Int /\ pos[j] \in Int
    BY <1>2
  <2> QED BY <2>1, <2>2, <2>3, <2>4
<1>4. i \in 1..n + 1 /\ i + 1 \in 1..n + 1
  OBVIOUS
<1>5. pos[i] \in 1..Len(s)
  BY <1>1
<1> QED BY <1>3, <1>4, <1>5 DEF Cuts

\* There is one such place.
LEMMA CutUnique ==
  ASSUME NEW t, NEW pos, NEW k, Len(t) \in Nat, NEW i, NEW j,
         Cuts(t, pos, k, i), Cuts(t, pos, k, j)
  PROVE  i = j
<1>1. i \in 1..Len(t) + 1 /\ \A l \in 1..Len(t) : l < i <=> pos[l] < k
  BY DEF Cuts
<1>2. j \in 1..Len(t) + 1 /\ \A l \in 1..Len(t) : l < j <=> pos[l] < k
  BY DEF Cuts
<1>3. ~(i < j)
  <2> SUFFICES ASSUME i < j PROVE FALSE
    OBVIOUS
  <2>1. i \in 1..Len(t)
    BY <1>1, <1>2
  <2> QED BY <1>1, <1>2, <2>1
<1>4. ~(j < i)
  <2> SUFFICES ASSUME j < i PROVE FALSE
    OBVIOUS
  <2>1. j \in 1..Len(t)
    BY <1>1, <1>2
  <2> QED BY <1>1, <1>2, <2>1
<1> QED BY <1>1, <1>2, <1>3, <1>4

\* Lines without a length may go: no offset changes.
LEMMA ThinOffsets ==
  ASSUME NEW s \in Seq(Items), NEW t \in Seq(Items), NEW pos, Thins(s, t, pos),
         \A k \in 1..Len(s) : s[k].len = 0 \/ Stays(t, pos, k)
  PROVE  /\ \A k \in 1..Len(s) + 1, i \in 1..Len(t) + 1 :
              Cuts(t, pos, k, i) => OffsetOf(s, k) = OffsetOf(t, i)
         /\ \A i \in 1..Len(t) : OffsetOf(s, pos[i]) = OffsetOf(t, i)
         /\ Size(s) = Size(t)
<1> DEFINE n == Len(t)
           m == Len(s)
           T == {k \in Nat : k <= m => \A i \in 1..n + 1 :
                   Cuts(t, pos, k + 1, i) => OffsetOf(s, k + 1) = OffsetOf(t, i)}
<1>0. n \in Nat /\ m \in Nat
  OBVIOUS
<1>1. /\ pos \in [1..n -> 1..m]
      /\ \A i, j \in 1..n : i < j => pos[i] < pos[j]
      /\ \A i \in 1..n : t[i].len = s[pos[i]].len
  BY DEF Thins
<1>1a. \A j \in 1..n : pos[j] \in Int /\ pos[j] >= 1 /\ pos[j] <= m
  BY <1>0, <1>1
<1>2. 0 \in T
  <2> SUFFICES ASSUME NEW i \in 1..n + 1, Cuts(t, pos, 0 + 1, i) PROVE OffsetOf(s, 0 + 1) = OffsetOf(t, i)
    BY <1>0
  <2>1. i = 1
    <3> SUFFICES ASSUME i # 1 PROVE FALSE
      OBVIOUS
    <3>1. 1 \in 1..n /\ 1 < i
      BY <1>0
    <3>2. pos[1] < 0 + 1
      BY <3>1 DEF Cuts
    <3> QED BY <1>1a, <3>1, <3>2
  <2> QED BY <2>1, Offsets
<1>3. ASSUME NEW k \in Nat, k \in T PROVE k + 1 \in T
  <2> SUFFICES ASSUME k + 1 <= m, NEW i \in 1..n + 1, Cuts(t, pos, (k + 1) + 1, i)
               PROVE  OffsetOf(s, (k + 1) + 1) = OffsetOf(t, i)
    OBVIOUS
  <2>1. k + 1 \in 1..m /\ k <= m
    BY <1>0
  <2>2. OffsetOf(s, (k + 1) + 1) = OffsetOf(s, k + 1) + s[k + 1].len
    BY <2>1, Offsets
  <2>3. \A j \in 1..n + 1 : Cuts(t, pos, k + 1, j) => OffsetOf(s, k + 1) = OffsetOf(t, j)
    BY <1>3, <2>1
  <2>4. CASE \E j \in 1..n : pos[j] = k + 1
    <3>1. PICK j \in 1..n : pos[j] = k + 1
      BY <2>4
    <3>2. Cuts(t, pos, pos[j], j) /\ Cuts(t, pos, pos[j] + 1, j + 1)
      BY <1>0, CutAt
    <3>3. i = j + 1
      BY <1>0, <3>1, <3>2, CutUnique
    <3>4. OffsetOf(s, k + 1) = OffsetOf(t, j)
      <4>1. j \in 1..n + 1
        BY <1>0
      <4> QED BY <2>3, <3>1, <3>2, <4>1
    <3>5. t[j].len = s[k + 1].len
      BY <1>1, <3>1
    <3>6. OffsetOf(t, j + 1) = OffsetOf(t, j) + t[j].len
      BY Offsets
    <3> QED BY <2>2, <3>3, <3>4, <3>5, <3>6
  <2>5. CASE ~ \E j \in 1..n : pos[j] = k + 1
    <3>1. s[k + 1].len = 0
      BY <2>1, <2>5 DEF Stays
    <3>2. ASSUME NEW j \in 1..n PROVE j < i <=> pos[j] < k + 1
      <4>1. j < i <=> pos[j] < (k + 1) + 1
        BY DEF Cuts
      <4>2. pos[j] # k + 1
        BY <2>5
      <4>3. pos[j] \in Int
        BY <1>1a
      <4> QED BY <4>1, <4>2, <4>3
    <3>3. OffsetOf(s, k + 1) = OffsetOf(t, i)
      BY <2>3, <3>2 DEF Cuts
    <3>4. OffsetOf(s, k + 1) \in Nat
      BY <2>1, Offsets
    <3> QED BY <2>2, <3>1, <3>3, <3>4
  <2> QED BY <2>4, <2>5
<1> HIDE DEF T
<1>4. \A k \in Nat : k \in T
  BY <1>2, <1>3, NatInduct
<1>5. ASSUME NEW k \in 1..m + 1, NEW i \in 1..n + 1, Cuts(t, pos, k, i)
      PROVE  OffsetOf(s, k) = OffsetOf(t, i)
  <2>1. k - 1 \in T /\ k - 1 <= m /\ (k - 1) + 1 = k
    BY <1>0, <1>4
  <2> QED BY <1>5, <2>1 DEF T
<1>6. ASSUME NEW i \in 1..n PROVE OffsetOf(s, pos[i]) = OffsetOf(t, i)
  <2>1. Cuts(t, pos, pos[i], i) /\ pos[i] \in 1..m + 1 /\ i \in 1..n + 1
    BY <1>0, <1>1a, CutAt
  <2> QED BY <1>5, <2>1
<1>7. Size(s) = Size(t)
  <2>1. Cuts(t, pos, m + 1, n + 1)
    <3>1. \A j \in 1..n : j < n + 1 <=> pos[j] < m + 1
      BY <1>0, <1>1a
    <3> QED BY <1>0, <3>1 DEF Cuts
  <2>2. OffsetOf(s, m + 1) = OffsetOf(t, n + 1)
    BY <1>0, <1>5, <2>1
  <2> QED BY <2>2, Offsets
<1> QED BY <1>5, <1>6, <1>7

----------------------------------------------------------------------------
(* Where a point of the program is.                                         *)

PointIndex(p) == IF p = End THEN Len(Program) + 1 ELSE IndexOf(Program, p)

LEMMA ProgramIs ==
  /\ Len(Program) \in Nat /\ DOMAIN Program = 1..Len(Program)
  /\ \A i \in 1..Len(Program) :
       /\ Program[i].id \in Ids /\ Program[i].kind \in Kinds
       /\ Program[i].len \in Nat \ {0} /\ Program[i] \in Originals
       /\ IndexOf(Program, Program[i].id) = i
  /\ \A i, j \in 1..Len(Program) : Program[i].id = Program[j].id => i = j
  /\ \A x \in Ids : \E i \in 1..Len(Program) : Program[i].id = x
  /\ \A x \in Points : x \notin AddedIds /\ x # "label"
  /\ End \notin Ids
<1> DEFINE O == [id : Ids, kind : Kinds, len : Nat \ {0},
                 dest : {Program[i].dest : i \in DOMAIN Program}]
<1>1. Program \in Seq(O) /\ O = Originals
  BY ProgramAssumption DEF Originals
<1>2. \A x \in O : x.id \in Ids /\ x.kind \in Kinds /\ x.len \in Nat \ {0}
  OBVIOUS
<1> HIDE DEF O
<1>3. Len(Program) \in Nat /\ DOMAIN Program = 1..Len(Program)
      /\ \A i \in 1..Len(Program) : Program[i] \in O
  BY <1>1
<1>4. \A i, j \in 1..Len(Program) : Program[i].id = Program[j].id => i = j
  BY <1>3, ProgramAssumption
<1>5. ASSUME NEW i \in 1..Len(Program) PROVE IndexOf(Program, Program[i].id) = i
  BY <1>3, <1>4 DEF IndexOf
<1>6. \A x \in Ids : \E i \in 1..Len(Program) : Program[i].id = x
  BY <1>3 DEF Ids
<1>7. \A x \in Points : x \notin AddedIds /\ x # "label"
  BY ProgramAssumption DEF AddedIds
<1> QED BY <1>1, <1>2, <1>3, <1>4, <1>5, <1>6, <1>7, ProgramAssumption

LEMMA PointIs ==
  ASSUME NEW p \in Points
  PROVE  /\ PointIndex(p) \in 1..Len(Program) + 1
         /\ p # End => PointIndex(p) <= Len(Program) /\ Program[PointIndex(p)].id = p
         /\ From(p) = {Program[j].id : j \in PointIndex(p)..Len(Program)}
         /\ From(p) \subseteq Ids
         /\ "label" \notin From(p) /\ \A a \in AddedIds : a \notin From(p)
         /\ \A j \in 1..Len(Program) : Program[j].id \in From(p) <=> PointIndex(p) <= j
<1>1. /\ PointIndex(p) \in 1..Len(Program) + 1
      /\ p # End => PointIndex(p) <= Len(Program) /\ Program[PointIndex(p)].id = p
  <2>1. CASE p = End
    BY <2>1, ProgramIs DEF PointIndex
  <2>2. CASE p # End
    <3>1. p \in Ids
      BY <2>2 DEF Points
    <3>2. PICK i \in 1..Len(Program) : Program[i].id = p
      BY <3>1, ProgramIs
    <3>3. PointIndex(p) = i
      BY <2>2, <3>2, ProgramIs DEF PointIndex
    <3> QED BY <3>2, <3>3, ProgramIs
  <2> QED BY <2>1, <2>2
<1>2. From(p) = {Program[j].id : j \in PointIndex(p)..Len(Program)}
  BY DEF From, PointIndex
<1>3. From(p) \subseteq Ids
  BY <1>1, <1>2, ProgramIs
<1>4. \A x \in Ids : x \in Points
  BY DEF Points
<1>5. "label" \notin From(p) /\ \A a \in AddedIds : a \notin From(p)
  BY <1>3, <1>4, ProgramIs
<1>6. ASSUME NEW j \in 1..Len(Program) PROVE Program[j].id \in From(p) <=> PointIndex(p) <= j
  <2>1. ASSUME PointIndex(p) <= j PROVE Program[j].id \in From(p)
    BY <1>1, <1>2, <2>1, ProgramIs
  <2>2. ASSUME Program[j].id \in From(p) PROVE PointIndex(p) <= j
    <3>1. PICK l \in PointIndex(p)..Len(Program) : Program[j].id = Program[l].id
      BY <1>2, <2>2
    <3>2. l \in 1..Len(Program) /\ PointIndex(p) <= l
      BY <1>1, ProgramIs
    <3>3. l = j
      BY <3>1, <3>2, ProgramIs
    <3> QED BY <3>2, <3>3
  <2> QED BY <2>1, <2>2
<1> QED BY <1>1, <1>2, <1>3, <1>5, <1>6

Clear == {"nop", "new", "label"}

\* From line i on, control comes to point p before it comes to anything else.
Leads(s, i, p) ==
  /\ \A j \in 1..i - 1 : s[j].id \notin From(p)
  /\ \A m \in i..Len(s) : \/ s[m].kind \in Clear
                          \/ \E j \in i..m : s[j].id \in From(p)

LEMMA InstructionIs ==
  \A x \in Instructions :
    /\ x.id \in Ids \union AddedIds /\ x.kind \in Kinds \union AddedIds
    /\ x.kind # "label" /\ x.id # "label"
    /\ x.len \in Nat \ {0} /\ x.rel \in Int /\ <<x.id, x.kind>> \in Known
    /\ x.kind \notin Addressing => x.rel = 0
<1>1. \A x \in Ids : x # "label"
  BY ProgramIs DEF Points
<1>2. \A x \in Kinds \union AddedIds : x # "label"
  BY DEF Kinds, AddedIds
<1> QED BY <1>1, <1>2 DEF Instructions, AddedIds

LEMMA NamesLeads ==
  ASSUME NEW b \in Seq(Instructions), NEW o, NEW p
  PROVE  Names(b, o, p) <=> \E i \in 1..Len(b) + 1 : OffsetOf(b, i) = o /\ Leads(b, i, p)
<1> DEFINE n == Len(b)
           left == {i \in 1..n : b[i].id \in From(p)}
           m == IF left = {} THEN n + 1 ELSE Min(left)
<1>0. n \in Nat /\ DOMAIN b = 1..n
  OBVIOUS
<1>1. IndexNow(b, p) = m
  BY <1>0 DEF IndexNow
<1>2. \A i \in 1..n : b[i].kind # "label"
  BY InstructionIs, ElementIn
<1>3. m \in 1..n + 1 /\ (m # n + 1 => m \in left) /\ \A j \in left : m <= j
  <2>1. left \in SUBSET Nat
    OBVIOUS
  <2>2. left # {} => Min(left) \in left /\ \A j \in left : Min(left) <= j
    BY <2>1, MinOf
  <2>3. CASE left = {}
    BY <1>0, <2>3
  <2>4. CASE left # {}
    <3>1. m = Min(left) /\ m \in 1..n
      BY <2>2, <2>4
    <3> QED BY <2>2, <2>4, <3>1
  <2> QED BY <2>3, <2>4
<1>4. \A j \in 1..n : j < m => b[j].id \notin From(p)
  <2> SUFFICES ASSUME NEW j \in 1..n, j < m, b[j].id \in From(p) PROVE FALSE
    OBVIOUS
  <2>1. m <= j
    BY <1>3
  <2> HIDE DEF m
  <2> QED BY <1>3, <2>1
<1>5. m <= n => b[m].id \in From(p)
  <2> SUFFICES ASSUME m <= n PROVE b[m].id \in From(p)
    OBVIOUS
  <2>1. m # n + 1
    BY <1>0
  <2>2. m \in left
    BY <1>3, <2>1
  <2> QED BY <2>2
<1>6. Names(b, o, p) <=> \E i \in 1..m : /\ OffsetOf(b, i) = o
                                         /\ \A j \in i..m - 1 : b[j].kind \in {"nop", "new"}
  BY <1>1 DEF Names
<1>7. m \in 1..n + 1
  BY <1>3
<1> HIDE DEF m, n, left
<1>8. ASSUME Names(b, o, p)
      PROVE  \E i \in 1..n + 1 : OffsetOf(b, i) = o /\ Leads(b, i, p)
  <2>1. PICK i \in 1..m : OffsetOf(b, i) = o /\ \A j \in i..m - 1 : b[j].kind \in {"nop", "new"}
    BY <1>6, <1>8
  <2>2. i \in 1..n + 1 /\ i \in Nat /\ m \in Nat
    BY <1>0, <1>7
  <2>3. \A j \in 1..i - 1 : b[j].id \notin From(p)
    <3>1. \A j \in 1..i - 1 : j \in 1..n /\ j < m
      BY <1>0, <1>7, <2>2
    <3> QED BY <1>4, <3>1
  <2>4. ASSUME NEW l \in i..n PROVE b[l].kind \in Clear \/ \E j \in i..l : b[j].id \in From(p)
    <3>1. CASE l < m
      <4>1. l \in i..m - 1
        BY <2>2, <3>1
      <4> QED BY <2>1, <4>1 DEF Clear
    <3>2. CASE ~(l < m)
      <4>1. m <= n /\ m \in i..l
        BY <1>0, <2>2, <3>2
      <4> QED BY <1>5, <4>1
    <3> QED BY <3>1, <3>2
  <2> QED BY <2>1, <2>2, <2>3, <2>4 DEF Leads, n
<1>9. ASSUME NEW i \in 1..n + 1, OffsetOf(b, i) = o, Leads(b, i, p)
      PROVE  Names(b, o, p)
  <2>1. i <= m
    <3> SUFFICES ASSUME m < i PROVE FALSE
      BY <1>0, <1>7
    <3>1. m <= n /\ m \in 1..i - 1
      BY <1>0, <1>7
    <3> QED BY <1>5, <1>9, <3>1 DEF Leads
  <2>2. ASSUME NEW j \in i..m - 1 PROVE b[j].kind \in {"nop", "new"}
    <3>1. j \in i..n /\ j \in 1..n /\ \A l \in i..j : l \in 1..n /\ l < m
      BY <1>0, <1>7
    <3>2. ~ \E l \in i..j : b[l].id \in From(p)
      BY <1>4, <3>1
    <3>3. b[j].kind \in Clear
      BY <1>9, <3>1, <3>2 DEF Leads, n
    <3> QED BY <1>2, <3>1, <3>3 DEF Clear, n
  <2>3. i \in 1..m
    BY <1>0, <1>7, <2>1
  <2> QED BY <1>6, <1>9, <2>2, <2>3
<1> QED BY <1>8, <1>9 DEF n

\* What leads to a point behind an insertion still does.
LEMMA LeadsBehind ==
  ASSUME NEW S, NEW s \in Seq(S), NEW new \in Seq(S), NEW at \in 1..Len(s) + 1, NEW p,
         \A k \in 1..Len(new) : new[k].id \notin From(p),
         NEW i \in at..Len(s) + 1, Leads(s, i, p)
  PROVE  Leads(InsertedAt(s, at, new), i + Len(new), p)
<1> DEFINE r == InsertedAt(s, at, new)
           n == Len(s)
           m == Len(new)
<1>0. n \in Nat /\ m \in Nat
  OBVIOUS
<1>1. /\ Len(r) = n + m
      /\ \A k \in 1..at - 1 : r[k] = s[k]
      /\ \A k \in 1..m : r[at - 1 + k] = new[k]
      /\ \A k \in at..n : r[k + m] = s[k]
  <2> HIDE DEF r
  <2>1. Placed(r, s, new, at)
    BY InsertedPlaced, Zenon DEF r
  <2> QED BY <2>1, Zenon DEF Placed
<1> HIDE DEF r, n, m
<1>2. at \in 1..n + 1 /\ i \in at..n + 1 /\ i \in Nat /\ at \in Nat
  BY <1>0 DEF n
<1>3. /\ \A j \in 1..i - 1 : s[j].id \notin From(p)
      /\ \A k \in i..n : s[k].kind \in Clear \/ \E j \in i..k : s[j].id \in From(p)
      /\ \A k \in 1..m : new[k].id \notin From(p)
  BY DEF Leads, n, m
<1>4. ASSUME NEW j \in 1..(i + m) - 1 PROVE r[j].id \notin From(p)
  <2>1. j \in 1..n + m
    BY <1>0, <1>2
  <2>2. CASE j \in 1..at - 1
    <3>1. j \in 1..i - 1
      BY <1>2, <2>2
    <3> QED BY <1>1, <1>3, <2>2, <3>1
  <2>3. CASE \E k \in 1..m : j = at - 1 + k
    BY <1>1, <1>3, <2>3
  <2>4. CASE \E k \in at..n : j = k + m
    <3>1. PICK k \in at..n : j = k + m
      BY <2>4
    <3>2. k \in 1..i - 1
      BY <1>0, <1>2, <3>1
    <3> QED BY <1>1, <1>3, <3>1, <3>2
  <2> QED BY <1>0, <1>2, <2>1, <2>2, <2>3, <2>4, InsertedSplit
<1>5. ASSUME NEW k \in i + m..n + m
      PROVE  r[k].kind \in Clear \/ \E j \in i + m..k : r[j].id \in From(p)
  <2>1. k - m \in i..n /\ k - m \in at..n /\ (k - m) + m = k
    BY <1>0, <1>2
  <2>2. r[k] = s[k - m]
    BY <1>1, <2>1
  <2>3. CASE s[k - m].kind \in Clear
    BY <2>2, <2>3
  <2>4. CASE \E j \in i..k - m : s[j].id \in From(p)
    <3>1. PICK j \in i..k - m : s[j].id \in From(p)
      BY <2>4
    <3>2. j + m \in i + m..k /\ j \in at..n
      BY <1>0, <1>2, <2>1
    <3>3. r[j + m].id \in From(p)
      BY <1>1, <3>1, <3>2
    <3> QED BY <3>2, <3>3
  <2> QED BY <1>3, <2>1, <2>3, <2>4
<1> QED BY <1>1, <1>4, <1>5 DEF Leads, r, m

\* And what leads to a point from in front of it, if control passes it.
LEMMA LeadsThrough ==
  ASSUME NEW S, NEW s \in Seq(S), NEW new \in Seq(S), NEW at \in 1..Len(s) + 1, NEW p,
         \A k \in 1..Len(new) : new[k].kind \in Clear,
         NEW i \in 1..at, Leads(s, i, p)
  PROVE  Leads(InsertedAt(s, at, new), i, p)
<1> DEFINE r == InsertedAt(s, at, new)
           n == Len(s)
           m == Len(new)
<1>0. n \in Nat /\ m \in Nat
  OBVIOUS
<1>1. /\ Len(r) = n + m
      /\ \A k \in 1..at - 1 : r[k] = s[k]
      /\ \A k \in 1..m : r[at - 1 + k] = new[k]
      /\ \A k \in at..n : r[k + m] = s[k]
  <2> HIDE DEF r
  <2>1. Placed(r, s, new, at)
    BY InsertedPlaced, Zenon DEF r
  <2> QED BY <2>1, Zenon DEF Placed
<1> HIDE DEF r, n, m
<1>2. at \in 1..n + 1 /\ i \in Nat /\ at \in Nat
  BY <1>0 DEF n
<1>3. /\ \A j \in 1..i - 1 : s[j].id \notin From(p)
      /\ \A k \in i..n : s[k].kind \in Clear \/ \E j \in i..k : s[j].id \in From(p)
      /\ \A k \in 1..m : new[k].kind \in Clear
  BY DEF Leads, n, m
<1>4. ASSUME NEW j \in 1..i - 1 PROVE r[j].id \notin From(p)
  <2>1. j \in 1..at - 1
    BY <1>0, <1>2
  <2> QED BY <1>1, <1>3, <2>1
<1>5. ASSUME NEW k \in i..n + m
      PROVE  r[k].kind \in Clear \/ \E j \in i..k : r[j].id \in From(p)
  <2>1. k \in 1..n + m
    BY <1>0, <1>2
  <2>2. CASE k \in 1..at - 1
    <3>1. k \in i..n /\ \A j \in i..k : j \in 1..at - 1
      BY <1>0, <1>2, <2>2
    <3> QED BY <1>1, <1>3, <2>2, <3>1
  <2>3. CASE \E j \in 1..m : k = at - 1 + j
    BY <1>1, <1>3, <2>3
  <2>4. CASE \E j \in at..n : k = j + m
    <3>1. PICK l \in at..n : k = l + m
      BY <2>4
    <3>2. l \in i..n
      BY <1>0, <1>2
    <3>3. CASE s[l].kind \in Clear
      BY <1>1, <3>1, <3>3
    <3>4. CASE \E j \in i..l : s[j].id \in From(p)
      <4>1. PICK j \in i..l : s[j].id \in From(p)
        BY <3>4
      <4>2. CASE j <= at - 1
        <5>1. j \in 1..at - 1 /\ j \in i..k
          BY <1>0, <1>2, <3>1, <4>2
        <5> QED BY <1>1, <4>1, <5>1
      <4>3. CASE at <= j
        <5>1. j \in at..n /\ j + m \in i..k
          BY <1>0, <1>2, <3>1, <4>3
        <5>2. r[j + m].id \in From(p)
          BY <1>1, <4>1, <5>1
        <5> QED BY <5>1, <5>2
      <4> QED BY <1>2, <4>2, <4>3
    <3> QED BY <1>3, <3>2, <3>3, <3>4
  <2> QED BY <1>0, <1>2, <2>1, <2>2, <2>3, <2>4, InsertedSplit
<1> QED BY <1>1, <1>4, <1>5 DEF Leads, r

\* And what leads to a point when lines are left out, if behind one that comes
\* from that point on there are only such lines and no-ops.
LEMMA LeadsThinned ==
  ASSUME NEW s, NEW t, NEW pos, Thins(s, t, pos), Len(s) \in Nat, Len(t) \in Nat, NEW p,
         \A d \in 1..Len(s) : ~Stays(t, pos, d) /\ s[d].id \in From(p) =>
            \A m \in d + 1..Len(s) : s[m].kind \in Clear \/ s[m].id \in From(p),
         NEW k \in 1..Len(s) + 1, NEW i \in 1..Len(t) + 1, Cuts(t, pos, k, i), Leads(s, k, p)
  PROVE  Leads(t, i, p)
<1>1. /\ pos \in [1..Len(t) -> 1..Len(s)]
      /\ \A h, j \in 1..Len(t) : h < j => pos[h] < pos[j]
      /\ \A h \in 1..Len(t) : t[h].id = s[pos[h]].id /\ t[h].kind = s[pos[h]].kind
  BY DEF Thins
<1>2. \A j \in 1..Len(t) : (j < i <=> pos[j] < k) /\ pos[j] \in 1..Len(s) /\ pos[j] \in Nat
  BY <1>1 DEF Cuts
<1>3. ASSUME NEW j \in 1..i - 1 PROVE t[j].id \notin From(p)
  <2>1. j \in 1..Len(t) /\ j < i
    OBVIOUS
  <2>2. pos[j] \in 1..k - 1
    BY <1>2, <2>1
  <2> QED BY <1>1, <2>1, <2>2 DEF Leads
<1>4. ASSUME NEW m \in i..Len(t)
      PROVE  t[m].kind \in Clear \/ \E j \in i..m : t[j].id \in From(p)
  <2>1. m \in 1..Len(t) /\ ~(m < i)
    OBVIOUS
  <2>2. pos[m] \in k..Len(s)
    BY <1>2, <2>1
  <2>3. CASE s[pos[m]].kind \in Clear
    BY <1>1, <2>1, <2>3
  <2>4. CASE \E d \in k..pos[m] : s[d].id \in From(p)
    <3>1. PICK d \in k..pos[m] : s[d].id \in From(p)
      BY <2>4
    <3>2. d \in 1..Len(s) /\ d \in Nat
      BY <2>2
    <3>3. CASE Stays(t, pos, d)
      <4>1. PICK j \in 1..Len(t) : pos[j] = d
        BY <3>3 DEF Stays
      <4>2. ~(j < i)
        BY <1>2, <4>1
      <4>3. ~(m < j)
        <5> SUFFICES ASSUME m < j PROVE FALSE
          OBVIOUS
        <5>1. pos[m] < pos[j]
          BY <1>1, <2>1
        <5> QED BY <1>2, <2>1, <4>1, <5>1
      <4>4. j \in i..m
        BY <4>2, <4>3
      <4> QED BY <1>1, <3>1, <4>1, <4>4
    <3>4. CASE ~Stays(t, pos, d)
      <4>1. d # pos[m]
        BY <2>1, <3>4 DEF Stays
      <4>2. pos[m] \in d + 1..Len(s)
        BY <1>2, <2>1, <3>2, <4>1
      <4>3. s[pos[m]].kind \in Clear \/ s[pos[m]].id \in From(p)
        BY <3>1, <3>2, <3>4, <4>2
      <4>4. t[m].kind \in Clear \/ t[m].id \in From(p)
        BY <1>1, <2>1, <4>3
      <4>5. m \in i..m
        OBVIOUS
      <4> QED BY <4>4, <4>5
    <3> QED BY <3>3, <3>4
  <2> QED BY <2>2, <2>3, <2>4 DEF Leads
<1> QED BY <1>3, <1>4 DEF Leads

\* And when no-ops and labels are put between.
LEMMA LeadsThickened ==
  ASSUME NEW s, NEW t, NEW pos, Thins(s, t, pos), Len(s) \in Nat, Len(t) \in Nat, NEW p,
         \A d \in 1..Len(s) : Stays(t, pos, d) \/ (s[d].kind \in Clear /\ s[d].id \notin From(p)),
         NEW k \in 1..Len(s) + 1, NEW i \in 1..Len(t) + 1, Cuts(t, pos, k, i), Leads(t, i, p)
  PROVE  Leads(s, k, p)
<1>1. /\ pos \in [1..Len(t) -> 1..Len(s)]
      /\ \A h, j \in 1..Len(t) : h < j => pos[h] < pos[j]
      /\ \A h \in 1..Len(t) : t[h].id = s[pos[h]].id /\ t[h].kind = s[pos[h]].kind
  BY DEF Thins
<1>2. \A j \in 1..Len(t) : (j < i <=> pos[j] < k) /\ pos[j] \in 1..Len(s) /\ pos[j] \in Nat
  BY <1>1 DEF Cuts
<1>3. ASSUME NEW d \in 1..k - 1 PROVE s[d].id \notin From(p)
  <2>1. d \in 1..Len(s) /\ d < k
    OBVIOUS
  <2>2. CASE Stays(t, pos, d)
    <3>1. PICK j \in 1..Len(t) : pos[j] = d
      BY <2>2 DEF Stays
    <3>2. j \in 1..i - 1
      BY <1>2, <2>1, <3>1
    <3> QED BY <1>1, <3>1, <3>2 DEF Leads
  <2>3. CASE ~Stays(t, pos, d)
    BY <2>1, <2>3
  <2> QED BY <2>2, <2>3
<1>4. ASSUME NEW d \in k..Len(s)
      PROVE  s[d].kind \in Clear \/ \E j \in k..d : s[j].id \in From(p)
  <2>1. d \in 1..Len(s)
    OBVIOUS
  <2>2. CASE Stays(t, pos, d)
    <3>1. PICK m \in 1..Len(t) : pos[m] = d
      BY <2>2 DEF Stays
    <3>2. m \in i..Len(t)
      BY <1>2, <3>1
    <3>3. CASE t[m].kind \in Clear
      BY <1>1, <3>1, <3>3
    <3>4. CASE \E j \in i..m : t[j].id \in From(p)
      <4>1. PICK j \in i..m : t[j].id \in From(p)
        BY <3>4
      <4>2. j \in 1..Len(t) /\ ~(j < i)
        OBVIOUS
      <4>3. pos[j] <= pos[m]
        <5>1. j < m \/ j = m
          OBVIOUS
        <5> QED BY <1>1, <1>2, <4>2, <5>1
      <4>4. pos[j] \in k..d
        BY <1>2, <3>1, <4>2, <4>3
      <4> QED BY <1>1, <4>1, <4>2, <4>4
    <3> QED BY <3>2, <3>3, <3>4 DEF Leads
  <2>3. CASE ~Stays(t, pos, d)
    BY <2>1, <2>3
  <2> QED BY <2>2, <2>3
<1> QED BY <1>3, <1>4 DEF Leads

----------------------------------------------------------------------------
(* The order of the instructions.                                           *)

\* Instructions of the program are in its order, and only no-ops and instructions
\* the user added come between and behind.
InOrder(s) ==
  \A d, m \in 1..Len(s) : d < m =>
    \A j \in 1..Len(Program) : s[d].id = Program[j].id =>
      \/ s[m].kind \in Clear
      \/ \E l \in 1..Len(Program) : j < l /\ s[m].id = Program[l].id

LEMMA OrderSettles ==
  ASSUME NEW s, Len(s) \in Nat, InOrder(s), NEW p \in Points,
         NEW d \in 1..Len(s), s[d].id \in From(p), NEW m \in d + 1..Len(s)
  PROVE  s[m].kind \in Clear \/ s[m].id \in From(p)
<1>0. /\ PointIndex(p) \in 1..Len(Program) + 1
      /\ From(p) = {Program[j].id : j \in PointIndex(p)..Len(Program)}
  BY PointIs, Zenon
<1>1. PICK j \in PointIndex(p)..Len(Program) : s[d].id = Program[j].id
  BY <1>0
<1>2. j \in 1..Len(Program) /\ PointIndex(p) \in Nat
  BY PointIs, ProgramIs
<1>3. m \in 1..Len(s) /\ d < m
  OBVIOUS
<1>4. CASE \E l \in 1..Len(Program) : j < l /\ s[m].id = Program[l].id
  <2>1. PICK l \in 1..Len(Program) : j < l /\ s[m].id = Program[l].id
    BY <1>4
  <2>2. PointIndex(p) <= l
    BY <1>1, <1>2, <2>1, ProgramIs
  <2> QED BY <2>1, <2>2, PointIs
<1> QED BY <1>1, <1>2, <1>3, <1>4 DEF InOrder

\* Instructions that are not of the program, and that control passes.
Foreign(new) == \A k \in 1..Len(new) : new[k].id \notin Ids
Passed(new) == \A k \in 1..Len(new) : new[k].kind \in Clear

FirstOrPassed(at, new) == at = 1 \/ Passed(new)

LEMMA OrderInserted ==
  ASSUME NEW S, NEW s \in Seq(S), NEW new \in Seq(S), NEW at \in 1..Len(s) + 1, InOrder(s),
         Foreign(new), FirstOrPassed(at, new)
  PROVE  InOrder(InsertedAt(s, at, new))
<1> DEFINE r == InsertedAt(s, at, new)
           n == Len(s)
           m == Len(new)
<1>0. n \in Nat /\ m \in Nat
  OBVIOUS
<1>1. /\ Len(r) = n + m
      /\ \A k \in 1..at - 1 : r[k] = s[k]
      /\ \A k \in 1..m : r[at - 1 + k] = new[k]
      /\ \A k \in at..n : r[k + m] = s[k]
  <2> HIDE DEF r
  <2>1. Placed(r, s, new, at)
    BY InsertedPlaced, Zenon DEF r
  <2> QED BY <2>1, Zenon DEF Placed
<1>2. /\ at \in 1..n + 1 /\ \A k \in 1..m : new[k].id \notin Ids
      /\ at = 1 \/ \A k \in 1..m : new[k].kind \in Clear
  BY DEF Foreign, Passed, FirstOrPassed
<1>3. \A d, e \in 1..n : d < e =>
        \A j \in 1..Len(Program) : s[d].id = Program[j].id =>
          \/ s[e].kind \in Clear
          \/ \E l \in 1..Len(Program) : j < l /\ s[e].id = Program[l].id
  BY DEF InOrder
<1> HIDE DEF r, n, m
<1>4. SUFFICES ASSUME NEW d \in 1..n + m, NEW e \in 1..n + m, d < e,
                      NEW j \in 1..Len(Program), r[d].id = Program[j].id
               PROVE  \/ r[e].kind \in Clear
                      \/ \E l \in 1..Len(Program) : j < l /\ r[e].id = Program[l].id
  BY <1>1 DEF InOrder, r
<1> DEFINE Old(x, y) == \/ x \in 1..at - 1 /\ y = x
                        \/ x \in at..n /\ y = x + m
<1>5. ASSUME NEW y \in 1..n + m
      PROVE  \/ \E x \in 1..n : Old(x, y) /\ r[y] = s[x]
             \/ \E k \in 1..m : y = at - 1 + k /\ r[y] = new[k]
  <2>1. \/ y \in 1..at - 1
        \/ \E k \in 1..m : y = at - 1 + k
        \/ \E x \in at..n : y = x + m
    BY <1>0, <1>2, InsertedSplit
  <2>2. CASE y \in 1..at - 1
    <3>1. y \in 1..n
      BY <1>0, <1>2, <2>2
    <3> QED BY <1>1, <2>2, <3>1
  <2>3. CASE \E k \in 1..m : y = at - 1 + k
    BY <1>1, <2>3
  <2>4. CASE \E x \in at..n : y = x + m
    <3>1. PICK x \in at..n : y = x + m
      BY <2>4
    <3>2. x \in 1..n
      BY <1>0, <1>2
    <3> QED BY <1>1, <3>1, <3>2
  <2> QED BY <2>1, <2>2, <2>3, <2>4
<1>6. PICK x \in 1..n : Old(x, d) /\ r[d] = s[x]
  <2>1. ~ \E k \in 1..m : d = at - 1 + k /\ r[d] = new[k]
    <3>1. r[d].id \in Ids
      BY <1>4, ProgramIs
    <3> QED BY <1>2, <3>1
  <2> QED BY <1>5, <2>1
<1>7. CASE \E y \in 1..n : Old(y, e) /\ r[e] = s[y]
  <2>1. PICK y \in 1..n : Old(y, e) /\ r[e] = s[y]
    BY <1>7
  <2>2. x < y
    BY <1>0, <1>2, <1>4, <1>6, <2>1
  <2> HIDE DEF Old
  <2>3. s[x].id = Program[j].id
    BY <1>4, <1>6
  <2>4. \/ s[y].kind \in Clear
        \/ \E l \in 1..Len(Program) : j < l /\ s[y].id = Program[l].id
    BY <1>3, <2>2, <2>3
  <2> QED BY <2>1, <2>4
<1>8. CASE \E k \in 1..m : e = at - 1 + k /\ r[e] = new[k]
  <2>1. PICK k \in 1..m : e = at - 1 + k /\ r[e] = new[k]
    BY <1>8
  <2>2. at # 1
    <3> SUFFICES ASSUME at = 1 PROVE FALSE
      OBVIOUS
    <3>1. x \in at..n /\ d = x + m
      BY <1>0, <1>6
    <3> QED BY <1>0, <1>4, <2>1, <3>1
  <2> QED BY <1>2, <2>1, <2>2
<1> QED BY <1>5, <1>7, <1>8

LEMMA OrderThinned ==
  ASSUME NEW s, NEW t, NEW pos, Thins(s, t, pos), Len(s) \in Nat, Len(t) \in Nat, InOrder(s)
  PROVE  InOrder(t)
<1>1. /\ pos \in [1..Len(t) -> 1..Len(s)]
      /\ \A h, j \in 1..Len(t) : h < j => pos[h] < pos[j]
      /\ \A h \in 1..Len(t) : t[h].id = s[pos[h]].id /\ t[h].kind = s[pos[h]].kind
  BY DEF Thins
<1> SUFFICES ASSUME NEW d \in 1..Len(t), NEW e \in 1..Len(t), d < e,
                    NEW j \in 1..Len(Program), t[d].id = Program[j].id
             PROVE  \/ t[e].kind \in Clear
                    \/ \E l \in 1..Len(Program) : j < l /\ t[e].id = Program[l].id
  BY DEF InOrder
<1>2. pos[d] \in 1..Len(s) /\ pos[e] \in 1..Len(s) /\ pos[d] < pos[e]
  BY <1>1
<1>3. s[pos[d]].id = Program[j].id
  BY <1>1
<1>4. \/ s[pos[e]].kind \in Clear
      \/ \E l \in 1..Len(Program) : j < l /\ s[pos[e]].id = Program[l].id
  BY <1>2, <1>3 DEF InOrder
<1> QED BY <1>1, <1>4

LEMMA OrderThickened ==
  ASSUME NEW s, NEW t, NEW pos, Thins(s, t, pos), Len(s) \in Nat, Len(t) \in Nat, InOrder(t),
         \A d \in 1..Len(s) : Stays(t, pos, d) \/ (s[d].kind \in Clear /\ s[d].id \notin Ids)
  PROVE  InOrder(s)
<1>1. /\ pos \in [1..Len(t) -> 1..Len(s)]
      /\ \A h, j \in 1..Len(t) : h < j => pos[h] < pos[j]
      /\ \A h \in 1..Len(t) : t[h].id = s[pos[h]].id /\ t[h].kind = s[pos[h]].kind
  BY DEF Thins
<1> SUFFICES ASSUME NEW d \in 1..Len(s), NEW e \in 1..Len(s), d < e,
                    NEW j \in 1..Len(Program), s[d].id = Program[j].id, s[e].kind \notin Clear
             PROVE  \E l \in 1..Len(Program) : j < l /\ s[e].id = Program[l].id
  BY DEF InOrder
<1>2. Stays(t, pos, d) /\ Stays(t, pos, e)
  BY ProgramIs
<1>3. PICK x \in 1..Len(t) : pos[x] = d
  BY <1>2 DEF Stays
<1>4. PICK y \in 1..Len(t) : pos[y] = e
  BY <1>2 DEF Stays
<1>5. x < y
  <2> SUFFICES ASSUME ~(x < y) PROVE FALSE
    OBVIOUS
  <2>1. x = y \/ y < x
    OBVIOUS
  <2>2. pos[x] \in Int /\ pos[y] \in Int
    BY <1>3, <1>4
  <2>3. y < x => pos[y] < pos[x]
    BY <1>1, Zenon
  <2>4. pos[y] <= pos[x]
    BY <2>1, <2>2, <2>3
  <2> QED BY <1>3, <1>4, <2>2, <2>4
<1>6. /\ t[x].id = Program[j].id
      /\ t[y].kind = s[e].kind /\ t[y].id = s[e].id
  BY <1>1, <1>3, <1>4
<1>7. \/ t[y].kind \in Clear
      \/ \E l \in 1..Len(Program) : j < l /\ t[y].id = Program[l].id
  BY <1>5, <1>6, Zenon DEF InOrder
<1> QED BY <1>6, <1>7, Zenon

----------------------------------------------------------------------------
(* Flattened sequences.                                                     *)

\* Where the elements of a flattened sequence come from: P[k] is the place of the
\* last element of the k-th sequence.
PlacesOf(P, ss, r) ==
  /\ P \in [0..Len(ss) -> Nat] /\ P[0] = 0
  /\ \A k \in 1..Len(ss) : P[k] = P[k - 1] + Len(ss[k])
  /\ Len(r) = P[Len(ss)]
  /\ \A k \in 1..Len(ss) : \A j \in 1..Len(ss[k]) : r[P[k - 1] + j] = ss[k][j]
  /\ \A d \in 1..Len(r) : \E k \in 1..Len(ss) : \E j \in 1..Len(ss[k]) : d = P[k - 1] + j

\* The same of the first k sequences; F[k] is what they flatten to.
PlacedUpTo(P, F, ss, k) ==
  /\ \A h \in 1..k : \A j \in 1..Len(ss[h]) :
       P[h - 1] + j \in 1..P[k] /\ F[k][P[h - 1] + j] = ss[h][j]
  /\ \A d \in 1..P[k] : \E h \in 1..k : \E j \in 1..Len(ss[h]) : d = P[h - 1] + j

LEMMA FlattenPlaces ==
  ASSUME NEW S, NEW ss \in Seq(Seq(S))
  PROVE  \E P \in [0..Len(ss) -> Nat] : PlacesOf(P, ss, FlattenSeq(ss))
<1> DEFINE n == Len(ss)
           r == FlattenSeq(ss)
<1>1. n \in Nat /\ \A k \in 1..n : ss[k] \in Seq(S) /\ Len(ss[k]) \in Nat
  OBVIOUS
<1>2. PICK F \in [0..n -> Seq(S)] : /\ F[0] = <<>>
                                    /\ \A k \in 1..n : F[k] = F[k - 1] \o ss[k]
                                    /\ r = F[n]
  BY Flattened
<1> DEFINE P == [k \in 0..n |-> Len(F[k])]
<1>3. P \in [0..n -> Nat] /\ P[0] = 0
  BY <1>1, <1>2
<1>4. ASSUME NEW k \in 1..n
      PROVE  /\ k \in 0..n /\ k - 1 \in 0..n
             /\ F[k - 1] \in Seq(S) /\ F[k] \in Seq(S)
             /\ Len(F[k]) = Len(F[k - 1]) + Len(ss[k])
             /\ \A d \in 1..Len(F[k - 1]) : F[k][d] = F[k - 1][d]
             /\ \A j \in 1..Len(ss[k]) : F[k][Len(F[k - 1]) + j] = ss[k][j]
  <2>1. k \in 0..n /\ k - 1 \in 0..n
    BY <1>1
  <2>2. F[k - 1] \in Seq(S) /\ F[k] \in Seq(S) /\ ss[k] \in Seq(S)
    BY <1>1, <1>2, <2>1
  <2> DEFINE a == F[k - 1]
             b == ss[k]
  <2>3. F[k] = a \o b
    BY <1>2
  <2>4. a \in Seq(S) /\ b \in Seq(S)
    BY <2>2
  <2> HIDE DEF a, b
  <2>5. /\ Len(a \o b) = Len(a) + Len(b)
        /\ \A i \in 1..Len(a) + Len(b) :
             (a \o b)[i] = IF i <= Len(a) THEN a[i] ELSE b[i - Len(a)]
    BY <2>4, ConcatProperties
  <2>6. Len(a) \in Nat /\ Len(b) \in Nat
    BY <2>4
  <2>7. ASSUME NEW d \in 1..Len(a) PROVE (a \o b)[d] = a[d]
    <3>1. d \in 1..Len(a) + Len(b) /\ d <= Len(a)
      BY <2>6
    <3> QED BY <2>5, <3>1
  <2>8. ASSUME NEW j \in 1..Len(b) PROVE (a \o b)[Len(a) + j] = b[j]
    <3>1. /\ Len(a) + j \in 1..Len(a) + Len(b) /\ ~(Len(a) + j <= Len(a))
          /\ (Len(a) + j) - Len(a) = j
      BY <2>6
    <3> QED BY <2>5, <3>1
  <2> QED BY <2>1, <2>2, <2>3, <2>5, <2>7, <2>8 DEF a, b
<1> DEFINE T == {k \in Nat : k <= n => PlacedUpTo(P, F, ss, k)}
<1>5. 0 \in T
  <2>1. PlacedUpTo(P, F, ss, 0)
    BY <1>3 DEF PlacedUpTo
  <2> QED BY <2>1
<1>6. ASSUME NEW k \in Nat, k \in T PROVE k + 1 \in T
  <2> SUFFICES ASSUME k + 1 <= n PROVE PlacedUpTo(P, F, ss, k + 1)
    OBVIOUS
  <2>1. PICK q \in 1..n : q = k + 1
    BY <1>1
  <2>1a. q - 1 = k /\ k \in 0..n /\ q \in 0..n
    BY <1>1, <2>1
  <2>2. /\ F[q - 1] \in Seq(S)
        /\ Len(F[q]) = Len(F[q - 1]) + Len(ss[q])
        /\ \A d \in 1..Len(F[q - 1]) : F[q][d] = F[q - 1][d]
        /\ \A j \in 1..Len(ss[q]) : F[q][Len(F[q - 1]) + j] = ss[q][j]
    BY <1>4
  <2>3. P[k] = Len(F[k]) /\ P[q] = Len(F[q])
    BY <2>1a
  <2>3a. P[k] \in Nat /\ P[q] \in Nat
    BY <1>3, <2>1a
  <2> HIDE DEF P
  <2>3b. /\ P[q] = P[k] + Len(ss[q])
         /\ \A d \in 1..P[k] : F[q][d] = F[k][d]
         /\ \A j \in 1..Len(ss[q]) : F[q][P[k] + j] = ss[q][j]
    BY <2>1a, <2>2, <2>3
  <2>4a. PlacedUpTo(P, F, ss, k)
    BY <1>6, <2>1a
  <2>4. /\ \A h \in 1..k : \A j \in 1..Len(ss[h]) :
             P[h - 1] + j \in 1..P[k] /\ F[k][P[h - 1] + j] = ss[h][j]
        /\ \A d \in 1..P[k] : \E h \in 1..k : \E j \in 1..Len(ss[h]) : d = P[h - 1] + j
        /\ Len(ss[q]) \in Nat
    BY <1>1, <2>4a DEF PlacedUpTo
  <2>5. ASSUME NEW h \in 1..q, NEW j \in 1..Len(ss[h])
        PROVE  P[h - 1] + j \in 1..P[q] /\ F[q][P[h - 1] + j] = ss[h][j]
    <3>1. CASE h = q
      <4>1. h - 1 = k /\ j \in 1..Len(ss[q])
        BY <2>1a, <3>1
      <4>2. P[k] + j \in 1..P[q]
        <5>1. P[q] = P[k] + Len(ss[q]) /\ Len(ss[q]) \in Nat
          BY <2>3b, <2>4
        <5> QED BY <2>3a, <4>1, <5>1
      <4> QED BY <2>3b, <3>1, <4>1, <4>2
    <3>2. CASE h # q
      <4>1. h \in 1..k
        BY <2>1, <3>2
      <4>2. P[h - 1] + j \in 1..P[k] /\ F[k][P[h - 1] + j] = ss[h][j]
        BY <2>4, <4>1
      <4>3. P[h - 1] + j \in 1..P[q]
        <5>1. P[k] <= P[q]
          <6>1. P[q] = P[k] + Len(ss[q]) /\ Len(ss[q]) \in Nat
            BY <2>3b, <2>4
          <6> QED BY <2>3a, <6>1
        <5>2. P[h - 1] + j \in 1..P[k]
          BY <4>2
        <5> QED BY <2>3a, <5>1, <5>2
      <4>4. F[q][P[h - 1] + j] = F[k][P[h - 1] + j]
        BY <2>3b, <4>2
      <4> QED BY <4>2, <4>3, <4>4
    <3> QED BY <3>1, <3>2
  <2>6. ASSUME NEW d \in 1..P[q]
        PROVE  \E h \in 1..q : \E j \in 1..Len(ss[h]) : d = P[h - 1] + j
    <3>1. CASE d <= P[k]
      <4>1. d \in 1..P[k]
        BY <2>3a, <3>1
      <4>2. PICK h \in 1..k : \E j \in 1..Len(ss[h]) : d = P[h - 1] + j
        BY <2>4, <4>1
      <4>3. h \in 1..q
        BY <2>1
      <4> QED BY <4>2, <4>3
    <3>2. CASE ~(d <= P[k])
      <4>1. d - P[k] \in 1..Len(ss[q]) /\ d = P[k] + (d - P[k])
        BY <2>3a, <2>3b, <2>4, <3>2
      <4>2. q \in 1..q /\ q - 1 = k
        BY <2>1, <2>1a
      <4> QED BY <4>1, <4>2
    <3> QED BY <3>1, <3>2
  <2> QED BY <2>1, <2>5, <2>6 DEF PlacedUpTo
<1> HIDE DEF T
<1>7. n \in T
  BY <1>1, <1>5, <1>6, NatInduct
<1>8. PlacedUpTo(P, F, ss, n)
  BY <1>1, <1>7 DEF T
<1>9. \A k \in 1..n : P[k] = P[k - 1] + Len(ss[k])
  BY <1>4
<1>10. Len(r) = P[n]
  BY <1>1, <1>2
<1> HIDE DEF P
<1>11. PlacesOf(P, ss, r)
  <2>1. /\ \A h \in 1..n : \A j \in 1..Len(ss[h]) : r[P[h - 1] + j] = ss[h][j]
        /\ \A d \in 1..Len(r) : \E h \in 1..n : \E j \in 1..Len(ss[h]) : d = P[h - 1] + j
    BY <1>2, <1>8, <1>10 DEF PlacedUpTo
  <2> QED BY <1>3, <1>9, <1>10, <2>1 DEF PlacesOf
<1> QED BY <1>3, <1>11

\* What grows at every step grows.
LEMMA StepsGrow ==
  ASSUME NEW n \in Nat, NEW F \in [0..n -> Nat], \A k \in 1..n : F[k - 1] < F[k],
         NEW i \in 0..n, NEW j \in 0..n, i < j
  PROVE  F[i] < F[j]
<1> DEFINE T == {d \in Nat : i + 1 + d <= n => F[i] < F[i + 1 + d]}
<1>1. 0 \in T
  <2> SUFFICES ASSUME i + 1 <= n PROVE F[i] < F[i + 1]
    OBVIOUS
  <2>1. i + 1 \in 1..n /\ (i + 1) - 1 = i
    OBVIOUS
  <2> QED BY <2>1
<1>2. ASSUME NEW d \in Nat, d \in T PROVE d + 1 \in T
  <2> SUFFICES ASSUME i + 1 + (d + 1) <= n PROVE F[i] < F[i + 1 + (d + 1)]
    OBVIOUS
  <2>1. PICK q \in 1..n : q = i + 1 + (d + 1)
    OBVIOUS
  <2>2. q - 1 = i + 1 + d /\ q - 1 <= n /\ q \in 0..n /\ q - 1 \in 0..n
    BY <2>1
  <2>3. F[i] < F[i + 1 + d]
    BY <1>2, <2>2
  <2>4. F[q - 1] < F[q] /\ F[i] \in Nat /\ F[q - 1] \in Nat /\ F[q] \in Nat
    BY <2>2
  <2>5. F[i] < F[q]
    BY <2>2, <2>3, <2>4
  <2> QED BY <2>1, <2>5
<1> HIDE DEF T
<1>3. j - i - 1 \in Nat /\ i + 1 + (j - i - 1) = j /\ j <= n
  OBVIOUS
<1>4. j - i - 1 \in T
  BY <1>1, <1>2, <1>3, NatInduct
<1> QED BY <1>3, <1>4 DEF T

\* Handler offsets that are at no instruction.
Trailing(b, table) == Wanted(table) \ {OffsetOf(b, i) : i \in 1..Len(b)}

Labelled(b, table, i) == OffsetOf(b, i) \in LabelOffsets(b) \union Wanted(table)

\* What an emitted text is: each instruction of b has its line, a line before it
\* if its offset is labelled, and the offsets at no instruction come last.
EmitsAs(t, b, table, pos) ==
  /\ Thins(t, b, pos)
  /\ \A i \in 1..Len(b) : t[pos[i]] = InsnLine(b, i)
  /\ \A d \in 1..Len(t) : ~Stays(b, pos, d) =>
       \/ \E i \in 1..Len(b) :
            d = pos[i] - 1 /\ Labelled(b, table, i) /\ t[d] = Label(OffsetOf(b, i))
       \/ /\ \A i \in 1..Len(b) : pos[i] < d
          /\ \E o \in Trailing(b, table) : t[d] = Label(o)
  /\ \A i \in 1..Len(b) : Labelled(b, table, i) =>
       pos[i] - 1 \in 1..Len(t) /\ t[pos[i] - 1] = Label(OffsetOf(b, i))
  /\ \A o \in Trailing(b, table) : \E d \in 1..Len(t) :
       t[d] = Label(o) /\ \A i \in 1..Len(b) : pos[i] < d

\* A handler table whose fields are numbers.
Numbers == [start : Nat, end : Nat, target : Nat]

LEMMA WantedAre ==
  ASSUME NEW table \in Seq(Numbers), NEW size \in Nat, Within(table, size)
  PROVE  /\ Wanted(table) \in SUBSET (0..size)
         /\ size = 0 => Wanted(table) = {}
<1>1. DOMAIN table = 1..Len(table) /\ \A k \in 1..Len(table) : table[k] \in Numbers
  OBVIOUS
<1>2. ASSUME NEW k \in DOMAIN table
      PROVE  {table[k].start, table[k].end, table[k].target} \subseteq 0..size /\ size # 0
  <2>1. table[k].start \in Nat /\ table[k].end \in Nat /\ table[k].target \in Nat
    BY <1>1 DEF Numbers
  <2>2. table[k].start <= table[k].end /\ table[k].end <= size /\ table[k].target < size
    BY DEF Within
  <2> QED BY <2>1, <2>2
<1>3. ASSUME NEW o \in Wanted(table) PROVE o \in 0..size /\ size # 0
  <2>1. PICK k \in DOMAIN table : o \in {table[k].start, table[k].end, table[k].target}
    BY DEF Wanted
  <2> QED BY <1>2, <2>1
<1> QED BY <1>3

LEMMA LabelIsLine == \A o \in Int : Label(o) \in Lines
<1> SUFFICES ASSUME NEW o \in Int PROVE Label(o) \in Lines
  OBVIOUS
<1> QED BY DEF Label, Lines

LEMMA InsnLineIs ==
  ASSUME NEW b \in Seq(Instructions), NEW i \in 1..Len(b)
  PROVE  /\ InsnLine(b, i) \in Lines /\ Target(b, i) \in Int
         /\ InsnLine(b, i).id = b[i].id /\ InsnLine(b, i).kind = b[i].kind
         /\ InsnLine(b, i).len = b[i].len
<1>1. b[i] \in Instructions
  BY ElementIn
<1>2. /\ b[i].id \in Ids \union AddedIds /\ b[i].kind \in Kinds \union AddedIds
      /\ b[i].kind # "label" /\ b[i].id # "label" /\ b[i].len \in Nat \ {0}
      /\ b[i].rel \in Int /\ <<b[i].id, b[i].kind>> \in Known
  BY <1>1, InstructionIs
<1>3. OffsetOf(b, i) \in Nat
  <2>1. b \in Seq(Items) /\ i \in 1..Len(b) + 1
    BY ItemSeqs
  <2> QED BY <2>1, Offsets
<1>4. Target(b, i) \in Int
  BY <1>2, <1>3 DEF Target
<1> DEFINE nm == IF b[i].kind \in Addressing THEN Target(b, i) ELSE 0
<1>5. nm \in Int
  BY <1>4
<1>6. InsnLine(b, i) = [id |-> b[i].id, kind |-> b[i].kind, len |-> b[i].len, name |-> nm]
  BY DEF InsnLine
<1> HIDE DEF nm
<1> QED BY <1>2, <1>4, <1>5, <1>6 DEF Lines

\* Two sequences after each other.
Joined(t, a, b) ==
  /\ Len(t) = Len(a) + Len(b)
  /\ \A d \in 1..Len(a) : t[d] = a[d]
  /\ \A k \in 1..Len(b) : t[Len(a) + k] = b[k]

LEMMA Joins ==
  ASSUME NEW S, NEW a \in Seq(S), NEW b \in Seq(S)
  PROVE  a \o b \in Seq(S) /\ Joined(a \o b, a, b)
<1>1. /\ Len(a \o b) = Len(a) + Len(b)
      /\ \A i \in 1..Len(a) + Len(b) :
           (a \o b)[i] = IF i <= Len(a) THEN a[i] ELSE b[i - Len(a)]
      /\ a \o b \in Seq(S)
  BY ConcatProperties
<1>2. Len(a) \in Nat /\ Len(b) \in Nat
  OBVIOUS
<1>3. ASSUME NEW d \in 1..Len(a) PROVE (a \o b)[d] = a[d]
  <2>1. d \in 1..Len(a) + Len(b) /\ d <= Len(a)
    BY <1>2
  <2> QED BY <1>1, <2>1
<1>4. ASSUME NEW k \in 1..Len(b) PROVE (a \o b)[Len(a) + k] = b[k]
  <2>1. /\ Len(a) + k \in 1..Len(a) + Len(b) /\ ~(Len(a) + k <= Len(a))
        /\ (Len(a) + k) - Len(a) = k
    BY <1>2
  <2> QED BY <1>1, <2>1
<1> QED BY <1>1, <1>3, <1>4 DEF Joined

LEMMA OneOrTwo ==
  \A m : (m = 1 \/ m = 2) =>
    m \in Nat /\ m \in 1..m /\ 0 < m /\ \A j \in 1..m : j # m => m = 2 /\ j = 1
OBVIOUS

\* The lines of one instruction: perhaps a label, and its own.
Piece(ls, b, table, i) ==
  /\ Len(ls) = 1 \/ Len(ls) = 2
  /\ ls[Len(ls)] = InsnLine(b, i)
  /\ Labelled(b, table, i) <=> Len(ls) = 2
  /\ Len(ls) = 2 => ls[1] = Label(OffsetOf(b, i))

LEMMA PieceIs ==
  ASSUME NEW b \in Seq(Instructions), NEW table, NEW i \in 1..Len(b)
  PROVE  /\ LabelLine(b, table, i) \o <<InsnLine(b, i)>> \in Seq(Lines)
         /\ Piece(LabelLine(b, table, i) \o <<InsnLine(b, i)>>, b, table, i)
<1> DEFINE x == InsnLine(b, i)
           l == Label(OffsetOf(b, i))
           h == LabelLine(b, table, i)
           r == h \o <<x>>
<1>1. x \in Lines
  BY InsnLineIs
<1>2. l \in Lines
  <2>1. b \in Seq(Items) /\ i \in 1..Len(b) + 1
    BY ItemSeqs
  <2>2. OffsetOf(b, i) \in Int
    BY <2>1, Offsets
  <2> QED BY <2>2, LabelIsLine
<1>3. h = IF Labelled(b, table, i) THEN <<l>> ELSE <<>>
  BY DEF LabelLine, Labelled
<1> HIDE DEF x, l, h
<1>4. <<x>> \in Seq(Lines) /\ Len(<<x>>) = 1 /\ <<x>>[1] = x
  BY <1>1
<1>5. <<l>> \in Seq(Lines) /\ Len(<<l>>) = 1 /\ <<l>>[1] = l
  BY <1>2
<1>6. h \in Seq(Lines)
  BY <1>3, <1>5
<1> DEFINE y == <<x>>
<1>7. y \in Seq(Lines) /\ Len(y) = 1 /\ y[1] = x
  BY <1>4
<1> HIDE DEF y
<1>8. h \o y \in Seq(Lines) /\ Joined(h \o y, h, y)
  BY <1>6, <1>7, Joins
<1>9. r = h \o y
  BY DEF y
<1> HIDE DEF r
<1>10. r \in Seq(Lines) /\ Len(r) = Len(h) + 1 /\ r[Len(h) + 1] = x
       /\ \A d \in 1..Len(h) : r[d] = h[d]
  BY <1>7, <1>8, <1>9 DEF Joined
<1>11. CASE Labelled(b, table, i)
  <2>1. Len(h) = 1 /\ h[1] = l
    BY <1>3, <1>5, <1>11
  <2>2. Len(r) = 2 /\ r[2] = x /\ r[1] = l
    BY <1>10, <2>1
  <2> QED BY <1>10, <1>11, <2>2 DEF Piece, x, l, r, h
<1>12. CASE ~Labelled(b, table, i)
  <2>1. Len(h) = 0
    BY <1>3, <1>12
  <2>2. Len(r) = 1 /\ r[1] = x
    BY <1>10, <2>1
  <2> QED BY <1>10, <1>12, <2>2 DEF Piece, x, l, r, h
<1> QED BY <1>11, <1>12

LEMMA TrailingAre ==
  ASSUME NEW b \in Seq(Instructions), NEW table \in Seq(Numbers), Within(table, Size(b))
  PROVE  Size(b) \in Nat /\ Trailing(b, table) \in SUBSET (1..Size(b))
<1>1. b \in Seq(Items) /\ Len(b) \in Nat
  BY ItemSeqs
<1>2. /\ OffsetOf(b, 1) = 0 /\ OffsetOf(b, Len(b) + 1) = Size(b)
      /\ \A i \in 1..Len(b) + 1 : OffsetOf(b, i) \in Nat
  BY <1>1, Offsets
<1>3. Len(b) + 1 \in 1..Len(b) + 1
  BY <1>1
<1>4. Size(b) \in Nat
  BY <1>2, <1>3
<1>5. Wanted(table) \in SUBSET (0..Size(b)) /\ (Size(b) = 0 => Wanted(table) = {})
  BY <1>4, WantedAre
<1>6. 0 \notin Trailing(b, table)
  <2>1. CASE Len(b) = 0
    <3>1. Size(b) = 0
      BY <1>2, <2>1
    <3> QED BY <1>5, <3>1 DEF Trailing
  <2>2. CASE Len(b) # 0
    <3>1. 1 \in 1..Len(b)
      BY <1>1, <2>2
    <3> QED BY <1>2, <3>1 DEF Trailing
  <2> QED BY <2>1, <2>2
<1> QED BY <1>4, <1>5, <1>6 DEF Trailing

LEMMA EmittedIs ==
  ASSUME NEW b \in Seq(Instructions), NEW table \in Seq(Numbers), Within(table, Size(b))
  PROVE  /\ Emitted(b, table) \in Seq(Lines)
         /\ \E pos \in [1..Len(b) -> 1..Len(Emitted(b, table))] :
              EmitsAs(Emitted(b, table), b, table, pos)
<1> DEFINE n == Len(b)
           ss == [i \in 1..n |-> LabelLine(b, table, i) \o <<InsnLine(b, i)>>]
           t0 == FlattenSeq(ss)
           rest == Trailing(b, table)
           ends == Sorted(rest)
           tail == [k \in DOMAIN ends |-> Label(ends[k])]
           t == Emitted(b, table)
<1>1. n \in Nat /\ DOMAIN b = 1..n
  OBVIOUS
<1>2. t = t0 \o tail
  BY <1>1 DEF Emitted, Trailing
<1>3. ASSUME NEW i \in 1..n PROVE ss[i] \in Seq(Lines) /\ Piece(ss[i], b, table, i)
  BY PieceIs
<1>4. ss \in Seq(Seq(Lines)) /\ Len(ss) = n
  <2> HIDE DEF n
  <2>1. ss \in [1..n -> Seq(Lines)]
    <3>1. ASSUME NEW i \in 1..n
          PROVE  LabelLine(b, table, i) \o <<InsnLine(b, i)>> \in Seq(Lines)
      BY PieceIs DEF n
    <3> QED BY <3>1
  <2> HIDE DEF ss
  <2> QED BY <1>1, <2>1, FunIsSeq
<1>5. /\ tail \in Seq(Lines)
      /\ \A k \in 1..Len(tail) : \E o \in rest : tail[k] = Label(o)
      /\ \A o \in rest : \E k \in 1..Len(tail) : tail[k] = Label(o)
  <2>1. Size(b) \in Nat /\ rest \in SUBSET (1..Size(b))
    BY TrailingAre
  <2> DEFINE c == Cardinality(rest)
  <2>2. c \in Nat /\ ends \in [1..c -> rest]
    BY <2>1, SortedIn, Upto
  <2>3. \A o \in rest : \E k \in 1..c : ends[k] = o
    BY <2>1, SortedAt
  <2> HIDE DEF rest, ends, c
  <2>4. \A o \in rest : Label(o) \in Lines
    BY <2>1, LabelIsLine
  <2>5. tail \in [1..c -> Lines] /\ \A k \in 1..c : tail[k] = Label(ends[k])
    BY <2>2, <2>4
  <2> HIDE DEF tail
  <2>6. tail \in Seq(Lines) /\ Len(tail) = c
    BY <2>2, <2>5, FunIsSeq
  <2> QED BY <2>2, <2>3, <2>5, <2>6
<1> HIDE DEF ss, tail, rest, n
<1>6. PICK P \in [0..n -> Nat] : PlacesOf(P, ss, t0)
  BY <1>4, FlattenPlaces
<1>7. /\ P[0] = 0
      /\ \A k \in 1..n : P[k] = P[k - 1] + Len(ss[k])
      /\ Len(t0) = P[n]
      /\ \A k \in 1..n : \A j \in 1..Len(ss[k]) : t0[P[k - 1] + j] = ss[k][j]
      /\ \A d \in 1..Len(t0) : \E k \in 1..n : \E j \in 1..Len(ss[k]) : d = P[k - 1] + j
  BY <1>4, <1>6 DEF PlacesOf
<1>8. t0 \in Seq(Lines)
  BY <1>4, FlattenIn
<1> HIDE DEF t0, t
<1>9. t \in Seq(Lines) /\ Joined(t, t0, tail)
  BY <1>2, <1>5, <1>8, Joins
<1>10. /\ Len(t) = Len(t0) + Len(tail) /\ Len(t0) \in Nat /\ Len(tail) \in Nat
       /\ \A d \in 1..Len(t0) : t[d] = t0[d]
       /\ \A k \in 1..Len(tail) : t[Len(t0) + k] = tail[k]
  BY <1>5, <1>8, <1>9 DEF Joined
<1>11. ASSUME NEW k \in 1..n
       PROVE  /\ k \in 0..n /\ k - 1 \in 0..n /\ P[k] \in Nat /\ P[k - 1] \in Nat
              /\ P[k - 1] < P[k]
              /\ (Len(ss[k]) = 1 \/ Len(ss[k]) = 2)
  <2>1. k \in 0..n /\ k - 1 \in 0..n
    BY <1>1
  <2>2. P[k] \in Nat /\ P[k - 1] \in Nat
    BY <2>1
  <2>3. (Len(ss[k]) = 1 \/ Len(ss[k]) = 2)
    BY <1>3 DEF Piece
  <2>4. P[k] = P[k - 1] + Len(ss[k])
    BY <1>7
  <2>5. P[k - 1] < P[k]
    <3>1. Len(ss[k]) \in Nat /\ 0 < Len(ss[k])
      BY <2>3, OneOrTwo
    <3> QED BY <2>2, <2>4, <3>1
  <2> QED BY <2>1, <2>2, <2>3, <2>5
<1>12. \A i, j \in 0..n : i < j => P[i] < P[j]
  BY <1>1, <1>11, StepsGrow
<1> DEFINE pos == [i \in 1..n |-> P[i]]
<1>13. ASSUME NEW i \in 1..n
       PROVE  pos[i] \in 1..Len(t0) /\ pos[i] \in 1..Len(t) /\ t[pos[i]] = InsnLine(b, i)
  <2>1. P[i] <= P[n]
    <3>1. n \in 0..n /\ i \in 0..n /\ (i < n \/ i = n)
      BY <1>1
    <3>2. P[i] \in Nat /\ P[n] \in Nat
      BY <3>1
    <3> QED BY <1>12, <3>1, <3>2
  <2>2. P[i] \in 1..Len(t0)
    BY <1>7, <1>10, <1>11, <2>1
  <2>3. t0[P[i - 1] + Len(ss[i])] = InsnLine(b, i)
    <3>1. ss[i][Len(ss[i])] = InsnLine(b, i)
      BY <1>3 DEF Piece
    <3>2a. Len(ss[i]) = 1 \/ Len(ss[i]) = 2
      BY <1>11
    <3>2. Len(ss[i]) \in 1..Len(ss[i])
      BY <3>2a, OneOrTwo
    <3> QED BY <1>7, <3>1, <3>2
  <2>4. t0[P[i]] = InsnLine(b, i)
    BY <1>7, <2>3
  <2>5. P[i] \in 1..Len(t)
    BY <1>10, <2>2
  <2> QED BY <1>10, <2>2, <2>4, <2>5
<1>14. pos \in [1..n -> 1..Len(t)]
  BY <1>13
<1>15. \A i, j \in 1..n : i < j => pos[i] < pos[j]
  BY <1>1, <1>12
<1>16. ASSUME NEW i \in 1..n, Labelled(b, table, i)
       PROVE  pos[i] - 1 \in 1..Len(t) /\ t[pos[i] - 1] = Label(OffsetOf(b, i))
  <2>1. Len(ss[i]) = 2 /\ ss[i][1] = Label(OffsetOf(b, i))
    BY <1>3, <1>16 DEF Piece
  <2>2a. P[i] = P[i - 1] + Len(ss[i]) /\ P[i - 1] \in Nat
    BY <1>7, <1>11
  <2>2. P[i] - 1 = P[i - 1] + 1 /\ 1 \in 1..Len(ss[i])
    BY <2>1, <2>2a
  <2>3. t0[P[i] - 1] = Label(OffsetOf(b, i))
    BY <1>7, <2>1, <2>2
  <2>4. P[i] \in 1..Len(t0) /\ P[i - 1] \in Nat
    BY <1>11, <1>13
  <2>5. P[i] - 1 \in 1..Len(t0)
    BY <1>10, <2>2, <2>4
  <2>6. P[i] - 1 \in 1..Len(t)
    BY <1>10, <2>5
  <2> QED BY <1>10, <2>3, <2>5, <2>6
<1>17. ASSUME NEW d \in 1..Len(t), ~Stays(b, pos, d)
       PROVE  \/ \E i \in 1..n :
                   d = pos[i] - 1 /\ Labelled(b, table, i) /\ t[d] = Label(OffsetOf(b, i))
              \/ /\ \A i \in 1..n : pos[i] < d
                 /\ \E o \in rest : t[d] = Label(o)
  <2>1. CASE d \in 1..Len(t0)
    <3>1. PICK k \in 1..n : \E j \in 1..Len(ss[k]) : d = P[k - 1] + j
      BY <1>7, <2>1
    <3>2. PICK j \in 1..Len(ss[k]) : d = P[k - 1] + j
      BY <3>1
    <3>3. j # Len(ss[k])
      <4> SUFFICES ASSUME j = Len(ss[k]) PROVE FALSE
        OBVIOUS
      <4>1. d = pos[k]
        BY <1>7, <3>2
      <4> QED BY <1>17, <4>1 DEF Stays, n
    <3>4. Len(ss[k]) = 2 /\ j = 1
      <4>1. (Len(ss[k]) = 1 \/ Len(ss[k]) = 2)
        BY <1>11
      <4> QED BY <3>3, <4>1, OneOrTwo
    <3>5. Labelled(b, table, k)
      BY <1>3, <3>4 DEF Piece
    <3>6. d = pos[k] - 1
      <4>1. P[k] = P[k - 1] + Len(ss[k]) /\ P[k - 1] \in Nat
        BY <1>7, <1>11
      <4> QED BY <3>2, <3>4, <4>1
    <3> QED BY <1>16, <3>5, <3>6
  <2>2. CASE d \notin 1..Len(t0)
    <3>1. d - Len(t0) \in 1..Len(tail) /\ d = Len(t0) + (d - Len(t0))
      BY <1>10, <2>2
    <3>2. t[d] = tail[d - Len(t0)]
      BY <1>10, <3>1
    <3>3. \E o \in rest : t[d] = Label(o)
      BY <1>5, <3>1, <3>2
    <3>4. ASSUME NEW i \in 1..n PROVE pos[i] < d
      BY <1>10, <1>13, <2>2
    <3> QED BY <3>3, <3>4
  <2> QED BY <2>1, <2>2
<1>18. ASSUME NEW o \in rest
       PROVE  \E d \in 1..Len(t) : t[d] = Label(o) /\ \A i \in 1..n : pos[i] < d
  <2>1. PICK k \in 1..Len(tail) : tail[k] = Label(o)
    BY <1>5
  <2>2. Len(t0) + k \in 1..Len(t) /\ t[Len(t0) + k] = Label(o)
    BY <1>10, <2>1
  <2>3. ASSUME NEW i \in 1..n PROVE pos[i] < Len(t0) + k
    BY <1>10, <1>13
  <2> QED BY <2>2, <2>3
<1>19. Thins(t, b, pos)
  <2>1. ASSUME NEW i \in 1..n
        PROVE  /\ b[i].id = t[pos[i]].id /\ b[i].kind = t[pos[i]].kind
               /\ b[i].len = t[pos[i]].len
    BY <1>13, InsnLineIs DEF n
  <2> HIDE DEF pos
  <2> QED BY <1>14, <1>15, <2>1 DEF Thins, n
<1> HIDE DEF pos
<1>20. EmitsAs(t, b, table, pos)
  BY <1>13, <1>16, <1>17, <1>18, <1>19 DEF EmitsAs, n, rest
<1> QED BY <1>9, <1>14, <1>20 DEF n, t

\* r is t without what is not in K.
Keeps(t, r, pos, K) ==
  /\ Picks(pos, Len(r), Len(t), K)
  /\ \A i \in 1..Len(r) : r[i] = t[pos[i]]

LEMMA OnlyKeeps ==
  ASSUME NEW S, NEW t \in Seq(S), NEW K \in SUBSET (1..Len(t))
  PROVE  /\ Only(t, K) \in Seq(S)
         /\ \E pos \in [1..Len(Only(t, K)) -> 1..Len(t)] : Keeps(t, Only(t, K), pos, K)
<1> DEFINE m == Len(t)
           r == Only(t, K)
<1>1. m \in Nat /\ \A k \in 1..m : t[k] \in S
  OBVIOUS
<1>2. PICK n \in Nat : \E pos \in [1..n -> 1..m] : Picks(pos, n, m, K)
  BY <1>1, PicksExist
<1>3. PICK pos \in [1..n -> 1..m] : Picks(pos, n, m, K)
  BY <1>2
<1>4. r = [i \in 1..n |-> t[pos[i]]]
  <2>1. Picks(pos, n, Len(t), K)
    BY <1>3
  <2>2. Only(t, K) = Picked(t, pos, n)
    BY <2>1, OnlyIs, Zenon
  <2> QED BY <2>2 DEF Picked
<1> HIDE DEF r, m
<1>5. r \in [1..n -> S] /\ \A i \in 1..n : r[i] = t[pos[i]]
  BY <1>1, <1>4
<1>6. r \in Seq(S) /\ Len(r) = n
  BY <1>5, FunIsSeq
<1>7. Keeps(t, r, pos, K)
  BY <1>3, <1>5, <1>6 DEF Keeps, m
<1>8. pos \in [1..Len(r) -> 1..m]
  BY <1>6
<1> QED BY <1>6, <1>7, <1>8 DEF r, m

\* Keeping is thinning.
LEMMA KeepsThins ==
  ASSUME NEW s, NEW t, NEW r, NEW pos, NEW K, Keeps(t, r, pos, K),
         Len(s) = Len(t), Len(t) \in Nat,
         \A k \in 1..Len(t) : k \in K =>
           t[k].id = s[k].id /\ t[k].kind = s[k].kind /\ t[k].len = s[k].len
  PROVE  /\ Thins(s, r, pos)
         /\ \A k \in 1..Len(t) : Stays(r, pos, k) <=> k \in K
<1>1. /\ pos \in [1..Len(r) -> 1..Len(t)]
      /\ \A i, j \in 1..Len(r) : i < j => pos[i] < pos[j]
      /\ \A i \in 1..Len(r) : pos[i] \in K /\ r[i] = t[pos[i]]
      /\ \A k \in 1..Len(t) : k \in K => \E i \in 1..Len(r) : pos[i] = k
  BY DEF Keeps, Picks
<1>2. ASSUME NEW i \in 1..Len(r)
      PROVE  r[i].id = s[pos[i]].id /\ r[i].kind = s[pos[i]].kind /\ r[i].len = s[pos[i]].len
  <2>1. pos[i] \in 1..Len(t) /\ pos[i] \in K /\ r[i] = t[pos[i]]
    BY <1>1
  <2> QED BY <2>1
<1>3. Thins(s, r, pos)
  BY <1>1, <1>2 DEF Thins
<1>4. ASSUME NEW k \in 1..Len(t) PROVE Stays(r, pos, k) <=> k \in K
  BY <1>1 DEF Stays
<1> QED BY <1>3, <1>4

----------------------------------------------------------------------------
(* The lines of a text.                                                     *)

LEMMA LineIs ==
  \A x \in Lines :
    /\ x.id \in Ids \union AddedIds \union {"label"}
    /\ x.kind \in Kinds \union AddedIds \union {"label"}
    /\ x.len \in Nat /\ x.name \in Int
    /\ x.kind = "label" <=> x.id = "label"
    /\ x.kind = "label" => x.len = 0
    /\ x.kind # "label" => <<x.id, x.kind>> \in Known /\ x.len # 0
                           /\ x.id \in Ids \union AddedIds
<1> SUFFICES ASSUME NEW x \in Lines
             PROVE  /\ x.id \in Ids \union AddedIds \union {"label"}
                    /\ x.kind \in Kinds \union AddedIds \union {"label"}
                    /\ x.len \in Nat /\ x.name \in Int
                    /\ x.kind = "label" <=> x.id = "label"
                    /\ x.kind = "label" => x.len = 0
                    /\ x.kind # "label" => <<x.id, x.kind>> \in Known /\ x.len # 0
                                           /\ x.id \in Ids \union AddedIds
  OBVIOUS
<1>1. /\ x.id \in Ids \union AddedIds \union {"label"}
      /\ x.kind \in Kinds \union AddedIds \union {"label"}
      /\ x.len \in Nat /\ x.name \in Int
      /\ \/ x.id = "label" /\ x.kind = "label" /\ x.len = 0
         \/ <<x.id, x.kind>> \in Known /\ x.kind # "label" /\ x.len # 0
  BY DEF Lines
<1>2. \A y \in Ids \union AddedIds : y # "label"
  BY ProgramIs DEF Points, AddedIds
<1>3. <<x.id, x.kind>> \in Known => x.id \in Ids \union AddedIds
  <2> DEFINE i == x.id
             k == x.kind
  <2> HIDE DEF i, k
  <2> SUFFICES ASSUME <<i, k>> \in Known PROVE i \in Ids \union AddedIds
    BY DEF i, k
  <2>1. CASE \E j \in DOMAIN Program : <<i, k>> = <<Program[j].id, Program[j].kind>>
    BY <2>1 DEF Ids
  <2>2. CASE \E a \in AddedIds : <<i, k>> = <<a, a>>
    BY <2>2
  <2> QED BY <2>1, <2>2 DEF Known
<1> QED BY <1>1, <1>2, <1>3

\* The offsets of a body are all different.
LEMMA OffsetsDiffer ==
  ASSUME NEW b \in Seq(Instructions), NEW i \in 1..Len(b) + 1, NEW j \in 1..Len(b) + 1
  PROVE  /\ OffsetOf(b, i) = OffsetOf(b, j) => i = j
         /\ i < j <=> OffsetOf(b, i) < OffsetOf(b, j)
<1>1. b \in Seq(Items) /\ Len(b) \in Nat
  BY ItemSeqs
<1>2. ASSUME NEW k \in 1..Len(b) + 1, NEW l \in 1..Len(b) + 1, k < l
      PROVE  OffsetOf(b, k) < OffsetOf(b, l)
  <2>1. k \in 1..Len(b)
    BY <1>1, <1>2
  <2>2. b[k].len # 0
    BY <2>1, InstructionIs, ElementIn
  <2>3. k <= l
    BY <1>2
  <2> QED BY <1>1, <1>2, <2>2, <2>3, OffsetsGrow
<1>3. OffsetOf(b, i) \in Nat /\ OffsetOf(b, j) \in Nat
  BY <1>1, Offsets
<1>4. i < j \/ i = j \/ j < i
  OBVIOUS
<1>5. i < j => OffsetOf(b, i) < OffsetOf(b, j)
  BY <1>2
<1>6. j < i => OffsetOf(b, j) < OffsetOf(b, i)
  BY <1>2
<1> QED BY <1>3, <1>4, <1>5, <1>6

----------------------------------------------------------------------------
(* Where the labels of a text lead.                                         *)

IsLabel(t, d, o) == t[d].kind = "label" /\ t[d].name = o

LabelLeads(t, o, p) == \A d \in 1..Len(t) : IsLabel(t, d, o) => Leads(t, d, p)

\* Every handler offset is one of an instruction, or of the end.
AtBoundaries(table, b) == Wanted(table) \subseteq {OffsetOf(b, i) : i \in 1..Len(b) + 1}

\* Where the lines of an emitted text are: a label is at the instruction behind it.
LEMMA EmittedLabel ==
  ASSUME NEW b \in Seq(Instructions), NEW table, AtBoundaries(table, b),
         NEW t, Len(t) \in Nat, NEW pos, EmitsAs(t, b, table, pos),
         NEW d \in 1..Len(t), t[d].kind = "label"
  PROVE  /\ ~Stays(b, pos, d)
         /\ \E i \in 1..Len(b) + 1 : /\ Cuts(b, pos, d, i) /\ t[d] = Label(OffsetOf(b, i))
                                     /\ Labelled(b, table, i)
                                     /\ i <= Len(b) => d = pos[i] - 1
<1> DEFINE n == Len(b)
<1>0. n \in Nat
  OBVIOUS
<1>1. /\ pos \in [1..n -> 1..Len(t)]
      /\ \A i, j \in 1..n : i < j => pos[i] < pos[j]
      /\ \A i \in 1..n : b[i].kind = t[pos[i]].kind
  BY DEF EmitsAs, Thins
<1>2. ~Stays(b, pos, d)
  <2>1. \A i \in 1..n : b[i].kind # "label"
    BY InstructionIs, ElementIn
  <2> QED BY <1>1, <2>1 DEF Stays
<1>3. \A i \in 1..n : pos[i] \in Int /\ pos[i] # d
  BY <1>1, <1>2 DEF Stays
<1>4. CASE \E i \in 1..n :
             d = pos[i] - 1 /\ Labelled(b, table, i) /\ t[d] = Label(OffsetOf(b, i))
  <2>1. PICK i \in 1..n :
          d = pos[i] - 1 /\ Labelled(b, table, i) /\ t[d] = Label(OffsetOf(b, i))
    BY <1>4
  <2>2. ASSUME NEW j \in 1..n PROVE j < i <=> pos[j] < d
    <3>1. pos[j] \in Int /\ pos[i] \in Int /\ pos[j] # d
      BY <1>3
    <3>2. j < i => pos[j] < pos[i]
      BY <1>1
    <3>3. i < j => pos[i] < pos[j]
      BY <1>1
    <3>4. j < i \/ i = j \/ i < j
      OBVIOUS
    <3> QED BY <2>1, <3>1, <3>2, <3>3, <3>4
  <2>3. i \in 1..n + 1
    OBVIOUS
  <2> QED BY <1>2, <2>1, <2>2, <2>3 DEF Cuts
<1>5. CASE /\ \A i \in 1..n : pos[i] < d
           /\ \E o \in Trailing(b, table) : t[d] = Label(o)
  <2>1. PICK o \in Trailing(b, table) : t[d] = Label(o)
    BY <1>5
  <2>2. o \in {OffsetOf(b, i) : i \in 1..n + 1} /\ o \notin {OffsetOf(b, i) : i \in 1..n}
    BY DEF AtBoundaries, Trailing
  <2>3. PICK i \in 1..n + 1 : o = OffsetOf(b, i)
    BY <2>2
  <2>4. i = n + 1
    <3>1. i \notin 1..n
      BY <2>2, <2>3
    <3> QED BY <1>0, <3>1
  <2>5. n + 1 \in 1..n + 1 /\ ~(n + 1 <= n) /\ \A j \in 1..n : j < n + 1
    BY <1>0
  <2>6. Cuts(b, pos, d, n + 1)
    BY <1>5, <2>5 DEF Cuts
  <2>7. Labelled(b, table, n + 1)
    BY <2>3, <2>4 DEF Labelled, Trailing
  <2> QED BY <1>2, <2>1, <2>3, <2>4, <2>5, <2>6, <2>7
<1> QED BY <1>2, <1>4, <1>5 DEF EmitsAs

\* An emitted label leads where its offset leads.
LEMMA EmittedLeads ==
  ASSUME NEW b \in Seq(Instructions), NEW table, AtBoundaries(table, b),
         NEW t, Len(t) \in Nat, NEW pos, EmitsAs(t, b, table, pos),
         NEW o, NEW p \in Points, Names(b, o, p)
  PROVE  LabelLeads(t, o, p)
<1> DEFINE n == Len(b)
<1>0. n \in Nat
  OBVIOUS
<1>1. PICK i \in 1..n + 1 : OffsetOf(b, i) = o /\ Leads(b, i, p)
  BY NamesLeads
<1> SUFFICES ASSUME NEW d \in 1..Len(t), IsLabel(t, d, o) PROVE Leads(t, d, p)
  BY DEF LabelLeads
<1>2. t[d].kind = "label" /\ t[d].name = o
  BY DEF IsLabel
<1>3. PICK j \in 1..n + 1 : Cuts(b, pos, d, j) /\ t[d] = Label(OffsetOf(b, j))
  BY <1>2, EmittedLabel
<1>4. OffsetOf(b, j) = o
  BY <1>2, <1>3 DEF Label
<1>5. j = i
  BY <1>1, <1>4, OffsetsDiffer
<1>6. ASSUME NEW k \in 1..Len(t), ~Stays(b, pos, k)
      PROVE  t[k].kind \in Clear /\ t[k].id \notin From(p)
  <2>1. \E x : t[k] = Label(x)
    BY <1>6 DEF EmitsAs
  <2>2. t[k].kind = "label" /\ t[k].id = "label"
    BY <2>1 DEF Label
  <2>3. "label" \notin From(p)
    BY PointIs
  <2> QED BY <2>2, <2>3 DEF Clear
<1>7. Thins(t, b, pos) /\ d \in 1..Len(t) + 1 /\ Cuts(b, pos, d, i) /\ Leads(b, i, p)
  BY <1>1, <1>3, <1>5 DEF EmitsAs
<1>8. \A k \in 1..Len(t) : Stays(b, pos, k) \/ (t[k].kind \in Clear /\ t[k].id \notin From(p))
  BY <1>6
<1> QED BY <1>0, <1>7, <1>8, LeadsThickened

\* It is in the order of the program if the body is.
LEMMA EmittedOrder ==
  ASSUME NEW b \in Seq(Instructions), NEW table, InOrder(b),
         NEW t, Len(t) \in Nat, NEW pos, EmitsAs(t, b, table, pos)
  PROVE  InOrder(t)
<1>1. ASSUME NEW k \in 1..Len(t), ~Stays(b, pos, k)
      PROVE  t[k].kind \in Clear /\ t[k].id \notin Ids
  <2>1. \E x : t[k] = Label(x)
    BY <1>1 DEF EmitsAs
  <2>2. t[k].kind = "label" /\ t[k].id = "label"
    BY <2>1 DEF Label
  <2>3. "label" \notin Ids
    BY ProgramIs DEF Points
  <2> QED BY <2>2, <2>3 DEF Clear
<1>2. Thins(t, b, pos) /\ Len(b) \in Nat
  BY DEF EmitsAs
<1>3. \A k \in 1..Len(t) : Stays(b, pos, k) \/ (t[k].kind \in Clear /\ t[k].id \notin Ids)
  BY <1>1
<1> QED BY <1>2, <1>3, OrderThickened

\* An instruction of its own between the lines: what a user adds.
LEMMA NewLineIs ==
  ASSUME NEW n \in Nat \ {0}
  PROVE  /\ NewLine(n) \in Lines /\ NewLine(n).id = "new" /\ NewLine(n).kind = "new"
         /\ <<NewLine(n)>> \in Seq(Lines) /\ Len(<<NewLine(n)>>) = 1
         /\ <<NewLine(n)>>[1] = NewLine(n)
<1>1. <<"new", "new">> \in Known
  BY DEF Known, AddedIds
<1>2. NewLine(n) \in Lines
  BY <1>1 DEF NewLine, Lines, AddedIds
<1>3. NewLine(n).id = "new" /\ NewLine(n).kind = "new"
  BY DEF NewLine
<1> DEFINE x == NewLine(n)
<1>4. x \in Lines
  BY <1>2
<1> HIDE DEF x
<1>5. <<x>> \in Seq(Lines) /\ Len(<<x>>) = 1 /\ <<x>>[1] = x
  BY <1>4
<1> QED BY <1>2, <1>3, <1>5 DEF x

LEMMA WithIs ==
  ASSUME NEW t \in Seq(Lines), NEW k \in 1..Len(t) + 1, NEW n \in Nat
  PROVE  /\ With(t, k, n) \in Seq(Lines)
         /\ InOrder(t) => InOrder(With(t, k, n))
         /\ \A o : \A p \in Points : LabelLeads(t, o, p) => LabelLeads(With(t, k, n), o, p)
<1>1. CASE n = 0
  BY <1>1 DEF With
<1>2. CASE n # 0
  <2> DEFINE new == <<NewLine(n)>>
             r == InsertedAt(t, k, new)
  <2>1. /\ new \in Seq(Lines) /\ Len(new) = 1
        /\ new[1].id = "new" /\ new[1].kind = "new"
    BY <1>2, NewLineIs
  <2>2. With(t, k, n) = r
    BY <1>2 DEF With
  <2> HIDE DEF new
  <2>3. \A j \in 1..Len(new) : new[j].id = "new" /\ new[j].kind = "new"
    BY <2>1
  <2>4. r \in Seq(Lines) /\ Placed(r, t, new, k)
    BY <2>1, InsertedPlaced
  <2>5. Foreign(new) /\ Passed(new)
    <3>1. "new" \notin Ids
      BY ProgramIs DEF Points, AddedIds
    <3> QED BY <2>3, <3>1 DEF Foreign, Passed, Clear
  <2>6. InOrder(t) => InOrder(r)
    BY <2>1, <2>5, OrderInserted DEF FirstOrPassed
  <2>7. ASSUME NEW o, NEW p \in Points, LabelLeads(t, o, p), NEW d \in 1..Len(r), IsLabel(r, d, o)
        PROVE  Leads(r, d, p)
    <3>0. /\ Len(r) = Len(t) + 1 /\ Len(t) \in Nat
          /\ \A j \in 1..k - 1 : r[j] = t[j]
          /\ \A j \in 1..Len(new) : r[k - 1 + j] = new[j]
          /\ \A j \in k..Len(t) : r[j + 1] = t[j]
      BY <2>1, <2>4 DEF Placed
    <3>1. r[d].kind = "label" /\ r[d].name = o
      BY <2>7 DEF IsLabel
    <3> HIDE DEF r
    <3>2. CASE d \in 1..k - 1
      <4>1. d \in 1..Len(t) /\ IsLabel(t, d, o)
        BY <3>0, <3>1, <3>2 DEF IsLabel
      <4>2. Leads(t, d, p)
        BY <2>7, <4>1 DEF LabelLeads
      <4>3. d \in 1..k /\ \A j \in 1..Len(new) : new[j].kind \in Clear
        BY <2>5, <3>2 DEF Passed
      <4> QED BY <2>1, <4>2, <4>3, LeadsThrough DEF r
    <3>3. CASE d = k
      <4>1. r[k - 1 + 1] = new[1] /\ k - 1 + 1 = k
        BY <2>1, <3>0
      <4> QED BY <2>1, <3>1, <3>3, <4>1
    <3>4. CASE d > k
      <4>1. d - 1 \in k..Len(t) /\ (d - 1) + 1 = d
        BY <3>0, <3>4
      <4>2. d - 1 \in 1..Len(t) /\ IsLabel(t, d - 1, o)
        BY <3>0, <3>1, <4>1 DEF IsLabel
      <4>3. Leads(t, d - 1, p)
        BY <2>7, <4>2 DEF LabelLeads
      <4>4. \A j \in 1..Len(new) : new[j].id \notin From(p)
        BY <2>3, PointIs DEF AddedIds
      <4>5. d - 1 \in k..Len(t) + 1
        BY <4>1
      <4>6. Leads(r, (d - 1) + Len(new), p)
        BY <2>1, <4>3, <4>4, <4>5, LeadsBehind DEF r
      <4>7. (d - 1) + Len(new) = d
        BY <2>1
      <4> QED BY <4>6, <4>7
    <3> QED BY <3>2, <3>3, <3>4
  <2>8. ASSUME NEW o, NEW p \in Points, LabelLeads(t, o, p) PROVE LabelLeads(r, o, p)
    BY <2>7, <2>8 DEF LabelLeads
  <2> HIDE DEF r
  <2> QED BY <2>2, <2>4, <2>6, <2>8
<1> QED BY <1>1, <1>2

LEMMA WithoutIs ==
  ASSUME NEW t \in Seq(Lines), NEW x
  PROVE  /\ Without(t, x) \in Seq(Lines)
         /\ InOrder(t) => InOrder(Without(t, x))
         /\ \A o : \A p \in Points : InOrder(t) /\ LabelLeads(t, o, p) =>
              LabelLeads(Without(t, x), o, p)
<1> DEFINE K == {k \in DOMAIN t : t[k].id # x}
           r == Without(t, x)
<1>1. r = Only(t, K) /\ K \in SUBSET (1..Len(t)) /\ Len(t) \in Nat
  BY DEF Without
<1> HIDE DEF r, K
<1>2. r \in Seq(Lines) /\ \E pos \in [1..Len(r) -> 1..Len(t)] : Keeps(t, r, pos, K)
  BY <1>1, OnlyKeeps
<1>3. PICK pos \in [1..Len(r) -> 1..Len(t)] : Keeps(t, r, pos, K)
  BY <1>2
<1>4. Thins(t, r, pos)
  BY <1>1, <1>3, KeepsThins
<1>5. Len(r) \in Nat
  BY <1>2
<1>6. InOrder(t) => InOrder(r)
  BY <1>1, <1>4, <1>5, OrderThinned
<1>7. ASSUME NEW o, NEW p \in Points, InOrder(t), LabelLeads(t, o, p) PROVE LabelLeads(r, o, p)
  <2> SUFFICES ASSUME NEW i \in 1..Len(r), IsLabel(r, i, o) PROVE Leads(r, i, p)
    BY DEF LabelLeads
  <2>1. Cuts(r, pos, pos[i], i) /\ pos[i] \in 1..Len(t)
    BY <1>4, <1>5, CutAt
  <2>2. r[i] = t[pos[i]]
    BY <1>3 DEF Keeps
  <2>3. IsLabel(t, pos[i], o)
    BY <2>2 DEF IsLabel
  <2>4. Leads(t, pos[i], p)
    BY <1>7, <2>1, <2>3 DEF LabelLeads
  <2>5. ASSUME NEW d \in 1..Len(t), t[d].id \in From(p), NEW m \in d + 1..Len(t)
        PROVE  t[m].kind \in Clear \/ t[m].id \in From(p)
    BY <1>1, <1>7, <2>5, OrderSettles
  <2>6. pos[i] \in 1..Len(t) + 1 /\ i \in 1..Len(r) + 1
    BY <1>1, <1>5, <2>1
  <2> QED BY <1>1, <1>4, <1>5, <2>1, <2>4, <2>5, <2>6, LeadsThinned
<1> QED BY <1>2, <1>6, <1>7 DEF r

\* A label the text defines is the offset of one of its lines.
LEMMA ResolvedIs ==
  ASSUME NEW t \in Seq(Lines), NEW o
  PROVE  /\ o \in Labels(t) =>
              \E k \in 1..Len(t) : /\ Defines(t, k) /\ IsLabel(t, k, o)
                                   /\ Resolved(t, o) = OffsetOf(t, k)
         /\ o \notin Labels(t) => Resolved(t, o) = o
         /\ o \in Int => Resolved(t, o) \in Int
         /\ o \in Nat => Resolved(t, o) \in Nat
<1>1. DOMAIN t = 1..Len(t) /\ Len(t) \in Nat /\ t \in Seq(Items)
  BY ItemSeqs
<1>2. ASSUME o \in Labels(t)
      PROVE  \E k \in 1..Len(t) : /\ Defines(t, k) /\ IsLabel(t, k, o)
                                  /\ Resolved(t, o) = OffsetOf(t, k)
  <2> DEFINE k == CHOOSE k \in DOMAIN t : Defines(t, k) /\ t[k].name = o
  <2>1. \E j \in DOMAIN t : Defines(t, j) /\ t[j].name = o
    BY <1>2 DEF Labels
  <2>2. k \in DOMAIN t /\ Defines(t, k) /\ t[k].name = o
    BY <2>1
  <2>3. Resolved(t, o) = OffsetOf(t, k)
    BY <1>2 DEF Resolved
  <2> HIDE DEF k
  <2> QED BY <1>1, <2>2, <2>3 DEF IsLabel, Defines
<1>3. o \notin Labels(t) => Resolved(t, o) = o
  BY DEF Resolved
<1>4. \A k \in 1..Len(t) : OffsetOf(t, k) \in Nat
  <2>1. \A k \in 1..Len(t) : k \in 1..Len(t) + 1
    BY <1>1
  <2> QED BY <1>1, <2>1, Offsets
<1>5. o \in Labels(t) => Resolved(t, o) \in Nat
  BY <1>2, <1>4
<1> QED BY <1>2, <1>3, <1>5

\* b is what is left of text t without its labels.
ParsesAs(t, b, pos) ==
  /\ Thins(t, b, pos)
  /\ \A k \in 1..Len(t) : Stays(b, pos, k) <=> t[k].kind # "label"
  /\ \A i \in 1..Len(b) : b[i] = ParsedLine(t, pos[i])

LEMMA ParsedLineIs ==
  ASSUME NEW t \in Seq(Lines), NEW k \in 1..Len(t)
  PROVE  /\ ParsedLine(t, k).id = t[k].id /\ ParsedLine(t, k).kind = t[k].kind
         /\ ParsedLine(t, k).len = t[k].len
         /\ t[k].kind # "label" => ParsedLine(t, k) \in Instructions
<1> DEFINE rel == IF t[k].kind \in Addressing
                  THEN Resolved(t, t[k].name) - OffsetOf(t, k) ELSE 0
<1>1. /\ t[k].id \in Ids \union AddedIds \union {"label"}
      /\ t[k].kind \in Kinds \union AddedIds \union {"label"}
      /\ t[k].len \in Nat /\ t[k].name \in Int
      /\ t[k].kind # "label" => <<t[k].id, t[k].kind>> \in Known /\ t[k].len # 0
                                 /\ t[k].id \in Ids \union AddedIds
  BY LineIs, ElementIn
<1>2. Resolved(t, t[k].name) \in Int
  BY <1>1, ResolvedIs
<1>3. OffsetOf(t, k) \in Nat
  <2>1. t \in Seq(Items) /\ k \in 1..Len(t) + 1
    BY ItemSeqs
  <2> QED BY <2>1, Offsets
<1>4. rel \in Int /\ (t[k].kind \notin Addressing => rel = 0)
  BY <1>2, <1>3
<1>5. ParsedLine(t, k) = [id |-> t[k].id, kind |-> t[k].kind, len |-> t[k].len, rel |-> rel]
  BY DEF ParsedLine
<1> HIDE DEF rel
<1>6. ASSUME t[k].kind # "label" PROVE ParsedLine(t, k) \in Instructions
  <2>1. t[k].kind \in Kinds \union AddedIds /\ t[k].len \in Nat \ {0}
    BY <1>1, <1>6
  <2> DEFINE x == [id |-> t[k].id, kind |-> t[k].kind, len |-> t[k].len, rel |-> rel]
  <2>2. x \in [id : Ids \union AddedIds, kind : Kinds \union AddedIds,
               len : Nat \ {0}, rel : Int]
    BY <1>1, <1>4, <1>6, <2>1
  <2>3. <<x.id, x.kind>> \in Known /\ (x.kind \notin Addressing => x.rel = 0)
    BY <1>1, <1>4, <1>6
  <2> HIDE DEF x
  <2>4. x \in Instructions
    BY <2>2, <2>3 DEF Instructions
  <2> QED BY <1>5, <2>4 DEF x
<1> QED BY <1>5, <1>6

LEMMA ParsedIs ==
  ASSUME NEW t \in Seq(Lines)
  PROVE  /\ Parsed(t) \in Seq(Instructions)
         /\ \E pos \in [1..Len(Parsed(t)) -> 1..Len(t)] : ParsesAs(t, Parsed(t), pos)
<1> DEFINE m == Len(t)
           f == [k \in 1..m |-> ParsedLine(t, k)]
           S == {f[k] : k \in 1..m}
           K == {k \in 1..m : t[k].kind # "label"}
           b == Parsed(t)
<1>1. m \in Nat /\ DOMAIN t = 1..m
  OBVIOUS
<1>2. b = Only(f, K)
  BY <1>1 DEF Parsed
<1>3. f \in [1..m -> S] /\ \A k \in 1..m : f[k] = ParsedLine(t, k)
  OBVIOUS
<1>4. K \in SUBSET (1..m) /\ \A k \in 1..m : k \in K <=> t[k].kind # "label"
  OBVIOUS
<1> HIDE DEF f, S, K, b, m
<1>5. f \in Seq(S) /\ Len(f) = m
  BY <1>1, <1>3, FunIsSeq
<1>6. K \in SUBSET (1..Len(f))
  BY <1>4, <1>5
<1>7. b \in Seq(S) /\ \E pos \in [1..Len(b) -> 1..Len(f)] : Keeps(f, b, pos, K)
  BY <1>2, <1>5, <1>6, OnlyKeeps
<1>8. PICK pos \in [1..Len(b) -> 1..Len(f)] : Keeps(f, b, pos, K)
  BY <1>7
<1>9. \A k \in 1..m : f[k].id = t[k].id /\ f[k].kind = t[k].kind /\ f[k].len = t[k].len
  BY <1>3, ParsedLineIs DEF m
<1>10. /\ Thins(t, b, pos)
       /\ \A k \in 1..m : Stays(b, pos, k) <=> k \in K
  <2>1. Len(t) = Len(f) /\ Len(f) \in Nat
    BY <1>1, <1>5 DEF m
  <2>2. \A k \in 1..Len(f) : k \in K =>
          f[k].id = t[k].id /\ f[k].kind = t[k].kind /\ f[k].len = t[k].len
    BY <1>5, <1>9
  <2>3. Thins(t, b, pos) /\ \A k \in 1..Len(f) : Stays(b, pos, k) <=> k \in K
    BY <1>8, <2>1, <2>2, KeepsThins
  <2> QED BY <1>5, <2>3
<1>11. ASSUME NEW i \in 1..Len(b)
       PROVE  b[i] = ParsedLine(t, pos[i]) /\ b[i] \in Instructions
  <2>1. b[i] = f[pos[i]] /\ pos[i] \in K
    BY <1>8 DEF Keeps, Picks
  <2>2. pos[i] \in 1..m
    BY <1>4, <2>1
  <2>3. b[i] = ParsedLine(t, pos[i]) /\ t[pos[i]].kind # "label"
    BY <1>3, <1>4, <2>1, <2>2
  <2> QED BY <2>2, <2>3, ParsedLineIs DEF m
<1>12. b \in Seq(Instructions)
  <2>1. b \in [1..Len(b) -> Instructions] /\ Len(b) \in Nat
    BY <1>7, <1>11
  <2> QED BY <2>1, FunIsSeq
<1>13. ParsesAs(t, b, pos)
  BY <1>4, <1>10, <1>11 DEF ParsesAs, m
<1>14. pos \in [1..Len(b) -> 1..Len(t)]
  BY <1>5 DEF m
<1> QED BY <1>12, <1>13, <1>14 DEF b

\* What was dropped has no length: the parsed body has the offsets of the text.
LEMMA ParsedOffsets ==
  ASSUME NEW t \in Seq(Lines), NEW b \in Seq(Instructions), NEW pos, ParsesAs(t, b, pos)
  PROVE  /\ \A k \in 1..Len(t) + 1, i \in 1..Len(b) + 1 :
              Cuts(b, pos, k, i) => OffsetOf(t, k) = OffsetOf(b, i)
         /\ \A i \in 1..Len(b) : OffsetOf(t, pos[i]) = OffsetOf(b, i)
         /\ Size(t) = Size(b)
<1>1. t \in Seq(Items) /\ b \in Seq(Items)
  BY ItemSeqs
<1>2. ASSUME NEW k \in 1..Len(t), ~Stays(b, pos, k) PROVE t[k].len = 0
  <2>1. t[k].kind = "label"
    BY <1>2 DEF ParsesAs
  <2> QED BY <2>1, LineIs, ElementIn
<1>3. Thins(t, b, pos)
  BY DEF ParsesAs
<1> QED BY <1>1, <1>2, <1>3, ThinOffsets

LEMMA ParsedOrder ==
  ASSUME NEW t \in Seq(Lines), InOrder(t)
  PROVE  InOrder(Parsed(t))
<1>1. PICK pos : ParsesAs(t, Parsed(t), pos)
  BY ParsedIs
<1>2. Thins(t, Parsed(t), pos)
  BY <1>1 DEF ParsesAs
<1>3. Len(t) \in Nat /\ Len(Parsed(t)) \in Nat
  BY ParsedIs
<1> QED BY <1>2, <1>3, OrderThinned

\* A label that leads to a point resolves to an offset that names it.
LEMMA ResolvedNames ==
  ASSUME NEW t \in Seq(Lines), NEW o \in Labels(t), NEW p \in Points, LabelLeads(t, o, p)
  PROVE  Names(Parsed(t), Resolved(t, o), p)
<1> DEFINE b == Parsed(t)
<1>1. b \in Seq(Instructions) /\ \E pos : ParsesAs(t, b, pos)
  BY ParsedIs
<1> HIDE DEF b
<1>2. PICK pos : ParsesAs(t, b, pos)
  BY <1>1
<1>3. PICK k \in 1..Len(t) : IsLabel(t, k, o) /\ Resolved(t, o) = OffsetOf(t, k)
  BY ResolvedIs
<1>4. Leads(t, k, p)
  BY <1>3 DEF LabelLeads
<1>5. Thins(t, b, pos) /\ Len(t) \in Nat /\ Len(b) \in Nat
  BY <1>1, <1>2 DEF ParsesAs
<1>6. PICK i \in 1..Len(b) + 1 : Cuts(b, pos, k, i)
  BY <1>5, CutExists
<1>7. k \in 1..Len(t) + 1
  BY <1>5
<1>8. OffsetOf(b, i) = Resolved(t, o)
  BY <1>1, <1>2, <1>3, <1>6, <1>7, ParsedOffsets
<1>9. ASSUME NEW d \in 1..Len(t), ~Stays(b, pos, d) PROVE t[d].id \notin From(p)
  <2>1. t[d].kind = "label"
    BY <1>2, <1>9 DEF ParsesAs
  <2>2. t[d].id = "label"
    BY <2>1, LineIs, ElementIn
  <2> QED BY <2>2, PointIs
<1>10. Leads(b, i, p)
  BY <1>4, <1>5, <1>6, <1>7, <1>9, LeadsThinned
<1>11. Names(b, Resolved(t, o), p)
  BY <1>1, <1>8, <1>10, NamesLeads
<1> QED BY <1>11 DEF b

----------------------------------------------------------------------------
(* The instructions an edit adds.                                           *)

LEMMA AddedIs ==
  ASSUME NEW a \in AddedIds, NEW n \in Nat \ {0}
  PROVE  /\ Added(a, n) \in Instructions /\ Added(a, n).id = a /\ Added(a, n).kind = a
         /\ Added(a, n).len = n
<1>1. <<a, a>> \in Known
  BY DEF Known
<1>2. a \notin Addressing
  BY DEF AddedIds, Addressing
<1> QED BY <1>1, <1>2 DEF Added, Instructions

\* No-ops: so many bytes that control passes.
NopsOf(s, n) ==
  /\ s \in Seq(Instructions) /\ Len(s) = n /\ Size(s) = n
  /\ \A i \in 1..n : s[i].id = "nop" /\ s[i].kind = "nop"

LEMMA NopsAre ==
  ASSUME NEW n \in Nat
  PROVE  NopsOf(Nops(n), n)
<1> DEFINE x == Added("nop", 1)
           s == Nops(n)
<1>1. x \in Instructions /\ x.id = "nop" /\ x.kind = "nop" /\ x.len = 1
  BY AddedIs DEF AddedIds
<1>2. s = [i \in 1..n |-> x]
  BY DEF Nops
<1> HIDE DEF x, s
<1>3. s \in [1..n -> Instructions] /\ \A i \in 1..n : s[i] = x
  BY <1>1, <1>2
<1>4. s \in Seq(Instructions) /\ Len(s) = n
  BY <1>3, FunIsSeq
<1>5. s \in Seq(Items)
  BY <1>4, ItemSeqs
<1> DEFINE F == [i \in 1..n + 1 |-> i - 1]
<1>6. F[1] = 0
  OBVIOUS
<1>7. \A i \in 1..n : F[i + 1] = F[i] + s[i].len
  <2> SUFFICES ASSUME NEW i \in 1..n PROVE F[i + 1] = F[i] + s[i].len
    OBVIOUS
  <2>1. F[i + 1] = i /\ F[i] = i - 1 /\ s[i].len = 1
    BY <1>1, <1>3
  <2> QED BY <2>1
<1>8. F[n + 1] = n
  OBVIOUS
<1> HIDE DEF F
<1>9. n \in 0..Len(s) /\ n + 1 \in 1..n + 1
  BY <1>4
<1>10. OffsetOf(s, n + 1) = n
  BY <1>5, <1>6, <1>7, <1>8, <1>9, OffsetsAre
<1>11. Size(s) = n
  BY <1>4, <1>5, <1>10, Offsets
<1> QED BY <1>1, <1>3, <1>4, <1>11 DEF NopsOf, s

\* What an edit inserts: instructions that are not of the program.
LEMMA NopsForeign ==
  ASSUME NEW n \in Nat
  PROVE  /\ Nops(n) \in Seq(Instructions) /\ Size(Nops(n)) = n
         /\ Foreign(Nops(n)) /\ Passed(Nops(n))
<1>1. NopsOf(Nops(n), n)
  BY NopsAre
<1>2. "nop" \notin Ids
  BY ProgramIs DEF Points, AddedIds
<1> QED BY <1>1, <1>2 DEF NopsOf, Foreign, Passed, Clear

LEMMA PrologueIs ==
  /\ Prologue \in Seq(Instructions) /\ Foreign(Prologue)
<1> DEFINE pad == Align4(LogLen) - LogLen
           a == <<Added("log", LogLen)>>
           b == Nops(pad)
<1>1. pad \in Nat
  BY EditAssumption DEF Align4
<1>2. Added("log", LogLen) \in Instructions /\ Added("log", LogLen).id = "log"
  BY EditAssumption, AddedIs DEF AddedIds
<1> HIDE DEF pad
<1>3. a \in Seq(Instructions) /\ Len(a) = 1 /\ a[1].id = "log"
  BY <1>2
<1>4. b \in Seq(Instructions) /\ Foreign(b)
  BY <1>1, NopsForeign
<1>5. Prologue = a \o b
  BY DEF Prologue, pad
<1> HIDE DEF a, b
<1> DEFINE s == a \o b
<1>6. s \in Seq(Instructions) /\ Joined(s, a, b)
  BY <1>3, <1>4, Joins
<1> HIDE DEF s
<1>7. /\ Len(s) = 1 + Len(b) /\ Len(b) \in Nat
      /\ s[1].id = "log" /\ \A k \in 1..Len(b) : s[1 + k].id \notin Ids
  BY <1>3, <1>4, <1>6 DEF Joined, Foreign
<1>8. "log" \notin Ids
  BY ProgramIs DEF Points, AddedIds
<1>9. ASSUME NEW k \in 1..Len(s) PROVE s[k].id \notin Ids
  <2>1. CASE k = 1
    BY <1>7, <1>8, <2>1
  <2>2. CASE k # 1
    <3>1. k - 1 \in 1..Len(b) /\ 1 + (k - 1) = k
      BY <1>7, <2>2
    <3> QED BY <1>7, <3>1
  <2> QED BY <2>1, <2>2
<1> QED BY <1>5, <1>6, <1>9 DEF Foreign, s

\* What is foreign is no jump, and at no point.
LEMMA ForeignIs ==
  ASSUME NEW new \in Seq(Instructions), Foreign(new), NEW k \in 1..Len(new)
  PROVE  /\ new[k].kind \notin Addressing
         /\ \A p \in Points : new[k].id \notin From(p)
<1>1. new[k].id \notin Ids
  BY DEF Foreign
<1>2. \A p \in Points : new[k].id \notin From(p)
  BY <1>1, PointIs
<1>3. <<new[k].id, new[k].kind>> \in Known
  BY InstructionIs, ElementIn
<1>4. \A j \in DOMAIN Program : Program[j].id \in Ids
  BY DEF Ids
<1> DEFINE i == new[k].id
           q == new[k].kind
<1> HIDE DEF i, q
<1>5. q \in AddedIds
  BY <1>1, <1>3, <1>4 DEF Known, i, q
<1>6. q \notin Addressing
  BY <1>5 DEF AddedIds, Addressing
<1> QED BY <1>2, <1>6 DEF q

\* Every instruction of an edited body was there, or was added.
LEMMA InsertedElements ==
  ASSUME NEW S, NEW s \in Seq(S), NEW new \in Seq(S), NEW at \in 1..Len(s) + 1,
         NEW k \in 1..Len(InsertedAt(s, at, new))
  PROVE  \/ \E j \in 1..Len(s) : InsertedAt(s, at, new)[k] = s[j]
         \/ \E j \in 1..Len(new) : InsertedAt(s, at, new)[k] = new[j]
<1> DEFINE r == InsertedAt(s, at, new)
           n == Len(s)
           m == Len(new)
<1>0. n \in Nat /\ m \in Nat
  OBVIOUS
<1>1. Placed(r, s, new, at)
  BY InsertedPlaced, Zenon
<1> HIDE DEF r
<1>2. /\ Len(r) = n + m
      /\ \A j \in 1..at - 1 : r[j] = s[j]
      /\ \A j \in 1..m : r[at - 1 + j] = new[j]
      /\ \A j \in at..n : r[j + m] = s[j]
  BY <1>1 DEF Placed
<1>3. k \in 1..n + m
  BY <1>2 DEF r
<1> HIDE DEF n, m
<1>3a. at \in 1..n + 1
  BY DEF n
<1>4. \/ k \in 1..at - 1
      \/ \E j \in 1..m : k = at - 1 + j
      \/ \E j \in at..n : k = j + m
  BY <1>0, <1>3, <1>3a, InsertedSplit
<1>5. CASE k \in 1..at - 1
  <2>1. k \in 1..n
    BY <1>0, <1>3a, <1>5
  <2> QED BY <1>2, <1>5, <2>1 DEF r, n
<1>6. CASE \E j \in 1..m : k = at - 1 + j
  BY <1>2, <1>6 DEF r, m
<1>7. CASE \E j \in at..n : k = j + m
  <2>1. PICK j \in at..n : k = j + m
    BY <1>7
  <2>2. j \in 1..n /\ r[k] = s[j]
    BY <1>0, <1>2, <1>3a, <2>1
  <2> QED BY <2>2 DEF r, n
<1> QED BY <1>4, <1>5, <1>6, <1>7

LEMMA InsertedFits ==
  ASSUME NEW b \in Seq(Instructions), NEW new \in Seq(Instructions),
         NEW at \in 1..Len(b) + 1, Foreign(new), AddressesFit(b)
  PROVE  AddressesFit(InsertedAt(b, at, new))
<1> DEFINE r == InsertedAt(b, at, new)
<1>1. r \in Seq(Instructions)
  BY InsertedPlaced
<1> SUFFICES ASSUME NEW k \in 1..Len(r), r[k].kind \in {"jump", "jmp"}
             PROVE  -AddrMax - 1 <= r[k].rel /\ r[k].rel <= AddrMax
  BY <1>1 DEF AddressesFit
<1>2. \/ \E j \in 1..Len(b) : r[k] = b[j]
      \/ \E j \in 1..Len(new) : r[k] = new[j]
  BY InsertedElements
<1> HIDE DEF r
<1>3. ASSUME NEW j \in 1..Len(new) PROVE r[k] # new[j]
  BY ForeignIs DEF Addressing
<1>4. PICK j \in 1..Len(b) : r[k] = b[j]
  BY <1>2, <1>3
<1> QED BY <1>4 DEF AddressesFit

\* An offset that is shifted with the bytes that go in names what it named.
LEMMA NamesFollow ==
  ASSUME NEW b \in Seq(Instructions), NEW new \in Seq(Instructions),
         NEW at \in 1..Len(b) + 1, Foreign(new), FirstOrPassed(at, new),
         NEW o, NEW p \in Points, Names(b, o, p)
  PROVE  Names(InsertedAt(b, at, new), Shifted(o, OffsetOf(b, at), Size(new)), p)
<1> DEFINE r == InsertedAt(b, at, new)
           m == Len(new)
<1>1. /\ b \in Seq(Items) /\ new \in Seq(Items) /\ Len(b) \in Nat /\ m \in Nat
  BY ItemSeqs
<1>2. PICK i \in 1..Len(b) + 1 : OffsetOf(b, i) = o /\ Leads(b, i, p)
  BY NamesLeads
<1>3. r \in Seq(Instructions) /\ Len(r) = Len(b) + m
  BY InsertedPlaced DEF Placed
<1>4. /\ \A k \in 1..at : OffsetOf(r, k) = OffsetOf(b, k)
      /\ \A k \in at..Len(b) + 1 : OffsetOf(r, k + m) = OffsetOf(b, k) + Size(new)
  BY <1>1, InsertedOffsets
<1>5. at < i \/ i = at \/ i < at
  OBVIOUS
<1>6. OffsetOf(b, i) \in Nat /\ OffsetOf(b, at) \in Nat
  BY <1>1, Offsets
<1>7. CASE at <= i
  <2>1. OffsetOf(b, at) <= OffsetOf(b, i)
    BY <1>1, <1>7, OffsetsGrow
  <2>2. i \in at..Len(b) + 1
    BY <1>7
  <2>3. Shifted(o, OffsetOf(b, at), Size(new)) = OffsetOf(r, i + m)
    BY <1>2, <1>4, <1>6, <2>1, <2>2 DEF Shifted
  <2>4. \A k \in 1..Len(new) : new[k].id \notin From(p)
    BY ForeignIs
  <2>5. Leads(r, i + m, p)
    BY <1>2, <2>2, <2>4, LeadsBehind
  <2>6. i + m \in 1..Len(r) + 1
    BY <1>1, <1>3
  <2> HIDE DEF r
  <2> QED BY <1>3, <2>3, <2>5, <2>6, NamesLeads DEF r
<1>8. CASE i < at
  <2>1. OffsetOf(b, i) < OffsetOf(b, at)
    BY <1>8, OffsetsDiffer
  <2>2. i \in 1..at /\ at # 1
    BY <1>8
  <2>3. Shifted(o, OffsetOf(b, at), Size(new)) = OffsetOf(r, i)
    BY <1>2, <1>4, <1>6, <2>1, <2>2 DEF Shifted
  <2>4. \A k \in 1..Len(new) : new[k].kind \in Clear
    BY <2>2 DEF FirstOrPassed, Passed
  <2>5. Leads(r, i, p)
    BY <1>2, <2>2, <2>4, LeadsThrough
  <2>6. i \in 1..Len(r) + 1
    BY <1>1, <1>3
  <2> HIDE DEF r
  <2> QED BY <1>3, <2>3, <2>5, <2>6, NamesLeads DEF r
<1> QED BY <1>5, <1>7, <1>8

LEMMA ShiftedTable ==
  ASSUME NEW table \in Seq(Numbers), NEW at \in Nat, NEW d \in Nat
  PROVE  /\ ShiftedHandlers(table, at, d) \in Seq(Numbers)
         /\ Len(ShiftedHandlers(table, at, d)) = Len(table)
         /\ \A k \in 1..Len(table) :
              /\ ShiftedHandlers(table, at, d)[k].start = Shifted(table[k].start, at, d)
              /\ ShiftedHandlers(table, at, d)[k].end = Shifted(table[k].end, at, d)
              /\ ShiftedHandlers(table, at, d)[k].target = Shifted(table[k].target, at, d)
<1> DEFINE r == ShiftedHandlers(table, at, d)
<1>1. DOMAIN table = 1..Len(table) /\ Len(table) \in Nat
  OBVIOUS
<1>2. r = [k \in 1..Len(table) |-> [start |-> Shifted(table[k].start, at, d),
                                    end |-> Shifted(table[k].end, at, d),
                                    target |-> Shifted(table[k].target, at, d)]]
  BY <1>1 DEF ShiftedHandlers
<1> HIDE DEF r
<1>3. \A o \in Nat : Shifted(o, at, d) \in Nat
  BY DEF Shifted
<1>4. ASSUME NEW k \in 1..Len(table)
      PROVE  /\ r[k] \in Numbers
             /\ r[k].start = Shifted(table[k].start, at, d)
             /\ r[k].end = Shifted(table[k].end, at, d)
             /\ r[k].target = Shifted(table[k].target, at, d)
  <2>0. table[k] \in Numbers
    BY ElementIn
  <2>1. table[k].start \in Nat /\ table[k].end \in Nat /\ table[k].target \in Nat
    BY <2>0 DEF Numbers
  <2> QED BY <1>2, <1>3, <2>1 DEF Numbers
<1>5. r \in [1..Len(table) -> Numbers]
  BY <1>2, <1>4
<1>6. r \in Seq(Numbers) /\ Len(r) = Len(table)
  BY <1>1, <1>5, FunIsSeq
<1> QED BY <1>4, <1>6 DEF r

LEMMA ResolvedTable ==
  ASSUME NEW t \in Seq(Lines), NEW table \in Seq(Numbers)
  PROVE  /\ ResolvedHandlers(t, table) \in Seq(Numbers)
         /\ Len(ResolvedHandlers(t, table)) = Len(table)
         /\ \A k \in 1..Len(table) :
              /\ ResolvedHandlers(t, table)[k].start = Resolved(t, table[k].start)
              /\ ResolvedHandlers(t, table)[k].end = Resolved(t, table[k].end)
              /\ ResolvedHandlers(t, table)[k].target = Resolved(t, table[k].target)
<1> DEFINE r == ResolvedHandlers(t, table)
<1>1. DOMAIN table = 1..Len(table) /\ Len(table) \in Nat
  OBVIOUS
<1>2. r = [k \in 1..Len(table) |-> [start |-> Resolved(t, table[k].start),
                                    end |-> Resolved(t, table[k].end),
                                    target |-> Resolved(t, table[k].target)]]
  BY <1>1 DEF ResolvedHandlers
<1> HIDE DEF r
<1>3. \A o \in Nat : Resolved(t, o) \in Nat
  BY ResolvedIs
<1>4. ASSUME NEW k \in 1..Len(table)
      PROVE  /\ r[k] \in Numbers
             /\ r[k].start = Resolved(t, table[k].start)
             /\ r[k].end = Resolved(t, table[k].end)
             /\ r[k].target = Resolved(t, table[k].target)
  <2>0. table[k] \in Numbers
    BY ElementIn
  <2>1. table[k].start \in Nat /\ table[k].end \in Nat /\ table[k].target \in Nat
    BY <2>0 DEF Numbers
  <2> QED BY <1>2, <1>3, <2>1 DEF Numbers
<1>5. r \in [1..Len(table) -> Numbers]
  BY <1>2, <1>4
<1>6. r \in Seq(Numbers) /\ Len(r) = Len(table)
  BY <1>1, <1>5, FunIsSeq
<1> QED BY <1>4, <1>6 DEF r

----------------------------------------------------------------------------
(* The state: of what kind it is, and in which order.                       *)

BodyInv ==
  /\ body \in Seq(Instructions) /\ AddressesFit(body) /\ InOrder(body)
  /\ handlers \in Seq(Numbers) /\ Len(handlers) = Len(Regions)
  /\ Within(handlers, Size(body))
  /\ lines \in [DOMAIN Located -> Nat]
  /\ tableAt \in Nat /\ Size(body) <= tableAt
  /\ consented \in BOOLEAN

LEMMA SizeIs ==
  ASSUME NEW s \in Seq(Items)
  PROVE  Size(s) \in Nat
<1>1. Len(s) \in Nat /\ Len(s) + 1 \in 1..Len(s) + 1
  OBVIOUS
<1> QED BY <1>1, Offsets

\* The body as opened has the program's offsets.
LEMMA OpenedIs ==
  /\ Opened \in Seq(Instructions) /\ Len(Opened) = Len(Program)
  /\ \A i \in 1..Len(Program) : Opened[i].id = Program[i].id /\ Opened[i].kind = Program[i].kind
  /\ \A i \in 1..Len(Program) + 1 : OffsetOf(Opened, i) = OffsetOf(Program, i)
  /\ Size(Opened) = Size(Program)
  /\ \A p \in Points : PointOffset(Program, p) = OffsetOf(Program, PointIndex(p))
  /\ \A p \in Points : PointOffset(Program, p) \in Nat
  /\ \A i \in 1..Len(Program) : Program[i].kind \in Addressing =>
       Opened[i].rel = PointOffset(Program, Program[i].dest) - OffsetOf(Program, i)
<1> DEFINE n == Len(Program)
           rel(i) == IF Program[i].kind \in Addressing
                     THEN PointOffset(Program, Program[i].dest) - OffsetOf(Program, i)
                     ELSE 0
<1>1. /\ Program \in Seq(Items) /\ n \in Nat /\ DOMAIN Program = 1..n
      /\ \A i \in 1..n : Program[i] \in Originals
  <2>1. Program \in Seq(Originals)
    BY ProgramAssumption DEF Originals
  <2> QED BY <2>1, ItemSeqs, ProgramIs, ElementIn
<1>2. \A i \in 1..n + 1 : OffsetOf(Program, i) \in Nat
  BY <1>1, Offsets
<1>3. \A p \in Points : PointOffset(Program, p) = OffsetOf(Program, PointIndex(p))
  <2>1. OffsetOf(Program, n + 1) = Size(Program)
    BY <1>1, Offsets
  <2> QED BY <2>1 DEF PointOffset, PointIndex
<1>4. \A p \in Points : PointOffset(Program, p) \in Nat
  BY <1>2, <1>3, PointIs
<1>5. ASSUME NEW i \in 1..n PROVE rel(i) \in Int /\ (Program[i].kind \notin Addressing => rel(i) = 0)
  <2>1. CASE Program[i].kind \in Addressing
    <3>1. Program[i].dest \in Points
      BY <1>1, <2>1, ProgramAssumption
    <3>2. PointOffset(Program, Program[i].dest) \in Nat /\ OffsetOf(Program, i) \in Nat
      BY <1>1, <1>2, <1>4, <3>1
    <3> QED BY <2>1, <3>2
  <2>2. CASE Program[i].kind \notin Addressing
    BY <2>2
  <2> QED BY <2>1, <2>2
<1>6. Opened = [i \in 1..n |-> [id |-> Program[i].id, kind |-> Program[i].kind,
                                len |-> Program[i].len, rel |-> rel(i)]]
  BY <1>1 DEF Opened
<1> HIDE DEF rel
<1>7. ASSUME NEW i \in 1..n
      PROVE  /\ Opened[i].id = Program[i].id /\ Opened[i].kind = Program[i].kind
             /\ Opened[i].len = Program[i].len /\ Opened[i].rel = rel(i)
             /\ Opened[i] \in Instructions
  <2>1. Opened[i] = [id |-> Program[i].id, kind |-> Program[i].kind,
                     len |-> Program[i].len, rel |-> rel(i)]
    BY <1>6
  <2>2. /\ Program[i].id \in Ids /\ Program[i].kind \in Kinds /\ Program[i].len \in Nat \ {0}
    BY <1>1 DEF Originals
  <2>3. <<Program[i].id, Program[i].kind>> \in Known
    BY <1>1 DEF Known
  <2> QED BY <1>5, <2>1, <2>2, <2>3 DEF Instructions
<1> HIDE DEF n
<1>8. Opened \in [1..n -> Instructions]
  BY <1>6, <1>7
<1>9. Opened \in Seq(Instructions) /\ Len(Opened) = n
  BY <1>1, <1>8, FunIsSeq
<1>10. Opened \in Seq(Items)
  BY <1>9, ItemSeqs
<1> DEFINE F == [i \in 1..n + 1 |-> OffsetOf(Program, i)]
<1>11. F[1] = 0 /\ \A i \in 1..n : F[i + 1] = F[i] + Opened[i].len
  <2>1. /\ OffsetOf(Program, 1) = 0
        /\ \A i \in 1..n : OffsetOf(Program, i + 1) = OffsetOf(Program, i) + Program[i].len
    BY <1>1, Offsets DEF n
  <2>2. 1 \in 1..n + 1 /\ \A i \in 1..n : i \in 1..n + 1 /\ i + 1 \in 1..n + 1
    BY <1>1
  <2> QED BY <1>7, <2>1, <2>2
<1>12. \A i \in 1..n + 1 : F[i] = OffsetOf(Program, i)
  OBVIOUS
<1> HIDE DEF F
<1>13. n \in 0..Len(Opened)
  BY <1>1, <1>9
<1>14. \A i \in 1..n + 1 : OffsetOf(Opened, i) = F[i]
  BY <1>10, <1>11, <1>13, OffsetsAre
<1>15. Size(Opened) = Size(Program)
  <2>1. n + 1 \in 1..n + 1
    BY <1>1
  <2>2. OffsetOf(Opened, n + 1) = OffsetOf(Program, n + 1)
    BY <1>12, <1>14, <2>1
  <2>3. OffsetOf(Opened, n + 1) = Size(Opened)
    BY <1>9, <1>10, Offsets
  <2>4. OffsetOf(Program, n + 1) = Size(Program)
    BY <1>1, Offsets DEF n
  <2> QED BY <2>2, <2>3, <2>4
<1>16. \A i \in 1..n : Program[i].kind \in Addressing =>
         Opened[i].rel = PointOffset(Program, Program[i].dest) - OffsetOf(Program, i)
  BY <1>7 DEF rel
<1> QED BY <1>3, <1>4, <1>7, <1>9, <1>12, <1>14, <1>15, <1>16 DEF n

LEMMA RegionsAre ==
  /\ Len(Regions) \in Nat /\ DOMAIN Regions = 1..Len(Regions)
  /\ \A k \in 1..Len(Regions) : /\ Regions[k].start \in Points /\ Regions[k].end \in Points
                                /\ Regions[k].target \in Points
<1>1. Regions \in Seq([start : Points, end : Points, target : Points])
  BY ProgramAssumption
<1>2. \A k \in 1..Len(Regions) : Regions[k] \in [start : Points, end : Points, target : Points]
  BY <1>1, ElementIn
<1>3. Len(Regions) \in Nat /\ DOMAIN Regions = 1..Len(Regions)
  BY <1>1
<1> QED BY <1>2, <1>3

LEMMA InitInv == Init => BodyInv
<1> SUFFICES ASSUME Init PROVE BodyInv
  OBVIOUS
<1>1. body = Opened /\ handlers = OpenedHandlers
      /\ lines = [k \in DOMAIN Located |-> OpenedLine(k)]
      /\ tableAt = Align4(Size(Program)) /\ consented = FALSE
  BY DEF Init
<1>2. body \in Seq(Instructions) /\ AddressesFit(body)
  BY <1>1, OpenedIs, ProgramAssumption
<1>3. InOrder(body)
  <2>1. /\ Len(body) = Len(Program) /\ Len(Program) \in Nat
        /\ \A i \in 1..Len(Program) : body[i].id = Program[i].id
    BY <1>1, OpenedIs, ProgramIs
  <2> SUFFICES ASSUME NEW d \in 1..Len(body), NEW m \in 1..Len(body), d < m,
                      NEW j \in 1..Len(Program), body[d].id = Program[j].id
               PROVE  \E l \in 1..Len(Program) : j < l /\ body[m].id = Program[l].id
    BY DEF InOrder
  <2>2. d = j
    BY <2>1, ProgramIs
  <2> QED BY <2>1, <2>2
<1>4. /\ handlers \in Seq(Numbers) /\ Len(handlers) = Len(Regions)
  <2> DEFINE r == Len(Regions)
  <2>1. r \in Nat /\ DOMAIN Regions = 1..r
    BY RegionsAre
  <2>2. \A k \in 1..r : Regions[k].start \in Points /\ Regions[k].end \in Points
                        /\ Regions[k].target \in Points
    BY RegionsAre
  <2> HIDE DEF r
  <2>3. handlers = [k \in 1..r |->
                      [start |-> PointOffset(Program, Regions[k].start),
                       end |-> PointOffset(Program, Regions[k].end),
                       target |-> PointOffset(Program, Regions[k].target)]]
    BY <1>1, <2>1 DEF OpenedHandlers
  <2>4. ASSUME NEW k \in 1..r PROVE handlers[k] \in Numbers
    <3>1. /\ PointOffset(Program, Regions[k].start) \in Nat
          /\ PointOffset(Program, Regions[k].end) \in Nat
          /\ PointOffset(Program, Regions[k].target) \in Nat
      BY <2>2, OpenedIs
    <3> QED BY <2>3, <3>1 DEF Numbers
  <2>5. handlers \in [1..r -> Numbers]
    BY <2>3, <2>4
  <2> QED BY <2>1, <2>5, FunIsSeq DEF r
<1>5. Within(handlers, Size(body))
  BY <1>1, OpenedIs, ProgramAssumption
<1>6. lines \in [DOMAIN Located -> Nat]
  <2>1. DOMAIN Located = 1..Len(Located) /\ \A k \in 1..Len(Located) : Located[k] \in Points
    BY ProgramAssumption
  <2>2. ASSUME NEW k \in DOMAIN Located PROVE OpenedLine(k) \in Nat
    <3>1. PointOffset(Program, Located[k]) \in Nat
      BY <2>1, OpenedIs
    <3>2. CASE k = 1
      BY <3>1, <3>2 DEF OpenedLine
    <3>3. CASE k # 1
      <4>1. k \in 2..Len(Located) /\ k - 1 \in 1..Len(Located)
        BY <2>1, <3>3
      <4>2. PointOffset(Program, Located[k - 1]) <= PointOffset(Program, Located[k])
        BY <4>1, ProgramAssumption
      <4>3. PointOffset(Program, Located[k - 1]) \in Nat
        BY <2>1, <4>1, OpenedIs
      <4> QED BY <3>1, <3>3, <4>2, <4>3 DEF OpenedLine
    <3> QED BY <3>2, <3>3
  <2> QED BY <1>1, <2>2
<1>7. tableAt \in Nat /\ Size(body) <= tableAt
  <2>1. Size(Program) \in Nat /\ Size(body) = Size(Program)
    BY <1>1, OpenedIs, ItemSeqs, SizeIs
  <2> QED BY <1>1, <2>1 DEF Align4
<1> QED BY <1>1, <1>2, <1>3, <1>4, <1>5, <1>6, <1>7 DEF BodyInv

\* The handlers lead where they led.
TableFollows(table, b) ==
  \A k \in 1..Len(table) :
    /\ Names(b, table[k].start, Regions[k].start)
    /\ Names(b, table[k].end, Regions[k].end)
    /\ Names(b, table[k].target, Regions[k].target)

\* Then they are at instructions, or at the end.
LEMMA FollowingAtBoundaries ==
  ASSUME NEW b \in Seq(Instructions), NEW table \in Seq(Numbers), TableFollows(table, b)
  PROVE  AtBoundaries(table, b)
<1>1. ASSUME NEW o, NEW p, Names(b, o, p) PROVE o \in {OffsetOf(b, i) : i \in 1..Len(b) + 1}
  BY <1>1, NamesLeads
<1>2. DOMAIN table = 1..Len(table)
  OBVIOUS
<1>3. ASSUME NEW k \in 1..Len(table)
      PROVE  {table[k].start, table[k].end, table[k].target}
               \subseteq {OffsetOf(b, i) : i \in 1..Len(b) + 1}
  BY <1>1 DEF TableFollows
<1> QED BY <1>2, <1>3 DEF AtBoundaries, Wanted

LEMMA InsertedFollows ==
  ASSUME NEW b \in Seq(Instructions), NEW new \in Seq(Instructions),
         NEW at \in 1..Len(b) + 1, Foreign(new), FirstOrPassed(at, new),
         NEW table \in Seq(Numbers), Len(table) = Len(Regions), TableFollows(table, b)
  PROVE  TableFollows(ShiftedHandlers(table, OffsetOf(b, at), Size(new)), InsertedAt(b, at, new))
<1> DEFINE o == OffsetOf(b, at)
           d == Size(new)
           r == InsertedAt(b, at, new)
           moved == ShiftedHandlers(table, o, d)
<1>1. o \in Nat /\ d \in Nat
  BY ItemSeqs, Offsets, SizeIs
<1>2. ASSUME NEW x, NEW p \in Points, Names(b, x, p) PROVE Names(r, Shifted(x, o, d), p)
  BY <1>2, NamesFollow
<1> HIDE DEF o, d, r
<1>3. /\ moved \in Seq(Numbers) /\ Len(moved) = Len(table)
      /\ \A k \in 1..Len(table) : /\ moved[k].start = Shifted(table[k].start, o, d)
                                  /\ moved[k].end = Shifted(table[k].end, o, d)
                                  /\ moved[k].target = Shifted(table[k].target, o, d)
  BY <1>1, ShiftedTable
<1> HIDE DEF moved
<1>4. ASSUME NEW k \in 1..Len(table)
      PROVE  /\ Names(r, moved[k].start, Regions[k].start)
             /\ Names(r, moved[k].end, Regions[k].end)
             /\ Names(r, moved[k].target, Regions[k].target)
  <2>1. /\ Regions[k].start \in Points /\ Regions[k].end \in Points
        /\ Regions[k].target \in Points
    BY RegionsAre
  <2>2. /\ Names(b, table[k].start, Regions[k].start)
        /\ Names(b, table[k].end, Regions[k].end)
        /\ Names(b, table[k].target, Regions[k].target)
    BY DEF TableFollows
  <2> QED BY <1>2, <1>3, <2>1, <2>2
<1>5. TableFollows(moved, r)
  BY <1>3, <1>4 DEF TableFollows
<1> QED BY <1>5 DEF moved, o, d, r

----------------------------------------------------------------------------
(* An inserted stub.                                                        *)

LEMMA RelocatedIs ==
  ASSUME NEW n \in Nat, NEW s \in [1..n -> Nat], NEW at \in Nat, NEW d \in Nat
  PROVE  Relocated(s, at, d) \in [1..n -> Nat]
<1> DEFINE behind == {k \in DOMAIN s : Address(s, k) >= at}
           m == Min(behind)
<1>1. CASE behind = {}
  BY <1>1 DEF Relocated
<1>2. CASE behind # {}
  <2>1. behind \in SUBSET Nat /\ behind \subseteq 1..n
    OBVIOUS
  <2>2. m \in 1..n
    BY <1>2, <2>1, MinOf
  <2>3. Relocated(s, at, d) = [s EXCEPT ![m] = @ + d]
    BY <1>2 DEF Relocated
  <2> HIDE DEF m
  <2> QED BY <2>2, <2>3
<1> QED BY <1>1, <1>2

LEMMA InjectInv ==
  ASSUME BodyInv, NEW at \in 1..Len(body) + 1, NEW new \in Seq(Instructions),
         Foreign(new), FirstOrPassed(at, new), Inject(at, new)
  PROVE  /\ BodyInv'
         /\ TableFollows(handlers, body) => TableFollows(handlers, body)'
<1> DEFINE o == OffsetOf(body, at)
           d == Size(new)
<1>1. /\ body \in Seq(Instructions) /\ AddressesFit(body) /\ InOrder(body)
      /\ handlers \in Seq(Numbers) /\ Len(handlers) = Len(Regions)
      /\ lines \in [DOMAIN Located -> Nat]
      /\ tableAt \in Nat /\ Size(body) <= tableAt /\ consented \in BOOLEAN
  BY DEF BodyInv
<1>2. o \in Nat /\ d \in Nat /\ Size(body) \in Nat
  BY <1>1, ItemSeqs, Offsets, SizeIs
<1>3. /\ body' = InsertedAt(body, at, new)
      /\ handlers' = ShiftedHandlers(handlers, o, d)
      /\ Within(ShiftedHandlers(handlers, o, d), Size(body) + d)
      /\ lines' = Relocated(lines, o, d)
      /\ tableAt' = tableAt + d
      /\ consented' = consented
  BY DEF Inject
<1>4. body' \in Seq(Instructions) /\ AddressesFit(body') /\ InOrder(body')
  BY <1>1, <1>3, InsertedPlaced, InsertedFits, OrderInserted
<1>5. Size(body') = Size(body) + d
  <2>1. body \in Seq(Items) /\ new \in Seq(Items)
    BY <1>1, ItemSeqs
  <2> QED BY <1>3, <2>1, InsertedOffsets
<1>6. TableFollows(handlers, body) => TableFollows(handlers', body')
  BY <1>1, <1>3, InsertedFollows
<1> HIDE DEF o, d
<1>7. handlers' \in Seq(Numbers) /\ Len(handlers') = Len(Regions)
  BY <1>1, <1>2, <1>3, ShiftedTable
<1>8. Within(handlers', Size(body'))
  BY <1>3, <1>5
<1>9. lines' \in [DOMAIN Located -> Nat]
  <2>1. DOMAIN Located = 1..Len(Located) /\ Len(Located) \in Nat
    BY ProgramAssumption
  <2> QED BY <1>1, <1>2, <1>3, <2>1, RelocatedIs
<1>10. tableAt' \in Nat /\ Size(body') <= tableAt'
  BY <1>1, <1>2, <1>3, <1>5
<1>11. BodyInv'
  BY <1>1, <1>3, <1>4, <1>7, <1>8, <1>9, <1>10 DEF BodyInv
<1> QED BY <1>6, <1>11 DEF TableFollows

LEMMA NopIndexIs ==
  ASSUME BodyInv
  PROVE  NopIndex \in 1..Len(body) + 1
<1> DEFINE rets == {i \in DOMAIN body : body[i].kind = "ret"}
<1>1. body \in Seq(Instructions)
  BY DEF BodyInv
<1>2. Len(body) \in Nat /\ rets \in SUBSET (1..Len(body))
  BY <1>1
<1>3. rets # {} => Max(rets) \in 1..Len(body)
  BY <1>2, MaxIn
<1> QED BY <1>2, <1>3 DEF NopIndex

LEMMA StubInv ==
  ASSUME BodyInv, InjectLog \/ InjectNop
  PROVE  /\ BodyInv'
         /\ TableFollows(handlers, body) => TableFollows(handlers, body)'
<1>1. CASE InjectLog
  <2>1. 1 \in 1..Len(body) + 1
    BY DEF BodyInv
  <2> QED BY <1>1, <2>1, PrologueIs, InjectInv DEF InjectLog, FirstOrPassed
<1>2. CASE InjectNop
  BY <1>2, NopIndexIs, NopsForeign, InjectInv DEF InjectNop, FirstOrPassed
<1> QED BY <1>1, <1>2

----------------------------------------------------------------------------
(* An edited text.                                                          *)

\* A text that has come from body b: its lines are in order, and its labels lead
\* where the offsets lead that they are named after.
TextOf(t, b) ==
  /\ t \in Seq(Lines) /\ InOrder(t)
  /\ AtBoundaries(handlers, b) =>
       \A o : \A p \in Points : Names(b, o, p) => LabelLeads(t, o, p)

LEMMA EditedText ==
  ASSUME BodyInv, NEW k \in 1..Len(Emitted(body, handlers)) + 1, NEW n \in Nat, NEW x
  PROVE  TextOf(Without(With(Emitted(body, handlers), k, n), x), body)
<1> DEFINE text == Emitted(body, handlers)
<1>1. body \in Seq(Instructions) /\ handlers \in Seq(Numbers) /\ InOrder(body)
      /\ Within(handlers, Size(body))
  BY DEF BodyInv
<1>2. text \in Seq(Lines) /\ \E pos : EmitsAs(text, body, handlers, pos)
  BY <1>1, EmittedIs
<1>3. k \in 1..Len(text) + 1
  OBVIOUS
<1> HIDE DEF text
<1>4. PICK pos : EmitsAs(text, body, handlers, pos)
  BY <1>2
<1>5. Len(text) \in Nat
  BY <1>2
<1>6. InOrder(text)
  BY <1>1, <1>4, <1>5, EmittedOrder
<1> DEFINE w == With(text, k, n)
           t == Without(w, x)
<1>7. /\ w \in Seq(Lines) /\ InOrder(w)
      /\ \A o : \A p \in Points : LabelLeads(text, o, p) => LabelLeads(w, o, p)
  BY <1>2, <1>3, <1>6, WithIs
<1> HIDE DEF w
<1>8. /\ t \in Seq(Lines) /\ InOrder(t)
      /\ \A o : \A p \in Points : LabelLeads(w, o, p) => LabelLeads(t, o, p)
  BY <1>7, WithoutIs
<1>9. ASSUME AtBoundaries(handlers, body), NEW o, NEW p \in Points, Names(body, o, p)
      PROVE  LabelLeads(t, o, p)
  <2>1. LabelLeads(text, o, p)
    BY <1>1, <1>4, <1>5, <1>9, EmittedLeads
  <2> HIDE DEF t
  <2> QED BY <1>7, <1>8, <2>1
<1> HIDE DEF t
<1>10. TextOf(t, body)
  BY <1>8, <1>9 DEF TextOf
<1> QED BY <1>10 DEF t, w, text

\* The text an edit assembles.
EditOf(t) ==
  \E n \in InsertLens \union {0} : \E x \in MayDelete \union {End} :
    \E k \in 1..Len(Emitted(body, handlers)) + 1 :
      t = Without(With(Emitted(body, handlers), k, n), x)

LEMMA AsmText ==
  ASSUME BodyInv, Asm
  PROVE  \E given \in Stated : \E allow \in Consents : \E t :
           TextOf(t, body) /\ EditOf(t) /\ Assemble(t, given, allow)
<1>1. PICK n \in InsertLens \union {0}, x \in MayDelete \union {End},
           k \in 1..Len(Emitted(body, handlers)) + 1, given \in Stated, allow \in Consents :
        Assemble(Without(With(Emitted(body, handlers), k, n), x), given, allow)
  BY DEF Asm
<1>2. n \in Nat
  BY EditAssumption
<1> DEFINE t == Without(With(Emitted(body, handlers), k, n), x)
<1>3. TextOf(t, body)
  BY <1>2, EditedText
<1>4. EditOf(t)
  BY DEF EditOf
<1>5. Assemble(t, given, allow)
  BY <1>1
<1> HIDE DEF t
<1>6. \E q : TextOf(q, body) /\ EditOf(q) /\ Assemble(q, given, allow)
  BY <1>3, <1>4, <1>5
<1> QED BY <1>6

LEMMA PadIs ==
  ASSUME NEW b \in Seq(Instructions), NEW d \in Int
  PROVE  /\ PadFor(d) \in Nat /\ (d = 0 => PadFor(d) = 0) /\ 0 <= PadFor(d)
         /\ PadIndex(b) \in 1..Len(b) + 1
<1>1. PadFor(d) \in Nat /\ (d = 0 => PadFor(d) = 0)
  BY DEF PadFor
<1>2. PadIndex(b) \in 1..Len(b) + 1
  BY DEF PadIndex
<1> QED BY <1>1, <1>2

\* What the padding leaves.
LEMMA PaddedIs ==
  ASSUME NEW b \in Seq(Instructions), NEW pad \in Nat, InOrder(b), AddressesFit(b)
  PROVE  /\ Padded(b, pad) \in Seq(Instructions) /\ AddressesFit(Padded(b, pad))
         /\ InOrder(Padded(b, pad)) /\ Size(Padded(b, pad)) = Size(b) + pad
<1> DEFINE at == PadIndex(b)
           new == Nops(pad)
<1>1. at \in 1..Len(b) + 1
  BY PadIs, 0 \in Int
<1>2. new \in Seq(Instructions) /\ Size(new) = pad /\ Foreign(new) /\ Passed(new)
  BY NopsForeign
<1>3. b \in Seq(Items) /\ new \in Seq(Items)
  BY <1>2, ItemSeqs
<1>4. Padded(b, pad) = InsertedAt(b, at, new)
  BY DEF Padded
<1> HIDE DEF at, new
<1>5. FirstOrPassed(at, new)
  BY <1>2 DEF FirstOrPassed
<1> QED BY <1>1, <1>2, <1>3, <1>4, <1>5, InsertedPlaced, InsertedFits, OrderInserted,
           InsertedOffsets

\* A distance that fits its operand is stored as it is.
LEMMA StoredIs ==
  ASSUME NEW b \in Seq(Instructions), AddressesFit(b)
  PROVE  Stored(b) = b
<1>1. ASSUME NEW i \in DOMAIN b, b[i].kind \in {"jump", "jmp"}
      PROVE  [b[i] EXCEPT !.rel = Cast(@)] = b[i]
  <2>1. b[i] \in Instructions
    OBVIOUS
  <2>2. Cast(b[i].rel) = b[i].rel
    <3> DEFINE m == AddrMax + 1
               x == b[i].rel + m
    <3>1. /\ m \in Nat \ {0} /\ x \in Int /\ 0 <= x /\ x < 2 * m
          /\ Cast(b[i].rel) = (x % (2 * m)) - m /\ b[i].rel = x - m
      BY <1>1, <2>1, EditAssumption DEF AddressesFit, Instructions, Cast
    <3> HIDE DEF m, x
    <3>2. x % (2 * m) = x
      BY <3>1
    <3> QED BY <3>1, <3>2
  <2> QED BY <2>1, <2>2 DEF Instructions
<1>2. DOMAIN Stored(b) = DOMAIN b /\ \A i \in DOMAIN b : Stored(b)[i] = b[i]
  BY <1>1 DEF Stored
<1> QED BY <1>2 DEF Stored

LEMMA AssembleInv ==
  ASSUME BodyInv, NEW t, TextOf(t, body), NEW given \in Stated, NEW allow \in Consents,
         Assemble(t, given, allow)
  PROVE  BodyInv'
<1> DEFINE b == Parsed(t)
           delta == Size(b) - Size(body)
           pad == PadFor(delta)
           at == OffsetOf(b, PadIndex(b))
<1>1. /\ body \in Seq(Instructions)
      /\ handlers \in Seq(Numbers) /\ Len(handlers) = Len(Regions)
      /\ Within(handlers, Size(body))
      /\ lines \in [DOMAIN Located -> Nat]
      /\ tableAt \in Nat /\ Size(body) <= tableAt /\ consented \in BOOLEAN
  BY DEF BodyInv
<1>2. b \in Seq(Instructions) /\ InOrder(b)
  BY ParsedIs, ParsedOrder DEF TextOf
<1>3. /\ AddressesFit(b)
      /\ Size(b) # Size(body) /\ handlers # <<>> => given
      /\ given => Within(HandlersAfter(t, given, pad, at), Size(b) + pad)
      /\ body' = Padded(b, pad)
      /\ handlers' = HandlersAfter(t, given, pad, at)
      /\ tableAt' = tableAt + delta + pad
      /\ consented' = (consented \/ allow)
      /\ lines' = lines
  BY <1>2, StoredIs DEF Assemble, AsmAccepts
<1>4. Size(b) \in Nat /\ Size(body) \in Nat
  BY <1>1, <1>2, ItemSeqs, SizeIs
<1>5. PadIndex(b) \in 1..Len(b) + 1
  BY <1>2, PadIs, 0 \in Int
<1>6. at \in Nat
  BY <1>2, <1>5, ItemSeqs, Offsets
<1> HIDE DEF at, b
<1>7. delta \in Int /\ (Size(b) = Size(body) => delta = 0) /\ Size(body) + delta = Size(b)
  BY <1>4
<1> HIDE DEF delta
<1>8. pad \in Nat /\ (delta = 0 => pad = 0)
  BY <1>2, <1>7, PadIs
<1> HIDE DEF pad
<1>9. /\ body' \in Seq(Instructions) /\ AddressesFit(body') /\ InOrder(body')
      /\ Size(body') = Size(b) + pad
  BY <1>2, <1>3, <1>8, PaddedIs
<1>10. handlers' \in Seq(Numbers) /\ Len(handlers') = Len(Regions)
  <2>1. CASE given
    <3> DEFINE named == ResolvedHandlers(t, handlers)
    <3>1. named \in Seq(Numbers) /\ Len(named) = Len(Regions)
      BY <1>1, ResolvedTable DEF TextOf
    <3>2. handlers' = ShiftedHandlers(named, at, pad)
      BY <1>3, <2>1 DEF HandlersAfter
    <3> HIDE DEF named
    <3> QED BY <1>6, <1>8, <3>1, <3>2, ShiftedTable
  <2>2. CASE ~given
    BY <1>1, <1>3, <2>2 DEF HandlersAfter
  <2> QED BY <2>1, <2>2
<1>11. Within(handlers', Size(body'))
  <2>1. CASE given
    BY <1>3, <1>9, <2>1
  <2>2. CASE ~given
    <3>1. handlers' = handlers
      BY <1>3, <2>2 DEF HandlersAfter
    <3>2. CASE handlers = <<>>
      BY <3>1, <3>2 DEF Within
    <3>3. CASE handlers # <<>>
      <4>1. Size(b) = Size(body)
        BY <1>3, <2>2, <3>3
      <4>2. Size(body') = Size(body)
        BY <1>4, <1>7, <1>8, <1>9, <4>1
      <4> QED BY <1>1, <3>1, <4>2
    <3> QED BY <3>2, <3>3
  <2> QED BY <2>1, <2>2
<1>12. tableAt' \in Nat /\ Size(body') <= tableAt'
  BY <1>1, <1>3, <1>4, <1>7, <1>8, <1>9
<1>13. consented' \in BOOLEAN
  BY <1>1, <1>3, EditAssumption
<1> QED BY <1>1, <1>3, <1>9, <1>10, <1>11, <1>12, <1>13 DEF BodyInv

LEMMA NextInv ==
  ASSUME BodyInv, [Next]_vars
  PROVE  BodyInv'
<1>1. CASE InjectLog \/ InjectNop
  BY <1>1, StubInv
<1>2. CASE Asm
  BY <1>2, AsmText, AssembleInv
<1>3. CASE UNCHANGED vars
  BY <1>3 DEF BodyInv, vars
<1> QED BY <1>1, <1>2, <1>3 DEF Next

\* Through any chain of stubs and text edits the body stays one of the program's
\* instructions, in their order, and added ones; operands fit, and the handlers lie
\* in the body (inject_stub, assemble_function_hasm_with).
THEOREM BodyInvariant == Spec => []BodyInv
<1>1. Init => BodyInv
  BY InitInv
<1>2. BodyInv /\ [Next]_vars => BodyInv'
  BY NextInv
<1> QED BY <1>1, <1>2, PTL DEF Spec

LEMMA InvType == BodyInv => TypeOK
<1> SUFFICES ASSUME BodyInv PROVE TypeOK
  OBVIOUS
<1>1. /\ body \in Seq(Instructions) /\ AddressesFit(body) /\ Within(handlers, Size(body))
      /\ lines \in [DOMAIN Located -> Nat] /\ tableAt \in Nat /\ consented \in BOOLEAN
  BY DEF BodyInv
<1>2. \A i \in DOMAIN body : body[i].len \in Nat \ {0} /\ body[i].rel \in Int
  <2>1. DOMAIN body = 1..Len(body)
    BY <1>1
  <2> QED BY <1>1, <2>1, InstructionIs, ElementIn
<1> QED BY <1>1, <1>2 DEF TypeOK

\* Whatever is inserted and assembled, every operand, offset and delta is a number of
\* its field, and every handler is one check_within accepts.
THEOREM BodyTypes == Spec => []TypeOK
BY BodyInvariant, InvType, PTL

----------------------------------------------------------------------------
(* The handlers.                                                            *)

\* Every edited text states the handlers, if there are any.
HandlersAreStated == Stated \subseteq {TRUE} \/ Regions = <<>>

LEMMA OpenedNames ==
  ASSUME NEW p \in Points
  PROVE  Names(Opened, PointOffset(Program, p), p)
<1> DEFINE i == PointIndex(p)
           n == Len(Program)
<1>1. /\ Opened \in Seq(Instructions) /\ Len(Opened) = n /\ n \in Nat
      /\ \A j \in 1..n : Opened[j].id = Program[j].id
      /\ \A j \in 1..n + 1 : OffsetOf(Opened, j) = OffsetOf(Program, j)
      /\ PointOffset(Program, p) = OffsetOf(Program, i)
  BY OpenedIs, ProgramIs
<1>2. i \in 1..n + 1 /\ \A j \in 1..n : Program[j].id \in From(p) <=> i <= j
  BY PointIs
<1> HIDE DEF i, n
<1>3. \A j \in 1..i - 1 : Opened[j].id \notin From(p)
  <2> SUFFICES ASSUME NEW j \in 1..i - 1 PROVE Opened[j].id \notin From(p)
    OBVIOUS
  <2>1. j \in 1..n /\ ~(i <= j)
    BY <1>1, <1>2
  <2> QED BY <1>1, <1>2, <2>1
<1>4. ASSUME NEW m \in i..n PROVE \E j \in i..m : Opened[j].id \in From(p)
  <2>1. m \in 1..n /\ i <= m /\ m \in i..m
    BY <1>1, <1>2
  <2> QED BY <1>1, <1>2, <2>1
<1>5. Leads(Opened, i, p)
  BY <1>1, <1>3, <1>4 DEF Leads
<1>6. i \in 1..Len(Opened) + 1 /\ OffsetOf(Opened, i) = PointOffset(Program, p)
  BY <1>1, <1>2
<1> QED BY <1>1, <1>5, <1>6, NamesLeads

LEMMA InitFollows == Init => TableFollows(handlers, body)
<1> SUFFICES ASSUME Init, NEW k \in 1..Len(handlers)
             PROVE  /\ Names(body, handlers[k].start, Regions[k].start)
                    /\ Names(body, handlers[k].end, Regions[k].end)
                    /\ Names(body, handlers[k].target, Regions[k].target)
  BY DEF TableFollows
<1>1. body = Opened /\ handlers = OpenedHandlers
  BY DEF Init
<1>2. Len(handlers) = Len(Regions)
  BY InitInv DEF BodyInv
<1>3. k \in 1..Len(Regions) /\ DOMAIN Regions = 1..Len(Regions)
  BY <1>2, RegionsAre
<1>4. /\ handlers[k].start = PointOffset(Program, Regions[k].start)
      /\ handlers[k].end = PointOffset(Program, Regions[k].end)
      /\ handlers[k].target = PointOffset(Program, Regions[k].target)
  BY <1>1, <1>3 DEF OpenedHandlers
<1>5. Regions[k].start \in Points /\ Regions[k].end \in Points /\ Regions[k].target \in Points
  BY <1>3, RegionsAre
<1> QED BY <1>1, <1>4, <1>5, OpenedNames

\* Handlers the text states follow it.
LEMMA StatedFollow ==
  ASSUME BodyInv, TableFollows(handlers, body), NEW t, TextOf(t, body),
         NEW allow, Assemble(t, TRUE, allow)
  PROVE  TableFollows(handlers, body)'
<1> DEFINE b == Parsed(t)
           delta == Size(b) - Size(body)
           pad == PadFor(delta)
           at == PadIndex(b)
           named == ResolvedHandlers(t, handlers)
           new == Nops(pad)
<1>1. /\ body \in Seq(Instructions)
      /\ handlers \in Seq(Numbers) /\ Len(handlers) = Len(Regions)
  BY DEF BodyInv
<1>2. b \in Seq(Instructions) /\ t \in Seq(Lines)
  BY ParsedIs DEF TextOf
<1>3. delta \in Int
  BY <1>1, <1>2, ItemSeqs, SizeIs
<1> HIDE DEF delta
<1>4. pad \in Nat /\ at \in 1..Len(b) + 1
  BY <1>2, <1>3, PadIs
<1>5. new \in Seq(Instructions) /\ Size(new) = pad /\ Foreign(new) /\ FirstOrPassed(at, new)
  BY <1>4, NopsForeign DEF FirstOrPassed
<1>6. /\ Wanted(handlers) \subseteq Labels(t)
      /\ body' = InsertedAt(b, at, new)
      /\ handlers' = ShiftedHandlers(named, OffsetOf(b, at), pad)
  BY <1>2, StoredIs DEF Assemble, AsmAccepts, HandlersAfter, Padded, delta
<1>7. \A o : \A p \in Points : Names(body, o, p) => LabelLeads(t, o, p)
  BY <1>1, FollowingAtBoundaries DEF TextOf
<1>8. ASSUME NEW o \in Wanted(handlers), NEW p \in Points, Names(body, o, p)
      PROVE  Names(b, Resolved(t, o), p)
  BY <1>2, <1>6, <1>7, <1>8, ResolvedNames
<1> HIDE DEF b, pad, at, new
<1>9. /\ named \in Seq(Numbers) /\ Len(named) = Len(Regions)
      /\ \A k \in 1..Len(handlers) :
           /\ named[k].start = Resolved(t, handlers[k].start)
           /\ named[k].end = Resolved(t, handlers[k].end)
           /\ named[k].target = Resolved(t, handlers[k].target)
  BY <1>1, <1>2, ResolvedTable
<1> HIDE DEF named
<1>10. TableFollows(named, b)
  <2> SUFFICES ASSUME NEW k \in 1..Len(Regions)
               PROVE  /\ Names(b, named[k].start, Regions[k].start)
                      /\ Names(b, named[k].end, Regions[k].end)
                      /\ Names(b, named[k].target, Regions[k].target)
    BY <1>9 DEF TableFollows
  <2>1. DOMAIN handlers = 1..Len(Regions)
    BY <1>1
  <2>2. {handlers[k].start, handlers[k].end, handlers[k].target} \subseteq Wanted(handlers)
    BY <2>1 DEF Wanted
  <2>3. /\ Regions[k].start \in Points /\ Regions[k].end \in Points
        /\ Regions[k].target \in Points
    BY RegionsAre
  <2>4. /\ Names(body, handlers[k].start, Regions[k].start)
        /\ Names(body, handlers[k].end, Regions[k].end)
        /\ Names(body, handlers[k].target, Regions[k].target)
    BY <1>1 DEF TableFollows
  <2> QED BY <1>1, <1>8, <1>9, <2>2, <2>3, <2>4
<1>11. TableFollows(ShiftedHandlers(named, OffsetOf(b, at), pad), InsertedAt(b, at, new))
  BY <1>2, <1>4, <1>5, <1>9, <1>10, InsertedFollows
<1> QED BY <1>6, <1>11 DEF TableFollows

LEMMA NextFollows ==
  ASSUME HandlersAreStated, BodyInv, TableFollows(handlers, body), [Next]_vars
  PROVE  TableFollows(handlers, body)'
<1>1. CASE InjectLog \/ InjectNop
  BY <1>1, StubInv
<1>2. CASE Asm
  <2>1. PICK given \in Stated : \E allow \in Consents : \E t :
          TextOf(t, body) /\ Assemble(t, given, allow)
    BY <1>2, AsmText
  <2>2. PICK allow \in Consents : \E t : TextOf(t, body) /\ Assemble(t, given, allow)
    BY <2>1
  <2>3. PICK t : TextOf(t, body) /\ Assemble(t, given, allow)
    BY <2>2
  <2>4. CASE Stated \subseteq {TRUE}
    <3>1. given = TRUE
      BY <2>4
    <3> QED BY <2>3, <3>1, StatedFollow
  <2>5. CASE Regions = <<>>
    <3>1. BodyInv'
      BY <2>3, AssembleInv
    <3>2. Len(handlers') = 0
      BY <2>5, <3>1 DEF BodyInv
    <3> QED BY <3>2 DEF TableFollows
  <2> QED BY <2>4, <2>5 DEF HandlersAreStated
<1>3. CASE UNCHANGED vars
  BY <1>3 DEF vars
<1> QED BY <1>1, <1>2, <1>3 DEF Next

FollowInv == BodyInv /\ TableFollows(handlers, body)

\* Through any chain of edits whose texts state the handlers (.handler lines, bound
\* to labels), the handler table names what it named.
THEOREM FollowInvariant ==
  ASSUME HandlersAreStated
  PROVE  Spec => []FollowInv
<1>1. Init => FollowInv
  BY InitInv, InitFollows DEF FollowInv
<1>2. FollowInv /\ [Next]_vars => FollowInv'
  BY NextInv, NextFollows DEF FollowInv
<1> QED BY <1>1, <1>2, PTL DEF Spec

LEMMA TableHandlers == FollowInv => HandlersFollow
<1> SUFFICES ASSUME FollowInv PROVE HandlersFollow
  OBVIOUS
<1>1. DOMAIN handlers = 1..Len(handlers) /\ TableFollows(handlers, body)
  BY DEF FollowInv, BodyInv
<1> QED BY <1>1 DEF HandlersFollow, TableFollows

\* Every handler covers the instructions it covered and lands where it landed, after
\* stubs (shift_exception_handlers) and after texts that state it.
THEOREM HandlersAlwaysFollow ==
  ASSUME HandlersAreStated
  PROVE  Spec => []HandlersFollow
BY FollowInvariant, TableHandlers, PTL

----------------------------------------------------------------------------
(* Text that nobody edited.                                                 *)

\* Every label of an emitted text is at the offset it is named after.
LEMMA EmittedResolves ==
  ASSUME NEW b \in Seq(Instructions), NEW table, AtBoundaries(table, b),
         NEW t \in Seq(Lines), NEW pos, EmitsAs(t, b, table, pos)
  PROVE  /\ \A o : Resolved(t, o) = o
         /\ \A i \in 1..Len(b) : OffsetOf(t, pos[i]) = OffsetOf(b, i)
<1>1. t \in Seq(Items) /\ b \in Seq(Items) /\ Len(t) \in Nat /\ Len(b) \in Nat
  BY ItemSeqs
<1>2. Thins(t, b, pos)
  BY DEF EmitsAs
<1>3. ASSUME NEW k \in 1..Len(t), ~Stays(b, pos, k) PROVE t[k].len = 0
  <2>1. \E x : t[k] = Label(x)
    BY <1>3 DEF EmitsAs
  <2> QED BY <2>1 DEF Label
<1>4. /\ \A k \in 1..Len(t) + 1, i \in 1..Len(b) + 1 :
           Cuts(b, pos, k, i) => OffsetOf(t, k) = OffsetOf(b, i)
      /\ \A i \in 1..Len(b) : OffsetOf(t, pos[i]) = OffsetOf(b, i)
  BY <1>1, <1>2, <1>3, ThinOffsets
<1>5. ASSUME NEW o, NEW k \in 1..Len(t), IsLabel(t, k, o) PROVE OffsetOf(t, k) = o
  <2>1. t[k].kind = "label" /\ t[k].name = o
    BY <1>5 DEF IsLabel
  <2>2. PICK i \in 1..Len(b) + 1 : Cuts(b, pos, k, i) /\ t[k] = Label(OffsetOf(b, i))
    BY <1>1, <2>1, EmittedLabel
  <2>3. OffsetOf(b, i) = o
    BY <2>1, <2>2 DEF Label
  <2>4. k \in 1..Len(t) + 1
    BY <1>1
  <2> QED BY <1>4, <2>2, <2>3, <2>4
<1>6. ASSUME NEW o PROVE Resolved(t, o) = o
  <2>1. CASE o \in Labels(t)
    <3>1. PICK k \in 1..Len(t) : IsLabel(t, k, o) /\ Resolved(t, o) = OffsetOf(t, k)
      BY <2>1, ResolvedIs
    <3> QED BY <1>5, <3>1
  <2>2. CASE o \notin Labels(t)
    BY <2>2, ResolvedIs
  <2> QED BY <2>1, <2>2
<1> QED BY <1>4, <1>6

\* The lines of the instructions are those that are no labels.
LEMMA EmittedPicks ==
  ASSUME NEW b \in Seq(Instructions), NEW table,
         NEW t \in Seq(Lines), NEW pos, EmitsAs(t, b, table, pos)
  PROVE  Picks(pos, Len(b), Len(t), {k \in DOMAIN t : t[k].kind # "label"})
<1>1. /\ pos \in [1..Len(b) -> 1..Len(t)]
      /\ \A i, j \in 1..Len(b) : i < j => pos[i] < pos[j]
      /\ \A i \in 1..Len(b) : b[i].kind = t[pos[i]].kind
      /\ \A k \in 1..Len(t) : ~Stays(b, pos, k) => \E x : t[k] = Label(x)
  BY DEF EmitsAs, Thins
<1>2. DOMAIN t = 1..Len(t) /\ Len(b) \in Nat
  OBVIOUS
<1>3. ASSUME NEW i \in 1..Len(b) PROVE pos[i] \in {k \in DOMAIN t : t[k].kind # "label"}
  <2>1. b[i].kind # "label"
    BY InstructionIs, ElementIn
  <2> QED BY <1>1, <1>2, <2>1
<1>4. ASSUME NEW k \in 1..Len(t), k \in {j \in DOMAIN t : t[j].kind # "label"}
      PROVE  \E i \in 1..Len(b) : pos[i] = k
  <2>1. ~ \E x : t[k] = Label(x)
    BY <1>4 DEF Label
  <2> QED BY <1>1, <2>1 DEF Stays
<1> QED BY <1>1, <1>2, <1>3, <1>4 DEF Picks

LEMMA EmittedParses ==
  ASSUME NEW b \in Seq(Instructions), NEW table, AtBoundaries(table, b),
         NEW t \in Seq(Lines), NEW pos, EmitsAs(t, b, table, pos)
  PROVE  Parsed(t) = b
<1> DEFINE m == Len(t)
           n == Len(b)
           f == [k \in 1..m |-> ParsedLine(t, k)]
           S == {f[k] : k \in 1..m}
           K == {k \in DOMAIN t : t[k].kind # "label"}
<1>1. m \in Nat /\ DOMAIN t = 1..m /\ n \in Nat
  OBVIOUS
<1>2. Parsed(t) = Only(f, K)
  BY <1>1 DEF Parsed
<1>3. f \in [1..m -> S] /\ \A k \in 1..m : f[k] = ParsedLine(t, k)
  OBVIOUS
<1>4. Picks(pos, n, m, K)
  BY EmittedPicks
<1> HIDE DEF f, S, K
<1>5. f \in Seq(S) /\ Len(f) = m
  BY <1>1, <1>3, FunIsSeq
<1>6. Picks(pos, n, Len(f), K)
  BY <1>4, <1>5
<1>7. Only(f, K) = Picked(f, pos, n)
  BY <1>5, <1>6, OnlyIs, Zenon
<1>8. ASSUME NEW i \in 1..n PROVE f[pos[i]] = b[i]
  <2>1. pos[i] \in 1..m /\ t[pos[i]] = InsnLine(b, i)
    BY <1>4 DEF Picks, EmitsAs
  <2>2. b[i] \in Instructions
    BY ElementIn
  <2>3. /\ \A o : Resolved(t, o) = o
        /\ OffsetOf(t, pos[i]) = OffsetOf(b, i)
    BY EmittedResolves
  <2>4. OffsetOf(b, i) \in Int
    BY ItemSeqs, Offsets
  <2>5. /\ b[i].rel \in Int /\ (b[i].kind \notin Addressing => b[i].rel = 0)
        /\ b[i] = [id |-> b[i].id, kind |-> b[i].kind, len |-> b[i].len, rel |-> b[i].rel]
    BY <2>2 DEF Instructions
  <2>6. Target(b, i) - OffsetOf(b, i) = b[i].rel
    BY <2>4, <2>5 DEF Target
  <2> DEFINE x == t[pos[i]]
  <2>7. /\ x.id = b[i].id /\ x.kind = b[i].kind /\ x.len = b[i].len
        /\ b[i].kind \in Addressing => x.name = Target(b, i)
    BY <2>1 DEF InsnLine
  <2>8. ParsedLine(t, pos[i]) =
          [id |-> x.id, kind |-> x.kind, len |-> x.len,
           rel |-> IF x.kind \in Addressing THEN x.name - OffsetOf(b, i) ELSE 0]
    BY <2>3 DEF ParsedLine
  <2> HIDE DEF x
  <2>9. (IF x.kind \in Addressing THEN x.name - OffsetOf(b, i) ELSE 0) = b[i].rel
    BY <2>5, <2>6, <2>7
  <2>10. ParsedLine(t, pos[i]) = b[i]
    BY <2>5, <2>7, <2>8, <2>9
  <2> QED BY <1>3, <2>1, <2>10
<1>9. Picked(f, pos, n) = [i \in 1..n |-> b[i]]
  BY <1>8 DEF Picked
<1>10. b = [i \in 1..n |-> b[i]]
  OBVIOUS
<1> QED BY <1>2, <1>7, <1>9, <1>10

LEMMA FollowRoundTrips ==
  ASSUME FollowInv
  PROVE  RoundTrips
<1> DEFINE t == Emitted(body, handlers)
<1>1. /\ body \in Seq(Instructions) /\ handlers \in Seq(Numbers)
      /\ Within(handlers, Size(body)) /\ TableFollows(handlers, body)
  BY DEF FollowInv, BodyInv
<1>2. AtBoundaries(handlers, body)
  BY <1>1, FollowingAtBoundaries
<1>3. t \in Seq(Lines) /\ \E pos : EmitsAs(t, body, handlers, pos)
  BY <1>1, EmittedIs
<1> HIDE DEF t
<1>4. PICK pos : EmitsAs(t, body, handlers, pos)
  BY <1>3
<1>5. Parsed(t) = body
  BY <1>1, <1>2, <1>3, <1>4, EmittedParses
<1>6. \A o : Resolved(t, o) = o
  BY <1>1, <1>2, <1>3, <1>4, EmittedResolves
<1>7. ResolvedHandlers(t, handlers) = handlers
  <2>1. DOMAIN handlers = 1..Len(handlers) /\ \A k \in 1..Len(handlers) : handlers[k] \in Numbers
    BY <1>1
  <2>2. ResolvedHandlers(t, handlers) =
          [k \in 1..Len(handlers) |-> [start |-> handlers[k].start, end |-> handlers[k].end,
                                       target |-> handlers[k].target]]
    BY <1>6, <2>1 DEF ResolvedHandlers
  <2>3. \A x \in Numbers : x = [start |-> x.start, end |-> x.end, target |-> x.target]
    BY DEF Numbers
  <2>4. handlers = [k \in 1..Len(handlers) |-> handlers[k]]
    BY <1>1
  <2> QED BY <2>1, <2>2, <2>3, <2>4
<1> QED BY <1>5, <1>7 DEF RoundTrips, t

\* A body that was edited in such ways assembles to itself from its own text, and so
\* do its handlers (emit_hasm_function, parse_hasm_function_full).
THEOREM AlwaysRoundTrips ==
  ASSUME HandlersAreStated
  PROVE  Spec => []RoundTrips
BY FollowInvariant, FollowRoundTrips, PTL

----------------------------------------------------------------------------
(* The source locations.                                                    *)

\* Addresses are sums of deltas.
LEMMA Addresses ==
  ASSUME NEW n \in Nat, NEW s \in [1..n -> Nat]
  PROVE  /\ Address(s, 0) = 0
         /\ \A k \in 1..n : Address(s, k) = Address(s, k - 1) + s[k]
         /\ \A k \in 0..n : Address(s, k) \in Nat
<1>1. s \in Seq(Nat) /\ Len(s) = n
  BY FunIsSeq
<1>2. /\ Total(SubSeq(s, 1, 0)) = 0
      /\ \A k \in 1..Len(s) : Total(SubSeq(s, 1, k)) = Total(SubSeq(s, 1, k - 1)) + s[k]
      /\ \A k \in 0..Len(s) : Total(SubSeq(s, 1, k)) \in Nat
  BY <1>1, TotalStart, Zenon
<1> QED BY <1>1, <1>2 DEF Address

LEMMA AddressesGrow ==
  ASSUME NEW n \in Nat, NEW s \in [1..n -> Nat], NEW j \in 0..n, NEW k \in 0..n, j <= k
  PROVE  Address(s, j) <= Address(s, k)
<1> DEFINE T == {i \in Nat : j + i <= n => Address(s, j) <= Address(s, j + i)}
<1>0. /\ \A i \in 1..n : Address(s, i) = Address(s, i - 1) + s[i] /\ s[i] \in Nat
      /\ \A i \in 0..n : Address(s, i) \in Nat
  BY Addresses
<1>1. 0 \in T
  BY <1>0
<1>2. ASSUME NEW i \in Nat, i \in T PROVE i + 1 \in T
  <2> SUFFICES ASSUME j + (i + 1) <= n PROVE Address(s, j) <= Address(s, j + (i + 1))
    OBVIOUS
  <2>1. PICK q \in 1..n : q = j + (i + 1)
    OBVIOUS
  <2>2. q - 1 = j + i /\ j + i <= n /\ q \in 0..n /\ q - 1 \in 0..n
    BY <2>1
  <2>3. Address(s, j) <= Address(s, q - 1)
    BY <1>2, <2>2
  <2>4. Address(s, q) = Address(s, q - 1) + s[q] /\ s[q] \in Nat
    BY <1>0
  <2>5. Address(s, j) \in Nat /\ Address(s, q - 1) \in Nat
    BY <1>0, <2>2
  <2>6. Address(s, j) <= Address(s, q)
    BY <2>3, <2>4, <2>5
  <2> QED BY <2>1, <2>6
<1> HIDE DEF T
<1>3. k - j \in T
  BY <1>1, <1>2, NatInduct
<1>4. j + (k - j) = k /\ k <= n
  OBVIOUS
<1> QED BY <1>3, <1>4 DEF T

\* One delta changes, and every address from there on moves.
LEMMA RelocatedMoves ==
  ASSUME NEW n \in Nat, NEW s \in [1..n -> Nat], NEW at \in Nat, NEW d \in Nat,
         NEW k \in 1..n
  PROVE  Address(Relocated(s, at, d), k) = Shifted(Address(s, k), at, d)
<1> DEFINE behind == {j \in 1..n : Address(s, j) >= at}
           m == Min(behind)
           r == Relocated(s, at, d)
<1>0. DOMAIN s = 1..n
  OBVIOUS
<1>1. CASE behind = {}
  <2>1. r = s
    BY <1>0, <1>1 DEF Relocated
  <2>2. ~(Address(s, k) >= at)
    BY <1>1
  <2> QED BY <2>1, <2>2 DEF Shifted
<1>2. CASE behind # {}
  <2>1. m \in behind /\ \A j \in behind : m <= j
    <3>1. behind \in SUBSET Nat
      OBVIOUS
    <3> HIDE DEF behind
    <3> QED BY <1>2, <3>1, MinOf
  <2>2. r = [s EXCEPT ![m] = @ + d]
    BY <1>0, <1>2 DEF Relocated
  <2> HIDE DEF m, r
  <2>3. m \in 1..n /\ Address(s, m) >= at /\ \A j \in 1..n : j < m => ~(Address(s, j) >= at)
    BY <2>1
  <2>4. r \in [1..n -> Nat] /\ \A j \in 1..n : r[j] = IF j = m THEN s[j] + d ELSE s[j]
    BY <2>2, <2>3
  <2>5. /\ Address(s, 0) = 0 /\ \A i \in 1..n : Address(s, i) = Address(s, i - 1) + s[i]
        /\ \A i \in 0..n : Address(s, i) \in Nat
    BY Addresses
  <2>6. /\ Address(r, 0) = 0 /\ \A i \in 1..n : Address(r, i) = Address(r, i - 1) + r[i]
        /\ \A i \in 0..n : Address(r, i) \in Nat
    BY <2>4, Addresses
  <2> DEFINE T == {i \in Nat : i <= n =>
                     Address(r, i) = IF i < m THEN Address(s, i) ELSE Address(s, i) + d}
  <2>7. 0 \in T
    BY <2>3, <2>5, <2>6
  <2>8. ASSUME NEW i \in Nat, i \in T PROVE i + 1 \in T
    <3> SUFFICES ASSUME i + 1 <= n
                 PROVE  Address(r, i + 1) =
                          IF i + 1 < m THEN Address(s, i + 1) ELSE Address(s, i + 1) + d
      OBVIOUS
    <3>1. PICK q \in 1..n : q = i + 1
      OBVIOUS
    <3>2. q - 1 = i /\ i \in 0..n /\ i <= n
      BY <3>1
    <3>3. Address(r, i) = IF i < m THEN Address(s, i) ELSE Address(s, i) + d
      BY <2>8, <3>2
    <3>4. Address(r, q) = Address(r, i) + r[q] /\ Address(s, q) = Address(s, i) + s[q]
      BY <2>5, <2>6, <3>2
    <3>5. Address(s, i) \in Nat /\ s[q] \in Nat /\ r[q] = IF q = m THEN s[q] + d ELSE s[q]
      BY <2>4, <2>5, <3>2
    <3>6. Address(r, q) = IF q < m THEN Address(s, q) ELSE Address(s, q) + d
      <4>1. m \in Nat
        BY <2>3
      <4> QED BY <3>1, <3>3, <3>4, <3>5, <4>1
    <3> QED BY <3>1, <3>6
  <2> HIDE DEF T
  <2>9. k \in T
    <3>1. \A i \in Nat : i \in T
      BY <2>7, <2>8, NatInduct
    <3> QED BY <3>1
  <2>10. Address(r, k) = IF k < m THEN Address(s, k) ELSE Address(s, k) + d
    BY <2>9 DEF T
  <2>11. k < m => ~(Address(s, k) >= at)
    BY <2>3
  <2>12. ~(k < m) => Address(s, k) >= at
    <3> SUFFICES ASSUME ~(k < m) PROVE Address(s, k) >= at
      OBVIOUS
    <3>1. m \in 0..n /\ k \in 0..n /\ m <= k
      BY <2>3
    <3>2. Address(s, m) <= Address(s, k)
      BY <3>1, AddressesGrow
    <3>3. Address(s, m) \in Nat /\ Address(s, k) \in Nat
      BY <2>5, <3>1
    <3> QED BY <2>3, <3>2, <3>3
  <2>13. Address(r, k) = Shifted(Address(s, k), at, d)
    BY <2>10, <2>11, <2>12 DEF Shifted
  <2> QED BY <2>13 DEF r
<1> QED BY <1>1, <1>2

LEMMA InjectLines ==
  ASSUME BodyInv, NEW at \in 1..Len(body) + 1, NEW new \in Seq(Instructions),
         Foreign(new), FirstOrPassed(at, new), Inject(at, new), LinesFollow
  PROVE  LinesFollow'
<1> DEFINE o == OffsetOf(body, at)
           d == Size(new)
           n == Len(Located)
<1>1. /\ n \in Nat /\ DOMAIN Located = 1..n /\ \A k \in 1..n : Located[k] \in Points
  <2>1. Located \in Seq(Points)
    BY ProgramAssumption
  <2> QED BY <2>1, ElementIn
<1>2. /\ body \in Seq(Instructions) /\ lines \in [DOMAIN Located -> Nat]
  BY DEF BodyInv
<1>3. /\ body' = InsertedAt(body, at, new) /\ lines' = Relocated(lines, o, d)
  BY DEF Inject
<1>4. o \in Nat /\ d \in Nat
  BY <1>2, ItemSeqs, Offsets, SizeIs
<1>5. ASSUME NEW x, NEW p \in Points, Names(body, x, p) PROVE Names(body', Shifted(x, o, d), p)
  BY <1>2, <1>3, <1>5, NamesFollow
<1> HIDE DEF o, d, n
<1>6. lines \in [1..n -> Nat] /\ DOMAIN lines = 1..n /\ DOMAIN lines' = 1..n
  <2>1. lines \in [1..n -> Nat]
    BY <1>1, <1>2
  <2>2. lines' \in [1..n -> Nat]
    BY <1>1, <1>3, <1>4, <2>1, RelocatedIs
  <2> QED BY <2>1, <2>2
<1>7. ASSUME NEW k \in 1..n PROVE Names(body', Address(lines', k), Located[k])
  <2>1. Names(body, Address(lines, k), Located[k])
    BY <1>6 DEF LinesFollow
  <2>2. Address(lines', k) = Shifted(Address(lines, k), o, d)
    BY <1>1, <1>3, <1>4, <1>6, RelocatedMoves
  <2> QED BY <1>1, <1>5, <2>1, <2>2
<1> QED BY <1>6, <1>7 DEF LinesFollow

LEMMA StubLines ==
  ASSUME BodyInv, InjectLog \/ InjectNop, LinesFollow
  PROVE  LinesFollow'
<1>1. CASE InjectLog
  <2>1. 1 \in 1..Len(body) + 1
    BY DEF BodyInv
  <2> QED BY <1>1, <2>1, PrologueIs, InjectLines DEF InjectLog, FirstOrPassed
<1>2. CASE InjectNop
  BY <1>2, NopIndexIs, NopsForeign, InjectLines DEF InjectNop, FirstOrPassed
<1> QED BY <1>1, <1>2

\* A stub takes the source locations behind it along, with one delta of the stream
\* changed (debug_reloc.rs).
THEOREM LinesAlwaysFollowInsertions == Spec => LinesFollowInsertions
<1>1. BodyInv /\ [Next]_vars => [(InjectLog \/ InjectNop) /\ LinesFollow => LinesFollow']_vars
  BY StubLines
<1> QED BY <1>1, BodyInvariant, PTL DEF Spec, LinesFollowInsertions

----------------------------------------------------------------------------
(* The jumps.                                                               *)

\* The point behind instruction i of the program.
PointBehind(i) == IF i = Len(Program) THEN End ELSE Program[i + 1].id

\* The points an emitted text has labels for.
Behinds == {PointBehind(i) : i \in {j \in 1..Len(Program) : Program[j].kind \in EndsFlow}}

Marks ==
  {Program[i].dest : i \in {j \in 1..Len(Program) : Program[j].kind \in Jumping}}
  \union (UNION {{Regions[k].start, Regions[k].end, Regions[k].target} : k \in 1..Len(Regions)})
  \union Behinds

\* The body ends with an instruction that stays and does not jump, none returns
\* unless that one does, and no jump leads behind it.
EndsPlainly ==
  LET n == Len(Program)
  IN  /\ n # 0
      /\ Program[n].id \notin MayDelete /\ Program[n].kind \notin Jumping
      /\ Program[n].kind = "ret" \/ \A i \in 1..n : Program[i].kind # "ret"
      /\ \A i \in 1..n : Program[i].kind \in Jumping => Program[i].dest # End

\* Between two points with a label something stays.
NoLabelsMeet ==
  \A p, q \in Marks : PointIndex(p) < PointIndex(q) =>
    \E j \in PointIndex(p)..PointIndex(q) - 1 : Program[j].id \notin MayDelete

JumpsLead(b) ==
  \A i \in 1..Len(b) :
    b[i].kind \in Jumping => Names(b, Target(b, i), Dest(b[i].id))

\* What may not be left out is still there.
AllStay(s) ==
  \A k \in 1..Len(Program) : Program[k].id \notin MayDelete =>
    \E l \in 1..Len(s) : s[l].id = Program[k].id

\* An instruction is one of the program, or an added one.
LEMMA KnownIs ==
  ASSUME NEW i, NEW k, <<i, k>> \in Known
  PROVE  \/ \E j \in 1..Len(Program) : i = Program[j].id /\ k = Program[j].kind
         \/ i = k /\ i \in AddedIds
<1>1. DOMAIN Program = 1..Len(Program)
  BY ProgramIs
<1>2. CASE \E j \in DOMAIN Program : <<i, k>> = <<Program[j].id, Program[j].kind>>
  BY <1>1, <1>2
<1>3. CASE \E a \in AddedIds : <<i, k>> = <<a, a>>
  BY <1>3
<1> QED BY <1>2, <1>3 DEF Known

\* Kinds of instructions of the program are no kinds of added ones.
LEMMA KindsDiffer ==
  /\ Jumping \subseteq Addressing /\ Addressing \subseteq Kinds /\ EndsFlow \subseteq Kinds
  /\ "ret" \in Kinds
  /\ \A k \in Kinds : k \notin AddedIds /\ k \notin Clear
<1>1. Jumping \subseteq Addressing
  BY DEF Jumping, Addressing
<1>2. Addressing \subseteq Kinds /\ EndsFlow \subseteq Kinds /\ "ret" \in Kinds
  BY DEF Addressing, EndsFlow, Kinds
<1>3. \A k \in Kinds : k \notin AddedIds /\ k \notin Clear
  BY DEF Kinds, AddedIds, Clear
<1> QED BY <1>1, <1>2, <1>3

LEMMA OriginalIs ==
  ASSUME NEW b \in Seq(Instructions), NEW i \in 1..Len(b)
  PROVE  /\ b[i].kind \in Kinds => \E j \in 1..Len(Program) :
              b[i].id = Program[j].id /\ b[i].kind = Program[j].kind
         /\ \A j \in 1..Len(Program) : b[i].id = Program[j].id =>
              b[i].kind = Program[j].kind /\ b[i].kind \notin Clear
<1> DEFINE x == b[i].id
           k == b[i].kind
<1>1. <<x, k>> \in Known
  BY InstructionIs, ElementIn
<1> HIDE DEF x, k
<1>2. \/ \E j \in 1..Len(Program) : x = Program[j].id /\ k = Program[j].kind
      \/ x = k /\ x \in AddedIds
  BY <1>1, KnownIs
<1>3. k \in Kinds => \E j \in 1..Len(Program) : x = Program[j].id /\ k = Program[j].kind
  BY <1>2, KindsDiffer
<1>4. ASSUME NEW j \in 1..Len(Program), x = Program[j].id
      PROVE  k = Program[j].kind /\ k \notin Clear
  <2>1. x \notin AddedIds
    BY <1>4, ProgramIs DEF Points
  <2>2. PICK l \in 1..Len(Program) : x = Program[l].id /\ k = Program[l].kind
    BY <1>2, <2>1
  <2>3. l = j
    BY <1>4, <2>2, ProgramIs
  <2> QED BY <2>2, <2>3, ProgramIs, KindsDiffer
<1> QED BY <1>3, <1>4 DEF x, k

\* Where a jump of the program leads: to an instruction of it.
LEMMA DestIs ==
  ASSUME EndsPlainly, NEW b \in Seq(Instructions), NEW i \in 1..Len(b), b[i].kind \in Jumping
  PROVE  /\ Dest(b[i].id) \in Points /\ Dest(b[i].id) # End /\ Dest(b[i].id) \in Marks
         /\ \E j \in 1..Len(Program) - 1 : b[i].id = Program[j].id
<1>1. b[i].kind \in Kinds
  BY KindsDiffer
<1>2. PICK j \in 1..Len(Program) : b[i].id = Program[j].id /\ b[i].kind = Program[j].kind
  BY <1>1, OriginalIs
<1>3. Dest(b[i].id) = Program[j].dest
  BY <1>2, ProgramIs DEF Dest
<1>4. Program[j].dest \in Points
  BY <1>2, KindsDiffer, ProgramIs, ProgramAssumption
<1>5. Program[j].dest # End /\ j # Len(Program)
  BY <1>2 DEF EndsPlainly
<1>6. Program[j].dest \in Marks
  BY <1>2 DEF Marks
<1>7. j \in 1..Len(Program) - 1
  <2>1. Len(Program) \in Nat
    BY ProgramIs
  <2> QED BY <1>5, <2>1
<1> QED BY <1>2, <1>3, <1>4, <1>5, <1>6, <1>7

\* The last instruction of the program: the jumps are before it, and lead to it
\* at the latest.
LEMMA LastIs ==
  ASSUME EndsPlainly, NEW b \in Seq(Instructions), InOrder(b), AllStay(b)
  PROVE  \E r \in 1..Len(b) :
           /\ b[r].id = Program[Len(Program)].id
           /\ \A i \in 1..Len(b) : b[i].kind \in Jumping => i < r
           /\ \A p \in Points : p # End => \A j \in 1..Len(b) + 1 : Leads(b, j, p) => j <= r
<1> DEFINE n == Len(Program)
<1>1. n \in Nat /\ n # 0 /\ n \in 1..n /\ Program[n].id \notin MayDelete
  BY ProgramIs DEF EndsPlainly
<1>2. PICK r \in 1..Len(b) : b[r].id = Program[n].id
  BY <1>1 DEF AllStay
<1>3. ASSUME NEW i \in 1..Len(b), b[i].kind \in Jumping PROVE i < r
  <2>1. PICK j \in 1..n - 1 : b[i].id = Program[j].id
    BY <1>3, DestIs
  <2>2. i # r
    <3>1. Program[j].id # Program[n].id
      BY <1>1, <2>1, ProgramIs
    <3> QED BY <1>2, <2>1, <3>1
  <2>3. ~(r < i)
    <3> SUFFICES ASSUME r < i PROVE FALSE
      OBVIOUS
    <3>1. b[i].kind \notin Clear
      BY <1>3, KindsDiffer
    <3>2. \E l \in 1..n : n < l /\ b[i].id = Program[l].id
      BY <1>1, <1>2, <3>1 DEF InOrder
    <3> QED BY <1>1, <3>2
  <2> QED BY <2>2, <2>3
<1>4. ASSUME NEW p \in Points, p # End, NEW j \in 1..Len(b) + 1, Leads(b, j, p) PROVE j <= r
  <2>1. Program[n].id \in From(p)
    <3>1. PointIndex(p) <= n
      BY <1>4, PointIs
    <3> QED BY <1>1, <3>1, PointIs
  <2>2. r \notin 1..j - 1
    BY <1>2, <1>4, <2>1 DEF Leads
  <2>3. Len(b) \in Nat
    OBVIOUS
  <2> QED BY <2>2, <2>3
<1> QED BY <1>2, <1>3, <1>4

LEMMA InsertedStay ==
  ASSUME NEW S, NEW s \in Seq(S), NEW new \in Seq(S), NEW at \in 1..Len(s) + 1, AllStay(s)
  PROVE  AllStay(InsertedAt(s, at, new))
<1> DEFINE r == InsertedAt(s, at, new)
           n == Len(s)
           m == Len(new)
<1>0. n \in Nat /\ m \in Nat
  OBVIOUS
<1>1. Placed(r, s, new, at)
  BY InsertedPlaced, Zenon
<1> HIDE DEF r
<1>2. /\ Len(r) = n + m
      /\ \A j \in 1..at - 1 : r[j] = s[j]
      /\ \A j \in at..n : r[j + m] = s[j]
  BY <1>1 DEF Placed
<1> SUFFICES ASSUME NEW k \in 1..Len(Program), Program[k].id \notin MayDelete
             PROVE  \E l \in 1..Len(r) : r[l].id = Program[k].id
  BY DEF AllStay, r
<1>3. PICK l \in 1..n : s[l].id = Program[k].id
  BY DEF AllStay
<1>4. CASE l < at
  <2>1. l \in 1..at - 1 /\ l \in 1..n + m
    BY <1>0, <1>4
  <2> QED BY <1>2, <1>3, <2>1
<1>5. CASE ~(l < at)
  <2>1. l \in at..n /\ l + m \in 1..n + m
    BY <1>0, <1>5
  <2> QED BY <1>2, <1>3, <2>1
<1> QED BY <1>4, <1>5

\* An insertion in front of everything, or one no jump crosses.
NotCrossed(at, b, new) ==
  \/ at = 1
  \/ /\ Passed(new)
     /\ \A i \in 1..Len(b) : b[i].kind \in Jumping => i < at
     /\ \A p \in Points : p # End => \A j \in 1..Len(b) + 1 : Leads(b, j, p) => j <= at

LEMMA InsertedLead ==
  ASSUME EndsPlainly, NEW b \in Seq(Instructions), JumpsLead(b),
         NEW new \in Seq(Instructions), Foreign(new),
         NEW at \in 1..Len(b) + 1, NotCrossed(at, b, new)
  PROVE  JumpsLead(InsertedAt(b, at, new))
<1> DEFINE r == InsertedAt(b, at, new)
           n == Len(b)
           m == Len(new)
<1>1. /\ r \in Seq(Instructions) /\ Placed(r, b, new, at)
  BY InsertedPlaced
<1>2. b \in Seq(Items) /\ new \in Seq(Items) /\ n \in Nat /\ m \in Nat
  BY ItemSeqs
<1>3. /\ \A k \in 1..at : OffsetOf(r, k) = OffsetOf(b, k)
      /\ \A k \in at..n + 1 : OffsetOf(r, k + m) = OffsetOf(b, k) + Size(new)
  BY <1>2, InsertedOffsets
<1> HIDE DEF r
<1>4. /\ Len(r) = n + m
      /\ \A j \in 1..at - 1 : r[j] = b[j]
      /\ \A j \in 1..m : r[at - 1 + j] = new[j]
      /\ \A j \in at..n : r[j + m] = b[j]
  BY <1>1 DEF Placed
<1>5. Size(new) \in Nat /\ \A j \in 1..n + 1 : OffsetOf(b, j) \in Nat
  BY <1>2, SizeIs, Offsets
<1> HIDE DEF n, m
<1>6. at \in 1..n + 1
  BY DEF n
<1> SUFFICES ASSUME NEW i \in 1..n + m, r[i].kind \in Jumping
             PROVE  Names(r, Target(r, i), Dest(r[i].id))
  BY <1>4 DEF JumpsLead, r
<1>7. ~ \E j \in 1..m : i = at - 1 + j
  <2> SUFFICES ASSUME NEW j \in 1..m, i = at - 1 + j PROVE FALSE
    OBVIOUS
  <2>1. r[i] = new[j]
    BY <1>4
  <2>2. new[j].kind \notin Addressing
    BY ForeignIs DEF m
  <2> QED BY <2>1, <2>2, KindsDiffer
\* A jump that was at h, and led to instruction j.
<1>8. ASSUME NEW h \in 1..n, r[i] = b[h]
      PROVE  \E j \in 1..n + 1 :
               /\ Leads(b, j, Dest(r[i].id)) /\ OffsetOf(b, j) = OffsetOf(b, h) + r[i].rel
               /\ Dest(r[i].id) \in Points /\ Dest(r[i].id) # End /\ r[i].rel \in Int
  <2>1. b[h].kind \in Jumping /\ h \in 1..Len(b)
    BY <1>8 DEF n
  <2>2. Names(b, Target(b, h), Dest(b[h].id))
    BY <2>1 DEF JumpsLead
  <2>3. PICK j \in 1..Len(b) + 1 : OffsetOf(b, j) = Target(b, h) /\ Leads(b, j, Dest(b[h].id))
    BY <2>2, NamesLeads
  <2>4. Dest(b[h].id) \in Points /\ Dest(b[h].id) # End
    BY <2>1, DestIs
  <2>5. b[h].rel \in Int
    BY <2>1, InstructionIs, ElementIn
  <2> QED BY <1>8, <2>3, <2>4, <2>5 DEF Target, n
<1>9. CASE i \in 1..at - 1
  <2>1. i \in 1..n /\ r[i] = b[i] /\ at # 1 /\ i \in 1..at
    BY <1>2, <1>4, <1>6, <1>9
  <2>2. PICK j \in 1..n + 1 :
          /\ Leads(b, j, Dest(r[i].id)) /\ OffsetOf(b, j) = OffsetOf(b, i) + r[i].rel
          /\ Dest(r[i].id) \in Points /\ Dest(r[i].id) # End
    BY <1>8, <2>1
  <2>3. j <= at /\ Passed(new)
    BY <2>1, <2>2 DEF NotCrossed, n
  <2>4. j \in 1..at /\ \A k \in 1..Len(new) : new[k].kind \in Clear
    BY <2>3 DEF Passed
  <2>5. Leads(r, j, Dest(r[i].id))
    BY <2>2, <2>4, LeadsThrough DEF r
  <2>6. OffsetOf(r, j) = Target(r, i)
    BY <1>3, <2>1, <2>2, <2>4 DEF Target
  <2>7. j \in 1..Len(r) + 1
    BY <1>2, <1>4
  <2> QED BY <1>1, <2>5, <2>6, <2>7, NamesLeads
<1>10. CASE \E h \in at..n : i = h + m
  <2>1. PICK h \in at..n : i = h + m
    BY <1>10
  <2>2. h \in 1..n /\ r[i] = b[h]
    BY <1>4, <1>6, <2>1
  <2>3. at = 1
    <3> SUFFICES ASSUME at # 1 PROVE FALSE
      OBVIOUS
    <3>1. b[h].kind \in Jumping
      BY <2>2
    <3>2. h < at
      BY <2>2, <3>1 DEF NotCrossed, n
    <3> QED BY <1>6, <2>1, <3>2
  <2>4. PICK j \in 1..n + 1 :
          /\ Leads(b, j, Dest(r[i].id)) /\ OffsetOf(b, j) = OffsetOf(b, h) + r[i].rel
          /\ Dest(r[i].id) \in Points /\ r[i].rel \in Int
    BY <1>8, <2>2
  <2>5. j \in at..n + 1 /\ h \in at..n + 1
    BY <1>2, <2>1, <2>3
  <2>6. \A k \in 1..Len(new) : new[k].id \notin From(Dest(r[i].id))
    BY <2>4, ForeignIs
  <2>7. Leads(r, j + m, Dest(r[i].id))
    BY <2>4, <2>5, <2>6, LeadsBehind DEF r, n, m
  <2>8. OffsetOf(r, j + m) = Target(r, i)
    <3>1. OffsetOf(r, j + m) = OffsetOf(b, j) + Size(new)
      BY <1>3, <2>5
    <3>2. OffsetOf(r, i) = OffsetOf(b, h) + Size(new)
      BY <1>3, <2>1, <2>5
    <3>3. OffsetOf(b, h) \in Nat /\ OffsetOf(b, j) \in Nat /\ r[i].rel \in Int
      BY <1>5, <1>6, <2>4, <2>5
    <3> QED BY <1>5, <2>4, <3>1, <3>2, <3>3 DEF Target
  <2>9. j + m \in 1..Len(r) + 1
    BY <1>2, <1>4
  <2> QED BY <1>1, <2>7, <2>8, <2>9, NamesLeads
<1>11. \/ i \in 1..at - 1
       \/ \E j \in 1..m : i = at - 1 + j
       \/ \E j \in at..n : i = j + m
  BY <1>2, <1>6, InsertedSplit
<1> QED BY <1>7, <1>9, <1>10, <1>11

\* The places an edit inserts at.
LEMMA PlacesAre ==
  ASSUME EndsPlainly, NEW b \in Seq(Instructions), InOrder(b), AllStay(b),
         NEW at \in 1..Len(b) + 1, NEW new, Passed(new),
         \E r \in 1..Len(b) : b[r].id = Program[Len(Program)].id /\ r <= at
  PROVE  NotCrossed(at, b, new)
<1>1. PICK r \in 1..Len(b) :
        /\ b[r].id = Program[Len(Program)].id
        /\ \A i \in 1..Len(b) : b[i].kind \in Jumping => i < r
        /\ \A p \in Points : p # End => \A j \in 1..Len(b) + 1 : Leads(b, j, p) => j <= r
  BY LastIs
<1>2. PICK q \in 1..Len(b) : b[q].id = Program[Len(Program)].id /\ q <= at
  OBVIOUS
<1>3. Len(Program) \in Nat /\ Len(Program) \in 1..Len(Program) /\ Len(b) \in Nat
  BY ProgramIs DEF EndsPlainly
<1>4. r = q
  <2>1. b[r].kind \notin Clear /\ b[q].kind \notin Clear
    BY <1>1, <1>2, <1>3, OriginalIs
  <2>2. ASSUME NEW d \in 1..Len(b), NEW e \in 1..Len(b), d < e,
               b[d].id = Program[Len(Program)].id, b[e].id = Program[Len(Program)].id,
               b[e].kind \notin Clear
        PROVE  FALSE
    <3>1. \E l \in 1..Len(Program) : Len(Program) < l
      BY <1>3, <2>2 DEF InOrder
    <3> QED BY <1>3, <3>1
  <2>3. ~(r < q) /\ ~(q < r)
    BY <1>1, <1>2, <2>1, <2>2
  <2> QED BY <2>3
<1>5. r <= at
  BY <1>2, <1>4
<1>6. \A i \in 1..Len(b) : b[i].kind \in Jumping => i < at
  <2> SUFFICES ASSUME NEW i \in 1..Len(b), b[i].kind \in Jumping PROVE i < at
    OBVIOUS
  <2>1. i < r
    BY <1>1
  <2> QED BY <1>5, <2>1
<1>7. ASSUME NEW p \in Points, p # End, NEW j \in 1..Len(b) + 1, Leads(b, j, p) PROVE j <= at
  <2>1. j <= r
    BY <1>1, <1>7
  <2> QED BY <1>5, <2>1
<1> QED BY <1>6, <1>7 DEF NotCrossed

\* Behind an instruction of the program control is at the point behind it.
LEMMA BehindLeads ==
  ASSUME NEW b \in Seq(Instructions), InOrder(b), NEW i \in 1..Len(b),
         NEW k \in 1..Len(Program), b[i].id = Program[k].id
  PROVE  PointBehind(k) \in Points /\ Leads(b, i + 1, PointBehind(k))
<1> DEFINE n == Len(Program)
           p == PointBehind(k)
<1>0. n \in Nat /\ Len(b) \in Nat
  BY ProgramIs
<1>1. p \in Points /\ PointIndex(p) = k + 1
  <2>1. CASE k = n
    <3>1. p = End
      BY <2>1 DEF PointBehind
    <3> QED BY <2>1, <3>1 DEF Points, PointIndex
  <2>2. CASE k # n
    <3>1. k + 1 \in 1..n
      BY <1>0, <2>2
    <3>2. p = Program[k + 1].id
      BY <2>2 DEF PointBehind
    <3>3. p \in Ids /\ IndexOf(Program, p) = k + 1
      BY <3>1, <3>2, ProgramIs
    <3>4. p # End
      BY <3>3, ProgramIs
    <3> QED BY <3>3, <3>4 DEF Points, PointIndex
  <2> QED BY <2>1, <2>2
<1> HIDE DEF p
<1>2. \A l \in 1..n : Program[l].id \in From(p) <=> k + 1 <= l
  BY <1>1, PointIs
<1>3. From(p) \subseteq Ids
  BY <1>1, PointIs
<1>4. ASSUME NEW j \in 1..i PROVE b[j].id \notin From(p)
  <2> SUFFICES ASSUME b[j].id \in From(p) PROVE FALSE
    OBVIOUS
  <2>1. PICK l \in 1..n : b[j].id = Program[l].id
    BY <1>3, ProgramIs
  <2>2. k + 1 <= l
    BY <1>2, <2>1
  <2>3. j # i
    <3>1. Program[k].id # Program[l].id
      BY <1>0, <2>2, ProgramIs
    <3> QED BY <2>1, <3>1
  <2>4. j \in 1..Len(b) /\ j < i
    BY <1>0, <2>3
  <2>5. b[i].kind \notin Clear
    BY OriginalIs
  <2>6. PICK h \in 1..n : l < h /\ b[i].id = Program[h].id
    BY <2>1, <2>4, <2>5 DEF InOrder
  <2>7. h = k
    BY <2>6, ProgramIs
  <2> QED BY <1>0, <2>2, <2>6, <2>7
<1>5. ASSUME NEW m \in i + 1..Len(b) PROVE b[m].kind \in Clear \/ b[m].id \in From(p)
  <2>1. m \in 1..Len(b) /\ i < m
    BY <1>0
  <2>2. CASE b[m].kind \notin Clear
    <3>1. PICK h \in 1..n : k < h /\ b[m].id = Program[h].id
      BY <2>1, <2>2 DEF InOrder
    <3>2. k + 1 <= h
      BY <1>0, <3>1
    <3> QED BY <1>2, <3>1, <3>2
  <2> QED BY <2>2
<1>6. \A j \in 1..i + 1 - 1 : b[j].id \notin From(p)
  BY <1>4
<1>7. ASSUME NEW m \in i + 1..Len(b)
      PROVE  b[m].kind \in Clear \/ \E j \in i + 1..m : b[j].id \in From(p)
  <2>1. m \in i + 1..m
    BY <1>0
  <2> QED BY <1>5, <2>1
<1>8. Leads(b, i + 1, p)
  BY <1>6, <1>7 DEF Leads
<1> QED BY <1>1, <1>8 DEF p

\* A place with a label leads to a marked point.
LabelsLead(b, table) ==
  \A j \in 1..Len(b) + 1 : Labelled(b, table, j) =>
    \E p \in Marks : p \in Points /\ Leads(b, j, p)

LEMMA LabelsLeadIs ==
  ASSUME EndsPlainly, NEW b \in Seq(Instructions), InOrder(b), JumpsLead(b),
         NEW table \in Seq(Numbers), Len(table) = Len(Regions), TableFollows(table, b)
  PROVE  LabelsLead(b, table)
<1> DEFINE n == Len(b)
<1>0. n \in Nat /\ DOMAIN b = 1..n /\ DOMAIN table = 1..Len(table)
  OBVIOUS
<1> SUFFICES ASSUME NEW j \in 1..n + 1, Labelled(b, table, j)
             PROVE  \E p \in Marks : p \in Points /\ Leads(b, j, p)
  BY DEF LabelsLead
<1> DEFINE o == OffsetOf(b, j)
<1>1. o \in LabelOffsets(b) \union Wanted(table)
  BY DEF Labelled
\* The offset names one point at most.
<1>2. ASSUME NEW p \in Points, Names(b, o, p) PROVE Leads(b, j, p)
  <2>1. PICK i \in 1..n + 1 : OffsetOf(b, i) = o /\ Leads(b, i, p)
    BY <1>2, NamesLeads
  <2>2. i = j
    BY <2>1, OffsetsDiffer
  <2> QED BY <2>1, <2>2
<1>3. CASE \E i \in 1..n : b[i].kind \in EndsFlow /\ o = OffsetOf(b, i) + b[i].len
  <2>1. PICK i \in 1..n : b[i].kind \in EndsFlow /\ o = OffsetOf(b, i) + b[i].len
    BY <1>3
  <2>2. b \in Seq(Items) /\ i + 1 \in 1..n + 1
    BY <1>0, ItemSeqs
  <2>3. OffsetOf(b, i + 1) = o
    BY <2>1, <2>2, Offsets
  <2>4. j = i + 1
    BY <2>2, <2>3, OffsetsDiffer
  <2>5. b[i].kind \in Kinds
    BY <2>1, KindsDiffer
  <2>6. PICK k \in 1..Len(Program) : b[i].id = Program[k].id /\ b[i].kind = Program[k].kind
    BY <2>5, OriginalIs
  <2>7. PointBehind(k) \in Points /\ Leads(b, j, PointBehind(k))
    BY <2>4, <2>6, BehindLeads
  <2>8. PointBehind(k) \in Marks
    <3>1. PointBehind(k) \in Behinds
      BY <2>1, <2>6 DEF Behinds
    <3> QED BY <3>1 DEF Marks
  <2> QED BY <2>7, <2>8
<1>4. CASE \E i \in 1..n : b[i].kind \in Jumping /\ o = Target(b, i)
  <2>1. PICK i \in 1..n : b[i].kind \in Jumping /\ o = Target(b, i)
    BY <1>4
  <2>2. Names(b, o, Dest(b[i].id))
    BY <2>1 DEF JumpsLead
  <2>3. Dest(b[i].id) \in Points /\ Dest(b[i].id) \in Marks
    BY <2>1, DestIs
  <2> QED BY <1>2, <2>2, <2>3
<1>5. CASE \E k \in 1..Len(table) : o \in {table[k].start, table[k].end, table[k].target}
  <2>1. PICK k \in 1..Len(table) : o \in {table[k].start, table[k].end, table[k].target}
    BY <1>5
  <2>2. k \in 1..Len(Regions)
    OBVIOUS
  <2>3. \E p \in {Regions[k].start, Regions[k].end, Regions[k].target} : Names(b, o, p)
    BY <2>1 DEF TableFollows
  <2>4. PICK p \in {Regions[k].start, Regions[k].end, Regions[k].target} : Names(b, o, p)
    BY <2>3
  <2>5. p \in Points
    BY <2>2, <2>4, RegionsAre
  <2>6. p \in Marks
    BY <2>2, <2>4 DEF Marks
  <2> QED BY <1>2, <2>4, <2>5, <2>6
<1> HIDE DEF o
<1>6. o \in LabelOffsets(b) =>
        \/ \E i \in 1..n : b[i].kind \in EndsFlow /\ o = OffsetOf(b, i) + b[i].len
        \/ \E i \in 1..n : b[i].kind \in Jumping /\ o = Target(b, i)
  BY <1>0 DEF LabelOffsets
<1>7. o \in Wanted(table) =>
        \E k \in 1..Len(table) : o \in {table[k].start, table[k].end, table[k].target}
  BY <1>0 DEF Wanted
<1> QED BY <1>1, <1>3, <1>4, <1>5, <1>6, <1>7

\* Two places with a label are not one instruction apart that may be left out.
LEMMA NoneBetween ==
  ASSUME NoLabelsMeet, NEW b \in Seq(Instructions), InOrder(b), AllStay(b),
         NEW j \in 1..Len(b), b[j].id \in MayDelete,
         NEW p \in Marks, p \in Points, NEW q \in Marks, q \in Points,
         Leads(b, j, p), Leads(b, j + 1, q)
  PROVE  FALSE
<1> DEFINE n == Len(Program)
<1>0. n \in Nat /\ Len(b) \in Nat /\ MayDelete \subseteq Ids
  BY ProgramIs, EditAssumption
<1>1. PICK k \in 1..n : b[j].id = Program[k].id
  BY <1>0, ProgramIs
<1>2. b[j].kind \notin Clear
  BY <1>1, OriginalIs
<1>3. b[j].id \in From(p) /\ \A h \in 1..j - 1 : b[h].id \notin From(p)
  <2>1. j \in j..Len(b)
    BY <1>0
  <2>2. \E h \in j..j : b[h].id \in From(p)
    BY <1>2, <2>1 DEF Leads
  <2>3. \A h \in j..j : h = j
    OBVIOUS
  <2>4. b[j].id \in From(p)
    BY <2>2, <2>3
  <2> QED BY <2>4 DEF Leads
<1>4. b[j].id \notin From(q)
  <2>1. j \in 1..(j + 1) - 1
    OBVIOUS
  <2> QED BY <2>1 DEF Leads
<1>5. PointIndex(p) <= k /\ ~(PointIndex(q) <= k)
  BY <1>1, <1>3, <1>4, PointIs
<1>6. PointIndex(p) \in 1..n + 1 /\ PointIndex(q) \in 1..n + 1
  BY PointIs
<1>7. PICK l \in PointIndex(p)..PointIndex(q) - 1 : Program[l].id \notin MayDelete
  BY <1>5, <1>6 DEF NoLabelsMeet
<1>8. l \in 1..n /\ PointIndex(p) <= l /\ ~(PointIndex(q) <= l)
  BY <1>0, <1>6
<1>9. Program[l].id \in From(p) /\ Program[l].id \notin From(q)
  BY <1>8, PointIs
<1>10. PICK m \in 1..Len(b) : b[m].id = Program[l].id
  BY <1>7, <1>8 DEF AllStay
<1>11. m # j
  BY <1>7, <1>10
<1>12. m \in j + 1..Len(b)
  <2>1. m \notin 1..j - 1
    BY <1>3, <1>9, <1>10
  <2> QED BY <1>11, <2>1
<1>13. b[m].kind \notin Clear
  BY <1>8, <1>10, OriginalIs
<1>14. PICK h \in j + 1..m : b[h].id \in From(q)
  BY <1>12, <1>13 DEF Leads
<1>15. CASE h = m
  BY <1>9, <1>10, <1>14, <1>15
<1>16. CASE h # m
  <2>1. h \in 1..Len(b) /\ m \in h + 1..Len(b)
    BY <1>0, <1>16
  <2>2. b[m].id \in From(q)
    BY <1>0, <1>13, <1>14, <2>1, OrderSettles
  <2> QED BY <1>9, <1>10, <2>2
<1> QED BY <1>15, <1>16

\* An instruction of the program is in a body once.
LEMMA OnceIn ==
  ASSUME NEW b \in Seq(Instructions), InOrder(b),
         NEW i \in 1..Len(b), NEW j \in 1..Len(b), i < j, b[i].id \in Ids
  PROVE  b[i].id # b[j].id
<1> SUFFICES ASSUME b[i].id = b[j].id PROVE FALSE
  OBVIOUS
<1>1. PICK k \in 1..Len(Program) : b[i].id = Program[k].id
  BY ProgramIs
<1>2. b[j].kind \notin Clear
  BY <1>1, OriginalIs
<1>3. PICK l \in 1..Len(Program) : k < l /\ b[j].id = Program[l].id
  BY <1>1, <1>2 DEF InOrder
<1>4. k = l
  BY <1>1, <1>3, ProgramIs
<1> QED BY <1>3, <1>4

----------------------------------------------------------------------------
(* Labels that stay.                                                        *)

\* Behind line d comes an instruction, and another one if that one is x.
Firm(t, d, x) ==
  /\ d + 1 \in 1..Len(t) /\ t[d + 1].kind # "label"
  /\ t[d + 1].id = x => d + 2 \in 1..Len(t) /\ t[d + 2].kind # "label" /\ t[d + 2].id # x

FirmLabel(t, o, x) == \E d \in 1..Len(t) : IsLabel(t, d, o) /\ Firm(t, d, x)

\* In an emitted text, between an instruction that may be left out and the next
\* there is no label if there is one before it.
LEMMA EmittedNext ==
  ASSUME NoLabelsMeet, NEW b \in Seq(Instructions), InOrder(b), AllStay(b),
         NEW table, AtBoundaries(table, b), LabelsLead(b, table),
         NEW t \in Seq(Lines), NEW pos, EmitsAs(t, b, table, pos),
         NEW j \in 1..Len(b) - 1, b[j].id \in MayDelete, Labelled(b, table, j)
  PROVE  /\ pos[j] + 1 \in 1..Len(t) /\ t[pos[j] + 1].kind # "label"
         /\ t[pos[j] + 1].id # b[j].id
<1> DEFINE n == Len(b)
<1>0. n \in Nat /\ Len(t) \in Nat /\ j \in 1..n /\ j + 1 \in 1..n
  OBVIOUS
<1>1. /\ pos \in [1..n -> 1..Len(t)]
      /\ \A i, h \in 1..n : i < h => pos[i] < pos[h]
      /\ \A i \in 1..n : b[i].id = t[pos[i]].id
  BY DEF EmitsAs, Thins
<1>2. pos[j] \in 1..Len(t) /\ pos[j + 1] \in 1..Len(t) /\ pos[j] < pos[j + 1]
  BY <1>0, <1>1
<1> DEFINE d == pos[j] + 1
<1>3. d \in 1..Len(t) /\ pos[j] < d /\ d <= pos[j + 1]
  BY <1>0, <1>2
<1> HIDE DEF n
<1>4. t[d].kind # "label"
  <2> SUFFICES ASSUME t[d].kind = "label" PROVE FALSE
    OBVIOUS
  <2>1. PICK i \in 1..n + 1 :
          Cuts(b, pos, d, i) /\ Labelled(b, table, i) /\ (i <= n => d = pos[i] - 1)
    BY <1>0, <1>3, EmittedLabel DEF n
  <2>2. j < i
    BY <1>0, <1>3, <2>1 DEF Cuts, n
  <2>3. ~(j + 1 < i)
    <3>1. ~(pos[j + 1] < d)
      BY <1>2, <1>3
    <3> QED BY <1>0, <2>1, <3>1 DEF Cuts, n
  <2>4. i = j + 1
    BY <1>0, <2>2, <2>3
  <2>5. PICK p \in Marks : p \in Points /\ Leads(b, j, p)
    <3>1. j \in 1..Len(b) + 1
      BY <1>0 DEF n
    <3> QED BY <3>1 DEF LabelsLead
  <2>6. PICK q \in Marks : q \in Points /\ Leads(b, j + 1, q)
    <3>1. j + 1 \in 1..Len(b) + 1
      BY <1>0 DEF n
    <3> QED BY <2>1, <2>4, <3>1 DEF LabelsLead
  <2>7. j \in 1..Len(b)
    BY <1>0 DEF n
  <2> QED BY <2>5, <2>6, <2>7, NoneBetween
<1>5. t[d].id # b[j].id
  <2>1. Stays(b, pos, d)
    <3> SUFFICES ASSUME ~Stays(b, pos, d) PROVE FALSE
      OBVIOUS
    <3>1. \E o : t[d] = Label(o)
      BY <1>3 DEF EmitsAs
    <3> QED BY <1>4, <3>1 DEF Label
  <2>2. PICK i \in 1..n : pos[i] = d
    BY <2>1 DEF Stays, n
  <2>3. j < i
    <3>1. i # j /\ ~(i < j)
      BY <1>0, <1>1, <1>2, <1>3, <2>2
    <3> QED BY <1>0, <3>1
  <2>4. t[d].id = b[i].id
    BY <1>1, <2>2
  <2>5. b[j].id # b[i].id
    <3>1. b[j].id \in Ids /\ i \in 1..Len(b) /\ j \in 1..Len(b)
      BY <1>0, EditAssumption DEF n
    <3> QED BY <2>3, <3>1, OnceIn
  <2> QED BY <2>4, <2>5
<1> QED BY <1>3, <1>4, <1>5

\* The label of a jump is firm in the text of the body.
LEMMA EmittedFirm ==
  ASSUME EndsPlainly, NoLabelsMeet,
         NEW b \in Seq(Instructions), InOrder(b), AllStay(b), JumpsLead(b),
         NEW table \in Seq(Numbers), Len(table) = Len(Regions), TableFollows(table, b),
         NEW t \in Seq(Lines), NEW pos, EmitsAs(t, b, table, pos),
         NEW i \in 1..Len(b), b[i].kind \in Jumping, NEW x \in MayDelete \union {End}
  PROVE  FirmLabel(t, Target(b, i), x)
<1> DEFINE n == Len(b)
           o == Target(b, i)
<1>0. n \in Nat /\ Len(t) \in Nat /\ DOMAIN b = 1..n
  OBVIOUS
<1>1. LabelsLead(b, table) /\ AtBoundaries(table, b)
  BY LabelsLeadIs, FollowingAtBoundaries
<1>2. PICK r \in 1..n :
        /\ b[r].id = Program[Len(Program)].id
        /\ \A p \in Points : p # End => \A j \in 1..n + 1 : Leads(b, j, p) => j <= r
  BY LastIs
<1>3. PICK j \in 1..n + 1 : OffsetOf(b, j) = o /\ Leads(b, j, Dest(b[i].id))
  <2>1. Names(b, o, Dest(b[i].id))
    BY DEF JumpsLead
  <2> QED BY <2>1, NamesLeads
<1>4. j <= r
  BY <1>2, <1>3, DestIs
<1>5. j \in 1..n
  BY <1>0, <1>4
<1>6. Labelled(b, table, j)
  BY <1>0, <1>3 DEF Labelled, LabelOffsets
<1>7. /\ pos \in [1..n -> 1..Len(t)]
      /\ \A h \in 1..n : b[h].id = t[pos[h]].id /\ b[h].kind = t[pos[h]].kind
      /\ pos[j] - 1 \in 1..Len(t) /\ t[pos[j] - 1] = Label(o)
  BY <1>3, <1>5, <1>6 DEF EmitsAs, Thins
<1> DEFINE d == pos[j] - 1
<1>8. pos[j] \in 1..Len(t) /\ d + 1 = pos[j] /\ d + 2 = pos[j] + 1
  <2>1. pos[j] \in 1..Len(t)
    BY <1>5, <1>7
  <2> QED BY <1>0, <2>1
<1>9. IsLabel(t, d, o)
  BY <1>7 DEF IsLabel, Label
<1>10. t[pos[j]].kind # "label"
  <2>1. b[j].kind # "label"
    BY <1>5, InstructionIs, ElementIn
  <2> QED BY <1>5, <1>7, <2>1
<1>11. ASSUME t[pos[j]].id = x
       PROVE  pos[j] + 1 \in 1..Len(t) /\ t[pos[j] + 1].kind # "label" /\ t[pos[j] + 1].id # x
  <2>1. b[j].id = x
    BY <1>5, <1>7, <1>11
  <2>2. x # End /\ x \in MayDelete
    <3>1. b[j].id \in Ids \union AddedIds
      BY <1>5, InstructionIs, ElementIn
    <3>2. End \notin Ids /\ End \notin AddedIds
      BY ProgramIs DEF Points
    <3> QED BY <2>1, <3>1, <3>2
  <2>3. j # r
    BY <1>2, <2>1, <2>2 DEF EndsPlainly
  <2>4. j \in 1..n - 1
    BY <1>0, <1>4, <1>5, <2>3
  <2> QED BY <1>1, <1>6, <2>1, <2>2, <2>4, EmittedNext
<1> HIDE DEF o, d
<1>12. Firm(t, d, x)
  BY <1>8, <1>10, <1>11 DEF Firm
<1> QED BY <1>7, <1>9, <1>12 DEF FirmLabel, o, d

----------------------------------------------------------------------------
(* The jumps of an edited text.                                             *)

\* Every jump of a text is one of body b, and names where that one leads.
Aims(t, b) ==
  \A l \in 1..Len(t) : t[l].kind \in Jumping =>
    \E i \in 1..Len(b) : b[i].kind \in Jumping /\ t[l].id = b[i].id /\ t[l].name = Target(b, i)

LEMMA EmittedAims ==
  ASSUME NEW b \in Seq(Instructions), NEW table,
         NEW t \in Seq(Lines), NEW pos, EmitsAs(t, b, table, pos)
  PROVE  Aims(t, b) /\ (AllStay(b) => AllStay(t))
<1>1. /\ pos \in [1..Len(b) -> 1..Len(t)]
      /\ \A i \in 1..Len(b) : b[i].id = t[pos[i]].id /\ b[i].kind = t[pos[i]].kind
      /\ \A i \in 1..Len(b) : t[pos[i]] = InsnLine(b, i)
      /\ \A k \in 1..Len(t) : ~Stays(b, pos, k) => \E x : t[k] = Label(x)
  BY DEF EmitsAs, Thins
<1>2. ASSUME NEW l \in 1..Len(t), t[l].kind \in Jumping
      PROVE  \E i \in 1..Len(b) :
               b[i].kind \in Jumping /\ t[l].id = b[i].id /\ t[l].name = Target(b, i)
  <2>1. Stays(b, pos, l)
    <3>1. "label" \notin Jumping
      BY DEF Jumping
    <3> SUFFICES ASSUME ~Stays(b, pos, l) PROVE FALSE
      OBVIOUS
    <3>2. PICK x : t[l] = Label(x)
      BY <1>1
    <3>3. t[l].kind = "label"
      BY <3>2 DEF Label
    <3> QED BY <1>2, <3>1, <3>3
  <2>2. PICK i \in 1..Len(b) : pos[i] = l
    BY <2>1 DEF Stays
  <2>3. b[i].kind \in Jumping /\ t[l].id = b[i].id /\ t[l] = InsnLine(b, i)
    BY <1>1, <1>2, <2>2
  <2>4. b[i].kind \in Addressing
    BY <2>3, KindsDiffer
  <2>5. t[l].name = Target(b, i)
    BY <2>3, <2>4 DEF InsnLine
  <2> QED BY <2>3, <2>5
<1>3. ASSUME AllStay(b), NEW k \in 1..Len(Program), Program[k].id \notin MayDelete
      PROVE  \E l \in 1..Len(t) : t[l].id = Program[k].id
  <2>1. PICK i \in 1..Len(b) : b[i].id = Program[k].id
    BY <1>3 DEF AllStay
  <2>2. pos[i] \in 1..Len(t) /\ t[pos[i]].id = Program[k].id
    BY <1>1, <2>1
  <2> QED BY <2>2
<1>4. Aims(t, b)
  BY <1>2 DEF Aims
<1>5. AllStay(b) => AllStay(t)
  BY <1>3 DEF AllStay
<1> QED BY <1>4, <1>5

\* What an added line leaves where.
LEMMA WithPlaced ==
  ASSUME NEW t \in Seq(Lines), NEW k \in 1..Len(t) + 1, NEW n \in Nat \ {0}
  PROVE  /\ With(t, k, n) \in Seq(Lines) /\ Len(With(t, k, n)) = Len(t) + 1
         /\ \A j \in 1..k - 1 : With(t, k, n)[j] = t[j]
         /\ With(t, k, n)[k].id = "new" /\ With(t, k, n)[k].kind = "new"
         /\ \A j \in k..Len(t) : With(t, k, n)[j + 1] = t[j]
<1> DEFINE new == <<NewLine(n)>>
           r == InsertedAt(t, k, new)
<1>1. new \in Seq(Lines) /\ Len(new) = 1 /\ new[1].id = "new" /\ new[1].kind = "new"
  BY NewLineIs
<1>2. With(t, k, n) = r
  BY DEF With
<1> HIDE DEF new
<1>3. r \in Seq(Lines) /\ Placed(r, t, new, k)
  BY <1>1, InsertedPlaced
<1> HIDE DEF r
<1>4. /\ Len(r) = Len(t) + 1
      /\ \A j \in 1..k - 1 : r[j] = t[j]
      /\ r[k - 1 + 1] = new[1]
      /\ \A j \in k..Len(t) : r[j + 1] = t[j]
  BY <1>1, <1>3 DEF Placed
<1>5. k - 1 + 1 = k
  OBVIOUS
<1> QED BY <1>1, <1>2, <1>3, <1>4, <1>5

LEMMA WithStays ==
  ASSUME NEW t \in Seq(Lines), NEW k \in 1..Len(t) + 1, NEW n \in Nat, NEW b
  PROVE  /\ AllStay(t) => AllStay(With(t, k, n))
         /\ Aims(t, b) => Aims(With(t, k, n), b)
<1>1. CASE n = 0
  BY <1>1 DEF With
<1>2. CASE n # 0
  <2> DEFINE r == With(t, k, n)
  <2>0. Len(t) \in Nat
    OBVIOUS
  <2>1. /\ Len(r) = Len(t) + 1
        /\ \A j \in 1..k - 1 : r[j] = t[j]
        /\ r[k].id = "new" /\ r[k].kind = "new"
        /\ \A j \in k..Len(t) : r[j + 1] = t[j]
    BY <1>2, WithPlaced
  <2> HIDE DEF r
  <2>2. ASSUME NEW j \in 1..Len(t) PROVE \E l \in 1..Len(r) : r[l] = t[j]
    <3>1. CASE j < k
      <4>1. j \in 1..k - 1 /\ j \in 1..Len(r)
        BY <2>0, <2>1, <3>1
      <4> QED BY <2>1, <4>1
    <3>2. CASE ~(j < k)
      <4>1. j \in k..Len(t) /\ j + 1 \in 1..Len(r)
        BY <2>0, <2>1, <3>2
      <4> QED BY <2>1, <4>1
    <3> QED BY <3>1, <3>2
  <2>3. ASSUME NEW l \in 1..Len(r), l # k PROVE \E j \in 1..Len(t) : r[l] = t[j]
    <3>1. CASE l < k
      <4>1. l \in 1..k - 1 /\ l \in 1..Len(t)
        BY <2>0, <2>1, <3>1
      <4> QED BY <2>1, <4>1
    <3>2. CASE ~(l < k)
      <4>1. l - 1 \in k..Len(t) /\ l - 1 \in 1..Len(t) /\ (l - 1) + 1 = l
        BY <2>0, <2>1, <2>3, <3>2
      <4>2. r[(l - 1) + 1] = t[l - 1]
        BY <2>1, <4>1
      <4> QED BY <4>1, <4>2
    <3> QED BY <3>1, <3>2
  <2>4. ASSUME AllStay(t), NEW h \in 1..Len(Program), Program[h].id \notin MayDelete
        PROVE  \E l \in 1..Len(r) : r[l].id = Program[h].id
    <3>1. PICK j \in 1..Len(t) : t[j].id = Program[h].id
      BY <2>4 DEF AllStay
    <3> QED BY <2>2, <3>1
  <2>5. ASSUME Aims(t, b), NEW l \in 1..Len(r), r[l].kind \in Jumping
        PROVE  \E i \in 1..Len(b) :
                 b[i].kind \in Jumping /\ r[l].id = b[i].id /\ r[l].name = Target(b, i)
    <3>1. l # k
      <4>1. "new" \notin Jumping
        BY DEF Jumping
      <4> QED BY <2>1, <2>5, <4>1
    <3>2. PICK j \in 1..Len(t) : r[l] = t[j]
      BY <2>3, <3>1
    <3>3. t[j].kind \in Jumping
      BY <2>5, <3>2
    <3>4. \E i \in 1..Len(b) :
            b[i].kind \in Jumping /\ t[j].id = b[i].id /\ t[j].name = Target(b, i)
      BY <2>5, <3>3 DEF Aims
    <3> QED BY <3>2, <3>4
  <2>6. AllStay(t) => AllStay(r)
    BY <2>4 DEF AllStay
  <2>7. Aims(t, b) => Aims(r, b)
    BY <2>5 DEF Aims
  <2> QED BY <2>6, <2>7 DEF r
<1> QED BY <1>1, <1>2

\* A line that is added next to a label is no label, and not x.
LEMMA WithFirm ==
  ASSUME NEW t \in Seq(Lines), NEW k \in 1..Len(t) + 1, NEW n \in Nat,
         NEW o, NEW x, x # "new", FirmLabel(t, o, x)
  PROVE  FirmLabel(With(t, k, n), o, x)
<1>1. CASE n = 0
  BY <1>1 DEF With
<1>2. CASE n # 0
  <2> DEFINE r == With(t, k, n)
             m == Len(t)
  <2>1. /\ Len(r) = m + 1
        /\ \A j \in 1..k - 1 : r[j] = t[j]
        /\ r[k].id = "new" /\ r[k].kind = "new"
        /\ \A j \in k..m : r[j + 1] = t[j]
    BY <1>2, WithPlaced
  <2>2. m \in Nat /\ k \in 1..m + 1
    OBVIOUS
  <2> SUFFICES FirmLabel(r, o, x)
    OBVIOUS
  <2> HIDE DEF r
  <2>3. PICK d \in 1..m : IsLabel(t, d, o) /\ Firm(t, d, x)
    BY DEF FirmLabel
  <2>4. /\ d + 1 \in 1..m /\ t[d + 1].kind # "label"
        /\ t[d + 1].id = x => d + 2 \in 1..m /\ t[d + 2].kind # "label" /\ t[d + 2].id # x
    BY <2>3 DEF Firm
  <2>5. t[d].kind = "label" /\ t[d].name = o
    BY <2>3 DEF IsLabel
  <2> HIDE DEF m
  <2>6. CASE k <= d
    <3>1. d \in k..m /\ d + 1 \in k..m /\ d + 1 \in 1..m + 1 /\ d + 2 \in 1..m + 1
          /\ (d + 1) + 1 = d + 2 /\ (d + 2) + 1 = d + 3
      BY <2>2, <2>4, <2>6
    <3>2. r[d + 1] = t[d] /\ r[d + 2] = t[d + 1]
      BY <2>1, <3>1
    <3>3. ASSUME t[d + 1].id = x
          PROVE  d + 3 \in 1..m + 1 /\ r[d + 3].kind # "label" /\ r[d + 3].id # x
      <4>1. d + 2 \in k..m /\ d + 3 \in 1..m + 1
        BY <2>2, <2>4, <2>6, <3>3
      <4>2. r[d + 3] = t[d + 2]
        BY <2>1, <3>1, <4>1
      <4> QED BY <2>4, <3>3, <4>1, <4>2
    <3>4. IsLabel(r, d + 1, o)
      BY <2>5, <3>2 DEF IsLabel
    <3>5. Firm(r, d + 1, x)
      <4>1. (d + 1) + 1 = d + 2 /\ (d + 1) + 2 = d + 3
        BY <2>2
      <4> QED BY <2>1, <2>4, <3>1, <3>2, <3>3, <4>1 DEF Firm
    <3> QED BY <2>1, <3>1, <3>4, <3>5 DEF FirmLabel
  <2>7. CASE k = d + 1
    <3>1. d \in 1..k - 1 /\ d \in 1..m + 1 /\ d + 1 \in 1..m + 1
      BY <2>2, <2>4, <2>7
    <3>2. IsLabel(r, d, o)
      BY <2>1, <2>5, <3>1 DEF IsLabel
    <3>3. Firm(r, d, x)
      BY <2>1, <2>7, <3>1 DEF Firm
    <3> QED BY <2>1, <3>1, <3>2, <3>3 DEF FirmLabel
  <2>8. CASE k = d + 2
    <3>1. d \in 1..k - 1 /\ d + 1 \in 1..k - 1 /\ d \in 1..m + 1 /\ d + 1 \in 1..m + 1
          /\ d + 2 \in 1..m + 1
      BY <2>2, <2>4, <2>8
    <3>2. IsLabel(r, d, o)
      BY <2>1, <2>5, <3>1 DEF IsLabel
    <3>3. Firm(r, d, x)
      BY <2>1, <2>4, <2>8, <3>1 DEF Firm
    <3> QED BY <2>1, <3>1, <3>2, <3>3 DEF FirmLabel
  <2>9. CASE k > d + 2
    <3>1. d \in 1..k - 1 /\ d + 1 \in 1..k - 1 /\ d + 2 \in 1..k - 1
          /\ d \in 1..m + 1 /\ d + 1 \in 1..m + 1 /\ (d + 2 \in 1..m => d + 2 \in 1..m + 1)
      BY <2>2, <2>4, <2>9
    <3>2. r[d] = t[d] /\ r[d + 1] = t[d + 1] /\ r[d + 2] = t[d + 2]
      BY <2>1, <3>1
    <3>3. IsLabel(r, d, o)
      BY <2>5, <3>2 DEF IsLabel
    <3>4. Firm(r, d, x)
      BY <2>1, <2>4, <3>1, <3>2 DEF Firm
    <3> QED BY <2>1, <3>1, <3>3, <3>4 DEF FirmLabel
  <2>10. k <= d \/ k = d + 1 \/ k = d + 2 \/ k > d + 2
    BY <2>2, <2>4
  <2> QED BY <2>6, <2>7, <2>8, <2>9, <2>10
<1> QED BY <1>1, <1>2

LEMMA WithoutStays ==
  ASSUME NEW t \in Seq(Lines), NEW x \in MayDelete \union {End}, NEW b
  PROVE  /\ AllStay(t) => AllStay(Without(t, x))
         /\ Aims(t, b) => Aims(Without(t, x), b)
         /\ \A o : FirmLabel(t, o, x) => o \in Labels(Without(t, x))
<1> DEFINE K == {k \in DOMAIN t : t[k].id # x}
           r == Without(t, x)
<1>1. r = Only(t, K) /\ K \in SUBSET (1..Len(t)) /\ Len(t) \in Nat
      /\ \A k \in 1..Len(t) : k \in K <=> t[k].id # x
  BY DEF Without
<1> HIDE DEF r, K
<1>2. r \in Seq(Lines) /\ \E pos \in [1..Len(r) -> 1..Len(t)] : Keeps(t, r, pos, K)
  BY <1>1, OnlyKeeps
<1>3. PICK pos \in [1..Len(r) -> 1..Len(t)] : Keeps(t, r, pos, K)
  BY <1>2
<1>4. /\ \A i, j \in 1..Len(r) : i < j => pos[i] < pos[j]
      /\ \A i \in 1..Len(r) : pos[i] \in K /\ r[i] = t[pos[i]]
      /\ \A k \in 1..Len(t) : k \in K => \E i \in 1..Len(r) : pos[i] = k
  BY <1>3 DEF Keeps, Picks
<1>5. Len(r) \in Nat /\ Len(t) \in Nat
  BY <1>2
<1>6. ASSUME AllStay(t), NEW h \in 1..Len(Program), Program[h].id \notin MayDelete
      PROVE  \E l \in 1..Len(r) : r[l].id = Program[h].id
  <2>1. PICK j \in 1..Len(t) : t[j].id = Program[h].id
    BY <1>6 DEF AllStay
  <2>2. Program[h].id # x
    <3>1. Program[h].id # End
      BY ProgramIs
    <3> QED BY <1>6, <3>1
  <2>3. PICK i \in 1..Len(r) : pos[i] = j
    BY <1>1, <1>4, <2>1, <2>2
  <2> QED BY <1>4, <2>1, <2>3
<1>7. ASSUME Aims(t, b), NEW l \in 1..Len(r), r[l].kind \in Jumping
      PROVE  \E i \in 1..Len(b) :
               b[i].kind \in Jumping /\ r[l].id = b[i].id /\ r[l].name = Target(b, i)
  <2>1. pos[l] \in 1..Len(t) /\ r[l] = t[pos[l]]
    BY <1>4
  <2> QED BY <1>7, <2>1 DEF Aims
<1>8. ASSUME NEW o, FirmLabel(t, o, x) PROVE o \in Labels(r)
  <2>1. PICK d \in 1..Len(t) : IsLabel(t, d, o) /\ Firm(t, d, x)
    BY <1>8 DEF FirmLabel
  <2>2. /\ t[d].kind = "label" /\ t[d].name = o
        /\ d + 1 \in 1..Len(t) /\ t[d + 1].kind # "label"
        /\ t[d + 1].id = x => d + 2 \in 1..Len(t) /\ t[d + 2].kind # "label" /\ t[d + 2].id # x
    BY <2>1 DEF Firm, IsLabel
  <2>3. t[d].id # x
    <3>1. t[d].id = "label"
      BY <2>2, LineIs, ElementIn
    <3>2. x \in Points /\ x # "label"
      BY ProgramIs, EditAssumption DEF Points
    <3> QED BY <3>1, <3>2
  <2>4. PICK i \in 1..Len(r) : pos[i] = d
    BY <1>1, <1>4, <2>3
\* The line behind the label that stays.
  <2>5. PICK e \in 1..Len(t) :
          /\ d < e /\ t[e].kind # "label" /\ t[e].id # x
          /\ \A k \in 1..Len(t) : d < k /\ k < e => t[k].id = x
    <3>1. CASE t[d + 1].id # x
      <4>1. d + 1 \in 1..Len(t) /\ d < d + 1 /\ ~ \E k \in 1..Len(t) : d < k /\ k < d + 1
        BY <1>5, <2>2
      <4> QED BY <2>2, <3>1, <4>1
    <3>2. CASE t[d + 1].id = x
      <4>1. d + 2 \in 1..Len(t) /\ d < d + 2
            /\ \A k \in 1..Len(t) : d < k /\ k < d + 2 => k = d + 1
        BY <1>5, <2>2, <3>2
      <4> QED BY <2>2, <3>2, <4>1
    <3> QED BY <3>1, <3>2
  <2>6. PICK j \in 1..Len(r) : pos[j] = e
    BY <1>1, <1>4, <2>5
  <2>7. i < j
    <3>1. ~(j < i) /\ i # j
      BY <1>4, <1>5, <2>4, <2>5, <2>6
    <3> QED BY <3>1
  <2>8. j = i + 1
    <3> SUFFICES ASSUME j # i + 1 PROVE FALSE
      OBVIOUS
    <3>1. i + 1 \in 1..Len(r) /\ i < i + 1 /\ i + 1 < j
      BY <1>5, <2>7
    <3>2. d < pos[i + 1] /\ pos[i + 1] < e
      BY <1>4, <2>4, <2>6, <3>1
    <3>3. pos[i + 1] \in 1..Len(t) /\ pos[i + 1] \in K
      BY <1>4, <3>1
    <3> QED BY <1>1, <2>5, <3>2, <3>3
  <2>9. Defines(r, i) /\ r[i].name = o
    <3>1. r[i] = t[d] /\ r[i + 1] = t[e]
      BY <1>4, <2>4, <2>6, <2>8
    <3> QED BY <2>2, <2>5, <3>1 DEF Defines
  <2>10. DOMAIN r = 1..Len(r)
    BY <1>2
  <2> QED BY <2>9, <2>10 DEF Labels
<1>9. AllStay(t) => AllStay(r)
  BY <1>6 DEF AllStay
<1>10. Aims(t, b) => Aims(r, b)
  BY <1>7 DEF Aims
<1> QED BY <1>8, <1>9, <1>10 DEF r

JumpInv == FollowInv /\ JumpsLead(body) /\ AllStay(body)

\* A text that defines every label its jumps name.
SureText(t, b) ==
  /\ t \in Seq(Lines) /\ AllStay(t) /\ Aims(t, b)
  /\ \A i \in 1..Len(b) : b[i].kind \in Jumping => Target(b, i) \in Labels(t)

LEMMA EditedSure ==
  ASSUME EndsPlainly, NoLabelsMeet, JumpInv, NEW t, EditOf(t)
  PROVE  SureText(t, body)
<1> DEFINE text == Emitted(body, handlers)
<1>1. body \in Seq(Instructions) /\ handlers \in Seq(Numbers) /\ InOrder(body)
      /\ Within(handlers, Size(body)) /\ Len(handlers) = Len(Regions)
      /\ TableFollows(handlers, body) /\ JumpsLead(body) /\ AllStay(body)
  BY DEF JumpInv, FollowInv, BodyInv
<1>2. text \in Seq(Lines) /\ \E pos : EmitsAs(text, body, handlers, pos)
  BY <1>1, EmittedIs
<1>3. PICK n \in InsertLens \union {0} : \E x \in MayDelete \union {End} :
        \E k \in 1..Len(text) + 1 : t = Without(With(text, k, n), x)
  BY DEF EditOf
<1> HIDE DEF text
<1>4. PICK pos : EmitsAs(text, body, handlers, pos)
  BY <1>2
<1>5. PICK x \in MayDelete \union {End} :
        \E k \in 1..Len(text) + 1 : t = Without(With(text, k, n), x)
  BY <1>3
<1>6. PICK k \in 1..Len(text) + 1 : t = Without(With(text, k, n), x)
  BY <1>5
<1>7. n \in Nat
  BY EditAssumption
<1>8. x # "new"
  <2>1. x \in Points
    BY EditAssumption DEF Points
  <2> QED BY <2>1, ProgramIs DEF AddedIds
<1> DEFINE w == With(text, k, n)
<1>9. Aims(text, body) /\ AllStay(text)
  BY <1>1, <1>2, <1>4, EmittedAims
<1>10. w \in Seq(Lines)
  BY <1>2, <1>7, WithIs
<1>11. Aims(w, body) /\ AllStay(w)
  BY <1>2, <1>7, <1>9, WithStays
<1>12. ASSUME NEW i \in 1..Len(body), body[i].kind \in Jumping
       PROVE  FirmLabel(w, Target(body, i), x)
  <2>1. FirmLabel(text, Target(body, i), x)
    BY <1>1, <1>2, <1>4, <1>12, EmittedFirm
  <2> QED BY <1>2, <1>7, <1>8, <2>1, WithFirm
<1>13. t = Without(w, x)
  BY <1>6
<1> HIDE DEF w
<1>14. t \in Seq(Lines)
  BY <1>10, <1>13, WithoutIs
<1>15. AllStay(t) /\ Aims(t, body) /\ \A o : FirmLabel(w, o, x) => o \in Labels(t)
  BY <1>10, <1>11, <1>13, WithoutStays
<1> QED BY <1>12, <1>14, <1>15 DEF SureText

\* The jumps of such a text, parsed, lead where they led.
LEMMA ParsedLead ==
  ASSUME EndsPlainly, NEW b \in Seq(Instructions), JumpsLead(b), AtBoundaries(handlers, b),
         NEW t, TextOf(t, b), SureText(t, b)
  PROVE  JumpsLead(Parsed(t)) /\ AllStay(Parsed(t))
<1> DEFINE c == Parsed(t)
<1>1. t \in Seq(Lines) /\ AllStay(t) /\ Aims(t, b)
  BY DEF SureText
<1>2. c \in Seq(Instructions) /\ \E pos : ParsesAs(t, c, pos)
  BY <1>1, ParsedIs
<1>3. \A o \in Labels(t) : \A p \in Points : LabelLeads(t, o, p) => Names(c, Resolved(t, o), p)
  BY <1>1, ResolvedNames
<1> HIDE DEF c
<1>4. PICK pos : ParsesAs(t, c, pos)
  BY <1>2
<1>5. /\ Thins(t, c, pos)
      /\ \A k \in 1..Len(t) : Stays(c, pos, k) <=> t[k].kind # "label"
      /\ \A i \in 1..Len(c) : c[i] = ParsedLine(t, pos[i])
  BY <1>4 DEF ParsesAs
<1>6. pos \in [1..Len(c) -> 1..Len(t)]
      /\ \A i \in 1..Len(c) : c[i].id = t[pos[i]].id /\ c[i].kind = t[pos[i]].kind
  BY <1>5 DEF Thins
<1>7. ASSUME NEW i \in 1..Len(c), c[i].kind \in Jumping
      PROVE  Names(c, Target(c, i), Dest(c[i].id))
  <2>1. pos[i] \in 1..Len(t) /\ t[pos[i]].kind \in Jumping
    BY <1>6, <1>7
  <2>2. PICK h \in 1..Len(b) :
          b[h].kind \in Jumping /\ t[pos[i]].id = b[h].id /\ t[pos[i]].name = Target(b, h)
    BY <1>1, <2>1 DEF Aims
  <2> DEFINE o == Target(b, h)
             p == Dest(b[h].id)
  <2>3. o \in Labels(t)
    BY <2>2 DEF SureText
  <2>4. p \in Points
    BY <2>2, DestIs
  <2>5. Names(b, o, p)
    BY <2>2 DEF JumpsLead
  <2>6. LabelLeads(t, o, p)
    BY <2>4, <2>5 DEF TextOf
  <2>7. Names(c, Resolved(t, o), p)
    BY <1>3, <2>3, <2>4, <2>6
  <2>8. Dest(c[i].id) = p
    BY <1>6, <2>2
  <2>9. Target(c, i) = Resolved(t, o)
    <3>1. OffsetOf(t, pos[i]) = OffsetOf(c, i)
      BY <1>1, <1>2, <1>4, ParsedOffsets
    <3>2. c[i].rel = Resolved(t, o) - OffsetOf(t, pos[i])
      <4>1. t[pos[i]].kind \in Addressing
        BY <2>1, KindsDiffer
      <4>2. c[i] = ParsedLine(t, pos[i])
        BY <1>5
      <4> HIDE DEF o
      <4>3. t[pos[i]].name = o
        BY <2>2 DEF o
      <4> QED BY <4>1, <4>2, <4>3 DEF ParsedLine
    <3>3. Resolved(t, o) \in Int
      BY <1>1, <2>2, InsnLineIs, ResolvedIs
    <3>4. OffsetOf(c, i) \in Nat
      <4>1. c \in Seq(Items) /\ i \in 1..Len(c) + 1
        BY <1>2, ItemSeqs
      <4> QED BY <4>1, Offsets
    <3> HIDE DEF o
    <3> QED BY <3>1, <3>2, <3>3, <3>4 DEF Target
  <2> QED BY <2>7, <2>8, <2>9
<1>8. ASSUME NEW k \in 1..Len(Program), Program[k].id \notin MayDelete
      PROVE  \E l \in 1..Len(c) : c[l].id = Program[k].id
  <2>1. PICK j \in 1..Len(t) : t[j].id = Program[k].id
    BY <1>1, <1>8 DEF AllStay
  <2>2. t[j].kind # "label"
    <3>1. t[j].id # "label"
      BY <2>1, ProgramIs DEF Points
    <3> QED BY <1>1, <3>1, LineIs, ElementIn
  <2>3. PICK i \in 1..Len(c) : pos[i] = j
    BY <1>5, <2>2 DEF Stays
  <2> QED BY <1>6, <2>1, <2>3
<1>9. JumpsLead(c)
  BY <1>7 DEF JumpsLead
<1>10. AllStay(c)
  BY <1>8 DEF AllStay
<1> QED BY <1>9, <1>10 DEF c

LEMMA InitJumps == Init => JumpsLead(body) /\ AllStay(body)
<1> SUFFICES ASSUME Init PROVE JumpsLead(body) /\ AllStay(body)
  OBVIOUS
<1>1. body = Opened
  BY DEF Init
<1>2. /\ Opened \in Seq(Instructions) /\ Len(Opened) = Len(Program)
      /\ \A i \in 1..Len(Program) :
           Opened[i].id = Program[i].id /\ Opened[i].kind = Program[i].kind
  BY OpenedIs
<1>3. ASSUME NEW i \in 1..Len(Opened), Opened[i].kind \in Jumping
      PROVE  Names(Opened, Target(Opened, i), Dest(Opened[i].id))
  <2>1. i \in 1..Len(Program) /\ i \in 1..Len(Program) + 1
        /\ Program[i].kind \in Addressing /\ Program[i].dest \in Points
    <3>1. i \in 1..Len(Program) /\ Program[i].kind \in Addressing
      BY <1>2, <1>3, KindsDiffer
    <3>2. i \in 1..Len(Program) + 1
      BY <3>1, ProgramIs
    <3> QED BY <3>1, <3>2, ProgramIs, ProgramAssumption
  <2>2. Dest(Opened[i].id) = Program[i].dest
    BY <1>2, <2>1, ProgramIs DEF Dest
  <2>3. Target(Opened, i) = PointOffset(Program, Program[i].dest)
    <3>1. Opened[i].rel = PointOffset(Program, Program[i].dest) - OffsetOf(Program, i)
      BY <2>1, OpenedIs
    <3>2. OffsetOf(Opened, i) = OffsetOf(Program, i)
      BY <2>1, OpenedIs
    <3>3. PointOffset(Program, Program[i].dest) \in Nat
      BY <2>1, OpenedIs
    <3>4. OffsetOf(Program, i) \in Nat
      BY <2>1, ItemSeqs, Offsets
    <3> QED BY <3>1, <3>2, <3>3, <3>4 DEF Target
  <2> QED BY <2>1, <2>2, <2>3, OpenedNames
<1>4. JumpsLead(Opened)
  BY <1>3 DEF JumpsLead
<1>5. AllStay(Opened)
  BY <1>2 DEF AllStay
<1> QED BY <1>1, <1>4, <1>5

\* The no-ops of a stub come behind every jump, and no jump leads behind them.
LEMMA NopsNotCrossed ==
  ASSUME EndsPlainly, JumpInv
  PROVE  NotCrossed(NopIndex, body, Nops(4))
<1> DEFINE n == Len(body)
           p == Len(Program)
           rets == {i \in DOMAIN body : body[i].kind = "ret"}
<1>1. body \in Seq(Instructions) /\ InOrder(body) /\ AllStay(body) /\ BodyInv
  BY DEF JumpInv, FollowInv, BodyInv
<1>2. NopIndex \in 1..n + 1 /\ Passed(Nops(4))
  BY <1>1, NopIndexIs, NopsForeign
<1>3. PICK r \in 1..n : body[r].id = Program[p].id
  BY <1>1, LastIs
<1>4. n \in Nat /\ DOMAIN body = 1..n /\ p \in 1..p
  BY <1>1, ProgramIs DEF EndsPlainly
<1>5. r <= NopIndex
  <2>1. CASE rets = {}
    <3>1. NopIndex = n + 1
      BY <2>1 DEF NopIndex
    <3> QED BY <1>4, <3>1
  <2>2. CASE rets # {}
    <3>1. PICK i \in 1..n : body[i].kind = "ret"
      BY <1>4, <2>2
    <3>2. PICK j \in 1..p : body[i].kind = Program[j].kind
      BY <1>1, <3>1, OriginalIs, KindsDiffer
    <3>3. Program[p].kind = "ret"
      BY <3>1, <3>2 DEF EndsPlainly
    <3>4. body[r].kind = "ret"
      BY <1>1, <1>3, <1>4, <3>3, OriginalIs
    <3>5. NopIndex = Max(rets)
      BY <2>2 DEF NopIndex
    <3>6. r \in rets /\ rets \in SUBSET (1..n)
      BY <1>4, <3>4
    <3> HIDE DEF rets
    <3>7. Max(rets) \in rets /\ Max(rets) >= r
      BY <1>4, <2>2, <3>6, MaxIn
    <3> QED BY <1>4, <3>5, <3>6, <3>7
  <2> QED BY <2>1, <2>2
<1> QED BY <1>1, <1>2, <1>3, <1>5, PlacesAre

LEMMA InjectJumps ==
  ASSUME EndsPlainly, JumpInv, NEW at \in 1..Len(body) + 1, NEW new \in Seq(Instructions),
         Foreign(new), NotCrossed(at, body, new), Inject(at, new)
  PROVE  JumpsLead(body') /\ AllStay(body')
<1>1. body \in Seq(Instructions) /\ JumpsLead(body) /\ AllStay(body)
  BY DEF JumpInv, FollowInv, BodyInv
<1>2. body' = InsertedAt(body, at, new)
  BY DEF Inject
<1>3. JumpsLead(InsertedAt(body, at, new))
  BY <1>1, InsertedLead
<1>4. AllStay(InsertedAt(body, at, new))
  BY <1>1, InsertedStay
<1> QED BY <1>2, <1>3, <1>4

\* The padding comes behind every jump, and no jump leads behind it.
LEMMA PaddedLead ==
  ASSUME EndsPlainly, NEW b \in Seq(Instructions), InOrder(b), JumpsLead(b), AllStay(b),
         NEW pad \in Nat
  PROVE  JumpsLead(Padded(b, pad)) /\ AllStay(Padded(b, pad))
<1> DEFINE new == Nops(pad)
           at == PadIndex(b)
<1>1. PICK r \in 1..Len(b) : b[r].id = Program[Len(Program)].id
  BY LastIs
<1>2. at \in 1..Len(b) + 1 /\ r <= at
  <2>1. b # <<>> /\ at = Len(b)
    BY <1>1 DEF PadIndex
  <2> QED BY <1>1, <2>1
<1>3. new \in Seq(Instructions) /\ Foreign(new) /\ Passed(new)
  BY NopsForeign
<1>4. Padded(b, pad) = InsertedAt(b, at, new)
  BY DEF Padded
<1> HIDE DEF new, at
<1>5. NotCrossed(at, b, new)
  BY <1>1, <1>2, <1>3, PlacesAre
<1>6. JumpsLead(InsertedAt(b, at, new))
  BY <1>2, <1>3, <1>5, InsertedLead
<1>7. AllStay(InsertedAt(b, at, new))
  BY <1>2, <1>3, InsertedStay
<1> QED BY <1>4, <1>6, <1>7

LEMMA NextJumps ==
  ASSUME HandlersAreStated, EndsPlainly, NoLabelsMeet, JumpInv, [Next]_vars
  PROVE  JumpInv'
<1>1. BodyInv /\ TableFollows(handlers, body) /\ body \in Seq(Instructions)
  BY DEF JumpInv, FollowInv, BodyInv
<1>2. FollowInv'
  BY <1>1, NextInv, NextFollows DEF FollowInv
<1>3. CASE InjectLog
  <2>1. 1 \in 1..Len(body) + 1
    BY <1>1
  <2>2. NotCrossed(1, body, Prologue)
    BY DEF NotCrossed
  <2> QED BY <1>2, <1>3, <2>1, <2>2, PrologueIs, InjectJumps DEF InjectLog, JumpInv
<1>4. CASE InjectNop
  <2>1. NopIndex \in 1..Len(body) + 1
    BY <1>1, NopIndexIs
  <2>2. Nops(4) \in Seq(Instructions) /\ Foreign(Nops(4))
    BY NopsForeign
  <2>3. JumpsLead(body') /\ AllStay(body')
    BY <1>4, <2>1, <2>2, NopsNotCrossed, InjectJumps DEF InjectNop
  <2> QED BY <1>2, <2>3 DEF JumpInv
<1>5. CASE Asm
  <2>1. PICK given \in Stated : \E allow \in Consents : \E t :
          TextOf(t, body) /\ EditOf(t) /\ Assemble(t, given, allow)
    BY <1>1, <1>5, AsmText
  <2>2. PICK allow \in Consents : \E t :
          TextOf(t, body) /\ EditOf(t) /\ Assemble(t, given, allow)
    BY <2>1
  <2>3. PICK t : TextOf(t, body) /\ EditOf(t) /\ Assemble(t, given, allow)
    BY <2>2
  <2> DEFINE b == Parsed(t)
             pad == PadFor(Size(b) - Size(body))
  <2>4. SureText(t, body)
    BY <2>3, EditedSure
  <2>5. AtBoundaries(handlers, body) /\ JumpsLead(body)
    BY <1>1, FollowingAtBoundaries DEF JumpInv, BodyInv
  <2>6. JumpsLead(b) /\ AllStay(b)
    BY <1>1, <2>3, <2>4, <2>5, ParsedLead
  <2>7. b \in Seq(Instructions) /\ InOrder(b)
    BY <2>3, ParsedIs, ParsedOrder DEF TextOf
  <2>8. Size(b) - Size(body) \in Int
    BY <1>1, <2>7, ItemSeqs, SizeIs
  <2>9. pad \in Nat
    <3> HIDE DEF b
    <3> QED BY <2>7, <2>8, PadIs
  <2>10. body' = Padded(b, pad)
    BY <2>3, <2>7, StoredIs DEF Assemble, AsmAccepts
  <2> HIDE DEF b, pad
  <2>11. JumpsLead(body') /\ AllStay(body')
    BY <2>6, <2>7, <2>9, <2>10, PaddedLead
  <2> QED BY <1>2, <2>11 DEF JumpInv
<1>6. CASE UNCHANGED vars
  <2>1. body' = body
    BY <1>6 DEF vars
  <2>2. JumpsLead(body') /\ AllStay(body')
    BY <2>1 DEF JumpInv
  <2> QED BY <1>2, <2>2 DEF JumpInv
<1> QED BY <1>3, <1>4, <1>5, <1>6 DEF Next

\* Every jump leads where it led, and what may not be left out is still there,
\* through any chain of stubs and texts: if the texts state the handlers, the body
\* ends plainly and no two labels can meet.
THEOREM JumpInvariant ==
  ASSUME HandlersAreStated, EndsPlainly, NoLabelsMeet
  PROVE  Spec => []JumpInv
<1>1. Init => JumpInv
  BY InitInv, InitFollows, InitJumps DEF JumpInv, FollowInv
<1>2. JumpInv /\ [Next]_vars => JumpInv'
  BY NextJumps
<1> QED BY <1>1, <1>2, PTL DEF Spec

LEMMA LeadingJumps == JumpInv => JumpsFollow
<1> SUFFICES ASSUME JumpInv PROVE JumpsFollow
  OBVIOUS
<1>1. DOMAIN body = 1..Len(body) /\ JumpsLead(body)
  BY DEF JumpInv, FollowInv, BodyInv
<1>2. {"jump", "jmp"} \subseteq Jumping
  BY DEF Jumping
<1> QED BY <1>1, <1>2 DEF JumpsLead, JumpsFollow

\* Then every jump goes where it went, or to the instruction behind the one that was
\* left out: labels carry the targets through the text, the padding and the no-ops
\* of a stub go where no jump crosses them.
THEOREM JumpsAlwaysFollow ==
  ASSUME HandlersAreStated, EndsPlainly, NoLabelsMeet
  PROVE  Spec => []JumpsFollow
BY JumpInvariant, LeadingJumps, PTL
=============================================================================
