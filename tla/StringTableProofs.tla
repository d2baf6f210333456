-------------------------- MODULE StringTableProofs --------------------------
(***************************************************************************)
(* For any texts, any tables a compiler writes and any limits of an entry: *)
(*   - a table stays well formed whatever is edited                        *)
(*     (TableStaysWellFormed): entries name bytes of the storage, UTF-16   *)
(*     strings are aligned, and the hashes are those of the identifiers;   *)
(*   - every edit shows as the one change asked for (EditsShowAsAsked):    *)
(*     the tables implement StringDocument.                                *)
(* The way there: what is written stands where it was written (Holds, At), *)
(* a string inside another is inside a root (RootExists), so every string  *)
(* has a place in its half (PlaceIs), the entries name that place          *)
(* (EntriesAre), and reading the tables gives back the strings laid out    *)
(* (LaidIs).                                                               *)
(***************************************************************************)
EXTENDS StringTable, DataFacts
----------------------------------------------------------------------------
(* What stands where.                                                       *)

\* t has s from offset at on.
Holds(t, at, s) ==
  /\ at \in Nat /\ at + Len(s) <= Len(t)
  /\ \A n \in 1..Len(s) : t[at + n] = s[n]

\* Reading s from t at offset at is to find it there.
LEMMA HoldsIsRead ==
  ASSUME NEW S, NEW t \in Seq(S), NEW s \in Seq(S), NEW at \in Nat, at + Len(s) <= Len(t)
  PROVE  Holds(t, at, s) <=> SubSeq(t, at + 1, at + Len(s)) = s
<1> DEFINE n == at + Len(s)
           u == SubSeq(t, at + 1, n)
<1>1. n \in Nat /\ n <= Len(t) /\ Len(s) \in Nat /\ at <= n /\ n - at = Len(s)
  OBVIOUS
<1>2. u \in Seq(S) /\ Len(u) = Len(s) /\ \A i \in 1..Len(s) : u[i] = t[i + at]
  <2> HIDE DEF n
  <2>1. Len(u) = IF at <= n THEN n - at ELSE 0
    BY <1>1, Rest
  <2>2. u \in Seq(S) /\ \A i \in 1..n - at : u[i] = t[i + at]
    BY <1>1, Rest
  <2> HIDE DEF u
  <2> QED BY <1>1, <2>1, <2>2
<1> HIDE DEF u, n
<1>3. \A i \in 1..Len(s) : i + at = at + i
  OBVIOUS
<1>4. Holds(t, at, s) => u = s
  <2> SUFFICES ASSUME Holds(t, at, s) PROVE u = s
    OBVIOUS
  <2>1. \A i \in 1..Len(u) : u[i] = s[i]
    BY <1>2, <1>3 DEF Holds
  <2> QED BY <1>2, <2>1, SeqEqual
<1>5. u = s => Holds(t, at, s)
  BY <1>2, <1>3 DEF Holds
<1> QED BY <1>4, <1>5 DEF u, n

\* What stands in t stands in whatever t stands in.
LEMMA HoldsInside ==
  ASSUME NEW S, NEW t \in Seq(S), NEW s \in Seq(S), NEW u \in Seq(S),
         NEW at, NEW k, Holds(t, at, s), Holds(u, k, t)
  PROVE  Holds(u, k + at, s)
<1>1. /\ at \in Nat /\ at + Len(s) <= Len(t) /\ k \in Nat /\ k + Len(t) <= Len(u)
      /\ Len(s) \in Nat /\ Len(t) \in Nat /\ Len(u) \in Nat
      /\ \A n \in 1..Len(s) : t[at + n] = s[n]
      /\ \A n \in 1..Len(t) : u[k + n] = t[n]
  BY DEF Holds
<1>2. ASSUME NEW n \in 1..Len(s) PROVE u[(k + at) + n] = s[n]
  <2>1. at + n \in 1..Len(t) /\ k + (at + n) = (k + at) + n
    BY <1>1
  <2> QED BY <1>1, <2>1
<1>3. k + at \in Nat /\ (k + at) + Len(s) <= Len(u)
  BY <1>1
<1> QED BY <1>2, <1>3 DEF Holds

\* Both parts stand in t \o u.
LEMMA HoldsBoth ==
  ASSUME NEW S, NEW t \in Seq(S), NEW u \in Seq(S)
  PROVE  Holds(t \o u, 0, t) /\ Holds(t \o u, Len(t), u) /\ Holds(t, 0, t)
<1>1. /\ t \o u \in Seq(S) /\ Len(t \o u) = Len(t) + Len(u)
      /\ \A i \in 1..Len(t) + Len(u) :
           (t \o u)[i] = IF i <= Len(t) THEN t[i] ELSE u[i - Len(t)]
  BY ConcatProperties
<1>2. Len(t) \in Nat /\ Len(u) \in Nat
  OBVIOUS
<1>3. ASSUME NEW n \in 1..Len(t) PROVE (t \o u)[0 + n] = t[n] /\ t[0 + n] = t[n]
  <2>1. 0 + n = n /\ n <= Len(t) /\ n \in 1..Len(t) + Len(u)
    BY <1>2
  <2> QED BY <1>1, <2>1
<1>4. ASSUME NEW n \in 1..Len(u) PROVE (t \o u)[Len(t) + n] = u[n]
  <2>1. Len(t) + n \in 1..Len(t) + Len(u) /\ ~(Len(t) + n <= Len(t))
        /\ (Len(t) + n) - Len(t) = n
    BY <1>2
  <2> QED BY <1>1, <2>1
<1> QED BY <1>1, <1>2, <1>3, <1>4 DEF Holds

----------------------------------------------------------------------------
(* Strings written one after the other.                                     *)
Storable == {s \in [wide : BOOLEAN, bytes : Seq(Byte)] : s.wide => Len(s.bytes) % 2 = 0}

\* The fields of one of the strings.
LEMMA StoredIds ==
  ASSUME NEW strings \in Seq(Storable), NEW i \in 1..Len(strings)
  PROVE  /\ strings[i].bytes \in Seq(Byte) /\ Len(strings[i].bytes) \in Nat
         /\ strings[i].wide \in BOOLEAN
         /\ strings[i].wide => Len(strings[i].bytes) % 2 = 0
<1> DEFINE s == strings[i]
<1>1. s \in Storable
  OBVIOUS
<1> HIDE DEF s
<1>2. s \in [wide : BOOLEAN, bytes : Seq(Byte)] /\ (s.wide => Len(s.bytes) % 2 = 0)
  BY <1>1, Zenon DEF Storable
<1>3. s.bytes \in Seq(Byte) /\ s.wide \in BOOLEAN
  BY <1>2
<1>4. Len(s.bytes) \in Nat
  BY <1>3
<1> QED BY <1>2, <1>3, <1>4 DEF s

\* The first n of them.
Written(strings, ids, n) == Bytes(strings, SubSeq(ids, 1, n))

\* Writing one more appends its bytes.
LEMMA WrittenIs ==
  ASSUME NEW strings \in Seq(Storable), NEW ids \in Seq(1..Len(strings)),
         NEW n \in 0..Len(ids)
  PROVE  /\ Written(strings, ids, n) \in Seq(Byte)
         /\ Len(Written(strings, ids, n)) \in Nat
         /\ n = 0 => Written(strings, ids, n) = <<>>
         /\ n # 0 => Written(strings, ids, n)
                     = Written(strings, ids, n - 1) \o strings[ids[n]].bytes
<1> DEFINE s(k) == SubSeq(ids, 1, k)
           part(k) == [j \in DOMAIN s(k) |-> strings[s(k)[j]].bytes]
<1>1. ASSUME NEW k \in 0..Len(ids)
      PROVE  /\ part(k) \in Seq(Seq(Byte)) /\ Len(part(k)) = k
             /\ \A j \in 1..k : part(k)[j] = strings[ids[j]].bytes
  <2>1. k \in Nat /\ k <= Len(ids)
    OBVIOUS
  <2>2. s(k) \in Seq(1..Len(strings)) /\ Len(s(k)) = k /\ \A j \in 1..k : s(k)[j] = ids[j]
    BY <2>1, Start
  <2>3. DOMAIN s(k) = 1..k
    BY <2>2
  <2>4. \A j \in 1..k : ids[j] \in 1..Len(strings)
    BY <2>1
  <2> HIDE DEF s
  <2>5. \A j \in 1..k : part(k)[j] = strings[ids[j]].bytes
    BY <2>2, <2>3
  <2>6. part(k) \in [1..k -> Seq(Byte)]
    BY <2>2, <2>3, <2>4, StoredIds
  <2> HIDE DEF part
  <2> QED BY <2>1, <2>5, <2>6, FunIsSeq
<1>2. \A k : Written(strings, ids, k) = FlattenSeq(part(k))
  BY DEF Written, Bytes
<1> HIDE DEF part
<1>3. FlattenSeq(part(n)) \in Seq(Byte)
  BY <1>1, FlattenIn
<1>4. n = 0 => FlattenSeq(part(n)) = <<>>
  <2> SUFFICES ASSUME n = 0 PROVE FlattenSeq(part(0)) = <<>>
    OBVIOUS
  <2>1. part(0) = <<>>
    BY <1>1, EmptySeq
  <2> QED BY <2>1, FlattenEmpty
<1>5. n # 0 => FlattenSeq(part(n)) = FlattenSeq(part(n - 1)) \o strings[ids[n]].bytes
  <2> SUFFICES ASSUME n # 0 PROVE FlattenSeq(part(n)) = FlattenSeq(part(n - 1)) \o strings[ids[n]].bytes
    OBVIOUS
  <2> DEFINE b == strings[ids[n]].bytes
             p == part(n - 1)
             q == part(n)
  <2>1. /\ n - 1 \in 0..Len(ids) /\ n \in 1..Len(ids) /\ n \in 1..n /\ n \in Nat
        /\ \A j \in 1..n - 1 : j \in 1..n
        /\ \A j \in 1..n : j \in 1..n - 1 \/ j = (n - 1) + 1
        /\ (n - 1) + 1 = n
    OBVIOUS
  <2>2. b \in Seq(Byte)
    <3>1. ids[n] \in 1..Len(strings)
      BY <2>1
    <3> QED BY <3>1, StoredIds
  <2>3. /\ p \in Seq(Seq(Byte)) /\ Len(p) = n - 1
        /\ q \in Seq(Seq(Byte)) /\ Len(q) = n
        /\ \A j \in 1..n - 1 : q[j] = p[j]
        /\ q[n] = b
    BY <1>1, <2>1
  <2> HIDE DEF b, p, q
  <2>4. /\ Append(p, b) \in Seq(Seq(Byte)) /\ Len(Append(p, b)) = n
        /\ \A j \in 1..n - 1 : Append(p, b)[j] = p[j]
        /\ Append(p, b)[n] = b
    <3>1. /\ Append(p, b) \in Seq(Seq(Byte)) /\ Len(Append(p, b)) = Len(p) + 1
          /\ \A j \in 1..Len(p) : Append(p, b)[j] = p[j]
          /\ Append(p, b)[Len(p) + 1] = b
      BY <2>2, <2>3, AppendProperties
    <3> QED BY <2>1, <2>3, <3>1
  <2>5. \A j \in 1..n : q[j] = Append(p, b)[j]
    BY <2>1, <2>3, <2>4
  <2>6. q = Append(p, b)
    BY <2>3, <2>4, <2>5, SeqEqual
  <2>7. FlattenSeq(q) = FlattenSeq(p) \o b
    BY <2>2, <2>3, <2>6, FlattenAppend
  <2> QED BY <2>7 DEF p, q, b
<1>6. Len(FlattenSeq(part(n))) \in Nat
  BY <1>3
<1> QED BY <1>2, <1>3, <1>4, <1>5, <1>6

\* All of them are what the storage has of the half.
LEMMA AllWritten ==
  ASSUME NEW strings \in Seq(Storable), NEW ids \in Seq(1..Len(strings))
  PROVE  Written(strings, ids, Len(ids)) = Bytes(strings, ids)
<1>1. SubSeq(ids, 1, Len(ids)) = ids
  BY SubSeqFull
<1> QED BY <1>1 DEF Written

\* What is written stays where it is.
LEMMA WrittenStays ==
  ASSUME NEW strings \in Seq(Storable), NEW ids \in Seq(1..Len(strings)),
         NEW m \in 0..Len(ids)
  PROVE  \A n \in m..Len(ids) : Holds(Written(strings, ids, n), 0, Written(strings, ids, m))
<1> DEFINE W(n) == Written(strings, ids, n)
           T == {k \in Nat : m + k <= Len(ids) => Holds(W(m + k), 0, W(m))}
<1>1. m \in Nat /\ Len(ids) \in Nat /\ \A n \in 0..Len(ids) : W(n) \in Seq(Byte)
  <2>1. \A n \in 0..Len(ids) : W(n) \in Seq(Byte)
    BY WrittenIs
  <2>2. m \in Nat /\ Len(ids) \in Nat
    OBVIOUS
  <2> QED BY <2>1, <2>2
<1>2. 0 \in T
  <2>1. Holds(W(m), 0, W(m)) /\ m + 0 = m
    BY <1>1, HoldsBoth
  <2> QED BY <2>1
<1>3. ASSUME NEW k \in Nat, k \in T PROVE k + 1 \in T
  <2> SUFFICES ASSUME m + (k + 1) <= Len(ids) PROVE Holds(W(m + (k + 1)), 0, W(m))
    OBVIOUS
  <2>1. m + (k + 1) \in 0..Len(ids) /\ m + k \in 0..Len(ids) /\ (m + (k + 1)) - 1 = m + k
        /\ m + (k + 1) # 0 /\ m + (k + 1) \in 1..Len(ids)
    BY <1>1
  <2>2. W(m + (k + 1)) = W(m + k) \o strings[ids[m + (k + 1)]].bytes
    BY <2>1, WrittenIs
  <2>3. strings[ids[m + (k + 1)]].bytes \in Seq(Byte)
    <3>1. ids[m + (k + 1)] \in 1..Len(strings)
      BY <2>1
    <3> QED BY <3>1, StoredIds
  <2>4. Holds(W(m + k), 0, W(m))
    BY <1>3, <2>1
  <2>5. /\ W(m) \in Seq(Byte) /\ W(m + k) \in Seq(Byte) /\ W(m + (k + 1)) \in Seq(Byte)
    BY <1>1, <2>1
  <2> HIDE DEF W
  <2>6. Holds(W(m + (k + 1)), 0, W(m + k))
    BY <2>2, <2>3, <2>5, HoldsBoth
  <2>7. Holds(W(m + (k + 1)), 0 + 0, W(m))
    BY <2>4, <2>5, <2>6, HoldsInside
  <2> QED BY <2>7
<1> HIDE DEF T
<1>4. \A k \in Nat : k \in T
  BY <1>2, <1>3, NatInduct
<1>5. ASSUME NEW n \in m..Len(ids) PROVE Holds(W(n), 0, W(m))
  <2>1. n - m \in Nat /\ m + (n - m) = n /\ n <= Len(ids)
    BY <1>1
  <2>2. n - m \in T
    BY <1>4, <2>1
  <2> HIDE DEF W
  <2> QED BY <2>1, <2>2 DEF T
<1> QED BY <1>5

\* Where the n-th stands.
At(strings, ids, n) == Len(Written(strings, ids, n - 1))

\* The n-th stands at its offset, after all before it.
LEMMA AtIs ==
  ASSUME NEW strings \in Seq(Storable), NEW ids \in Seq(1..Len(strings)),
         NEW n \in 1..Len(ids)
  PROVE  /\ At(strings, ids, n) \in Nat
         /\ Holds(Bytes(strings, ids), At(strings, ids, n), strings[ids[n]].bytes)
         /\ \A m \in 0..n - 1 : Len(Written(strings, ids, m)) <= At(strings, ids, n)
         /\ At(strings, ids, n) + Len(strings[ids[n]].bytes) = Len(Written(strings, ids, n))
<1> DEFINE a == Written(strings, ids, n - 1)
           b == strings[ids[n]].bytes
           w == Written(strings, ids, n)
           all == Written(strings, ids, Len(ids))
<1>1. /\ n - 1 \in 0..Len(ids) /\ n \in 0..Len(ids) /\ n # 0 /\ Len(ids) \in Nat
      /\ Len(ids) \in n..Len(ids) /\ Len(ids) \in 0..Len(ids) /\ ids[n] \in 1..Len(strings)
  OBVIOUS
<1>2. a \in Seq(Byte) /\ w \in Seq(Byte) /\ all \in Seq(Byte) /\ w = a \o b /\ Len(a) \in Nat
  BY <1>1, WrittenIs
<1>3. b \in Seq(Byte)
  BY <1>1, StoredIds
<1>4. all = Bytes(strings, ids)
  BY AllWritten
<1>5. Holds(all, 0, w)
  BY <1>1, WrittenStays
<1>6. \A m \in 0..n - 1 : Holds(a, 0, Written(strings, ids, m)) /\ Written(strings, ids, m) \in Seq(Byte)
  <2> SUFFICES ASSUME NEW m \in 0..n - 1
               PROVE  Holds(a, 0, Written(strings, ids, m)) /\ Written(strings, ids, m) \in Seq(Byte)
    OBVIOUS
  <2>1. m \in 0..Len(ids) /\ n - 1 \in m..Len(ids)
    BY <1>1
  <2> QED BY <2>1, WrittenStays, WrittenIs
<1> HIDE DEF a, b, w, all
<1>7. Holds(w, Len(a), b) /\ Len(w) = Len(a) + Len(b)
  BY <1>2, <1>3, HoldsBoth, ConcatProperties
<1>8. Holds(all, 0 + Len(a), b) /\ 0 + Len(a) = Len(a)
  <2>1. Holds(all, 0 + Len(a), b)
    BY <1>2, <1>3, <1>5, <1>7, HoldsInside
  <2>2. 0 + Len(a) = Len(a)
    BY <1>2
  <2> QED BY <2>1, <2>2
<1>9. \A m \in 0..n - 1 : Len(Written(strings, ids, m)) <= Len(a)
  BY <1>6 DEF Holds
<1> QED BY <1>2, <1>4, <1>7, <1>8, <1>9 DEF At, a, b, w

\* Wide strings, one after the other, are an even number of bytes.
LEMMA EvenSoFar ==
  ASSUME NEW strings \in Seq(Storable), NEW ids \in Seq(1..Len(strings)),
         \A k \in 1..Len(ids) : strings[ids[k]].wide
  PROVE  \A n \in 0..Len(ids) : Len(Written(strings, ids, n)) % 2 = 0
<1> DEFINE T == {n \in Nat : n <= Len(ids) => Len(Written(strings, ids, n)) % 2 = 0}
<1>1. 0 \in T
  <2>1. 0 \in 0..Len(ids)
    OBVIOUS
  <2>2. Written(strings, ids, 0) = <<>>
    BY <2>1, WrittenIs
  <2> QED BY <2>2
<1>2. ASSUME NEW n \in Nat, n \in T PROVE n + 1 \in T
  <2> SUFFICES ASSUME n + 1 <= Len(ids) PROVE Len(Written(strings, ids, n + 1)) % 2 = 0
    OBVIOUS
  <2>1. n + 1 \in 1..Len(ids) /\ (n + 1) - 1 = n /\ n \in 0..Len(ids) /\ ids[n + 1] \in 1..Len(strings)
    OBVIOUS
  <2> DEFINE a == Len(Written(strings, ids, n))
             b == Len(strings[ids[n + 1]].bytes)
  <2>2. Len(Written(strings, ids, n + 1)) = a + b
    BY <2>1, AtIs DEF At
  <2>3. a \in Nat /\ b \in Nat
    BY <2>1, WrittenIs, StoredIds
  <2>4. b % 2 = 0
    BY <2>1, StoredIds
  <2>5. a % 2 = 0
    BY <1>2, <2>1
  <2> HIDE DEF a, b
  <2>6. (a + b) % 2 = 0
    BY <2>3, <2>4, <2>5, EvenSum
  <2> QED BY <2>2, <2>6
<1> HIDE DEF T
<1>3. \A n \in Nat : n \in T
  BY <1>1, <1>2, NatInduct
<1> QED BY <1>3 DEF T

----------------------------------------------------------------------------
(* Strings inside strings.                                                  *)

\* An occurrence is a place, a multiple of the unit, where the bytes stand.
LEMMA OccurrencesAre ==
  ASSUME NEW s \in Storable, NEW t \in Storable, NEW k
  PROVE  k \in Occurrences(s, t) <=> k % Unit(s.wide) = 0 /\ Holds(t.bytes, k, s.bytes)
<1> DEFINE a == s.bytes
           b == t.bytes
<1>1. a \in Seq(Byte) /\ b \in Seq(Byte)
  BY DEF Storable
<1>2. Len(a) \in Nat /\ Len(b) \in Nat
  BY <1>1
<1>3. k \in Occurrences(s, t) <=>
        /\ k \in 0..(Len(b) - Len(a)) /\ k % Unit(s.wide) = 0
        /\ SubSeq(b, k + 1, k + Len(a)) = a
  BY DEF Occurrences
<1> HIDE DEF a, b
<1>4. k \in 0..(Len(b) - Len(a)) <=> k \in Nat /\ k + Len(a) <= Len(b)
  BY <1>2
<1>5. CASE k \in Nat /\ k + Len(a) <= Len(b)
  <2>1. Holds(b, k, a) <=> SubSeq(b, k + 1, k + Len(a)) = a
    BY <1>1, <1>5, HoldsIsRead
  <2> QED BY <1>3, <1>4, <1>5, <2>1 DEF a, b
<1>6. CASE ~(k \in Nat /\ k + Len(a) <= Len(b))
  BY <1>3, <1>4, <1>6 DEF Holds, a, b
<1> QED BY <1>5, <1>6

\* A string occurs in what holds one it occurs in.
LEMMA OccursInside ==
  ASSUME NEW s \in Storable, NEW t \in Storable, NEW u \in Seq(Byte),
         NEW k \in Occurrences(s, t), NEW at, Holds(u, at, t.bytes),
         s.wide = t.wide, t.wide => at % 2 = 0
  PROVE  /\ Holds(u, at + k, s.bytes) /\ at + k \in Nat
         /\ at <= at + k /\ at + k + Len(s.bytes) <= at + Len(t.bytes)
         /\ s.wide => (at + k) % 2 = 0
<1>1. k % Unit(s.wide) = 0 /\ Holds(t.bytes, k, s.bytes)
  BY OccurrencesAre
<1>2. s.bytes \in Seq(Byte) /\ t.bytes \in Seq(Byte) /\ s.wide \in BOOLEAN
  BY DEF Storable
<1>3. Holds(u, at + k, s.bytes)
  BY <1>1, <1>2, HoldsInside
<1>4. at \in Nat /\ k \in Nat /\ Len(s.bytes) \in Nat /\ Len(t.bytes) \in Nat
      /\ k + Len(s.bytes) <= Len(t.bytes)
  BY <1>1, <1>2 DEF Holds
<1>5. s.wide => (at + k) % 2 = 0
  <2> SUFFICES ASSUME s.wide PROVE (at + k) % 2 = 0
    OBVIOUS
  <2>1. k % 2 = 0 /\ at % 2 = 0
    BY <1>1 DEF Unit
  <2> QED BY <1>4, <2>1
<1>6. at + k \in Nat /\ at <= at + k /\ at + k + Len(s.bytes) <= at + Len(t.bytes)
  <2> DEFINE a == Len(s.bytes)
             b == Len(t.bytes)
  <2>1. at \in Nat /\ k \in Nat /\ a \in Nat /\ b \in Nat /\ k + a <= b
    BY <1>4
  <2> HIDE DEF a, b
  <2>2. at + k \in Nat /\ at <= at + k /\ at + k + a <= at + b
    BY <2>1
  <2> QED BY <2>2 DEF a, b
<1> QED BY <1>3, <1>5, <1>6

\* pack_contained need not look inside strings that are themselves inside others.
LEMMA OccursTrans ==
  ASSUME NEW s \in Storable, NEW t \in Storable, NEW u \in Storable,
         s.wide = t.wide, t.wide = u.wide,
         Occurrences(s, t) # {}, Occurrences(t, u) # {}
  PROVE  Occurrences(s, u) # {}
<1>1. PICK k \in Occurrences(s, t) : TRUE
  OBVIOUS
<1>2. PICK at \in Occurrences(t, u) : TRUE
  OBVIOUS
<1>3. at % Unit(t.wide) = 0 /\ Holds(u.bytes, at, t.bytes)
  BY OccurrencesAre
<1>4. u.bytes \in Seq(Byte) /\ t.wide \in BOOLEAN
  BY DEF Storable
<1>5. t.wide => at % 2 = 0
  BY <1>3 DEF Unit
<1>6. Holds(u.bytes, at + k, s.bytes) /\ at + k \in Nat /\ (s.wide => (at + k) % 2 = 0)
  BY <1>3, <1>4, <1>5, OccursInside
<1>7. (at + k) % Unit(s.wide) = 0
  <2>1. CASE s.wide
    BY <1>6, <2>1 DEF Unit
  <2>2. CASE ~s.wide
    BY <1>6, <2>2 DEF Unit
  <2> QED BY <2>1, <2>2
<1>8. at + k \in Occurrences(s, u)
  BY <1>6, <1>7, OccurrencesAre
<1> QED BY <1>8

\* Every string occurs in itself, and only in longer ones.
LEMMA OccursInItself ==
  ASSUME NEW s \in Storable, NEW t \in Storable
  PROVE  /\ Occurrences(s, s) # {}
         /\ Occurrences(s, t) # {} => Len(s.bytes) <= Len(t.bytes)
         /\ (/\ Occurrences(s, t) # {} /\ Len(s.bytes) = Len(t.bytes) /\ s.wide = t.wide) => s = t
<1>1. /\ s.bytes \in Seq(Byte) /\ t.bytes \in Seq(Byte)
      /\ Len(s.bytes) \in Nat /\ Len(t.bytes) \in Nat
      /\ s = [wide |-> s.wide, bytes |-> s.bytes]
      /\ t = [wide |-> t.wide, bytes |-> t.bytes]
  BY DEF Storable
<1>2. Occurrences(s, s) # {}
  <2>1. Holds(s.bytes, 0, s.bytes)
    BY <1>1, HoldsBoth
  <2>2. 0 % Unit(s.wide) = 0
    BY DEF Unit
  <2> QED BY <2>1, <2>2, OccurrencesAre
<1>3. ASSUME NEW k \in Occurrences(s, t) PROVE /\ Len(s.bytes) <= Len(t.bytes)
                                               /\ Len(s.bytes) = Len(t.bytes) => s.bytes = t.bytes
  <2>1. Holds(t.bytes, k, s.bytes)
    BY OccurrencesAre
  <2>2. k \in Nat /\ k + Len(s.bytes) <= Len(t.bytes) /\ \A n \in 1..Len(s.bytes) : t.bytes[k + n] = s.bytes[n]
    BY <2>1 DEF Holds
  <2>3. Len(s.bytes) <= Len(t.bytes)
    BY <1>1, <2>2
  <2>4. ASSUME Len(s.bytes) = Len(t.bytes) PROVE s.bytes = t.bytes
    <3>1. k = 0
      BY <1>1, <2>2, <2>4
    <3>2. \A n \in 1..Len(s.bytes) : t.bytes[n] = s.bytes[n]
      BY <2>2, <3>1
    <3> QED BY <1>1, <2>4, <3>2, SeqEqual
  <2> QED BY <2>3, <2>4
<1> QED BY <1>1, <1>2, <1>3

----------------------------------------------------------------------------
(* The order in which a half is written.                                    *)

\* The strings of one encoding that may share storage.
Shareable(strings, wide, pinned) == {i \in DOMAIN strings : strings[i].wide = wide} \ pinned

\* Those written out.
RootIds(strings, wide, pinned, packed) ==
  {i \in Shareable(strings, wide, pinned) :
     \/ ~packed
     \/ /\ strings[i].bytes # <<>>
        /\ \A j \in Shareable(strings, wide, pinned) \ {i} :
             /\ strings[j] = strings[i] => i < j
             /\ Occurrences(strings[i], strings[j]) # {} => strings[j] = strings[i]}

PinnedIds(strings, wide, pinned) == {i \in pinned : strings[i].wide = wide}

\* The ids written first and the pinned ones, as sets in order.
LEMMA RootsAre ==
  ASSUME NEW strings, NEW wide, NEW pinned, NEW packed
  PROVE  /\ Roots(strings, wide, pinned, packed) = Sorted(RootIds(strings, wide, pinned, packed))
         /\ Pinned(strings, wide, pinned) = Sorted(PinnedIds(strings, wide, pinned))
BY DEF Roots, Pinned, RootIds, PinnedIds, Shareable

\* String i occurs in one of those with the given ids.
OccursIn(strings, i, ids) == \E r \in ids : Occurrences(strings[i], strings[r]) # {}

\* However strings overlap, a string that may share storage and is not empty
\* occurs in one that is written out: in the first of the longest it occurs in.
LEMMA RootExists ==
  ASSUME NEW strings \in Seq(Storable), NEW wide, NEW pinned, NEW packed \in BOOLEAN,
         NEW i \in Shareable(strings, wide, pinned), strings[i].bytes # <<>>
  PROVE  OccursIn(strings, i, RootIds(strings, wide, pinned, packed))
<1> DEFINE A == Shareable(strings, wide, pinned)
           C == {j \in A : Occurrences(strings[i], strings[j]) # {}}
           len == [j \in C |-> Len(strings[j].bytes)]
<1>1. /\ DOMAIN strings = 1..Len(strings) /\ Len(strings) \in Nat
      /\ A \in SUBSET (1..Len(strings)) /\ A \in SUBSET Nat
      /\ \A j \in A : strings[j] \in Storable /\ strings[j].wide = wide
      /\ \A j \in A : strings[j].bytes \in Seq(Byte) /\ Len(strings[j].bytes) \in Nat
  <2>1. A \in SUBSET (1..Len(strings)) /\ \A j \in A : strings[j].wide = wide
    BY DEF Shareable
  <2>2. \A j \in 1..Len(strings) : strings[j] \in Storable
    OBVIOUS
  <2>3. \A j \in A : strings[j].bytes \in Seq(Byte) /\ Len(strings[j].bytes) \in Nat
    BY <2>1, StoredIds
  <2> QED BY <2>1, <2>2, <2>3
<1>2. i \in C
  BY <1>1, OccursInItself
<1>3. IsFiniteSet(C) /\ C # {} /\ len \in [C -> Nat]
  <2>1. C \in SUBSET (1..Len(strings))
    BY <1>1
  <2>2. IsFiniteSet(C)
    BY <1>1, <2>1, Upto
  <2>3. len \in [C -> Nat]
    BY <1>1
  <2> QED BY <1>2, <2>2, <2>3
<1>4. PICK d \in C : \A j \in C : len[j] <= len[d]
  <2> HIDE DEF C, len
  <2> QED BY <1>3, Largest
<1> DEFINE E == {j \in A : strings[j] = strings[d]}
           r == Min(E)
<1> HIDE DEF A
<1>5. r \in E /\ \A y \in E : r <= y
  <2>1. E \in SUBSET Nat /\ d \in E
    BY <1>1, <1>4
  <2> HIDE DEF E
  <2> QED BY <2>1, MinOf
<1> HIDE DEF r
<1>6. r \in A /\ strings[r] = strings[d] /\ d \in A
      /\ Occurrences(strings[i], strings[r]) # {} /\ Len(strings[r].bytes) = len[d]
  BY <1>4, <1>5
<1>7. strings[r].bytes # <<>>
  <2>1. Len(strings[i].bytes) <= Len(strings[r].bytes)
    BY <1>1, <1>2, <1>6, OccursInItself
  <2>2. strings[i].bytes \in Seq(Byte) /\ Len(strings[i].bytes) # 0 /\ Len(strings[i].bytes) \in Nat
    <3>1. strings[i].bytes \in Seq(Byte) /\ Len(strings[i].bytes) \in Nat
      BY <1>1, <1>2
    <3> QED BY <3>1, EmptySeq
  <2>3. Len(strings[r].bytes) # 0
    BY <1>1, <1>6, <2>1, <2>2
  <2> QED BY <2>3
<1>8. ASSUME NEW j \in A \ {r}
      PROVE  /\ strings[j] = strings[r] => r < j
             /\ Occurrences(strings[r], strings[j]) # {} => strings[j] = strings[r]
  <2>1. ASSUME strings[j] = strings[r] PROVE r < j
    <3>1. j \in E
      BY <1>6, <2>1
    <3>2. r <= j /\ r # j /\ r \in Nat /\ j \in Nat
      BY <1>1, <1>5, <1>6, <3>1
    <3> QED BY <3>2
  <2>2. ASSUME Occurrences(strings[r], strings[j]) # {} PROVE strings[j] = strings[r]
    <3>1. /\ strings[i] \in Storable /\ strings[r] \in Storable /\ strings[j] \in Storable
          /\ strings[i].wide = strings[r].wide /\ strings[r].wide = strings[j].wide
      BY <1>1, <1>2, <1>6
    <3>2. Occurrences(strings[i], strings[j]) # {}
      BY <1>6, <2>2, <3>1, OccursTrans
    <3>3. j \in C
      BY <3>2
    <3>4. Len(strings[j].bytes) <= Len(strings[r].bytes)
      BY <1>4, <1>6, <3>3
    <3>5. Len(strings[r].bytes) <= Len(strings[j].bytes)
      BY <2>2, <3>1, OccursInItself
    <3>6. Len(strings[r].bytes) = Len(strings[j].bytes)
      BY <1>1, <1>6, <3>4, <3>5
    <3> QED BY <2>2, <3>1, <3>6, OccursInItself
  <2> QED BY <2>1, <2>2
<1>9. r \in RootIds(strings, wide, pinned, packed)
  BY <1>6, <1>7, <1>8 DEF RootIds, A
<1> QED BY <1>6, <1>9 DEF OccursIn

\* What is written to a half: what others may share, then what is pinned.
Order(strings, wide, pinned, packed) ==
  Roots(strings, wide, pinned, packed) \o Pinned(strings, wide, pinned)

IsOrder(O, k, strings, wide, pinned, packed) ==
  /\ O \in Seq(1..Len(strings)) /\ Len(O) \in Nat /\ k \in Nat /\ k <= Len(O)
  /\ Roots(strings, wide, pinned, packed) = SubSeq(O, 1, k)
  /\ Len(Roots(strings, wide, pinned, packed)) = k
  /\ \A n \in 1..k : Roots(strings, wide, pinned, packed)[n] = O[n]
  /\ \A n \in 1..k : O[n] \notin pinned
  /\ \A n \in 1..Len(O) : strings[O[n]].wide = wide
  /\ \A m, n \in 1..Len(O) : O[m] = O[n] => m = n
  /\ \A i \in RootIds(strings, wide, pinned, packed) : \E n \in 1..k : O[n] = i
  /\ \A i \in PinnedIds(strings, wide, pinned) : \E n \in 1..Len(O) : O[n] = i

\* roots and pinned ids together: each id once, the roots first.
LEMMA OrderIs ==
  ASSUME NEW strings \in Seq(Storable), NEW wide, NEW pinned \in SUBSET (1..Len(strings)),
         NEW packed
  PROVE  IsOrder(Order(strings, wide, pinned, packed),
                 Len(Roots(strings, wide, pinned, packed)), strings, wide, pinned, packed)
<1> DEFINE A == RootIds(strings, wide, pinned, packed)
           B == PinnedIds(strings, wide, pinned)
           R == Roots(strings, wide, pinned, packed)
           P == Pinned(strings, wide, pinned)
           O == R \o P
           N == Len(strings)
<1>1. /\ N \in Nat /\ A \in SUBSET (1..N) /\ B \in SUBSET (1..N) /\ A \cap B = {} /\ B \in SUBSET pinned
      /\ A \cap pinned = {}
      /\ \A i \in A : strings[i].wide = wide
      /\ \A i \in B : strings[i].wide = wide
  BY DEF RootIds, PinnedIds, Shareable
<1>2. R = Sorted(A) /\ P = Sorted(B)
  BY RootsAre
<1> HIDE DEF A, B, N
<1>3. /\ R \in Seq(A) /\ Len(R) \in Nat
      /\ \A i, j \in 1..Len(R) : R[i] = R[j] => i = j
      /\ \A x \in A : \E i \in 1..Len(R) : R[i] = x
  <2> HIDE DEF R, P
  <2>1. A \in SUBSET (1..N) /\ N \in Nat /\ R = Sorted(A)
    BY <1>1, <1>2
  <2>2. /\ Sorted(A) \in Seq(A) /\ Len(Sorted(A)) = Cardinality(A) /\ Cardinality(A) \in Nat
        /\ \A i, j \in 1..Len(Sorted(A)) : Sorted(A)[i] = Sorted(A)[j] => i = j
        /\ \A x \in A : \E i \in 1..Len(Sorted(A)) : Sorted(A)[i] = x
    BY <2>1, SortedSeq
  <2> QED BY <2>1, <2>2
<1>4. /\ P \in Seq(B) /\ Len(P) \in Nat
      /\ \A i, j \in 1..Len(P) : P[i] = P[j] => i = j
      /\ \A x \in B : \E i \in 1..Len(P) : P[i] = x
  <2> HIDE DEF R, P
  <2>1. B \in SUBSET (1..N) /\ N \in Nat /\ P = Sorted(B)
    BY <1>1, <1>2
  <2>2. /\ Sorted(B) \in Seq(B) /\ Len(Sorted(B)) = Cardinality(B) /\ Cardinality(B) \in Nat
        /\ \A i, j \in 1..Len(Sorted(B)) : Sorted(B)[i] = Sorted(B)[j] => i = j
        /\ \A x \in B : \E i \in 1..Len(Sorted(B)) : Sorted(B)[i] = x
    BY <2>1, SortedSeq
  <2> QED BY <2>1, <2>2
<1> HIDE DEF R, P
<1>5. R \in Seq(1..N) /\ P \in Seq(1..N)
  BY <1>1, <1>3, <1>4, WiderSeq
<1>6. /\ O \in Seq(1..N) /\ Len(O) = Len(R) + Len(P)
      /\ \A i \in 1..Len(R) + Len(P) : O[i] = IF i <= Len(R) THEN R[i] ELSE P[i - Len(R)]
  BY <1>5, ConcatProperties
<1> HIDE DEF O
<1>7. \A n \in 1..Len(R) : n \in 1..Len(O) /\ R[n] = O[n] /\ O[n] \in A
  BY <1>3, <1>4, <1>6
<1>8. \A n \in 1..Len(O) : ~(n \in 1..Len(R)) =>
        n - Len(R) \in 1..Len(P) /\ O[n] = P[n - Len(R)] /\ O[n] \in B
  BY <1>3, <1>4, <1>6
<1>9. \A n \in 1..Len(O) : strings[O[n]].wide = wide
  BY <1>1, <1>7, <1>8
<1>10. ASSUME NEW m \in 1..Len(O), NEW n \in 1..Len(O), O[m] = O[n] PROVE m = n
  <2>1. CASE m \in 1..Len(R) /\ n \in 1..Len(R)
    BY <1>3, <1>7, <1>10, <2>1
  <2>2. CASE ~(m \in 1..Len(R)) /\ ~(n \in 1..Len(R))
    <3>1. m - Len(R) = n - Len(R)
      <4> DEFINE k == m - Len(R)
                 l == n - Len(R)
      <4>1. k \in 1..Len(P) /\ l \in 1..Len(P) /\ O[m] = P[k] /\ O[n] = P[l]
        BY <1>8, <2>2
      <4> HIDE DEF k, l
      <4>2. k = l
        BY <1>4, <1>10, <4>1
      <4> QED BY <4>2 DEF k, l
    <3>2. m \in Int /\ n \in Int
      BY <1>3, <1>4, <1>6
    <3> QED BY <1>3, <3>1, <3>2
  <2>3. CASE m \in 1..Len(R) /\ ~(n \in 1..Len(R))
    BY <1>1, <1>7, <1>8, <1>10, <2>3
  <2>4. CASE ~(m \in 1..Len(R)) /\ n \in 1..Len(R)
    BY <1>1, <1>7, <1>8, <1>10, <2>4
  <2> QED BY <2>1, <2>2, <2>3, <2>4
<1>11. \A i \in A : \E n \in 1..Len(R) : O[n] = i
  BY <1>3, <1>7
<1>12. ASSUME NEW i \in B PROVE \E n \in 1..Len(O) : O[n] = i
  <2>1. PICK k \in 1..Len(P) : P[k] = i
    BY <1>4
  <2>2. /\ Len(R) + k \in 1..Len(R) + Len(P) /\ ~(Len(R) + k <= Len(R))
        /\ (Len(R) + k) - Len(R) = k
    BY <1>3, <1>4
  <2>3. O[Len(R) + k] = P[k]
    BY <1>6, <2>2
  <2> QED BY <1>6, <2>1, <2>2, <2>3
<1>13. R = SubSeq(O, 1, Len(R))
  <2>1. Len(R) <= Len(O)
    BY <1>3, <1>4, <1>6
  <2>2. /\ SubSeq(O, 1, Len(R)) \in Seq(1..N) /\ Len(SubSeq(O, 1, Len(R))) = Len(R)
        /\ \A i \in 1..Len(R) : SubSeq(O, 1, Len(R))[i] = O[i]
    BY <1>3, <1>6, <2>1, Start
  <2> QED BY <1>5, <1>7, <2>2, SeqEqual
<1>14. \A n \in 1..Len(R) : O[n] \notin pinned
  BY <1>1, <1>7
<1>15. Len(R) <= Len(O) /\ Len(O) \in Nat
  BY <1>3, <1>4, <1>6
<1>16. O = Order(strings, wide, pinned, packed)
  BY DEF O, R, P, Order
<1> QED BY <1>3, <1>6, <1>7, <1>9, <1>10, <1>11, <1>12, <1>13, <1>14, <1>15, <1>16
        DEF IsOrder, A, B, R, N

\* p is a place for string i in the half written in order O, whose first k are
\* shared: it reads back there, it lies inside one of those written out, and if it
\* is pinned this is itself.
IsPlace(p, i, O, k, strings, pinned) ==
  /\ p \in Nat /\ Holds(Bytes(strings, O), p, strings[i].bytes)
  /\ strings[i].wide => p % 2 = 0
  /\ strings[i].bytes # <<>> =>
       \E m \in 1..Len(O) :
         /\ At(strings, O, m) <= p /\ p + Len(strings[i].bytes) <= Len(Written(strings, O, m))
         /\ O[m] = i \/ (m <= k /\ i \notin pinned)

\* Wide strings have even lengths, so every offset in their half is even.
LEMMA AtIsEven ==
  ASSUME NEW strings \in Seq(Storable), NEW O \in Seq(1..Len(strings)), NEW wide \in BOOLEAN,
         \A n \in 1..Len(O) : strings[O[n]].wide = wide, wide, NEW n \in 0..Len(O)
  PROVE  Len(Written(strings, O, n)) % 2 = 0
<1>1. \A m \in 1..Len(O) : strings[O[m]].wide
  OBVIOUS
<1> QED BY <1>1, EvenSoFar

\* Every string stands at its place in its half: written there, or inside a root.
LEMMA PlaceIs ==
  ASSUME NEW strings \in Seq(Storable), NEW wide \in BOOLEAN,
         NEW pinned \in SUBSET (1..Len(strings)), NEW packed \in BOOLEAN, NEW late \in BOOLEAN,
         NEW O, NEW k, IsOrder(O, k, strings, wide, pinned, packed),
         NEW i \in 1..Len(strings), strings[i].wide = wide
  PROVE  IsPlace(Place(strings, i, Roots(strings, wide, pinned, packed), O, late), i, O, k,
                 strings, pinned)
<1> DEFINE R == Roots(strings, wide, pinned, packed)
           s == strings[i]
           at(n) == At(strings, O, n)
           inside == UNION {{at(n) + x : x \in Occurrences(s, strings[R[n]])} : n \in DOMAIN R}
           spot == CHOOSE n \in DOMAIN O : O[n] = i
           p == Place(strings, i, R, O, late)
<1>1. p = CASE i \in Range(O) -> at(spot)
            [] i \notin Range(O) /\ s.bytes = <<>> -> Len(Bytes(strings, R))
            [] OTHER -> IF late THEN Max(inside) ELSE Min(inside)
  BY DEF Place, At, Written
<1>2. /\ O \in Seq(1..Len(strings)) /\ Len(O) \in Nat /\ k \in Nat /\ k <= Len(O) /\ DOMAIN O = 1..Len(O)
      /\ R = SubSeq(O, 1, k) /\ DOMAIN R = 1..k
      /\ \A n \in 1..k : R[n] = O[n]
      /\ \A n \in 1..Len(O) : strings[O[n]].wide = wide
  <2>1. /\ O \in Seq(1..Len(strings)) /\ Len(O) \in Nat /\ k \in Nat /\ k <= Len(O)
        /\ R = SubSeq(O, 1, k) /\ \A n \in 1..k : R[n] = O[n]
        /\ \A n \in 1..Len(O) : strings[O[n]].wide = wide
    BY DEF IsOrder
  <2> HIDE DEF R
  <2>2. DOMAIN R = 1..k
    <3>1. R \in Seq(1..Len(strings)) /\ Len(R) = k
      BY <2>1, Start
    <3> QED BY <3>1
  <2>3. DOMAIN O = 1..Len(O)
    BY <2>1
  <2> QED BY <2>1, <2>2, <2>3
<1>3. s \in Storable /\ s.wide = wide /\ s.bytes \in Seq(Byte) /\ Len(s.bytes) \in Nat
  <2>1. s \in Storable
    OBVIOUS
  <2> QED BY <2>1, StoredIds
<1>4. Bytes(strings, O) \in Seq(Byte)
  <2>1. Bytes(strings, O) = Written(strings, O, Len(O))
    BY <1>2, AllWritten
  <2>2. Len(O) \in 0..Len(O)
    BY <1>2
  <2>3. Written(strings, O, Len(O)) \in Seq(Byte)
    BY <1>2, <2>2, WrittenIs
  <2> QED BY <2>1, <2>3
<1> HIDE DEF p, R, s
<1>5. CASE i \in Range(O)
  <2>1. p = at(spot)
    BY <1>1, <1>5
  <2>2. \E n \in DOMAIN O : O[n] = i
    BY <1>5 DEF Range
  <2>3. spot \in 1..Len(O) /\ O[spot] = i
    BY <1>2, <2>2
  <2> HIDE DEF spot
  <2>4. /\ at(spot) \in Nat /\ Holds(Bytes(strings, O), at(spot), s.bytes)
        /\ at(spot) + Len(s.bytes) = Len(Written(strings, O, spot))
    BY <1>2, <2>3, AtIs DEF s
  <2>5. s.wide => at(spot) % 2 = 0
    <3>1. spot - 1 \in 0..Len(O)
      BY <1>2, <2>3
    <3> QED BY <1>2, <1>3, <3>1, AtIsEven DEF At
  <2>6. at(spot) <= at(spot) /\ at(spot) + Len(s.bytes) <= Len(Written(strings, O, spot))
    <3>1. Len(Written(strings, O, spot)) \in Nat
      BY <1>2, <2>3, WrittenIs
    <3> QED BY <2>4, <3>1
  <2> QED BY <2>1, <2>3, <2>4, <2>5, <2>6 DEF IsPlace, p, R, s
<1>6. CASE i \notin Range(O) /\ s.bytes = <<>>
  <2>1. p = Len(Written(strings, O, k))
    BY <1>1, <1>2, <1>6 DEF Written
  <2>2. k \in 0..Len(O) /\ Len(O) \in k..Len(O) /\ Len(O) \in 0..Len(O)
    BY <1>2
  <2>3. Len(Written(strings, O, k)) \in Nat /\ Len(Written(strings, O, k)) <= Len(Bytes(strings, O))
    <3>1. Len(Written(strings, O, k)) \in Nat
      BY <1>2, <2>2, WrittenIs
    <3>2. Holds(Written(strings, O, Len(O)), 0, Written(strings, O, k))
      BY <1>2, <2>2, WrittenStays
    <3>3. Holds(Bytes(strings, O), 0, Written(strings, O, k))
      BY <1>2, <3>2, AllWritten
    <3>4. Len(Bytes(strings, O)) \in Nat
      BY <1>4
    <3> QED BY <3>1, <3>3, <3>4 DEF Holds
  <2>4. Len(s.bytes) = 0 /\ 1..0 = {}
    BY <1>6
  <2>5. Holds(Bytes(strings, O), p, s.bytes)
    <3>1. p + 0 <= Len(Bytes(strings, O)) /\ p \in Nat
      BY <2>1, <2>3
    <3> QED BY <2>4, <3>1 DEF Holds
  <2>6. s.wide => p % 2 = 0
    BY <1>2, <1>3, <2>1, <2>2, AtIsEven
  <2> QED BY <1>6, <2>1, <2>3, <2>5, <2>6 DEF IsPlace, p, R, s
<1>7. CASE i \notin Range(O) /\ s.bytes # <<>>
  <2>1. p = IF late THEN Max(inside) ELSE Min(inside)
    BY <1>1, <1>7
  <2>2. i \notin PinnedIds(strings, wide, pinned)
    BY <1>2, <1>7 DEF IsOrder, Range
  <2>3. i \notin pinned /\ i \in Shareable(strings, wide, pinned)
    <3>1. i \notin pinned
      BY <1>3, <2>2 DEF PinnedIds, s
    <3>2. DOMAIN strings = 1..Len(strings)
      OBVIOUS
    <3> QED BY <1>3, <3>1, <3>2 DEF Shareable, s
  <2>4. PICK r \in RootIds(strings, wide, pinned, packed) : Occurrences(s, strings[r]) # {}
    <3>1. strings[i].bytes # <<>>
      BY <1>7 DEF s
    <3>2. OccursIn(strings, i, RootIds(strings, wide, pinned, packed))
      BY <2>3, <3>1, RootExists
    <3> QED BY <3>2 DEF s, OccursIn
  <2>5. PICK n \in 1..k : O[n] = r
    BY DEF IsOrder
  <2>6. PICK x \in Occurrences(s, strings[R[n]]) : TRUE
    BY <1>2, <2>4, <2>5
  <2>7. at(n) + x \in inside
    <3>1. n \in DOMAIN R
      BY <1>2, <2>5
    <3> DEFINE here(m) == {at(m) + y : y \in Occurrences(s, strings[R[m]])}
    <3> HIDE DEF at
    <3>2. at(n) + x \in here(n)
      BY <2>6
    <3>3. inside = UNION {here(m) : m \in DOMAIN R}
      OBVIOUS
    <3> HIDE DEF here, inside
    <3> QED BY <3>1, <3>2, <3>3
  \* Whichever is taken:
  <2>8. ASSUME NEW q \in inside
        PROVE  /\ q \in Nat /\ Holds(Bytes(strings, O), q, s.bytes) /\ (s.wide => q % 2 = 0)
               /\ \E m \in 1..Len(O) : /\ at(m) <= q /\ q + Len(s.bytes) <= Len(Written(strings, O, m))
                                       /\ m <= k
    <3>1. PICK m \in 1..k : \E y \in Occurrences(s, strings[R[m]]) : q = at(m) + y
      BY <1>2
    <3>2. PICK y \in Occurrences(s, strings[R[m]]) : q = at(m) + y
      BY <3>1
    <3> DEFINE t == strings[O[m]]
    <3>3. m \in 1..Len(O) /\ R[m] = O[m] /\ O[m] \in 1..Len(strings) /\ t \in Storable /\ t.wide = wide
          /\ m - 1 \in 0..Len(O) /\ m <= k
      <4> DEFINE c == Len(O)
      <4>1. m \in 1..k /\ k \in Nat /\ c \in Nat /\ k <= c
        BY <1>2, <3>1
      <4> HIDE DEF c
      <4>2. m \in 1..c /\ m - 1 \in 0..c /\ m <= k /\ m \in 1..k
        BY <4>1
      <4>3. m \in 1..Len(O) /\ m - 1 \in 0..Len(O) /\ m <= k /\ m \in 1..k
        BY <4>2 DEF c
      <4> QED BY <1>2, <4>3
    <3>4. /\ at(m) \in Nat /\ Holds(Bytes(strings, O), at(m), t.bytes)
          /\ at(m) + Len(t.bytes) = Len(Written(strings, O, m))
      BY <1>2, <3>3, AtIs
    <3>5. t.wide => at(m) % 2 = 0
      BY <1>2, <3>3, AtIsEven DEF At
    <3> HIDE DEF t
    <3>6. y \in Occurrences(s, t)
      BY <3>2, <3>3 DEF t
    <3>7. /\ Holds(Bytes(strings, O), at(m) + y, s.bytes) /\ at(m) + y \in Nat
          /\ at(m) <= at(m) + y /\ at(m) + y + Len(s.bytes) <= at(m) + Len(t.bytes)
          /\ s.wide => (at(m) + y) % 2 = 0
      BY <1>3, <1>4, <3>3, <3>4, <3>5, <3>6, OccursInside
    <3> QED BY <3>2, <3>3, <3>4, <3>7
  <2> DEFINE N == Len(Bytes(strings, O))
  <2>9. N \in Nat
    BY <1>4
  <2>10. inside \in SUBSET (0..N) /\ inside \in SUBSET Nat /\ inside # {}
    <3> SUFFICES ASSUME NEW q \in inside PROVE q \in 0..N
      BY <2>7, <2>8
    <3> HIDE DEF inside, N
    <3>1. q \in Nat /\ q + Len(s.bytes) <= N
      BY <2>8 DEF Holds, N
    <3> QED BY <1>3, <2>9, <3>1
  <2>11. p \in inside
    <3> HIDE DEF inside, N
    <3>1. Max(inside) \in inside /\ Min(inside) \in inside
      BY <2>9, <2>10, MaxOf, MinOf
    <3> QED BY <2>1, <3>1
  <2> HIDE DEF inside
  <2>12. /\ p \in Nat /\ Holds(Bytes(strings, O), p, s.bytes) /\ (s.wide => p % 2 = 0)
         /\ \E m \in 1..Len(O) : /\ at(m) <= p /\ p + Len(s.bytes) <= Len(Written(strings, O, m))
                                 /\ m <= k
    BY <2>8, <2>11
  <2> QED BY <2>3, <2>12 DEF IsPlace, p, R, s
<1> QED BY <1>5, <1>6, <1>7 DEF p, R, s

\* A pinned string has its bytes to itself.
LEMMA PlacesApart ==
  ASSUME NEW strings \in Seq(Storable), NEW wide, NEW pinned, NEW packed,
         NEW O, NEW k, IsOrder(O, k, strings, wide, pinned, packed),
         NEW i \in 1..Len(strings), NEW j \in 1..Len(strings), i \in pinned, i # j,
         strings[i].bytes # <<>>, strings[j].bytes # <<>>,
         NEW p, IsPlace(p, i, O, k, strings, pinned),
         NEW q, IsPlace(q, j, O, k, strings, pinned)
  PROVE  p + Len(strings[i].bytes) <= q \/ q + Len(strings[j].bytes) <= p
<1> DEFINE a == Len(strings[i].bytes)
           b == Len(strings[j].bytes)
           W(n) == Len(Written(strings, O, n))
           at(n) == At(strings, O, n)
<1>1. O \in Seq(1..Len(strings)) /\ k \in Nat /\ k <= Len(O) /\ Len(O) \in Nat
      /\ \A n \in 1..k : O[n] \notin pinned
  BY DEF IsOrder
<1>2. PICK m \in 1..Len(O) : at(m) <= p /\ p + a <= W(m) /\ O[m] = i
  BY DEF IsPlace
<1>3. PICK n \in 1..Len(O) : at(n) <= q /\ q + b <= W(n) /\ (O[n] = j \/ n <= k)
  BY DEF IsPlace
<1>4. m # n
  <2>1. CASE O[n] = j
    BY <1>2, <2>1
  <2>2. CASE n <= k
    <3>1. n \in 1..k
      BY <1>1, <2>2
    <3> QED BY <1>1, <1>2, <3>1
  <2> QED BY <1>3, <2>1, <2>2
<1>5. a \in Nat /\ b \in Nat /\ p \in Nat /\ q \in Nat
  BY StoredIds DEF IsPlace
<1>6. ASSUME NEW x \in 1..Len(O), NEW y \in 1..Len(O), x < y
      PROVE  W(x) <= at(y) /\ W(x) \in Nat /\ at(y) \in Nat
  <2>1. x \in 0..y - 1 /\ x \in 0..Len(O)
    BY <1>1, <1>6
  <2> QED BY <1>1, <2>1, AtIs, WrittenIs
<1>7. CASE m < n
  <2>1. W(m) <= at(n) /\ W(m) \in Nat /\ at(n) \in Nat
    BY <1>6, <1>7
  <2> HIDE DEF a, b, W, at
  <2>2. p + a <= q
    BY <1>2, <1>3, <1>5, <2>1
  <2> QED BY <2>2 DEF a
<1>8. CASE n < m
  <2>1. W(n) <= at(m) /\ W(n) \in Nat /\ at(m) \in Nat
    BY <1>6, <1>8
  <2> HIDE DEF a, b, W, at
  <2>2. q + b <= p
    BY <1>2, <1>3, <1>5, <2>1
  <2> QED BY <2>2 DEF b
<1> QED BY <1>1, <1>4, <1>7, <1>8

----------------------------------------------------------------------------
(* The storage as it is laid out.                                           *)

Half(strings, pinned, packed) == Padded(Bytes(strings, Order(strings, FALSE, pinned, packed)), strings)
Rest16(strings, pinned, packed) == Bytes(strings, Order(strings, TRUE, pinned, packed))

Storage(strings, pinned, packed) == Half(strings, pinned, packed) \o Rest16(strings, pinned, packed)

\* Where string i comes to stand.
Off(strings, pinned, packed, late, i) ==
  IF strings[i].wide
  THEN Len(Half(strings, pinned, packed))
       + Place(strings, i, Roots(strings, TRUE, pinned, packed),
               Order(strings, TRUE, pinned, packed), late)
  ELSE Place(strings, i, Roots(strings, FALSE, pinned, packed),
             Order(strings, FALSE, pinned, packed), late)

Units(strings, i) == Len(strings[i].bytes) \div Unit(strings[i].wide)

\* Those that do not fit a small entry.
Long(strings, pinned, packed, late) ==
  {i \in DOMAIN strings : \/ Off(strings, pinned, packed, late, i) >= OffsetLimit
                          \/ Units(strings, i) >= LengthOverflow}

\* The entries of the tables, by the offset and the length of each string.
LEMMA LayOutIs ==
  ASSUME NEW strings \in Seq(Storable), NEW pinned, NEW packed, NEW late
  PROVE  LET laid == LayOut(strings, pinned, packed, late)
             long == Long(strings, pinned, packed, late)
             off(i) == Off(strings, pinned, packed, late, i) IN
         /\ laid.small = [i \in 1..Len(strings) |->
              [wide |-> strings[i].wide,
               offset |-> IF i \in long THEN Cardinality(Before(long, i)) ELSE off(i),
               length |-> IF i \in long THEN LengthOverflow ELSE Units(strings, i)]]
         /\ laid.overflow = [n \in DOMAIN Sorted(long) |->
              [offset |-> off(Sorted(long)[n]), length |-> Units(strings, Sorted(long)[n])]]
         /\ laid.storage = Storage(strings, pinned, packed)
<1> DEFINE dom == DOMAIN strings
           off == [i \in dom |-> Off(strings, pinned, packed, late, i)]
           len == [i \in dom |-> Units(strings, i)]
           long == {i \in dom : off[i] >= OffsetLimit \/ len[i] >= LengthOverflow}
           records == Sorted(long)
           laid == LayOut(strings, pinned, packed, late)
<1>1. dom = 1..Len(strings)
  OBVIOUS
<1>2. laid = [small |-> [i \in dom |->
                [wide |-> strings[i].wide,
                 offset |-> IF i \in long THEN Cardinality({j \in long : j < i}) ELSE off[i],
                 length |-> IF i \in long THEN LengthOverflow ELSE len[i]]],
              overflow |-> [n \in DOMAIN records |->
                              [offset |-> off[records[n]], length |-> len[records[n]]]],
              storage |-> Storage(strings, pinned, packed)]
  BY DEF LayOut, Off, Units, Storage, Half, Rest16, Order
<1>3. long = Long(strings, pinned, packed, late)
  BY DEF Long
<1>4. \A n \in DOMAIN records : records[n] \in dom
  <2> SUFFICES ASSUME NEW n \in DOMAIN records PROVE records[n] \in dom
    OBVIOUS
  <2>1. long \in SUBSET (1..Len(strings)) /\ Len(strings) \in Nat
    BY <1>1
  <2> HIDE DEF long, dom
  <2>2. records \in Seq(long)
    BY <2>1, SortedSeq
  <2>3. records[n] \in long
    BY <2>2
  <2> QED BY <1>1, <2>1, <2>3
<1> HIDE DEF laid
<1>5. laid.small = [i \in dom |->
                [wide |-> strings[i].wide,
                 offset |-> IF i \in long THEN Cardinality({j \in long : j < i}) ELSE off[i],
                 length |-> IF i \in long THEN LengthOverflow ELSE len[i]]]
  BY <1>2
<1>6. laid.overflow = [n \in DOMAIN records |->
                              [offset |-> off[records[n]], length |-> len[records[n]]]]
  BY <1>2
<1>7. laid.storage = Storage(strings, pinned, packed)
  BY <1>2
<1>8. \A i \in dom : off[i] = Off(strings, pinned, packed, late, i) /\ len[i] = Units(strings, i)
  OBVIOUS
<1> HIDE DEF long, off, len, records
<1>9. laid.small = [i \in dom |->
                [wide |-> strings[i].wide,
                 offset |-> IF i \in long THEN Cardinality(Before(long, i))
                            ELSE Off(strings, pinned, packed, late, i),
                 length |-> IF i \in long THEN LengthOverflow ELSE Units(strings, i)]]
  BY <1>5, <1>8, Zenon DEF Before
<1>10. laid.overflow = [n \in DOMAIN records |->
                          [offset |-> Off(strings, pinned, packed, late, records[n]),
                           length |-> Units(strings, records[n])]]
  BY <1>4, <1>6, <1>8, Zenon
<1> QED BY <1>1, <1>3, <1>7, <1>9, <1>10 DEF laid, records

\* The ASCII half is padded to an even length if a UTF-16 half follows.
LEMMA HalfIs ==
  ASSUME NEW strings \in Seq(Storable), NEW pinned \in SUBSET (1..Len(strings)), NEW packed
  PROVE  LET h == Bytes(strings, Order(strings, FALSE, pinned, packed)) IN
         /\ h \in Seq(Byte) /\ Half(strings, pinned, packed) \in Seq(Byte)
         /\ Holds(Half(strings, pinned, packed), 0, h)
         /\ \A i \in 1..Len(strings) :
              strings[i].wide => Len(Half(strings, pinned, packed)) % 2 = 0
         /\ Rest16(strings, pinned, packed) \in Seq(Byte)
<1> DEFINE O(wide) == Order(strings, wide, pinned, packed)
           h == Bytes(strings, O(FALSE))
           u == Half(strings, pinned, packed)
<1>1. ASSUME NEW wide PROVE Bytes(strings, O(wide)) \in Seq(Byte)
  <2>1. O(wide) \in Seq(1..Len(strings))
    BY OrderIs DEF IsOrder
  <2> HIDE DEF O
  <2>2. Len(O(wide)) \in 0..Len(O(wide))
    BY <2>1
  <2>3. Written(strings, O(wide), Len(O(wide))) \in Seq(Byte)
    BY <2>1, <2>2, WrittenIs
  <2> QED BY <2>1, <2>3, AllWritten
<1>2. h \in Seq(Byte) /\ Len(h) \in Nat
  <2>1. h \in Seq(Byte)
    BY <1>1
  <2> HIDE DEF h
  <2> QED BY <2>1
<1>3. u = Padded(h, strings) /\ DOMAIN strings = 1..Len(strings)
  BY DEF Half
<1> HIDE DEF h, u
<1>4. CASE Len(h) % 2 = 1 /\ \E i \in 1..Len(strings) : strings[i].wide
  <2>1. u = Append(h, 0)
    BY <1>3, <1>4 DEF Padded
  <2>2. 0 \in Byte
    BY DEF Byte
  <2>3. /\ u \in Seq(Byte) /\ Len(u) = Len(h) + 1
        /\ \A i \in 1..Len(h) : u[i] = h[i]
    BY <1>2, <2>1, <2>2, AppendProperties
  <2>4. Len(u) % 2 = 0
    BY <1>2, <1>4, <2>3
  <2>5. Holds(u, 0, h)
    <3>1. 0 + Len(h) <= Len(u)
      BY <1>2, <2>3
    <3>2. \A n \in 1..Len(h) : 0 + n = n
      OBVIOUS
    <3> QED BY <2>3, <3>1, <3>2 DEF Holds
  <2> QED BY <1>1, <1>2, <2>3, <2>4, <2>5 DEF u, h, Rest16
<1>5. CASE ~(Len(h) % 2 = 1 /\ \E i \in 1..Len(strings) : strings[i].wide)
  <2>1. u = h
    BY <1>3, <1>5 DEF Padded
  <2>2. Holds(u, 0, h)
    BY <1>2, <2>1, HoldsBoth
  <2>3. ASSUME NEW i \in 1..Len(strings), strings[i].wide PROVE Len(u) % 2 = 0
    <3>1. Len(h) % 2 # 1
      BY <1>5, <2>3
    <3> QED BY <1>2, <2>1, <3>1
  <2> QED BY <1>1, <1>2, <2>1, <2>2, <2>3 DEF u, h, Rest16
<1> QED BY <1>4, <1>5

\* Where string i comes to stand in its half.
Spot(strings, pinned, packed, late, i) ==
  Place(strings, i, Roots(strings, strings[i].wide, pinned, packed),
        Order(strings, strings[i].wide, pinned, packed), late)

\* The offset of a string, from the start of the storage.
LEMMA SpotIs ==
  ASSUME NEW strings \in Seq(Storable), NEW pinned \in SUBSET (1..Len(strings)),
         NEW packed \in BOOLEAN, NEW late \in BOOLEAN, NEW i \in 1..Len(strings)
  PROVE  /\ IsPlace(Spot(strings, pinned, packed, late, i), i,
                    Order(strings, strings[i].wide, pinned, packed),
                    Len(Roots(strings, strings[i].wide, pinned, packed)), strings, pinned)
         /\ Off(strings, pinned, packed, late, i) =
              IF strings[i].wide
              THEN Len(Half(strings, pinned, packed)) + Spot(strings, pinned, packed, late, i)
              ELSE Spot(strings, pinned, packed, late, i)
<1> DEFINE w == strings[i].wide
           O == Order(strings, w, pinned, packed)
           k == Len(Roots(strings, w, pinned, packed))
<1>1. w \in BOOLEAN
  BY StoredIds
<1>2. IsOrder(O, k, strings, w, pinned, packed)
  BY OrderIs
<1>3. Off(strings, pinned, packed, late, i) =
              IF strings[i].wide
              THEN Len(Half(strings, pinned, packed)) + Spot(strings, pinned, packed, late, i)
              ELSE Spot(strings, pinned, packed, late, i)
  <2>1. CASE w = TRUE
    BY <2>1 DEF Off, Spot
  <2>2. CASE w = FALSE
    BY <2>2 DEF Off, Spot
  <2> QED BY <1>1, <2>1, <2>2
<1> HIDE DEF O, k
<1>4. IsPlace(Place(strings, i, Roots(strings, w, pinned, packed), O, late), i, O, k, strings, pinned)
  BY <1>1, <1>2, PlaceIs
<1> QED BY <1>3, <1>4 DEF Spot, O, k

\* Every string reads back from where it was placed, and stands on an even offset
\* if it is wide.
LEMMA StorageIs ==
  ASSUME NEW strings \in Seq(Storable), NEW pinned \in SUBSET (1..Len(strings)),
         NEW packed \in BOOLEAN, NEW late \in BOOLEAN, NEW i \in 1..Len(strings)
  PROVE  LET storage == Storage(strings, pinned, packed)
             off == Off(strings, pinned, packed, late, i) IN
         /\ storage \in Seq(Byte) /\ off \in Nat
         /\ Holds(storage, off, strings[i].bytes)
         /\ strings[i].wide => off % 2 = 0
<1> DEFINE h == Bytes(strings, Order(strings, FALSE, pinned, packed))
           u == Half(strings, pinned, packed)
           v == Rest16(strings, pinned, packed)
           b == strings[i].bytes
           p == Spot(strings, pinned, packed, late, i)
           off == Off(strings, pinned, packed, late, i)
<1>0. Storage(strings, pinned, packed) = u \o v
  BY DEF Storage
<1>1. h \in Seq(Byte) /\ u \in Seq(Byte) /\ v \in Seq(Byte) /\ Holds(u, 0, h)
      /\ (strings[i].wide => Len(u) % 2 = 0)
  BY HalfIs
<1>2. u \o v \in Seq(Byte) /\ Holds(u \o v, 0, u) /\ Holds(u \o v, Len(u), v)
  <2> HIDE DEF u, v
  <2> QED BY <1>1, HoldsBoth, ConcatProperties
<1>3. b \in Seq(Byte) /\ strings[i].wide \in BOOLEAN
  BY StoredIds
<1>4. /\ p \in Nat /\ Holds(Bytes(strings, Order(strings, strings[i].wide, pinned, packed)), p, b)
      /\ strings[i].wide => p % 2 = 0
  BY SpotIs DEF IsPlace
<1>5. off = IF strings[i].wide THEN Len(u) + p ELSE p
  BY SpotIs
<1>6. CASE strings[i].wide = TRUE
  <2>1. Holds(v, p, b)
    BY <1>4, <1>6 DEF Rest16
  <2> HIDE DEF u, v, b, p, off
  <2>2. Holds(u \o v, Len(u) + p, b)
    BY <1>1, <1>2, <1>3, <2>1, HoldsInside
  <2>3. Len(u) + p \in Nat /\ (Len(u) + p) % 2 = 0
    BY <1>1, <1>4, <1>6
  <2>4. off = Len(u) + p
    BY <1>5, <1>6
  <2> QED BY <1>0, <1>2, <2>2, <2>3, <2>4 DEF u, v, b, p, off
<1>7. CASE strings[i].wide = FALSE
  <2>1. Holds(h, p, b)
    BY <1>4, <1>7
  <2> HIDE DEF h, u, v, b, p, off
  <2>2. Holds(u, 0 + p, b)
    BY <1>1, <1>3, <2>1, HoldsInside
  <2>3. Holds(u \o v, 0 + (0 + p), b)
    BY <1>1, <1>2, <1>3, <2>2, HoldsInside
  <2>4. off = p /\ 0 + (0 + p) = p
    BY <1>4, <1>5, <1>7
  <2> QED BY <1>0, <1>2, <1>4, <1>7, <2>3, <2>4 DEF u, v, b, p, off
<1> QED BY <1>0, <1>3, <1>6, <1>7

\* A pinned string shares no byte with another.
LEMMA StorageApart ==
  ASSUME NEW strings \in Seq(Storable), NEW pinned \in SUBSET (1..Len(strings)),
         NEW packed \in BOOLEAN, NEW late \in BOOLEAN,
         NEW i \in 1..Len(strings), NEW j \in 1..Len(strings), i \in pinned, i # j,
         strings[i].bytes # <<>>, strings[j].bytes # <<>>
  PROVE  \/ Off(strings, pinned, packed, late, i) + Len(strings[i].bytes)
              <= Off(strings, pinned, packed, late, j)
         \/ Off(strings, pinned, packed, late, j) + Len(strings[j].bytes)
              <= Off(strings, pinned, packed, late, i)
<1> DEFINE O(w) == Order(strings, w, pinned, packed)
           K(w) == Len(Roots(strings, w, pinned, packed))
           h == Bytes(strings, O(FALSE))
           u == Half(strings, pinned, packed)
           len(n) == Len(strings[n].bytes)
           p(n) == Spot(strings, pinned, packed, late, n)
           off(n) == Off(strings, pinned, packed, late, n)
<1>1. ASSUME NEW n \in 1..Len(strings)
      PROVE  /\ IsPlace(p(n), n, O(strings[n].wide), K(strings[n].wide), strings, pinned)
             /\ off(n) = IF strings[n].wide THEN Len(u) + p(n) ELSE p(n)
             /\ len(n) \in Nat /\ strings[n].wide \in BOOLEAN /\ p(n) \in Nat
             /\ strings[n].wide = FALSE => p(n) + len(n) <= Len(u)
  <2>1. IsPlace(p(n), n, O(strings[n].wide), K(strings[n].wide), strings, pinned)
    BY SpotIs
  <2>2. off(n) = IF strings[n].wide THEN Len(u) + p(n) ELSE p(n)
    BY SpotIs
  <2>3. len(n) \in Nat /\ strings[n].wide \in BOOLEAN
    BY StoredIds
  <2>4. p(n) \in Nat
    BY <2>1 DEF IsPlace
  <2>5. ASSUME strings[n].wide = FALSE PROVE p(n) + len(n) <= Len(u)
    <3>1. Holds(h, p(n), strings[n].bytes)
      BY <2>1, <2>5 DEF IsPlace
    <3>2. p(n) + len(n) <= Len(h)
      BY <3>1 DEF Holds
    <3>3. h \in Seq(Byte) /\ u \in Seq(Byte) /\ Holds(u, 0, h)
      BY HalfIs
    <3> HIDE DEF h, u
    <3>4. Len(h) <= Len(u) /\ Len(h) \in Nat /\ Len(u) \in Nat
      BY <3>3 DEF Holds
    <3> HIDE DEF p, len
    <3> QED BY <2>3, <2>4, <3>2, <3>4
  <2> QED BY <2>1, <2>2, <2>3, <2>4, <2>5
<1>2. Len(u) \in Nat
  <2>1. u \in Seq(Byte)
    BY HalfIs
  <2> HIDE DEF u
  <2> QED BY <2>1
<1>3. ASSUME strings[i].wide = strings[j].wide
      PROVE  p(i) + len(i) <= p(j) \/ p(j) + len(j) <= p(i)
  <2> DEFINE w == strings[i].wide
  <2>1. IsOrder(O(w), K(w), strings, w, pinned, packed)
    BY OrderIs
  <2>2. IsPlace(p(i), i, O(w), K(w), strings, pinned) /\ IsPlace(p(j), j, O(w), K(w), strings, pinned)
    BY <1>1, <1>3
  <2> HIDE DEF O, K, w, p
  <2> QED BY <2>1, <2>2, PlacesApart
<1> HIDE DEF p, len, off, u, O, K
<1>4. off(i) + len(i) <= off(j) \/ off(j) + len(j) <= off(i)
  <2> DEFINE pi == p(i)
             pj == p(j)
             li == len(i)
             lj == len(j)
             c == Len(u)
  <2>1. c \in Nat /\ pi \in Nat /\ pj \in Nat /\ li \in Nat /\ lj \in Nat
    BY <1>1, <1>2
  <2>2. CASE strings[i].wide = TRUE /\ strings[j].wide = TRUE
    <3>1. off(i) = c + pi /\ off(j) = c + pj /\ (pi + li <= pj \/ pj + lj <= pi)
      BY <1>1, <1>3, <2>2
    <3> HIDE DEF pi, pj, li, lj, c
    <3>2. c + pi + li <= c + pj \/ c + pj + lj <= c + pi
      BY <2>1, <3>1
    <3> QED BY <3>1, <3>2 DEF li, lj
  <2>3. CASE strings[i].wide = FALSE /\ strings[j].wide = FALSE
    <3>1. off(i) = pi /\ off(j) = pj /\ (pi + li <= pj \/ pj + lj <= pi)
      BY <1>1, <1>3, <2>3
    <3> QED BY <3>1
  <2>4. CASE strings[i].wide = TRUE /\ strings[j].wide = FALSE
    <3>1. off(i) = c + pi /\ off(j) = pj /\ pj + lj <= c
      BY <1>1, <2>4
    <3> HIDE DEF pi, pj, li, lj, c
    <3>2. pj + lj <= c + pi
      BY <2>1, <3>1
    <3> QED BY <3>1, <3>2 DEF li, lj
  <2>5. CASE strings[i].wide = FALSE /\ strings[j].wide = TRUE
    <3>1. off(i) = pi /\ off(j) = c + pj /\ pi + li <= c
      BY <1>1, <2>5
    <3> HIDE DEF pi, pj, li, lj, c
    <3>2. pi + li <= c + pj
      BY <2>1, <3>1
    <3> QED BY <3>1, <3>2 DEF li, lj
  <2>6. strings[i].wide \in BOOLEAN /\ strings[j].wide \in BOOLEAN
    BY <1>1
  <2> QED BY <2>2, <2>3, <2>4, <2>5, <2>6
<1> QED BY <1>4 DEF off, len

\* A length in units loses no byte.
LEMMA UnitsAre ==
  ASSUME NEW strings \in Seq(Storable), NEW i \in 1..Len(strings)
  PROVE  Units(strings, i) \in Nat
         /\ Units(strings, i) * Unit(strings[i].wide) = Len(strings[i].bytes)
<1> DEFINE n == Len(strings[i].bytes)
<1>1. n \in Nat /\ strings[i].wide \in BOOLEAN /\ (strings[i].wide => n % 2 = 0)
  BY StoredIds
<1> HIDE DEF n
<1>2. CASE strings[i].wide = TRUE
  <2>1. n \div 2 \in Nat /\ (n \div 2) * 2 = n
    BY <1>1, <1>2
  <2> QED BY <1>2, <2>1 DEF Units, Unit, n
<1>3. CASE strings[i].wide = FALSE
  <2>1. n \div 1 \in Nat /\ (n \div 1) * 1 = n
    BY <1>1
  <2> QED BY <1>3, <2>1 DEF Units, Unit, n
<1> QED BY <1>1, <1>2, <1>3

\* f is laid out to hold the strings.
Laid(f, strings, pinned, packed, late) ==
  /\ f.small = LayOut(strings, pinned, packed, late).small
  /\ f.overflow = LayOut(strings, pinned, packed, late).overflow
  /\ f.storage = LayOut(strings, pinned, packed, late).storage

\* The tables and the storage are these.
LaidAs(f, strings, pinned, packed, late) ==
  /\ f.small \in Seq([wide : BOOLEAN, offset : Nat, length : Nat])
  /\ Len(f.small) = Len(strings) /\ DOMAIN f.small = 1..Len(strings)
  /\ f.overflow \in Seq([offset : Nat, length : Nat])
  /\ f.storage = Storage(strings, pinned, packed)
  /\ \A i \in 1..Len(strings) :
       /\ f.small[i].wide = strings[i].wide
       /\ f.small[i].length = LengthOverflow => f.small[i].offset < Len(f.overflow)
       /\ Loc(f, i) = [start |-> Off(strings, pinned, packed, late, i),
                       end |-> Off(strings, pinned, packed, late, i) + Len(strings[i].bytes)]

\* An entry, overflowed or not, resolves to the place of its string.
LEMMA EntriesAre ==
  ASSUME NEW strings \in Seq(Storable), NEW pinned \in SUBSET (1..Len(strings)),
         NEW packed \in BOOLEAN, NEW late \in BOOLEAN,
         NEW f, Laid(f, strings, pinned, packed, late)
  PROVE  LaidAs(f, strings, pinned, packed, late)
<1> DEFINE N == Len(strings)
           long == Long(strings, pinned, packed, late)
           c == Cardinality(long)
           records == Sorted(long)
           off(i) == Off(strings, pinned, packed, late, i)
           units(i) == Units(strings, i)
           entry(i) == [wide |-> strings[i].wide,
                        offset |-> IF i \in long THEN Cardinality(Before(long, i)) ELSE off(i),
                        length |-> IF i \in long THEN LengthOverflow ELSE units(i)]
           record(n) == [offset |-> off(records[n]), length |-> units(records[n])]
<1>1. /\ f.small = [i \in 1..N |-> entry(i)] /\ f.overflow = [n \in DOMAIN records |-> record(n)]
      /\ f.storage = Storage(strings, pinned, packed)
  BY LayOutIs DEF Laid
<1>2. N \in Nat /\ long \in SUBSET (1..N)
  <2>1. DOMAIN strings = 1..N
    OBVIOUS
  <2> QED BY <2>1 DEF Long
<1>3. \A i \in 1..N : off(i) \in Nat /\ units(i) \in Nat /\ strings[i].wide \in BOOLEAN
                      /\ units(i) * Unit(strings[i].wide) = Len(strings[i].bytes)
  BY StorageIs, UnitsAre, StoredIds
<1>4. \A i \in 1..N : i \notin long => units(i) # LengthOverflow
  <2> SUFFICES ASSUME NEW i \in 1..N, units(i) = LengthOverflow PROVE i \in long
    OBVIOUS
  <2>1. i \in DOMAIN strings /\ LengthOverflow >= LengthOverflow
    BY LimitsAssumption
  <2> QED BY <2>1 DEF Long
<1> HIDE DEF N, long, off, units
<1>5. records \in Seq(long) /\ Len(records) = c /\ c \in Nat
  BY <1>2, SortedSeq
<1>6. \A i \in long : /\ Cardinality(Before(long, i)) + 1 \in 1..c
                      /\ records[Cardinality(Before(long, i)) + 1] = i
                      /\ Cardinality(Before(long, i)) \in Nat
  BY <1>2, SortedAt, RankIn
<1>7. DOMAIN records = 1..c /\ \A n \in 1..c : records[n] \in 1..N
  <2> HIDE DEF c, records
  <2>1. DOMAIN records = 1..c /\ \A n \in 1..c : records[n] \in long
    BY <1>5
  <2> QED BY <1>2, <2>1
<1> HIDE DEF c, records
<1>8. f.overflow \in Seq([offset : Nat, length : Nat]) /\ Len(f.overflow) = c
      /\ \A n \in 1..c : f.overflow[n] = record(n)
  <2>1. \A n \in 1..c : record(n) \in [offset : Nat, length : Nat]
    BY <1>3, <1>7
  <2>2. f.overflow = [n \in 1..c |-> record(n)]
    BY <1>1, <1>7
  <2>3. f.overflow \in [1..c -> [offset : Nat, length : Nat]]
    BY <2>1, <2>2
  <2> HIDE DEF record
  <2>4. f.overflow \in Seq([offset : Nat, length : Nat]) /\ Len(f.overflow) = c
    BY <1>5, <2>3, FunIsSeq
  <2> QED BY <2>2, <2>4
<1>9. f.small \in Seq([wide : BOOLEAN, offset : Nat, length : Nat]) /\ Len(f.small) = N
      /\ DOMAIN f.small = 1..N /\ \A i \in 1..N : f.small[i] = entry(i)
  <2>1. \A i \in 1..N : entry(i) \in [wide : BOOLEAN, offset : Nat, length : Nat]
    BY <1>3, <1>6, LimitsAssumption
  <2>2. f.small \in [1..N -> [wide : BOOLEAN, offset : Nat, length : Nat]]
    BY <1>1, <2>1
  <2> HIDE DEF entry
  <2>3. f.small \in Seq([wide : BOOLEAN, offset : Nat, length : Nat]) /\ Len(f.small) = N
    BY <1>2, <2>2, FunIsSeq
  <2> QED BY <1>1, <2>3
<1>10. ASSUME NEW i \in 1..N
       PROVE  /\ f.small[i].wide = strings[i].wide
              /\ f.small[i].length = LengthOverflow => f.small[i].offset < Len(f.overflow)
              /\ Loc(f, i) = [start |-> off(i), end |-> off(i) + Len(strings[i].bytes)]
  <2> DEFINE e == f.small[i]
             at == IF e.length = LengthOverflow THEN f.overflow[e.offset + 1]
                   ELSE [offset |-> e.offset, length |-> e.length]
  <2>1. e.wide = strings[i].wide
        /\ e.offset = (IF i \in long THEN Cardinality(Before(long, i)) ELSE off(i))
        /\ e.length = (IF i \in long THEN LengthOverflow ELSE units(i))
    <3>1. e = entry(i)
      BY <1>9
    <3> HIDE DEF e
    <3>2. e.wide = strings[i].wide
      BY <3>1
    <3>3. e.offset = (IF i \in long THEN Cardinality(Before(long, i)) ELSE off(i))
      BY <3>1
    <3>4. e.length = (IF i \in long THEN LengthOverflow ELSE units(i))
      BY <3>1
    <3> QED BY <3>2, <3>3, <3>4
  <2>2. Loc(f, i) = [start |-> at.offset, end |-> at.offset + at.length * Unit(e.wide)]
    BY DEF Loc
  <2>3. (e.length = LengthOverflow) <=> i \in long
    BY <1>4, <2>1
  <2>4. at.offset = off(i) /\ at.length = units(i)
    <3>1. CASE i \in long
      <4>1. e.offset = Cardinality(Before(long, i)) /\ at = f.overflow[e.offset + 1]
        BY <2>1, <2>3, <3>1
      <4>2. f.overflow[e.offset + 1] = record(e.offset + 1) /\ records[e.offset + 1] = i
        BY <1>6, <1>8, <3>1, <4>1
      <4> QED BY <4>1, <4>2
    <3>2. CASE i \notin long
      BY <2>1, <2>3, <3>2
    <3> QED BY <3>1, <3>2
  <2>5. i \in long => e.offset < Len(f.overflow)
    <3> SUFFICES ASSUME i \in long PROVE e.offset < c
      BY <1>8
    <3>1. e.offset = Cardinality(Before(long, i))
      BY <2>1
    <3> HIDE DEF e
    <3> QED BY <1>5, <1>6, <3>1
  <2>6. at.length * Unit(e.wide) = Len(strings[i].bytes)
    BY <1>3, <2>1, <2>4
  <2> HIDE DEF at
  <2> QED BY <2>1, <2>2, <2>3, <2>4, <2>5, <2>6
<1> QED BY <1>1, <1>8, <1>9, <1>10 DEF LaidAs, N, off

----------------------------------------------------------------------------
(* What the tables say.                                                     *)

\* Entries and records of the right shape, that stay inside the storage.
Sound(f) ==
  /\ f.small \in Seq([wide : BOOLEAN, offset : Nat, length : Nat])
  /\ f.overflow \in Seq([offset : Nat, length : Nat])
  /\ f.storage \in Seq(Byte)
  /\ \A i \in 1..Len(f.small) :
       /\ f.small[i].length = LengthOverflow => f.small[i].offset < Len(f.overflow)
       /\ Loc(f, i).end <= Len(f.storage)

\* A sound entry names bytes of the storage.
LEMMA LocIs ==
  ASSUME NEW f, Sound(f), NEW i \in 1..Len(f.small)
  PROVE  /\ Loc(f, i).start \in Nat /\ Loc(f, i).end \in Nat
         /\ Loc(f, i).start <= Loc(f, i).end /\ Loc(f, i).end <= Len(f.storage)
         /\ f.small[i].wide \in BOOLEAN
         /\ f.small[i].wide => (Loc(f, i).end - Loc(f, i).start) % 2 = 0
<1> DEFINE e == f.small[i]
           at == IF e.length = LengthOverflow THEN f.overflow[e.offset + 1]
                 ELSE [offset |-> e.offset, length |-> e.length]
           u == Unit(e.wide)
<1>1. e \in [wide : BOOLEAN, offset : Nat, length : Nat]
  <2>1. f.small \in Seq([wide : BOOLEAN, offset : Nat, length : Nat])
    BY DEF Sound
  <2> QED BY <2>1, ElementIn
<1>2. e.length = LengthOverflow => e.offset < Len(f.overflow)
  BY DEF Sound
<1>3. at \in [offset : Nat, length : Nat]
  <2>1. CASE e.length = LengthOverflow
    <3>1. e.offset \in Nat /\ e.offset < Len(f.overflow)
      BY <1>1, <1>2, <2>1
    <3>2. f.overflow \in Seq([offset : Nat, length : Nat])
      BY DEF Sound
    <3> HIDE DEF e
    <3>3. e.offset + 1 \in 1..Len(f.overflow)
      BY <3>1, <3>2
    <3>4. f.overflow[e.offset + 1] \in [offset : Nat, length : Nat]
      BY <3>2, <3>3, ElementIn
    <3> QED BY <2>1, <3>4
  <2>2. CASE e.length # LengthOverflow
    <3>1. e.offset \in Nat /\ e.length \in Nat
      BY <1>1
    <3> QED BY <2>2, <3>1
  <2> QED BY <2>1, <2>2
<1>4. Loc(f, i) = [start |-> at.offset, end |-> at.offset + at.length * u]
  BY DEF Loc
<1> DEFINE a == at.offset
           n == at.length
<1>5. a \in Nat /\ n \in Nat /\ e.wide \in BOOLEAN
  <2> HIDE DEF e, at
  <2> QED BY <1>1, <1>3
<1>6. Loc(f, i).start = a /\ Loc(f, i).end = a + n * u
  BY <1>4
<1>7. Loc(f, i).end <= Len(f.storage)
  BY DEF Sound
<1> HIDE DEF a, n
<1> DEFINE size == n * u
<1>8. size \in Nat /\ (e.wide = TRUE => size % 2 = 0)
  <2>1. CASE e.wide = TRUE
    <3>1. u = 2
      BY <2>1 DEF Unit
    <3> HIDE DEF u
    <3>2. n * 2 \in Nat /\ (n * 2) % 2 = 0
      BY <1>5
    <3> QED BY <3>1, <3>2
  <2>2. CASE e.wide = FALSE
    <3>1. u = 1
      BY <2>2 DEF Unit
    <3> HIDE DEF u
    <3>2. n * 1 \in Nat
      BY <1>5
    <3> QED BY <2>2, <3>1, <3>2
  <2> QED BY <1>5, <2>1, <2>2
<1>9. Loc(f, i).start = a /\ Loc(f, i).end = a + size
  BY <1>6
<1> HIDE DEF size, e
<1>10. Loc(f, i).start \in Nat /\ Loc(f, i).end \in Nat /\ Loc(f, i).start <= Loc(f, i).end
       /\ Loc(f, i).end - Loc(f, i).start = size
  BY <1>5, <1>8, <1>9
<1>11. e.wide => (Loc(f, i).end - Loc(f, i).start) % 2 = 0
  BY <1>5, <1>8, <1>10
<1> QED BY <1>5, <1>7, <1>10, <1>11 DEF e

\* So what it stores is a string of those bytes.
LEMMA StoredIs ==
  ASSUME NEW f, Sound(f), NEW i \in 1..Len(f.small)
  PROVE  /\ Stored(f, i) \in Storable /\ Stored(f, i).wide = f.small[i].wide
         /\ Stored(f, i).bytes \in Seq(Byte)
         /\ Len(Stored(f, i).bytes) = Loc(f, i).end - Loc(f, i).start
         /\ \A k \in 1..Loc(f, i).end - Loc(f, i).start :
              Stored(f, i).bytes[k] = f.storage[Loc(f, i).start + k]
<1> DEFINE a == Loc(f, i).start
           b == Loc(f, i).end
           s == SubSeq(f.storage, a + 1, b)
<1>1. /\ a \in Nat /\ b \in Nat /\ a <= b /\ b <= Len(f.storage) /\ f.storage \in Seq(Byte)
      /\ f.small[i].wide \in BOOLEAN /\ (f.small[i].wide => (b - a) % 2 = 0)
  BY LocIs DEF Sound
<1>2. Stored(f, i) = [wide |-> f.small[i].wide, bytes |-> s]
  BY DEF Stored
<1> HIDE DEF a, b
<1>3. /\ s \in Seq(Byte) /\ Len(s) = IF a <= b THEN b - a ELSE 0
      /\ \A k \in 1..b - a : s[k] = f.storage[k + a]
  BY <1>1, Rest
<1> HIDE DEF s
<1>4. Len(s) = b - a
  BY <1>1, <1>3
<1>5. \A k \in 1..b - a : s[k] = f.storage[a + k]
  <2> SUFFICES ASSUME NEW k \in 1..b - a PROVE s[k] = f.storage[a + k]
    OBVIOUS
  <2>1. k + a = a + k
    BY <1>1
  <2> QED BY <1>3, <2>1
<1>6. Stored(f, i).wide = f.small[i].wide /\ Stored(f, i).bytes = s
  BY <1>2
<1>7. Stored(f, i) \in Storable
  <2>1. Stored(f, i) \in [wide : BOOLEAN, bytes : Seq(Byte)]
    BY <1>1, <1>2, <1>3
  <2>2. Stored(f, i).wide => Len(Stored(f, i).bytes) % 2 = 0
    BY <1>1, <1>4, <1>6
  <2> QED BY <2>1, <2>2 DEF Storable
<1> QED BY <1>3, <1>4, <1>5, <1>6, <1>7 DEF a, b

\* The strings of the tables are the given ones, and no pinned one shares a byte.
Reads(f, strings, pinned) ==
  /\ Sound(f) /\ Len(f.small) = Len(strings)
  /\ \A i \in 1..Len(strings) : Stored(f, i) = strings[i]
  /\ Valid(f, strings, pinned) /\ Aligned(f)

\* Tables read as what they were laid out for: the result is valid.
LEMMA LaidIs ==
  ASSUME NEW strings \in Seq(Storable), NEW pinned \in SUBSET (1..Len(strings)),
         NEW packed \in BOOLEAN, NEW late \in BOOLEAN,
         NEW f, Laid(f, strings, pinned, packed, late)
  PROVE  Reads(f, strings, pinned)
<1> DEFINE N == Len(strings)
           off(i) == Off(strings, pinned, packed, late, i)
           len(i) == Len(strings[i].bytes)
           storage == Storage(strings, pinned, packed)
<1>0. LaidAs(f, strings, pinned, packed, late)
  BY EntriesAre
<1>1. /\ f.small \in Seq([wide : BOOLEAN, offset : Nat, length : Nat])
      /\ Len(f.small) = N /\ DOMAIN f.small = 1..N
      /\ f.overflow \in Seq([offset : Nat, length : Nat])
      /\ \A i \in 1..N :
              /\ f.small[i].wide = strings[i].wide
              /\ f.small[i].length = LengthOverflow => f.small[i].offset < Len(f.overflow)
              /\ Loc(f, i) = [start |-> off(i), end |-> off(i) + len(i)]
  BY <1>0 DEF LaidAs
<1>2. f.storage = storage
  BY <1>0 DEF LaidAs
<1>3. \A i \in 1..N : storage \in Seq(Byte) /\ off(i) \in Nat /\ Holds(storage, off(i), strings[i].bytes)
                      /\ (strings[i].wide => off(i) % 2 = 0)
  BY StorageIs
<1>4. storage \in Seq(Byte)
  <2> DEFINE a == Half(strings, pinned, packed)
             b == Rest16(strings, pinned, packed)
  <2>1. a \in Seq(Byte) /\ b \in Seq(Byte)
    BY HalfIs
  <2> HIDE DEF a, b
  <2>2. a \o b \in Seq(Byte)
    BY <2>1
  <2> QED BY <2>2 DEF a, b, Storage
<1>5. \A i \in 1..N : strings[i] \in Storable /\ strings[i].bytes \in Seq(Byte) /\ len(i) \in Nat
                      /\ strings[i] = [wide |-> strings[i].wide, bytes |-> strings[i].bytes]
  <2> SUFFICES ASSUME NEW i \in 1..N
               PROVE  strings[i] \in Storable /\ strings[i].bytes \in Seq(Byte) /\ len(i) \in Nat
                      /\ strings[i] = [wide |-> strings[i].wide, bytes |-> strings[i].bytes]
    OBVIOUS
  <2> DEFINE s == strings[i]
  <2>1. s \in Storable
    OBVIOUS
  <2> HIDE DEF s
  <2>2. s \in [wide : BOOLEAN, bytes : Seq(Byte)]
    BY <2>1, Zenon DEF Storable
  <2>3. s = [wide |-> s.wide, bytes |-> s.bytes] /\ s.bytes \in Seq(Byte)
    BY <2>2
  <2>4. Len(s.bytes) \in Nat
    BY <2>3
  <2> QED BY <2>1, <2>3, <2>4 DEF s
<1> HIDE DEF storage, off
<1>6. \A i \in 1..N : Loc(f, i).start = off(i) /\ Loc(f, i).end = off(i) + len(i)
                      /\ off(i) \in Nat /\ off(i) + len(i) <= Len(f.storage)
  BY <1>1, <1>2, <1>3 DEF Holds
<1>7. Sound(f)
  BY <1>1, <1>2, <1>4, <1>6 DEF Sound
<1>8. ASSUME NEW i \in 1..N PROVE Stored(f, i) = strings[i]
  <2> DEFINE s == strings[i].bytes
             t == SubSeq(f.storage, off(i) + 1, off(i) + len(i))
  <2>1. Stored(f, i) = [wide |-> strings[i].wide, bytes |-> t]
    BY <1>1, <1>6 DEF Stored
  <2>2. f.storage \in Seq(Byte) /\ s \in Seq(Byte) /\ off(i) \in Nat
        /\ off(i) + Len(s) <= Len(f.storage) /\ Holds(f.storage, off(i), s)
    BY <1>2, <1>3, <1>4, <1>5, <1>6
  <2> DEFINE o == off(i)
  <2> HIDE DEF s, o
  <2>3. SubSeq(f.storage, o + 1, o + Len(s)) = s
    BY <2>2, HoldsIsRead DEF o
  <2>4. t = s
    BY <2>3 DEF s, o
  <2> QED BY <1>5, <2>1, <2>4 DEF s
<1>9. Strings(f) = strings
  <2>1. strings = [i \in 1..N |-> strings[i]]
    OBVIOUS
  <2>2. Strings(f) = [i \in 1..N |-> Stored(f, i)]
    BY <1>1 DEF Strings
  <2> QED BY <1>8, <2>1, <2>2
<1>10. ASSUME NEW i \in pinned, Loc(f, i).start < Loc(f, i).end, Shared(f, i) PROVE FALSE
  <2>1. i \in 1..N
    OBVIOUS
  <2>2. PICK j \in 1..N \ {i} :
          /\ Loc(f, j).start < Loc(f, j).end
          /\ Loc(f, i).start < Loc(f, j).end /\ Loc(f, j).start < Loc(f, i).end
    BY <1>1, <1>10 DEF Shared
  <2> DEFINE li == len(i)
             lj == len(j)
             oi == off(i)
             oj == off(j)
  <2>3. li \in Nat /\ lj \in Nat /\ oi \in Nat /\ oj \in Nat
    BY <1>5, <1>6, <2>1
  <2>4. oi < oi + li /\ oj < oj + lj /\ oi < oj + lj /\ oj < oi + li
    BY <1>6, <1>10, <2>1, <2>2
  <2>5. li # 0 /\ lj # 0
    <3> HIDE DEF li, lj, oi, oj
    <3> QED BY <2>3, <2>4
  <2>6. strings[i].bytes # <<>> /\ strings[j].bytes # <<>>
    <3>1. Len(<<>>) = 0
      OBVIOUS
    <3> QED BY <2>5, <3>1
  <2>7. oi + li <= oj \/ oj + lj <= oi
    BY <2>1, <2>6, StorageApart DEF off
  <2> HIDE DEF li, lj, oi, oj
  <2> QED BY <2>3, <2>4, <2>7
<1>11. Valid(f, strings, pinned)
  BY <1>9, <1>10 DEF Valid
<1>12. Aligned(f)
  BY <1>1, <1>3, <1>6 DEF Aligned
<1> QED BY <1>1, <1>7, <1>8, <1>11, <1>12 DEF Reads

\* Even pieces, one after the other, have an even length.
LEMMA EvenFlat ==
  ASSUME NEW S, NEW ss \in Seq(Seq(S)), \A k \in 1..Len(ss) : Len(ss[k]) % 2 = 0
  PROVE  Len(FlattenSeq(ss)) % 2 = 0
<1>1. PICK F \in [0..Len(ss) -> Seq(S)] :
           /\ F[0] = <<>>
           /\ \A k \in 1..Len(ss) : F[k] = F[k - 1] \o ss[k]
           /\ FlattenSeq(ss) = F[Len(ss)]
  BY Flattened
<1> DEFINE T == {k \in Nat : k <= Len(ss) => Len(F[k]) % 2 = 0}
<1>2. 0 \in T
  <2>1. Len(F[0]) = 0 /\ 0 % 2 = 0
    BY <1>1
  <2> QED BY <2>1
<1>3. ASSUME NEW k \in Nat, k \in T PROVE k + 1 \in T
  <2> SUFFICES ASSUME k + 1 <= Len(ss) PROVE Len(F[k + 1]) % 2 = 0
    OBVIOUS
  <2>1. k + 1 \in 1..Len(ss) /\ (k + 1) - 1 = k /\ k \in 0..Len(ss) /\ k <= Len(ss)
    OBVIOUS
  <2> DEFINE a == F[k]
             b == ss[k + 1]
             m == Len(a)
             n == Len(b)
  <2>2. F[k + 1] = a \o b
    BY <1>1, <2>1
  <2>3. a \in Seq(S)
    BY <1>1, <2>1
  <2>4. b \in Seq(S)
    BY <2>1, ElementIn
  <2>5. m % 2 = 0
    BY <1>3, <2>1
  <2>6. n % 2 = 0
    BY <2>1
  <2> HIDE DEF a, b
  <2>7. Len(a \o b) = m + n /\ m \in Nat /\ n \in Nat
    BY <2>3, <2>4
  <2> HIDE DEF m, n
  <2>8. (m + n) % 2 = 0
    <3>1. m \in Nat /\ n \in Nat
      BY <2>7
    <3> QED BY <2>5, <2>6, <3>1, EvenSum
  <2>9. Len(F[k + 1]) = m + n
    BY <2>2, <2>7
  <2> QED BY <2>8, <2>9
<1>4. \A k \in Nat : k \in T
  <2> HIDE DEF T
  <2> QED BY <1>2, <1>3, NatInduct
<1>5. Len(ss) \in Nat /\ Len(ss) <= Len(ss)
  OBVIOUS
<1>6. Len(F[Len(ss)]) % 2 = 0
  <2>1. Len(ss) \in T
    BY <1>4, <1>5
  <2> QED BY <1>5, <2>1
<1> QED BY <1>1, <1>6

\* What an edit writes can be stored.
LEMMA ValuesAre == Values \subseteq Storable
<1> SUFFICES ASSUME NEW t \in Texts PROVE Encode(t) \in Storable
  BY DEF Values
<1>1. t \in Seq(Byte)
  BY TextsAssumption
<1>2. CASE \A n \in DOMAIN t : t[n] \in Ascii
  <2>1. Encode(t) = [wide |-> FALSE, bytes |-> t]
    BY <1>2 DEF Encode
  <2> QED BY <1>1, <2>1 DEF Storable
<1>3. CASE ~(\A n \in DOMAIN t : t[n] \in Ascii)
  <2> DEFINE ss == [n \in DOMAIN t |-> <<t[n], 0>>]
  <2>1. Encode(t) = [wide |-> TRUE, bytes |-> FlattenSeq(ss)]
    BY <1>3 DEF Encode
  <2>2. 0 \in Byte
    BY DEF Byte
  <2>3. DOMAIN t = 1..Len(t) /\ Len(t) \in Nat /\ \A n \in 1..Len(t) : t[n] \in Byte
    BY <1>1
  <2>4. \A n \in 1..Len(t) : <<t[n], 0>> \in Seq(Byte) /\ Len(<<t[n], 0>>) = 2
    BY <2>2, <2>3
  <2>5. ss \in [1..Len(t) -> Seq(Byte)] /\ \A n \in 1..Len(t) : Len(ss[n]) = 2
    BY <2>3, <2>4
  <2> HIDE DEF ss
  <2>6. ss \in Seq(Seq(Byte)) /\ Len(ss) = Len(t)
    BY <2>3, <2>5, FunIsSeq
  <2>7. \A n \in 1..Len(ss) : Len(ss[n]) % 2 = 0
    <3>1. 2 % 2 = 0
      OBVIOUS
    <3> QED BY <2>5, <2>6, <3>1, EvenSum
  <2>8. FlattenSeq(ss) \in Seq(Byte) /\ Len(FlattenSeq(ss)) % 2 = 0
    BY <2>6, <2>7, FlattenIn, EvenFlat
  <2> HIDE DEF Byte
  <2> QED BY <2>1, <2>8 DEF Storable
<1> QED BY <1>2, <1>3

----------------------------------------------------------------------------
(* Kinds and identifiers.                                                   *)

Kinds == [ident : BOOLEAN, count : Nat]

\* A run of kinds, spelt out.
Spelt(k) == [n \in 1..k.count |-> k.ident]

\* The kinds of all strings are the runs, one after the other.
LEMMA SpeltIs ==
  ASSUME NEW kinds \in Seq(Kinds)
  PROVE  /\ ExpandedKinds(kinds) = FlattenSeq([k \in DOMAIN kinds |-> Spelt(kinds[k])])
         /\ [k \in DOMAIN kinds |-> Spelt(kinds[k])] \in Seq(Seq(BOOLEAN))
         /\ Len([k \in DOMAIN kinds |-> Spelt(kinds[k])]) = Len(kinds)
         /\ ExpandedKinds(kinds) \in Seq(BOOLEAN)
<1> DEFINE ss == [k \in DOMAIN kinds |-> Spelt(kinds[k])]
<1>1. ExpandedKinds(kinds) = FlattenSeq(ss)
  BY DEF ExpandedKinds, Spelt
<1>2. DOMAIN kinds = 1..Len(kinds) /\ Len(kinds) \in Nat /\ \A k \in 1..Len(kinds) : kinds[k] \in Kinds
  OBVIOUS
<1>3. \A k \in Kinds : Spelt(k) \in Seq(BOOLEAN)
  <2> SUFFICES ASSUME NEW k \in Kinds PROVE Spelt(k) \in Seq(BOOLEAN)
    OBVIOUS
  <2>1. k.count \in Nat /\ k.ident \in BOOLEAN
    BY DEF Kinds
  <2>2. Spelt(k) \in [1..k.count -> BOOLEAN]
    BY <2>1 DEF Spelt
  <2> QED BY <2>1, <2>2, FunIsSeq
<1>4. ss \in [1..Len(kinds) -> Seq(BOOLEAN)]
  BY <1>2, <1>3
<1> HIDE DEF ss
<1>5. ss \in Seq(Seq(BOOLEAN)) /\ Len(ss) = Len(kinds)
  BY <1>2, <1>4, FunIsSeq
<1>6. FlattenSeq(ss) \in Seq(BOOLEAN)
  BY <1>5, FlattenIn
<1> QED BY <1>1, <1>5, <1>6 DEF ss

\* One run more adds its kinds at the end.
LEMMA SpeltAppend ==
  ASSUME NEW kinds \in Seq(Kinds), NEW k \in Kinds
  PROVE  ExpandedKinds(Append(kinds, k)) = ExpandedKinds(kinds) \o Spelt(k)
<1> DEFINE more == Append(kinds, k)
           ss == [j \in DOMAIN kinds |-> Spelt(kinds[j])]
           tt == [j \in DOMAIN more |-> Spelt(more[j])]
<1>1. /\ more \in Seq(Kinds) /\ Len(more) = Len(kinds) + 1 /\ Len(kinds) \in Nat
      /\ DOMAIN more = 1..Len(kinds) + 1 /\ DOMAIN kinds = 1..Len(kinds)
      /\ more[Len(kinds) + 1] = k /\ \A j \in 1..Len(kinds) : more[j] = kinds[j]
  BY AppendProperties
<1> HIDE DEF more
<1>2. /\ ExpandedKinds(kinds) = FlattenSeq(ss) /\ ss \in Seq(Seq(BOOLEAN)) /\ Len(ss) = Len(kinds)
  BY SpeltIs
<1>3. /\ ExpandedKinds(more) = FlattenSeq(tt) /\ tt \in Seq(Seq(BOOLEAN)) /\ Len(tt) = Len(kinds) + 1
  BY <1>1, SpeltIs
<1>4. tt[Len(kinds) + 1] = Spelt(k)
  BY <1>1
<1>5. \A j \in 1..Len(kinds) : tt[j] = ss[j]
  BY <1>1
<1>6. Spelt(k) \in Seq(BOOLEAN)
  <2>1. k.count \in Nat /\ k.ident \in BOOLEAN
    BY DEF Kinds
  <2>2. Spelt(k) \in [1..k.count -> BOOLEAN]
    BY <2>1 DEF Spelt
  <2> QED BY <2>1, <2>2, FunIsSeq
<1> HIDE DEF ss, tt
<1> DEFINE n == Len(kinds)
           s == Spelt(k)
<1>7. tt = Append(ss, s)
  <2> HIDE DEF n, s
  <2>1. /\ Append(ss, s) \in Seq(Seq(BOOLEAN)) /\ Len(Append(ss, s)) = n + 1
        /\ \A j \in 1..n : Append(ss, s)[j] = ss[j]
        /\ Append(ss, s)[n + 1] = s
    BY <1>2, <1>6, AppendProperties DEF n, s
  <2>2. n \in Nat /\ Len(tt) = n + 1 /\ tt \in Seq(Seq(BOOLEAN)) /\ tt[n + 1] = s
        /\ \A j \in 1..n : tt[j] = ss[j]
    BY <1>1, <1>3, <1>4, <1>5 DEF n, s
  <2>3. \A j \in 1..n + 1 : j \in 1..n \/ j = n + 1
    BY <2>2
  <2>4. \A j \in 1..n + 1 : tt[j] = Append(ss, s)[j]
    BY <2>1, <2>2, <2>3
  <2> QED BY <2>1, <2>2, <2>4, SeqEqual
<1>8. FlattenSeq(tt) = FlattenSeq(ss) \o s
  BY <1>2, <1>6, <1>7, FlattenAppend
<1> QED BY <1>2, <1>3, <1>8 DEF more

\* add_string appends one kind, whichever way it does.
LEMMA KindsGrow ==
  ASSUME NEW kinds \in Seq(Kinds), NEW ident \in BOOLEAN
  PROVE  /\ KindsWith(kinds, ident) \in Seq(Kinds)
         /\ ExpandedKinds(KindsWith(kinds, ident)) = Append(ExpandedKinds(kinds), ident)
<1> DEFINE X == ExpandedKinds(kinds)
<1>1. X \in Seq(BOOLEAN)
  BY SpeltIs
<1>2. CASE kinds # <<>> /\ Last(kinds).ident = ident
  <2> DEFINE n == Len(kinds)
             front == SubSeq(kinds, 1, n - 1)
             k == kinds[n]
             c == k.count + 1
             k2 == [ident |-> ident, count |-> c]
             with == [kinds EXCEPT ![n] = k2]
  <2>1. n \in Nat /\ n # 0 /\ n - 1 \in Nat /\ n - 1 <= n /\ (n - 1) + 1 = n /\ n \in 1..n
        /\ kinds[n] \in Kinds
    <3>1. n \in Nat /\ n # 0
      BY <1>2, EmptySeq
    <3>2. n \in 1..n /\ n - 1 \in Nat /\ n - 1 <= n /\ (n - 1) + 1 = n
      BY <3>1
    <3> QED BY <3>1, <3>2
  <2>2. k.ident = ident /\ k.count \in Nat /\ k \in Kinds /\ k = [ident |-> ident, count |-> k.count]
    BY <1>2, <2>1 DEF Last, Kinds
  <2>3. c \in Nat /\ k2 \in Kinds
    BY <2>2 DEF Kinds
  <2>4. KindsWith(kinds, ident) = with
    <3>1. KindsWith(kinds, ident) = [kinds EXCEPT ![n].count = @ + 1]
      BY <1>2 DEF KindsWith
    <3>2. [kinds[n] EXCEPT !.count = @ + 1] = k2
      BY <2>1, <2>2
    <3> QED BY <2>1, <3>1, <3>2
  <2>5. /\ front \in Seq(Kinds) /\ Len(front) = n - 1
        /\ \A i \in 1..n - 1 : front[i] = kinds[i]
    BY <2>1, Start
  <2> HIDE DEF front, k2, k
  <2>6. with \in Seq(Kinds) /\ Len(with) = n /\ with[n] = k2
        /\ \A i \in 1..n - 1 : with[i] = kinds[i]
    <3>1. with \in [1..n -> Kinds]
      BY <2>1, <2>3
    <3>2. with[n] = k2 /\ \A i \in 1..n - 1 : with[i] = kinds[i]
      <4>1. DOMAIN kinds = 1..n /\ n \in DOMAIN kinds
        BY <2>1
      <4>2. with[n] = k2
        BY <4>1
      <4>3. ASSUME NEW i \in 1..n - 1 PROVE with[i] = kinds[i]
        <5>1. i \in 1..n /\ i # n
          <6>1. n \in Nat
            BY <2>1
          <6> HIDE DEF n
          <6> QED BY <6>1
        <5> QED BY <4>1, <5>1
      <4> QED BY <4>2, <4>3
    <3> HIDE DEF with
    <3>3. with \in Seq(Kinds) /\ Len(with) = n
      BY <2>1, <3>1, FunIsSeq
    <3> QED BY <3>2, <3>3
  <2> HIDE DEF with
  <2>7. ASSUME NEW last1 \in Kinds, NEW all \in Seq(Kinds), Len(all) = n, all[n] = last1,
               \A i \in 1..n - 1 : all[i] = kinds[i]
        PROVE  all = Append(front, last1)
    <3>1. /\ Append(front, last1) \in Seq(Kinds) /\ Len(Append(front, last1)) = (n - 1) + 1
          /\ \A i \in 1..n - 1 : Append(front, last1)[i] = front[i]
          /\ Append(front, last1)[(n - 1) + 1] = last1
      BY <2>5, AppendProperties
    <3>2. \A i \in 1..n : i \in 1..n - 1 \/ i = n
      <4>1. n \in Nat
        BY <2>1
      <4> HIDE DEF n
      <4> QED BY <4>1
    <3>3. \A i \in 1..n : all[i] = Append(front, last1)[i]
      BY <2>1, <2>5, <2>7, <3>1, <3>2
    <3> QED BY <2>1, <2>7, <3>1, <3>3, SeqEqual
  <2>8. kinds = Append(front, k) /\ with = Append(front, k2)
    <3>1. kinds[n] = k
      BY DEF k
    <3> QED BY <2>2, <2>3, <2>6, <2>7, <3>1
  <2>9. X = ExpandedKinds(front) \o Spelt(k) /\ ExpandedKinds(with) = ExpandedKinds(front) \o Spelt(k2)
    BY <2>2, <2>3, <2>5, <2>8, SpeltAppend
  <2>10. Spelt(k) \in Seq(BOOLEAN) /\ Spelt(k2) = Append(Spelt(k), ident)
    <3> DEFINE m == k.count
               s == Spelt(k)
               t == Spelt(k2)
    <3>1. m \in Nat /\ k2.count = m + 1 /\ k2.ident = ident
      BY <2>2 DEF k2
    <3>2. s = [i \in 1..m |-> ident]
      BY <2>2 DEF Spelt
    <3>3. t = [i \in 1..m + 1 |-> ident]
      BY <3>1 DEF Spelt
    <3> HIDE DEF m, s, t
    <3>4. s \in [1..m -> BOOLEAN] /\ t \in [1..m + 1 -> BOOLEAN] /\ m + 1 \in Nat
      BY <3>1, <3>2, <3>3
    <3>5. s \in Seq(BOOLEAN) /\ Len(s) = m /\ t \in Seq(BOOLEAN) /\ Len(t) = m + 1
      BY <3>1, <3>4, FunIsSeq
    <3>6. /\ Append(s, ident) \in Seq(BOOLEAN) /\ Len(Append(s, ident)) = m + 1
          /\ \A i \in 1..m : Append(s, ident)[i] = s[i]
          /\ Append(s, ident)[m + 1] = ident
      BY <3>5, AppendProperties
    <3>7. \A i \in 1..m + 1 : i \in 1..m \/ i = m + 1
      BY <3>1
    <3>8. \A i \in 1..m + 1 : t[i] = Append(s, ident)[i]
      BY <3>2, <3>3, <3>6, <3>7
    <3>9. t = Append(s, ident)
      BY <3>5, <3>6, <3>8, SeqEqual
    <3> QED BY <3>5, <3>9 DEF s, t
  <2>11. ExpandedKinds(front) \in Seq(BOOLEAN)
    BY <2>5, SpeltIs
  <2> DEFINE A == ExpandedKinds(front)
             s == Spelt(k)
  <2>12. A \o Append(s, ident) = Append(A \o s, ident)
    <3>1. A \in Seq(BOOLEAN) /\ s \in Seq(BOOLEAN)
      BY <2>10, <2>11
    <3> HIDE DEF A, s
    <3> QED BY <3>1, AppendIsConcat, ConcatAssociative
  <2> QED BY <2>4, <2>6, <2>9, <2>10, <2>12
<1>3. CASE ~(kinds # <<>> /\ Last(kinds).ident = ident)
  <2> DEFINE k == [ident |-> ident, count |-> 1]
  <2>1. KindsWith(kinds, ident) = Append(kinds, k)
    BY <1>3 DEF KindsWith
  <2>2. k \in Kinds /\ k.count = 1 /\ k.ident = ident
    BY DEF Kinds
  <2> HIDE DEF k
  <2>3. Append(kinds, k) \in Seq(Kinds) /\ ExpandedKinds(Append(kinds, k)) = X \o Spelt(k)
    BY <2>2, SpeltAppend, AppendProperties
  <2>4. Spelt(k) = <<ident>>
    <3>1. Spelt(k) = [i \in 1..1 |-> ident]
      BY <2>2 DEF Spelt
    <3> QED BY <3>1
  <2> HIDE DEF X
  <2>5. X \o <<ident>> = Append(X, ident)
    BY <1>1, AppendIsConcat
  <2> QED BY <2>1, <2>3, <2>4, <2>5 DEF X
<1> QED BY <1>2, <1>3

\* The identifiers among strings of the given kinds, and the hash each has.
Ids(X) == {i \in DOMAIN X : X[i]}
Index(X, i) == Cardinality({j \in 1..i : j \in DOMAIN X /\ X[j]})

\* Identifiers are numbered from 1, each differently.
LEMMA IndexIs ==
  ASSUME NEW X \in Seq(BOOLEAN)
  PROVE  /\ Cardinality(Ids(X)) \in Nat
         /\ \A i \in Ids(X) : Index(X, i) \in 1..Cardinality(Ids(X))
         /\ \A i, j \in Ids(X) : Index(X, i) = Index(X, j) => i = j
<1> DEFINE A == Ids(X)
           n == Len(X)
           c == Cardinality(A)
<1>1. n \in Nat /\ A \in SUBSET (1..n) /\ DOMAIN X = 1..n
  BY DEF Ids
<1>2. ASSUME NEW i \in A
      PROVE  Index(X, i) = Cardinality(Before(A, i)) + 1 /\ Cardinality(Before(A, i)) \in Nat
             /\ Cardinality(Before(A, i)) < c
  <2>1. {j \in 1..i : j \in DOMAIN X /\ X[j]} = Before(A, i) \cup {i}
    <3>1. \A j \in 1..n : j \in 1..i <=> j < i \/ j = i
      BY <1>1
    <3>2. \A j \in 1..i : j \in DOMAIN X /\ X[j] <=> j \in A
      BY DEF Ids
    <3>3. \A j : j \in {x \in 1..i : x \in DOMAIN X /\ X[x]} <=> j \in A /\ j \in 1..i
      BY <3>2 DEF Ids
    <3>4. i \in 1..i
      BY <1>1
    <3> HIDE DEF A
    <3>5. \A j : j \in Before(A, i) \cup {i} <=> j \in A /\ j \in 1..i
      BY <1>1, <3>1, <3>4 DEF Before
    <3> QED BY <3>3, <3>5
  <2> HIDE DEF A, n
  <2>2. Before(A, i) \in SUBSET (1..n) /\ i \notin Before(A, i)
    <3>1. i \in Nat /\ ~(i < i)
      BY <1>1
    <3>2. Before(A, i) \in SUBSET (1..n)
      BY <1>1 DEF Before
    <3> QED BY <3>1, <3>2 DEF Before
  <2>3. IsFiniteSet(Before(A, i))
    BY <1>1, <2>2, Upto
  <2>4. Cardinality(Before(A, i) \cup {i}) = Cardinality(Before(A, i)) + 1
    BY <2>2, <2>3, FS_AddElement
  <2>5. Cardinality(Before(A, i)) \in Nat /\ Cardinality(Before(A, i)) < Cardinality(A)
    BY <1>1, RankIn
  <2> QED BY <2>1, <2>4, <2>5 DEF Index
<1> HIDE DEF A, n
<1>3. c \in Nat
  BY <1>1, Upto
<1>4. ASSUME NEW i \in A, NEW j \in A, Index(X, i) = Index(X, j) PROVE i = j
  <2>1. i \in Nat /\ j \in Nat
    BY <1>1
  <2>2. Cardinality(Before(A, i)) = Cardinality(Before(A, j))
    BY <1>2, <1>4
  <2>3. ASSUME NEW x \in A, NEW y \in A, x < y, Cardinality(Before(A, x)) = Cardinality(Before(A, y))
        PROVE  FALSE
    <3>1. Cardinality(Before(A, x)) < Cardinality(Before(A, y))
      BY <1>1, <2>3, RankGrows
    <3>2. Cardinality(Before(A, y)) \in Nat
      BY <1>2
    <3> QED BY <2>3, <3>1, <3>2
  <2>4. ~(i < j) /\ ~(j < i)
    BY <2>2, <2>3
  <2> QED BY <2>1, <2>4
<1> HIDE DEF c
<1>5. \A i \in A : Index(X, i) \in 1..c
  BY <1>2, <1>3
<1> QED BY <1>3, <1>4, <1>5 DEF A, c

\* identifier_index counts the identifiers up to a string.
LEMMA IndexInFile ==
  ASSUME NEW f, Len(ExpandedKinds(f.kinds)) = Len(f.small),
         DOMAIN f.small = 1..Len(f.small), f.kinds \in Seq(Kinds)
  PROVE  /\ Identifiers(f) = Ids(ExpandedKinds(f.kinds))
         /\ \A i : IdentifierIndex(f, i) = Index(ExpandedKinds(f.kinds), i)
         /\ \A i : IsIdentifier(f, i) <=> i \in Ids(ExpandedKinds(f.kinds))
<1> DEFINE X == ExpandedKinds(f.kinds)
<1>1. X \in Seq(BOOLEAN)
  BY SpeltIs
<1>2. DOMAIN X = DOMAIN f.small
  BY <1>1
<1>3. \A i : IsIdentifier(f, i) <=> i \in DOMAIN X /\ X[i]
  BY DEF IsIdentifier
<1> HIDE DEF X
<1>4. Identifiers(f) = Ids(X)
  BY <1>2, <1>3 DEF Identifiers, Ids
<1>5. \A i : IdentifierIndex(f, i) = Index(X, i)
  <2> SUFFICES ASSUME NEW i PROVE IdentifierIndex(f, i) = Index(X, i)
    OBVIOUS
  <2>1. {j \in 1..i : IsIdentifier(f, j)} = {j \in 1..i : j \in DOMAIN X /\ X[j]}
    BY <1>3
  <2> QED BY <2>1 DEF IdentifierIndex, Index
<1>6. \A i : IsIdentifier(f, i) <=> i \in Ids(X)
  BY <1>3 DEF Ids
<1> QED BY <1>4, <1>5, <1>6 DEF X

\* A hash for each identifier, but for texts the parsed model need not have.
Excused(s) == s.bytes = <<>> \/ Lone \in Range(s.bytes)

\* HashesMatch in these terms.
LEMMA HashesAre ==
  ASSUME NEW f, Len(ExpandedKinds(f.kinds)) = Len(f.small),
         DOMAIN f.small = 1..Len(f.small), f.kinds \in Seq(Kinds)
  PROVE  LET X == ExpandedKinds(f.kinds) IN
         HashesMatch(f) <=>
           /\ Len(f.hashes) = Cardinality(Ids(X))
           /\ \A i \in Ids(X) : f.hashes[Index(X, i)] = Stored(f, i) \/ Excused(Stored(f, i))
<1> DEFINE X == ExpandedKinds(f.kinds)
<1>1. Identifiers(f) = Ids(X) /\ \A i : IdentifierIndex(f, i) = Index(X, i)
  BY IndexInFile
<1>2. HashesMatch(f) <=>
        /\ Len(f.hashes) = Cardinality(Identifiers(f))
        /\ \A i \in Identifiers(f) :
             f.hashes[IdentifierIndex(f, i)] = Stored(f, i) \/ Excused(Stored(f, i))
  BY DEF HashesMatch, Excused
<1> HIDE DEF X
<1>3. HashesMatch(f) <=>
           /\ Len(f.hashes) = Cardinality(Ids(X))
           /\ \A i \in Ids(X) : f.hashes[Index(X, i)] = Stored(f, i) \/ Excused(Stored(f, i))
  BY <1>1, <1>2
<1> QED BY <1>3 DEF X

\* One string changes, and its hash with it.
LEMMA HashesKept ==
  ASSUME NEW f, Len(ExpandedKinds(f.kinds)) = Len(f.small), DOMAIN f.small = 1..Len(f.small),
         f.kinds \in Seq(Kinds), f.hashes \in Seq(Hash), HashesMatch(f),
         NEW i, NEW value \in Hash,
         NEW g, g.kinds = f.kinds, Len(g.small) = Len(f.small), DOMAIN g.small = 1..Len(g.small),
         g.hashes = Rehashed(f, i, value),
         \A j \in 1..Len(f.small) : j # i => Stored(g, j) = Stored(f, j),
         value = Stored(g, i) \/ Excused(Stored(g, i))
  PROVE  HashesMatch(g) /\ g.hashes \in Seq(Hash)
<1> DEFINE X == ExpandedKinds(f.kinds)
           h == f.hashes
           c == Cardinality(Ids(X))
<1>1. X \in Seq(BOOLEAN)
  BY SpeltIs
<1>2. /\ Len(h) = c
      /\ \A j \in Ids(X) : h[Index(X, j)] = Stored(f, j) \/ Excused(Stored(f, j))
  BY HashesAre
<1>3. HashesMatch(g) <=>
        /\ Len(g.hashes) = c
        /\ \A j \in Ids(X) : g.hashes[Index(X, j)] = Stored(g, j) \/ Excused(Stored(g, j))
  <2>1. LET Y == ExpandedKinds(g.kinds) IN
        HashesMatch(g) <=>
           /\ Len(g.hashes) = Cardinality(Ids(Y))
           /\ \A j \in Ids(Y) : g.hashes[Index(Y, j)] = Stored(g, j) \/ Excused(Stored(g, j))
    BY HashesAre
  <2> QED BY <2>1
<1>4. IsIdentifier(f, i) <=> i \in Ids(X)
  BY IndexInFile
<1>5. IdentifierIndex(f, i) = Index(X, i)
  BY IndexInFile
<1>6. /\ c \in Nat /\ \A j \in Ids(X) : Index(X, j) \in 1..c
      /\ \A j, k \in Ids(X) : Index(X, j) = Index(X, k) => j = k
  BY <1>1, IndexIs
<1>7. \A j \in Ids(X) : j \in 1..Len(f.small)
  BY <1>1 DEF Ids
<1> HIDE DEF X, h, c
<1>8. h \in Seq(Hash)
  BY DEF h
<1>9. CASE i \in Ids(X)
  <2>1. g.hashes = [h EXCEPT ![Index(X, i)] = value]
    BY <1>4, <1>5, <1>9 DEF Rehashed, h
  <2>2. DOMAIN h = 1..c /\ Index(X, i) \in 1..c
    BY <1>2, <1>6, <1>8, <1>9
  <2>3. g.hashes[Index(X, i)] = value /\ \A k \in 1..c : k # Index(X, i) => g.hashes[k] = h[k]
    BY <2>1, <2>2
  <2>4. g.hashes \in [1..c -> Hash]
    <3>1. h \in [1..c -> Hash]
      <4>1. h \in [1..Len(h) -> Hash]
        BY <1>8
      <4> QED BY <1>2, <4>1
    <3> QED BY <2>1, <2>2, <3>1
  <2>5. g.hashes \in Seq(Hash) /\ Len(g.hashes) = c
    BY <1>6, <2>4, FunIsSeq
  <2>6. ASSUME NEW j \in Ids(X)
        PROVE  g.hashes[Index(X, j)] = Stored(g, j) \/ Excused(Stored(g, j))
    <3>1. CASE j = i
      BY <2>3, <3>1
    <3>2. CASE j # i
      <4>1. Index(X, j) # Index(X, i) /\ Index(X, j) \in 1..c
        BY <1>6, <1>9, <3>2
      <4>2. g.hashes[Index(X, j)] = h[Index(X, j)]
        BY <2>3, <4>1
      <4>3. Stored(g, j) = Stored(f, j)
        BY <1>7, <3>2
      <4> QED BY <1>2, <4>2, <4>3
    <3> QED BY <3>1, <3>2
  <2> QED BY <1>3, <2>5, <2>6
<1>10. CASE i \notin Ids(X)
  <2>1. g.hashes = h
    BY <1>4, <1>10 DEF Rehashed, h
  <2>2. \A j \in Ids(X) : Stored(g, j) = Stored(f, j)
    BY <1>7, <1>10
  <2> QED BY <1>2, <1>3, <1>8, <2>1, <2>2
<1> QED BY <1>9, <1>10

\* Y has the k kinds of X and one more.
Grown(X, Y, k, ident) ==
  /\ \A i \in Ids(X) : i \in Ids(Y) /\ Index(Y, i) = Index(X, i)
  /\ \A i \in Ids(Y) : i \in Ids(X) \/ i = k + 1
  /\ ident = TRUE => /\ k + 1 \in Ids(Y)
                     /\ Index(Y, k + 1) = Cardinality(Ids(X)) + 1
                     /\ Cardinality(Ids(Y)) = Cardinality(Ids(X)) + 1
  /\ ident = FALSE => k + 1 \notin Ids(Y) /\ Cardinality(Ids(Y)) = Cardinality(Ids(X))

\* One more kind: the indices so far stay, and the new one comes last.
LEMMA IndexGrows ==
  ASSUME NEW X \in Seq(BOOLEAN), NEW ident \in BOOLEAN
  PROVE  Grown(X, Append(X, ident), Len(X), ident)
<1> DEFINE Y == Append(X, ident)
           n == Len(X)
           A == Ids(X)
           B == Ids(Y)
           c == Cardinality(A)
<1>1. /\ Y \in Seq(BOOLEAN) /\ Len(Y) = n + 1 /\ n \in Nat
      /\ \A i \in 1..n : Y[i] = X[i]
      /\ Y[n + 1] = ident
  BY AppendProperties
<1> HIDE DEF Y
<1>2. DOMAIN X = 1..n /\ DOMAIN Y = 1..n + 1
  BY <1>1
<1> HIDE DEF n
<1>3. \A i \in 1..n + 1 : i \in 1..n \/ i = n + 1
  BY <1>1
<1>4. n + 1 \in 1..n + 1 /\ n + 1 \notin 1..n /\ \A i \in 1..n : i \in 1..n + 1
  BY <1>1
<1>5. \A i \in A : i \in 1..n /\ i \in B
  BY <1>1, <1>2, <1>4 DEF Ids
<1>6. \A i \in B : i \in A \/ i = n + 1
  BY <1>1, <1>2, <1>3 DEF Ids
<1>7. n + 1 \in B <=> ident = TRUE
  BY <1>1, <1>2, <1>4 DEF Ids
<1>8. ASSUME NEW i \in A PROVE Index(Y, i) = Index(X, i)
  <2>1. \A j \in 1..i : j \in 1..n
    BY <1>1, <1>5
  <2>2. {j \in 1..i : j \in DOMAIN X /\ X[j]} = {j \in 1..i : j \in DOMAIN Y /\ Y[j]}
    BY <1>1, <1>2, <1>4, <2>1
  <2> QED BY <2>2 DEF Index
<1>9. A \in SUBSET (1..n) /\ n + 1 \notin A
  BY <1>4, <1>5
<1>10. IsFiniteSet(A) /\ c \in Nat
  BY <1>1, <1>9, Upto
<1>11. ident = FALSE => B = A
  BY <1>5, <1>6, <1>7
<1>12. ident = TRUE => B = A \cup {n + 1}
  BY <1>5, <1>6, <1>7
<1>13. ident = TRUE => Index(Y, n + 1) = Cardinality(B)
  <2>1. {j \in 1..n + 1 : j \in DOMAIN Y /\ Y[j]} = B
    BY <1>2 DEF Ids
  <2> QED BY <2>1 DEF Index
<1> HIDE DEF A, B
<1>14. Cardinality(A \cup {n + 1}) = c + 1
  BY <1>9, <1>10, FS_AddElement
<1> QED BY <1>5, <1>6, <1>7, <1>8, <1>11, <1>12, <1>13, <1>14 DEF Grown, A, B, Y, n

\* A string is added, and its hash with it if it is an identifier.
LEMMA HashesGrow ==
  ASSUME NEW f, Len(ExpandedKinds(f.kinds)) = Len(f.small), DOMAIN f.small = 1..Len(f.small),
         Len(f.small) \in Nat, f.kinds \in Seq(Kinds), f.hashes \in Seq(Hash), HashesMatch(f),
         NEW value \in Hash, NEW ident \in BOOLEAN,
         NEW g, g.kinds = KindsWith(f.kinds, ident), Len(g.small) = Len(f.small) + 1,
         DOMAIN g.small = 1..Len(g.small),
         g.hashes = IF ident THEN Append(f.hashes, value) ELSE f.hashes,
         \A j \in 1..Len(f.small) : Stored(g, j) = Stored(f, j),
         Stored(g, Len(f.small) + 1) = value
  PROVE  /\ HashesMatch(g) /\ g.hashes \in Seq(Hash)
         /\ Len(ExpandedKinds(g.kinds)) = Len(g.small) /\ g.kinds \in Seq(Kinds)
<1> DEFINE X == ExpandedKinds(f.kinds)
           Y == Append(X, ident)
           h == f.hashes
           n == Len(f.small)
           c == Cardinality(Ids(X))
<1>1. X \in Seq(BOOLEAN) /\ Len(X) = n /\ n \in Nat
  BY SpeltIs
<1>2. g.kinds \in Seq(Kinds) /\ ExpandedKinds(g.kinds) = Y
  BY KindsGrow
<1>3. Len(ExpandedKinds(g.kinds)) = Len(g.small)
  <2>1. Len(Y) = Len(X) + 1
    <3> HIDE DEF X
    <3> QED BY <1>1, AppendProperties
  <2> QED BY <1>1, <1>2, <2>1
<1>4. /\ Len(h) = c
      /\ \A j \in Ids(X) : h[Index(X, j)] = Stored(f, j) \/ Excused(Stored(f, j))
  BY HashesAre
<1>5. HashesMatch(g) <=>
        /\ Len(g.hashes) = Cardinality(Ids(Y))
        /\ \A j \in Ids(Y) : g.hashes[Index(Y, j)] = Stored(g, j) \/ Excused(Stored(g, j))
  <2>1. LET Z == ExpandedKinds(g.kinds) IN
        HashesMatch(g) <=>
           /\ Len(g.hashes) = Cardinality(Ids(Z))
           /\ \A j \in Ids(Z) : g.hashes[Index(Z, j)] = Stored(g, j) \/ Excused(Stored(g, j))
    BY <1>2, <1>3, HashesAre
  <2> HIDE DEF Y
  <2> QED BY <1>2, <2>1
<1>6. /\ c \in Nat /\ \A j \in Ids(X) : Index(X, j) \in 1..c
  BY <1>1, IndexIs
<1>7. /\ \A i \in Ids(X) : i \in Ids(Y) /\ Index(Y, i) = Index(X, i)
      /\ \A i \in Ids(Y) : i \in Ids(X) \/ i = n + 1
      /\ ident = TRUE => /\ n + 1 \in Ids(Y) /\ Index(Y, n + 1) = c + 1
                         /\ Cardinality(Ids(Y)) = c + 1
      /\ ident = FALSE => n + 1 \notin Ids(Y) /\ Cardinality(Ids(Y)) = c
  <2> HIDE DEF X
  <2>1. Grown(X, Y, n, ident)
    BY <1>1, IndexGrows
  <2> QED BY <2>1 DEF Grown
<1>8. \A j \in Ids(X) : j \in 1..n
  BY <1>1 DEF Ids
<1> HIDE DEF X, Y, c, h
<1>9. h \in Seq(Hash)
  BY DEF h
<1>10. CASE ident = TRUE
  <2>1. g.hashes = Append(h, value)
    BY <1>10 DEF h
  <2>2. /\ g.hashes \in Seq(Hash) /\ Len(g.hashes) = c + 1
        /\ \A k \in 1..c : g.hashes[k] = h[k]
        /\ g.hashes[c + 1] = value
    <3>1. /\ Append(h, value) \in Seq(Hash) /\ Len(Append(h, value)) = Len(h) + 1
          /\ \A k \in 1..Len(h) : Append(h, value)[k] = h[k]
          /\ Append(h, value)[Len(h) + 1] = value
      BY <1>9, AppendProperties
    <3> QED BY <1>4, <2>1, <3>1
  <2>3. ASSUME NEW j \in Ids(Y)
        PROVE  g.hashes[Index(Y, j)] = Stored(g, j) \/ Excused(Stored(g, j))
    <3>1. CASE j = n + 1
      <4>1. g.hashes[Index(Y, j)] = value
        BY <1>7, <1>10, <2>2, <3>1
      <4>2. Stored(g, j) = value
        BY <3>1
      <4> QED BY <4>1, <4>2
    <3>2. CASE j \in Ids(X)
      <4>1. g.hashes[Index(Y, j)] = h[Index(X, j)]
        BY <1>6, <1>7, <2>2, <3>2
      <4>2. Stored(g, j) = Stored(f, j)
        BY <1>8, <3>2
      <4> QED BY <1>4, <3>2, <4>1, <4>2
    <3> QED BY <1>7, <3>1, <3>2
  <2> QED BY <1>2, <1>3, <1>5, <1>7, <1>10, <2>2, <2>3
<1>11. CASE ident = FALSE
  <2>1. g.hashes = h
    BY <1>11 DEF h
  <2>2. ASSUME NEW j \in Ids(Y)
        PROVE  g.hashes[Index(Y, j)] = Stored(g, j) \/ Excused(Stored(g, j))
    <3>1. j \in Ids(X)
      BY <1>7, <1>11
    <3>2. Stored(g, j) = Stored(f, j) /\ Index(Y, j) = Index(X, j)
      BY <1>7, <1>8, <3>1
    <3> QED BY <1>4, <2>1, <3>1, <3>2
  <2> QED BY <1>2, <1>3, <1>4, <1>5, <1>7, <1>9, <1>11, <2>1, <2>2
<1> QED BY <1>10, <1>11

\* What the parsed model has for a string, and its hash.
LEMMA ParsedIs ==
  ASSUME NEW f, Sound(f), NEW i \in 1..Len(f.small)
  PROVE  /\ Parsed(f, i) \in Hash
         /\ Parsed(f, i) = Stored(f, i) \/ Excused(Stored(f, i))
<1> DEFINE s == Stored(f, i)
           b == s.bytes
           p == [n \in DOMAIN b |-> IF b[n] = Lone THEN Replacement ELSE b[n]]
           r == [s EXCEPT !.bytes = p]
           a == Loc(f, i).start
           z == Loc(f, i).end
<1>1. s \in Storable /\ b \in Seq(Byte) /\ Len(b) = z - a
  BY StoredIs
<1>2. a \in Nat /\ z \in Nat /\ a <= z /\ z <= Len(f.storage)
  BY LocIs
<1>3. Parsed(f, i) = IF a >= Len(f.storage) \/ z > Len(f.storage) THEN Misread ELSE r
  BY DEF Parsed
<1>4. Len(f.storage) \in Nat
  BY DEF Sound
<1> HIDE DEF s, a, z
<1>5. CASE a >= Len(f.storage)
  <2>1. Len(b) = 0
    BY <1>1, <1>2, <1>4, <1>5
  <2>2. b = <<>>
    BY <1>1, <2>1, EmptySeq
  <2>3. Parsed(f, i) = Misread
    BY <1>3, <1>5
  <2> QED BY <2>2, <2>3 DEF Hash, Excused, s
<1>6. CASE a < Len(f.storage)
  <2>1. Parsed(f, i) = r
    BY <1>2, <1>3, <1>4, <1>6
  <2>2. s = [wide |-> s.wide, bytes |-> b] /\ s.wide \in BOOLEAN
    BY <1>1 DEF Storable
  <2>3. r = [wide |-> s.wide, bytes |-> p]
    BY <2>2
  <2>4. DOMAIN b = 1..Len(b) /\ Len(b) \in Nat /\ \A n \in 1..Len(b) : b[n] \in Byte
    BY <1>1
  <2>5. p \in [1..Len(b) -> Byte \cup {Replacement}]
    BY <2>4
  <2>6. p \in Seq(Byte \cup {Replacement})
    <3> HIDE DEF p
    <3> QED BY <2>4, <2>5, FunIsSeq
  <2>7. r \in Hash
    <3> HIDE DEF p
    <3> QED BY <2>2, <2>3, <2>6 DEF Hash
  <2>8. ASSUME Lone \notin Range(b) PROVE r = s
    <3>1. \A n \in 1..Len(b) : b[n] # Lone
      BY <2>4, <2>8 DEF Range
    <3>2. p = [n \in 1..Len(b) |-> b[n]]
      BY <2>4, <3>1
    <3>3. b = [n \in 1..Len(b) |-> b[n]]
      BY <1>1, <2>4
    <3> HIDE DEF p
    <3> QED BY <2>2, <2>3, <3>2, <3>3
  <2> QED BY <2>1, <2>7, <2>8 DEF Excused, s
<1> QED BY <1>2, <1>4, <1>5, <1>6

----------------------------------------------------------------------------
(* The edits.                                                               *)

\* A well-formed table, by the parts the proofs use.
LEMMA WellFormedIs ==
  ASSUME NEW f
  PROVE  /\ WellFormed(f) <=>
              /\ f \in Tables /\ Sound(f) /\ Len(ExpandedKinds(f.kinds)) = Len(f.small)
              /\ HashesMatch(f) /\ Aligned(f)
         /\ WellFormed(f) =>
              /\ f.kinds \in Seq(Kinds) /\ f.hashes \in Seq(Hash)
              /\ Len(f.small) \in Nat /\ DOMAIN f.small = 1..Len(f.small)
<1>1. ASSUME f \in Tables
      PROVE  /\ f.kinds \in Seq(Kinds) /\ f.hashes \in Seq(Hash)
             /\ f.small \in Seq([wide : BOOLEAN, offset : Nat, length : Nat])
             /\ f.overflow \in Seq([offset : Nat, length : Nat]) /\ f.storage \in Seq(Byte)
  BY <1>1 DEF Tables, Kinds
<1>2. ASSUME f \in Tables
      PROVE  Len(f.small) \in Nat /\ DOMAIN f.small = 1..Len(f.small)
  BY <1>1, <1>2
<1>3. ASSUME f \in Tables
      PROVE  Sound(f) <=> \A i \in DOMAIN f.small :
                 /\ f.small[i].length = LengthOverflow => f.small[i].offset < Len(f.overflow)
                 /\ Loc(f, i).end <= Len(f.storage)
  <2>1. /\ f.small \in Seq([wide : BOOLEAN, offset : Nat, length : Nat])
        /\ f.overflow \in Seq([offset : Nat, length : Nat]) /\ f.storage \in Seq(Byte)
        /\ DOMAIN f.small = 1..Len(f.small)
    BY <1>1, <1>2, <1>3
  <2> QED BY <2>1 DEF Sound
<1> QED BY <1>1, <1>2, <1>3 DEF WellFormed

\* The strings of a well-formed table.
LEMMA StringsAre ==
  ASSUME NEW f, WellFormed(f)
  PROVE  /\ Strings(f) \in Seq(Storable) /\ Len(Strings(f)) = Len(f.small)
         /\ DOMAIN Strings(f) = 1..Len(f.small)
         /\ \A i \in 1..Len(f.small) : Strings(f)[i] = Stored(f, i)
<1>1. Sound(f) /\ Len(f.small) \in Nat /\ DOMAIN f.small = 1..Len(f.small)
  BY WellFormedIs
<1>2. Strings(f) = [i \in 1..Len(f.small) |-> Stored(f, i)]
  BY <1>1 DEF Strings
<1>3. Strings(f) \in [1..Len(f.small) -> Storable]
  BY <1>1, <1>2, StoredIs
<1>4. Strings(f) \in Seq(Storable) /\ Len(Strings(f)) = Len(f.small)
  BY <1>1, <1>3, FunIsSeq
<1> QED BY <1>2, <1>4

\* A string is its own hash.
LEMMA StorableHashes == Storable \subseteq Hash
<1>1. Seq(Byte) \subseteq Seq(Byte \cup {Replacement})
  <2> SUFFICES ASSUME NEW s \in Seq(Byte) PROVE s \in Seq(Byte \cup {Replacement})
    OBVIOUS
  <2>1. Byte \in SUBSET (Byte \cup {Replacement})
    OBVIOUS
  <2> QED BY <2>1, WiderSeq
<1>2. [wide : BOOLEAN, bytes : Seq(Byte)] \subseteq [wide : BOOLEAN, bytes : Seq(Byte \cup {Replacement})]
  BY <1>1
<1> QED BY <1>2 DEF Storable, Hash

\* The tables of g show what those of f do, but for string i.
Shows(f, g, i, value) ==
  /\ g.kinds = f.kinds /\ Len(g.small) = Len(f.small) /\ DOMAIN g.small = 1..Len(g.small)
  /\ Stored(g, i) = value
  /\ \A j \in 1..Len(f.small) : j # i => Stored(g, j) = Stored(f, j)

IsTable(g) == g = [kinds |-> g.kinds, hashes |-> g.hashes, small |-> g.small,
                   overflow |-> g.overflow, storage |-> g.storage]

\* So they are well formed if they are sound.
LEMMA ShownIsWellFormed ==
  ASSUME NEW f, WellFormed(f), NEW i, NEW value, NEW hash \in Hash, hash = value \/ Excused(value),
         NEW g, Shows(f, g, i, value), Sound(g), Aligned(g), g.hashes = Rehashed(f, i, hash),
         IsTable(g)
  PROVE  WellFormed(g)
<1>1. /\ Len(ExpandedKinds(f.kinds)) = Len(f.small) /\ HashesMatch(f)
      /\ f.kinds \in Seq(Kinds) /\ f.hashes \in Seq(Hash)
      /\ Len(f.small) \in Nat /\ DOMAIN f.small = 1..Len(f.small)
  BY WellFormedIs
<1>2. /\ g.kinds = f.kinds /\ Len(g.small) = Len(f.small) /\ DOMAIN g.small = 1..Len(g.small)
      /\ \A j \in 1..Len(f.small) : j # i => Stored(g, j) = Stored(f, j)
      /\ hash = Stored(g, i) \/ Excused(Stored(g, i))
  BY DEF Shows
<1>3. HashesMatch(g) /\ g.hashes \in Seq(Hash)
  BY <1>1, <1>2, HashesKept
<1>4. g \in Tables
  <2>1. /\ g.small \in Seq([wide : BOOLEAN, offset : Nat, length : Nat])
        /\ g.overflow \in Seq([offset : Nat, length : Nat]) /\ g.storage \in Seq(Byte)
        /\ g.kinds \in Seq([ident : BOOLEAN, count : Nat])
    BY <1>1, <1>2 DEF Sound, Kinds
  <2> DEFINE k == g.kinds
             h == g.hashes
             s == g.small
             o == g.overflow
             b == g.storage
  <2>2. g = [kinds |-> k, hashes |-> h, small |-> s, overflow |-> o, storage |-> b]
    BY DEF IsTable
  <2>3. /\ k \in Seq([ident : BOOLEAN, count : Nat]) /\ h \in Seq(Hash) /\ b \in Seq(Byte)
        /\ s \in Seq([wide : BOOLEAN, offset : Nat, length : Nat])
        /\ o \in Seq([offset : Nat, length : Nat])
    BY <1>3, <2>1
  <2> HIDE DEF k, h, s, o, b
  <2> QED BY <2>2, <2>3 DEF Tables
<1> QED BY <1>1, <1>2, <1>3, <1>4, WellFormedIs

\* patch_string_resize: the storage is laid out anew.
LEMMA Rebuilt ==
  ASSUME NEW f, WellFormed(f), NEW i \in 1..Len(f.small), NEW value \in Values,
         NEW packed \in BOOLEAN, NEW late \in BOOLEAN,
         NEW strings, strings = [Strings(f) EXCEPT ![i] = value],
         NEW laid, laid = LayOut(strings, {i}, packed, late),
         NEW g, g = [f EXCEPT !.small = laid.small, !.overflow = laid.overflow,
                              !.storage = laid.storage, !.hashes = Rehashed(f, i, value)]
  PROVE  Valid(g, strings, {i}) /\ WellFormed(g) /\ Shows(f, g, i, value)
<1> DEFINE n == Len(f.small)
<1>1. /\ Strings(f) \in Seq(Storable) /\ Len(Strings(f)) = n /\ n \in Nat
      /\ DOMAIN Strings(f) = 1..n /\ DOMAIN f.small = 1..n
      /\ \A j \in 1..n : Strings(f)[j] = Stored(f, j)
  BY StringsAre, WellFormedIs
<1>2. value \in Storable /\ value \in Hash
  BY ValuesAre, StorableHashes
<1>3. /\ strings \in Seq(Storable) /\ Len(strings) = n /\ strings[i] = value
      /\ \A j \in 1..n : j # i => strings[j] = Stored(f, j)
  <2>1. strings[i] = value /\ \A j \in 1..n : j # i => strings[j] = Stored(f, j)
    BY <1>1
  <2>2. strings \in [1..n -> Storable]
    <3>1. \A j \in 1..n : Strings(f)[j] \in Storable
      BY <1>1
    <3> QED BY <1>1, <1>2, <3>1
  <2> HIDE DEF n
  <2>3. strings \in Seq(Storable) /\ Len(strings) = n
    BY <1>1, <2>2, FunIsSeq
  <2> QED BY <2>1, <2>3
<1>4. /\ f \in Tables
      /\ f = [kinds |-> f.kinds, hashes |-> f.hashes, small |-> f.small,
              overflow |-> f.overflow, storage |-> f.storage]
  <2>1. f \in Tables
    BY WellFormedIs
  <2> QED BY <2>1 DEF Tables
<1>5. /\ g.kinds = f.kinds /\ g.hashes = Rehashed(f, i, value)
      /\ g.small = laid.small /\ g.overflow = laid.overflow /\ g.storage = laid.storage
      /\ IsTable(g)
  BY <1>4 DEF IsTable
<1>6. Laid(g, strings, {i}, packed, late)
  BY <1>5 DEF Laid
<1> HIDE DEF n
<1>7. {i} \in SUBSET (1..Len(strings))
  BY <1>3 DEF n
<1>8. /\ Sound(g) /\ Len(g.small) = n
      /\ \A j \in 1..n : Stored(g, j) = strings[j]
      /\ Valid(g, strings, {i}) /\ Aligned(g)
  <2> DEFINE pinned == {i}
  <2>1. pinned \in SUBSET (1..Len(strings)) /\ Laid(g, strings, pinned, packed, late)
        /\ strings \in Seq(Storable)
    BY <1>3, <1>6, <1>7
  <2> HIDE DEF pinned
  <2>2. Reads(g, strings, pinned)
    BY <2>1, LaidIs
  <2> QED BY <1>3, <2>2 DEF Reads, pinned
<1>9. DOMAIN g.small = 1..Len(g.small)
  BY <1>8 DEF Sound
<1>10. Shows(f, g, i, value)
  BY <1>3, <1>5, <1>8, <1>9 DEF Shows, n
<1>11. WellFormed(g)
  BY <1>2, <1>5, <1>8, <1>10, ShownIsWellFormed
<1> QED BY <1>8, <1>10, <1>11

\* A change that shows as the one asked for reads back as intended.
LEMMA ShownStrings ==
  ASSUME NEW f, WellFormed(f), NEW i \in 1..Len(f.small), NEW value,
         NEW g, Shows(f, g, i, value)
  PROVE  Strings(g) = [Strings(f) EXCEPT ![i] = value]
<1> DEFINE n == Len(f.small)
           s == Strings(f)
<1>1. DOMAIN f.small = 1..n
  BY WellFormedIs
<1>2. s = [j \in 1..n |-> Stored(f, j)]
  BY <1>1 DEF Strings
<1>3. Strings(g) = [j \in 1..n |-> Stored(g, j)]
  BY DEF Strings, Shows
<1>4. Stored(g, i) = value /\ \A j \in 1..n : j # i => Stored(g, j) = Stored(f, j)
  BY DEF Shows
<1> HIDE DEF s, n
<1>5. [s EXCEPT ![i] = value] = [j \in 1..n |-> IF j = i THEN value ELSE Stored(f, j)]
  BY <1>2
<1>6. Strings(g) = [j \in 1..n |-> IF j = i THEN value ELSE Stored(f, j)]
  BY <1>3, <1>4
<1> QED BY <1>5, <1>6 DEF s

\* An entry that is where it was, or where another one was, stays in place.
LEMMA SameLoc ==
  ASSUME NEW f, NEW g, NEW i, NEW j, g.small[i] = f.small[j], g.overflow = f.overflow
  PROVE  Loc(g, i) = Loc(f, j)
BY DEF Loc

\* patch_string_by_id: the bytes are overwritten where they are.
IsOverwritten(f, i, value, g) ==
  /\ IsTable(g) /\ g.kinds = f.kinds /\ g.hashes = Rehashed(f, i, value)
  /\ g.small = f.small /\ g.overflow = f.overflow
  /\ g.storage = [k \in DOMAIN f.storage |->
       IF k \in (Loc(f, i).start + 1)..Loc(f, i).end
       THEN value.bytes[k - Loc(f, i).start] ELSE f.storage[k]]

\* No byte of it is shared, so no other string sees the change.
LEMMA Overwritten ==
  ASSUME NEW f, WellFormed(f), NEW i \in 1..Len(f.small), NEW value \in Values,
         InPlace(f, i, value), NEW g, IsOverwritten(f, i, value, g)
  PROVE  /\ Valid(g, [Strings(f) EXCEPT ![i] = value], {}) /\ WellFormed(g) /\ Shows(f, g, i, value)
         /\ g.small = f.small /\ ~Shared(g, i)
<1> DEFINE n == Len(f.small)
           a == Loc(f, i).start
           z == Loc(f, i).end
           b == f.storage
           v == value.bytes
           w == [k \in DOMAIN b |-> IF k \in (a + 1)..z THEN v[k - a] ELSE b[k]]
<1>1. /\ Sound(f) /\ Aligned(f) /\ n \in Nat /\ DOMAIN f.small = 1..n /\ f \in Tables
  BY WellFormedIs
<1>2. /\ IsTable(g) /\ g.kinds = f.kinds /\ g.hashes = Rehashed(f, i, value)
      /\ g.small = f.small /\ g.overflow = f.overflow /\ g.storage = w
  BY DEF IsOverwritten
<1>3. \A j \in 1..n : Loc(g, j) = Loc(f, j)
  BY <1>2, SameLoc
<1>4. value \in Storable /\ value \in Hash /\ v \in Seq(Byte) /\ Len(v) = z - a
      /\ value.wide = FALSE /\ f.small[i].wide = FALSE
      /\ value = [wide |-> FALSE, bytes |-> v]
  <2>1. value \in Storable /\ value \in Hash
    BY ValuesAre, StorableHashes
  <2>2. v \in Seq(Byte) /\ value.wide \in BOOLEAN /\ value = [wide |-> value.wide, bytes |-> v]
    BY <2>1 DEF Storable
  <2>3. ~value.wide /\ ~f.small[i].wide /\ Len(v) = Len(Stored(f, i).bytes)
    BY DEF InPlace
  <2>4. Len(Stored(f, i).bytes) = z - a
    BY <1>1, StoredIs
  <2>5. f.small[i].wide \in BOOLEAN
    BY <1>1, LocIs
  <2> QED BY <2>1, <2>2, <2>3, <2>4, <2>5
<1>5. a \in Nat /\ z \in Nat /\ a <= z /\ z <= Len(b) /\ b \in Seq(Byte)
  BY <1>1, LocIs DEF Sound
<1> HIDE DEF n, a, z, b, v
<1>6. /\ w \in Seq(Byte) /\ Len(w) = Len(b)
      /\ \A k \in 1..Len(b) : w[k] = IF k \in (a + 1)..z THEN v[k - a] ELSE b[k]
  <2>1. DOMAIN b = 1..Len(b) /\ Len(b) \in Nat /\ \A k \in 1..Len(b) : b[k] \in Byte
    BY <1>5
  <2>2. \A k \in (a + 1)..z : v[k - a] \in Byte
    <3> SUFFICES ASSUME NEW k \in (a + 1)..z PROVE v[k - a] \in Byte
      OBVIOUS
    <3>1. k - a \in 1..Len(v)
      BY <1>4, <1>5
    <3> QED BY <1>4, <3>1, ElementIn
  <2>3. w \in [1..Len(b) -> Byte] /\ \A k \in 1..Len(b) : w[k] = IF k \in (a + 1)..z THEN v[k - a] ELSE b[k]
    BY <2>1, <2>2
  <2> HIDE DEF w
  <2> QED BY <2>1, <2>3, FunIsSeq
<1> HIDE DEF w
<1>7. Sound(g)
  <2>1. \A j \in 1..Len(g.small) : Loc(g, j).end <= Len(g.storage)
    <3>1. \A j \in 1..n : Loc(f, j).end <= Len(b)
      BY <1>1 DEF Sound, n, b
    <3> QED BY <1>2, <1>3, <1>6, <3>1 DEF n
  <2> QED BY <1>1, <1>2, <1>6, <2>1 DEF Sound
<1>8. Aligned(g)
  BY <1>1, <1>2, <1>3 DEF Aligned
<1>9. Stored(g, i) = value
  <2> DEFINE s == Stored(g, i)
  <2>1. /\ s \in Storable /\ s.wide = g.small[i].wide /\ s.bytes \in Seq(Byte)
        /\ Len(s.bytes) = Loc(g, i).end - Loc(g, i).start
        /\ \A k \in 1..Loc(g, i).end - Loc(g, i).start : s.bytes[k] = g.storage[Loc(g, i).start + k]
    BY <1>2, <1>7, StoredIs
  <2> HIDE DEF s
  <2>2. /\ Len(s.bytes) = z - a /\ s.wide = FALSE
        /\ \A k \in 1..z - a : s.bytes[k] = w[a + k]
    <3>1. Loc(g, i).start = a /\ Loc(g, i).end = z
      BY <1>3 DEF a, z, n
    <3> QED BY <1>2, <1>4, <2>1, <3>1
  <2>3. ASSUME NEW k \in 1..z - a PROVE s.bytes[k] = v[k]
    <3>1. a + k \in (a + 1)..z /\ a + k \in 1..Len(b) /\ (a + k) - a = k
      BY <1>5
    <3> QED BY <1>6, <2>2, <3>1
  <2>4. s.bytes = v
    BY <1>4, <2>1, <2>2, <2>3, SeqEqual
  <2>5. s = [wide |-> s.wide, bytes |-> s.bytes]
    BY <2>1 DEF Storable
  <2> QED BY <1>4, <2>2, <2>4, <2>5 DEF s
<1>10. ASSUME NEW j \in 1..n, j # i PROVE Stored(g, j) = Stored(f, j)
  <2> DEFINE s == Stored(g, j)
             t == Stored(f, j)
             c == Loc(f, j).start
             d == Loc(f, j).end
  <2>1. j \in 1..Len(f.small) /\ j \in 1..Len(g.small)
    BY <1>2 DEF n
  <2>2. /\ s \in Storable /\ s.wide = g.small[j].wide /\ s.bytes \in Seq(Byte)
        /\ Len(s.bytes) = Loc(g, j).end - Loc(g, j).start
        /\ \A k \in 1..Loc(g, j).end - Loc(g, j).start : s.bytes[k] = g.storage[Loc(g, j).start + k]
    BY <1>7, <2>1, StoredIs
  <2>3. /\ t \in Storable /\ t.wide = f.small[j].wide /\ t.bytes \in Seq(Byte)
        /\ Len(t.bytes) = d - c
        /\ \A k \in 1..d - c : t.bytes[k] = f.storage[c + k]
    BY <1>1, <2>1, StoredIs
  <2>4. c \in Nat /\ d \in Nat /\ c <= d /\ d <= Len(b)
    BY <1>1, <2>1, LocIs DEF b
  <2>5. c < d => ~(a < d /\ c < z)
    <3>1. ~Shared(f, i)
      BY DEF InPlace
    <3>2. j \in DOMAIN f.small \ {i}
      BY <1>1, <1>10
    <3>3. ~(/\ Loc(f, j).start < Loc(f, j).end
            /\ Loc(f, i).start < Loc(f, j).end /\ Loc(f, j).start < Loc(f, i).end)
      BY <3>1, <3>2 DEF Shared
    <3> QED BY <3>3 DEF a, z
  <2>6. Loc(g, j).start = c /\ Loc(g, j).end = d /\ g.small[j].wide = f.small[j].wide
    BY <1>2, <1>3
  <2> HIDE DEF s, t, c, d
  <2>7. ASSUME NEW k \in 1..d - c PROVE s.bytes[k] = t.bytes[k]
    <3>1. c + k \in 1..Len(b) /\ c + k \notin (a + 1)..z
      BY <1>5, <2>4, <2>5
    <3>2. s.bytes[k] = w[c + k] /\ t.bytes[k] = b[c + k]
      BY <1>2, <2>2, <2>3, <2>6 DEF b
    <3> QED BY <1>6, <3>1, <3>2
  <2>8. s.bytes = t.bytes
    <3>1. Len(s.bytes) = d - c
      BY <2>2, <2>6
    <3> QED BY <2>2, <2>3, <2>7, <3>1, SeqEqual
  <2>9. s = [wide |-> s.wide, bytes |-> s.bytes] /\ t = [wide |-> t.wide, bytes |-> t.bytes]
    BY <2>2, <2>3 DEF Storable
  <2> QED BY <2>2, <2>3, <2>6, <2>8, <2>9 DEF s, t
<1>11. Shows(f, g, i, value)
  BY <1>1, <1>2, <1>9, <1>10 DEF Shows, n
<1>12. WellFormed(g)
  BY <1>2, <1>4, <1>7, <1>8, <1>11, ShownIsWellFormed
<1>13. Strings(g) = [Strings(f) EXCEPT ![i] = value]
  BY <1>11, ShownStrings
<1>14. Valid(g, [Strings(f) EXCEPT ![i] = value], {})
  BY <1>13 DEF Valid
<1>15. ~Shared(g, i)
  <2>1. ~Shared(f, i)
    BY DEF InPlace
  <2>2. i \in 1..n
    BY DEF n
  <2> QED BY <1>1, <1>2, <1>3, <2>1, <2>2 DEF Shared
<1> QED BY <1>2, <1>11, <1>12, <1>14, <1>15

\* retarget_string: one entry is copied over the other.
IsRetargeted(f, i, j, g) ==
  /\ IsTable(g) /\ g.kinds = f.kinds /\ g.hashes = Rehashed(f, i, Parsed(f, j))
  /\ g.small = [f.small EXCEPT ![i] = f.small[j]]
  /\ g.overflow = f.overflow /\ g.storage = f.storage

\* The copied entry names the bytes of the other string.
LEMMA Retargeted ==
  ASSUME NEW f, WellFormed(f), NEW i \in 1..Len(f.small), NEW j \in 1..Len(f.small),
         NEW g, IsRetargeted(f, i, j, g)
  PROVE  /\ Valid(g, [Strings(f) EXCEPT ![i] = Stored(f, j)], {}) /\ WellFormed(g)
         /\ Shows(f, g, i, Stored(f, j))
<1> DEFINE n == Len(f.small)
           E == [wide : BOOLEAN, offset : Nat, length : Nat]
           w == [f.small EXCEPT ![i] = f.small[j]]
<1>1. /\ Sound(f) /\ Aligned(f) /\ n \in Nat /\ DOMAIN f.small = 1..n /\ f \in Tables
      /\ f.small \in Seq(E)
  <2>1. Sound(f) /\ Aligned(f) /\ n \in Nat /\ DOMAIN f.small = 1..n /\ f \in Tables
    BY WellFormedIs
  <2> QED BY <2>1 DEF Sound
<1>2. /\ IsTable(g) /\ g.kinds = f.kinds /\ g.hashes = Rehashed(f, i, Parsed(f, j))
      /\ g.small = w /\ g.overflow = f.overflow /\ g.storage = f.storage
  BY DEF IsRetargeted
<1>3. /\ w \in Seq(E) /\ Len(w) = n /\ DOMAIN w = 1..n
      /\ w[i] = f.small[j] /\ \A k \in 1..n : k # i => w[k] = f.small[k]
  <2>1. \A k \in 1..n : f.small[k] \in E
    BY <1>1, ElementIn
  <2> HIDE DEF E
  <2>2. w \in [1..n -> E] /\ w[i] = f.small[j] /\ \A k \in 1..n : k # i => w[k] = f.small[k]
    BY <1>1, <2>1
  <2> HIDE DEF w, n
  <2>3. w \in Seq(E) /\ Len(w) = n
    BY <1>1, <2>2, FunIsSeq
  <2>4. DOMAIN w = 1..n
    BY <2>2
  <2> QED BY <2>2, <2>3, <2>4
<1> HIDE DEF w
<1>4. /\ Loc(g, i) = Loc(f, j) /\ g.small[i] = f.small[j]
      /\ \A k \in 1..n : k # i => Loc(g, k) = Loc(f, k) /\ g.small[k] = f.small[k]
  <2>1. g.small[i] = f.small[j] /\ g.overflow = f.overflow
    BY <1>2, <1>3
  <2>2. \A k \in 1..n : k # i => g.small[k] = f.small[k]
    BY <1>2, <1>3
  <2> QED BY <2>1, <2>2, SameLoc
<1> HIDE DEF n
<1>5. \A k \in 1..n : \E m \in 1..n : Loc(g, k) = Loc(f, m) /\ g.small[k] = f.small[m]
  <2>1. j \in 1..n
    BY DEF n
  <2> QED BY <1>4, <2>1
<1>6. Sound(g)
  <2>1. \A m \in 1..n : /\ f.small[m].length = LengthOverflow => f.small[m].offset < Len(f.overflow)
                        /\ Loc(f, m).end <= Len(f.storage)
    BY <1>1 DEF Sound, n
  <2>2. \A k \in 1..n : /\ g.small[k].length = LengthOverflow => g.small[k].offset < Len(f.overflow)
                        /\ Loc(g, k).end <= Len(f.storage)
    BY <1>5, <2>1
  <2>3. g.small \in Seq(E) /\ Len(g.small) = n
    BY <1>2, <1>3
  <2> QED BY <1>1, <1>2, <2>2, <2>3 DEF Sound
<1>7. Aligned(g)
  <2>1. \A m \in 1..n : f.small[m].wide => Loc(f, m).start % 2 = 0
    BY <1>1 DEF Aligned
  <2>2. DOMAIN g.small = 1..n
    BY <1>2, <1>3
  <2>3. ASSUME NEW k \in 1..n, g.small[k].wide PROVE Loc(g, k).start % 2 = 0
    BY <1>5, <2>1, <2>3
  <2> QED BY <2>2, <2>3 DEF Aligned
<1>8. \A k, m \in 1..n : Loc(g, k) = Loc(f, m) /\ g.small[k] = f.small[m] => Stored(g, k) = Stored(f, m)
  BY <1>2 DEF Stored
<1>9. Shows(f, g, i, Stored(f, j))
  <2>1. i \in 1..n /\ j \in 1..n
    BY DEF n
  <2>2. Stored(g, i) = Stored(f, j) /\ \A k \in 1..n : k # i => Stored(g, k) = Stored(f, k)
    BY <1>4, <1>8, <2>1
  <2>3. Len(g.small) = n /\ DOMAIN g.small = 1..Len(g.small)
    BY <1>2, <1>3
  <2> QED BY <1>2, <2>2, <2>3 DEF Shows, n
<1>10. Parsed(f, j) \in Hash /\ (Parsed(f, j) = Stored(f, j) \/ Excused(Stored(f, j)))
  BY <1>1, ParsedIs
<1>11. WellFormed(g)
  BY <1>2, <1>6, <1>7, <1>9, <1>10, ShownIsWellFormed
<1>12. Strings(g) = [Strings(f) EXCEPT ![i] = Stored(f, j)]
  BY <1>9, ShownStrings
<1>13. Valid(g, [Strings(f) EXCEPT ![i] = Stored(f, j)], {})
  BY <1>12 DEF Valid
<1> QED BY <1>9, <1>11, <1>13

\* add_string: the storage is laid out anew for one string more.
IsAdded(f, value, ident, packed, late, g) ==
  LET strings == Append(Strings(f), value) IN
  /\ IsTable(g) /\ g.kinds = KindsWith(f.kinds, ident)
  /\ g.hashes = IF ident THEN Append(f.hashes, value) ELSE f.hashes
  /\ Laid(g, strings, {Len(strings)}, packed, late)

ShowsMore(f, g, value, ident) ==
  /\ g.kinds = KindsWith(f.kinds, ident)
  /\ Len(g.small) = Len(f.small) + 1 /\ DOMAIN g.small = 1..Len(g.small)
  /\ Stored(g, Len(f.small) + 1) = value
  /\ \A j \in 1..Len(f.small) : Stored(g, j) = Stored(f, j)

\* Every string keeps its id, its kind and its value.
LEMMA Added ==
  ASSUME NEW f, WellFormed(f), NEW value \in Values, NEW ident \in BOOLEAN,
         NEW packed \in BOOLEAN, NEW late \in BOOLEAN,
         NEW g, IsAdded(f, value, ident, packed, late, g)
  PROVE  /\ Valid(g, Append(Strings(f), value), {Len(Append(Strings(f), value))})
         /\ WellFormed(g) /\ ShowsMore(f, g, value, ident)
<1> DEFINE n == Len(f.small)
           strings == Append(Strings(f), value)
           pinned == {Len(strings)}
<1>1. /\ Strings(f) \in Seq(Storable) /\ Len(Strings(f)) = n
      /\ \A j \in 1..n : Strings(f)[j] = Stored(f, j)
  BY StringsAre
<1>2. /\ Len(ExpandedKinds(f.kinds)) = n /\ HashesMatch(f) /\ n \in Nat /\ DOMAIN f.small = 1..n
      /\ f.kinds \in Seq(Kinds) /\ f.hashes \in Seq(Hash)
  BY WellFormedIs
<1>3. value \in Storable /\ value \in Hash
  BY ValuesAre, StorableHashes
<1>4. /\ strings \in Seq(Storable) /\ Len(strings) = n + 1
      /\ \A j \in 1..n : strings[j] = Stored(f, j)
      /\ strings[n + 1] = value
  <2> DEFINE s == Strings(f)
  <2>1. s \in Seq(Storable) /\ Len(s) = n /\ \A j \in 1..n : s[j] = Stored(f, j)
    BY <1>1
  <2> HIDE DEF s, n
  <2>2. /\ Append(s, value) \in Seq(Storable) /\ Len(Append(s, value)) = Len(s) + 1
        /\ \A j \in 1..Len(s) : Append(s, value)[j] = s[j]
        /\ Append(s, value)[Len(s) + 1] = value
    BY <1>3, <2>1, AppendProperties
  <2>3. /\ Append(s, value) \in Seq(Storable) /\ Len(Append(s, value)) = n + 1
        /\ \A j \in 1..n : Append(s, value)[j] = Stored(f, j)
        /\ Append(s, value)[n + 1] = value
    BY <2>1, <2>2
  <2> QED BY <2>3 DEF s
<1>5. /\ IsTable(g) /\ g.kinds = KindsWith(f.kinds, ident)
      /\ g.hashes = (IF ident THEN Append(f.hashes, value) ELSE f.hashes)
      /\ Laid(g, strings, pinned, packed, late)
  BY DEF IsAdded
<1>6. pinned \in SUBSET (1..Len(strings))
  <2>1. Len(strings) \in 1..Len(strings)
    <3> DEFINE m == Len(strings)
    <3>1. m = n + 1
      BY <1>4
    <3> HIDE DEF m
    <3> QED BY <1>2, <3>1
  <2> QED BY <2>1
<1> HIDE DEF strings, pinned
<1>7. Reads(g, strings, pinned)
  BY <1>4, <1>5, <1>6, LaidIs
<1>8. /\ Sound(g) /\ Aligned(g) /\ Valid(g, strings, pinned) /\ Len(g.small) = n + 1
      /\ \A j \in 1..n : Stored(g, j) = Stored(f, j)
      /\ Stored(g, n + 1) = value
  <2>1. Sound(g) /\ Aligned(g) /\ Valid(g, strings, pinned) /\ Len(g.small) = n + 1
        /\ \A j \in 1..n + 1 : Stored(g, j) = strings[j]
    BY <1>4, <1>7 DEF Reads
  <2>2. n + 1 \in 1..n + 1 /\ \A j \in 1..n : j \in 1..n + 1
    BY <1>2
  <2> QED BY <1>4, <2>1, <2>2
<1>9. DOMAIN g.small = 1..Len(g.small)
  BY <1>8 DEF Sound
<1>10. ShowsMore(f, g, value, ident)
  BY <1>5, <1>8, <1>9 DEF ShowsMore
<1>11. /\ HashesMatch(g) /\ g.hashes \in Seq(Hash)
       /\ Len(ExpandedKinds(g.kinds)) = Len(g.small) /\ g.kinds \in Seq(Kinds)
  BY <1>2, <1>3, <1>5, <1>8, <1>9, HashesGrow
<1>12. g \in Tables
  BY <1>5, <1>8, <1>11 DEF Sound, IsTable, Tables, Kinds
<1>13. WellFormed(g)
  BY <1>8, <1>11, <1>12, WellFormedIs
<1> QED BY <1>8, <1>10, <1>13 DEF strings, pinned

----------------------------------------------------------------------------
(* Each of the edits, as a step.                                            *)

StorageBecomes(f, storage, hashes, g) ==
  g = [f EXCEPT !.storage = storage, !.hashes = hashes]

SmallBecomes(f, small, hashes, g) ==
  g = [f EXCEPT !.small = small, !.hashes = hashes]

\* New storage and hashes leave the tables alone.
LEMMA WithStorage ==
  ASSUME NEW f \in Tables, NEW storage, NEW hashes,
         NEW g, StorageBecomes(f, storage, hashes, g)
  PROVE  /\ IsTable(g) /\ g.kinds = f.kinds /\ g.hashes = hashes /\ g.overflow = f.overflow
         /\ g.small = f.small /\ g.storage = storage
<1>1. f = [kinds |-> f.kinds, hashes |-> f.hashes, small |-> f.small,
           overflow |-> f.overflow, storage |-> f.storage]
  BY DEF Tables
<1> QED BY <1>1 DEF IsTable, StorageBecomes

\* New small entries and hashes leave the storage alone.
LEMMA WithSmall ==
  ASSUME NEW f \in Tables, NEW small, NEW hashes,
         NEW g, SmallBecomes(f, small, hashes, g)
  PROVE  /\ IsTable(g) /\ g.kinds = f.kinds /\ g.hashes = hashes /\ g.overflow = f.overflow
         /\ g.small = small /\ g.storage = f.storage
<1>1. f = [kinds |-> f.kinds, hashes |-> f.hashes, small |-> f.small,
           overflow |-> f.overflow, storage |-> f.storage]
  BY DEF Tables
<1> QED BY <1>1 DEF IsTable, SmallBecomes

\* patch_string_resize succeeds, and the string then has its bytes to itself.
LEMMA ResizeIs ==
  ASSUME WellFormed(file), NEW i \in DOMAIN file.small, NEW value \in Values,
         NEW packed \in BOOLEAN, Resize(i, value, packed)
  PROVE  /\ WellFormed(file') /\ Shows(file, file', i, value)
         /\ last' = [op |-> "set", id |-> i, value |-> value]
         /\ Loc(file', i).start < Loc(file', i).end => ~Shared(file', i)
<1> DEFINE strings == [Strings(file) EXCEPT ![i] = value]
           laid(late) == LayOut(strings, {i}, packed, late)
           after(late) == [file EXCEPT !.small = laid(late).small, !.overflow = laid(late).overflow,
                                       !.storage = laid(late).storage,
                                       !.hashes = Rehashed(file, i, value)]
           edit == [op |-> "set", id |-> i, value |-> value]
<1>1. PICK late \in {FALSE, packed} : Commit(after(late), strings, {i}, edit)
  BY DEF Resize
<1>2. late \in BOOLEAN /\ i \in 1..Len(file.small)
  BY WellFormedIs
<1> DEFINE l == laid(late)
           g == after(late)
<1>3. strings = [Strings(file) EXCEPT ![i] = value] /\ l = LayOut(strings, {i}, packed, late)
      /\ g = [file EXCEPT !.small = l.small, !.overflow = l.overflow,
                          !.storage = l.storage, !.hashes = Rehashed(file, i, value)]
  OBVIOUS
<1> HIDE DEF strings, l, g
<1>4. Valid(g, strings, {i}) /\ WellFormed(g) /\ Shows(file, g, i, value)
  BY <1>2, <1>3, Rebuilt
<1>5. file' = g /\ last' = edit
  BY <1>1, <1>4 DEF Commit, g
<1>6. Loc(g, i).start < Loc(g, i).end => ~Shared(g, i)
  BY <1>4 DEF Valid
<1> QED BY <1>4, <1>5, <1>6

\* patch_string_by_id in place succeeds, and leaves the tables alone.
LEMMA OverwriteIs ==
  ASSUME WellFormed(file), NEW i \in DOMAIN file.small, NEW value \in Values,
         InPlace(file, i, value), Overwrite(i, value)
  PROVE  /\ WellFormed(file') /\ Shows(file, file', i, value)
         /\ last' = [op |-> "set", id |-> i, value |-> value]
         /\ ~Shared(file', i) /\ file'.small = file.small
<1> DEFINE w == [n \in DOMAIN file.storage |->
                   IF n \in (Loc(file, i).start + 1)..Loc(file, i).end
                   THEN value.bytes[n - Loc(file, i).start] ELSE file.storage[n]]
           g == [file EXCEPT !.storage = w, !.hashes = Rehashed(file, i, value)]
           strings == [Strings(file) EXCEPT ![i] = value]
           edit == [op |-> "set", id |-> i, value |-> value]
<1>1. Commit(g, strings, {}, edit)
  BY DEF Overwrite
<1>2. i \in 1..Len(file.small) /\ file \in Tables
  BY WellFormedIs
<1>3. IsOverwritten(file, i, value, g)
  <2> HIDE DEF w
  <2>1. StorageBecomes(file, w, Rehashed(file, i, value), g)
    BY DEF StorageBecomes
  <2> HIDE DEF g
  <2>2. IsTable(g) /\ g.kinds = file.kinds /\ g.hashes = Rehashed(file, i, value)
        /\ g.small = file.small /\ g.overflow = file.overflow /\ g.storage = w
    BY <1>2, <2>1, WithStorage
  <2> QED BY <2>2 DEF IsOverwritten, w
<1> HIDE DEF g
<1>4. /\ Valid(g, strings, {}) /\ WellFormed(g) /\ Shows(file, g, i, value)
      /\ g.small = file.small /\ ~Shared(g, i)
  BY <1>2, <1>3, Overwritten
<1> HIDE DEF strings
<1>5. file' = g /\ last' = edit
  BY <1>1, <1>4 DEF Commit
<1> QED BY <1>4, <1>5

\* retarget_string succeeds.
LEMMA RetargetIs ==
  ASSUME WellFormed(file), NEW i \in DOMAIN file.small, NEW j \in DOMAIN file.small,
         RetargetString(i, j)
  PROVE  /\ WellFormed(file') /\ Shows(file, file', i, Stored(file, j)) /\ i # j
         /\ last' = [op |-> "retarget", id |-> i, to |-> j]
<1> DEFINE w == [file.small EXCEPT ![i] = file.small[j]]
           g == [file EXCEPT !.small = w, !.hashes = Rehashed(file, i, Parsed(file, j))]
           strings == [Strings(file) EXCEPT ![i] = Stored(file, j)]
           edit == [op |-> "retarget", id |-> i, to |-> j]
<1>1. i \in 1..Len(file.small) /\ j \in 1..Len(file.small) /\ file \in Tables
  BY WellFormedIs
<1>2. file = [kinds |-> file.kinds, hashes |-> file.hashes, small |-> file.small,
              overflow |-> file.overflow, storage |-> file.storage]
  BY <1>1 DEF Tables
<1>3. Commit(g, strings, {}, edit) /\ i # j
  <2>1. g = [file EXCEPT !.small[i] = file.small[j], !.hashes = Rehashed(file, i, Parsed(file, j))]
    BY <1>2
  <2> HIDE DEF g
  <2> QED BY <2>1 DEF RetargetString
<1>4. IsRetargeted(file, i, j, g)
  <2> HIDE DEF w
  <2>1. SmallBecomes(file, w, Rehashed(file, i, Parsed(file, j)), g)
    BY DEF SmallBecomes
  <2> HIDE DEF g
  <2>2. IsTable(g) /\ g.kinds = file.kinds /\ g.hashes = Rehashed(file, i, Parsed(file, j))
        /\ g.small = w /\ g.overflow = file.overflow /\ g.storage = file.storage
    BY <1>1, <2>1, WithSmall
  <2> QED BY <2>2 DEF IsRetargeted, w
<1> HIDE DEF g
<1>5. Valid(g, strings, {}) /\ WellFormed(g) /\ Shows(file, g, i, Stored(file, j))
  BY <1>1, <1>4, Retargeted
<1> HIDE DEF strings
<1>6. file' = g /\ last' = edit
  BY <1>3, <1>5 DEF Commit
<1> QED BY <1>3, <1>5, <1>6

\* add_string succeeds.
LEMMA AddIs ==
  ASSUME WellFormed(file), NEW value \in Values, NEW ident \in BOOLEAN,
         NEW packed \in BOOLEAN, AddString(value, ident, packed)
  PROVE  /\ WellFormed(file') /\ ShowsMore(file, file', value, ident)
         /\ last' = [op |-> "add", value |-> value, ident |-> ident]
<1> DEFINE strings == Append(Strings(file), value)
           laid(late) == LayOut(strings, {Len(strings)}, packed, late)
           after(late) == [kinds |-> KindsWith(file.kinds, ident),
                           hashes |-> IF ident THEN Append(file.hashes, value) ELSE file.hashes,
                           small |-> laid(late).small, overflow |-> laid(late).overflow,
                           storage |-> laid(late).storage]
           edit == [op |-> "add", value |-> value, ident |-> ident]
<1>1. PICK late \in {FALSE, packed} : Commit(after(late), strings, {Len(strings)}, edit)
  BY DEF AddString
<1>2. late \in BOOLEAN
  OBVIOUS
<1> DEFINE g == after(late)
<1>3. IsAdded(file, value, ident, packed, late, g)
  <2> DEFINE l == laid(late)
             h == IF ident THEN Append(file.hashes, value) ELSE file.hashes
  <2> HIDE DEF strings
  <2>1. l = LayOut(strings, {Len(strings)}, packed, late)
    OBVIOUS
  <2> HIDE DEF l, h
  <2>2. g = [kinds |-> KindsWith(file.kinds, ident), hashes |-> h, small |-> l.small,
             overflow |-> l.overflow, storage |-> l.storage]
    BY DEF l, h
  <2> HIDE DEF g
  <2>3. /\ IsTable(g) /\ g.kinds = KindsWith(file.kinds, ident) /\ g.hashes = h
        /\ g.small = l.small /\ g.overflow = l.overflow /\ g.storage = l.storage
    BY <2>2 DEF IsTable
  <2>4. Laid(g, strings, {Len(strings)}, packed, late)
    BY <2>1, <2>3 DEF Laid
  <2> QED BY <2>3, <2>4 DEF IsAdded, strings, h
<1> HIDE DEF g
<1>4. Valid(g, strings, {Len(strings)}) /\ WellFormed(g) /\ ShowsMore(file, g, value, ident)
  BY <1>2, <1>3, Added
<1> HIDE DEF strings
<1>5. file' = g /\ last' = edit
  BY <1>1, <1>4 DEF Commit, g
<1> QED BY <1>4, <1>5

----------------------------------------------------------------------------
(* The theorems.                                                            *)

SetStep ==
  \E i \in DOMAIN file.small, value \in Values :
    /\ Shows(file, file', i, value)
    /\ last' = [op |-> "set", id |-> i, value |-> value]
    /\ Loc(file', i).start < Loc(file', i).end => ~Shared(file', i)
    /\ InPlace(file, i, value) => file'.small = file.small

RetargetStep ==
  \E i, j \in DOMAIN file.small :
    /\ i # j /\ Shows(file, file', i, Stored(file, j))
    /\ last' = [op |-> "retarget", id |-> i, to |-> j]

AddStep ==
  \E value \in Values, ident \in BOOLEAN :
    /\ ShowsMore(file, file', value, ident)
    /\ last' = [op |-> "add", value |-> value, ident |-> ident]

\* No edit of a well-formed table is refused: every step is one of the three.
LEMMA StepIs ==
  ASSUME WellFormed(file), Next
  PROVE  WellFormed(file') /\ (SetStep \/ RetargetStep \/ AddStep)
<1>1. ASSUME NEW i \in DOMAIN file.small, NEW value \in Values, NEW packed \in BOOLEAN,
             PatchById(i, value, packed)
      PROVE  WellFormed(file') /\ SetStep
  <2>1. CASE InPlace(file, i, value) /\ Overwrite(i, value)
    <3>1. /\ WellFormed(file') /\ Shows(file, file', i, value)
          /\ last' = [op |-> "set", id |-> i, value |-> value]
          /\ ~Shared(file', i) /\ file'.small = file.small
      BY <2>1, OverwriteIs
    <3> QED BY <3>1 DEF SetStep
  <2>2. CASE ~InPlace(file, i, value) /\ Resize(i, value, packed)
    <3>1. /\ WellFormed(file') /\ Shows(file, file', i, value)
          /\ last' = [op |-> "set", id |-> i, value |-> value]
          /\ Loc(file', i).start < Loc(file', i).end => ~Shared(file', i)
      BY <2>2, ResizeIs
    <3> QED BY <2>2, <3>1 DEF SetStep
  <2> QED BY <1>1, <2>1, <2>2 DEF PatchById
<1>2. ASSUME NEW i \in DOMAIN file.small, NEW j \in DOMAIN file.small, RetargetString(i, j)
      PROVE  WellFormed(file') /\ RetargetStep
  <2>1. /\ WellFormed(file') /\ Shows(file, file', i, Stored(file, j)) /\ i # j
        /\ last' = [op |-> "retarget", id |-> i, to |-> j]
    BY <1>2, RetargetIs
  <2> QED BY <2>1 DEF RetargetStep
<1>3. ASSUME NEW value \in Values, NEW ident \in BOOLEAN, NEW packed \in BOOLEAN,
             AddString(value, ident, packed)
      PROVE  WellFormed(file') /\ AddStep
  <2>1. /\ WellFormed(file') /\ ShowsMore(file, file', value, ident)
        /\ last' = [op |-> "add", value |-> value, ident |-> ident]
    BY <1>3, AddIs
  <2> QED BY <2>1 DEF AddStep
<1> QED BY <1>1, <1>2, <1>3 DEF Next

IInv == WellFormed(file)

\* A file stays a table as compilers write it, whatever is edited and however
\* often: the invariant the other theorems rest on, inductive as it stands.
THEOREM TableStaysWellFormed == Spec => []IInv
<1>1. Init => IInv
  BY OpenedAssumption DEF Init, IInv
<1>2. IInv /\ [Next]_vars => IInv'
  <2>1. ASSUME IInv, Next
        PROVE  IInv'
    BY <2>1, StepIs DEF IInv
  <2>2. ASSUME IInv, UNCHANGED vars
        PROVE  IInv'
    BY <2>2 DEF vars, IInv
  <2> QED BY <2>1, <2>2
<1> QED BY <1>1, <1>2, PTL DEF Spec

\* The hash table has one entry per identifier, in the order of ids, each the hash
\* of what the string now is (update_identifier_hash, add_string).
THEOREM HashesStayRight == Spec => []HashesFollow
<1>1. IInv => HashesFollow
  BY DEF IInv, WellFormed, HashesFollow
<1> QED BY <1>1, TableStaysWellFormed, PTL

\* No UTF-16 string comes to start at an odd offset (lay_out).
THEOREM WideStayAligned == Spec => []WideAligned
<1>1. IInv => WideAligned
  BY DEF IInv, WellFormed, WideAligned
<1> QED BY <1>1, TableStaysWellFormed, PTL

\* Once a rebuild gave a string bytes of its own, patches of it by texts of the
\* same length leave the tables as they are (patch_string_by_id).
THEOREM PatchesStayInPlace == Spec => NextPatchIsInPlace
<1> DEFINE A ==
      last'.op = "set" =>
       LET i == last'.id
           before == Stored(file, i)
           after == Stored(file', i) IN
       /\ after.bytes # <<>> => ~Shared(file', i)
       /\ (/\ ~Shared(file, i) /\ ~before.wide /\ ~after.wide
           /\ Len(before.bytes) = Len(after.bytes))
          => file'.small = file.small
<1>1. IInv /\ [Next]_vars => [A]_vars
  <2>1. ASSUME IInv, Next
        PROVE  A
    <3>1. CASE SetStep
      <4>1. PICK i \in DOMAIN file.small, value \in Values :
              /\ Shows(file, file', i, value)
              /\ last' = [op |-> "set", id |-> i, value |-> value]
              /\ Loc(file', i).start < Loc(file', i).end => ~Shared(file', i)
              /\ InPlace(file, i, value) => file'.small = file.small
        BY <3>1 DEF SetStep
      <4>2. last'.id = i /\ Stored(file', i) = value /\ Stored(file, i).wide = file.small[i].wide
        BY <4>1 DEF Shows, Stored
      <4>3. Stored(file', i).bytes # <<>> => Loc(file', i).start < Loc(file', i).end
        <5>1. WellFormed(file') /\ i \in DOMAIN file'.small
          BY <2>1, <4>1, StepIs, WellFormedIs DEF Shows, IInv
        <5>2. Loc(file', i).start \in Nat /\ Loc(file', i).end \in Nat
          BY <5>1, WellFormedIs, LocIs
        <5> DEFINE s == Loc(file', i).start
                   e == Loc(file', i).end
                   b == file'.storage
        <5>3. Stored(file', i).bytes = SubSeq(b, s + 1, e) /\ s \in Nat /\ e \in Nat
          BY <5>2 DEF Stored
        <5> HIDE DEF s, e, b
        <5>4. ~(s < e) => SubSeq(b, s + 1, e) = <<>>
          BY <5>3
        <5> QED BY <5>3, <5>4 DEF s, e
      <4>4. ASSUME ~Shared(file, i), ~Stored(file, i).wide, ~value.wide,
                   Len(Stored(file, i).bytes) = Len(value.bytes)
            PROVE  file'.small = file.small
        BY <4>1, <4>2, <4>4 DEF InPlace
      <4> QED BY <4>1, <4>2, <4>3, <4>4
    <3>2. CASE RetargetStep
      BY <3>2 DEF RetargetStep
    <3>3. CASE AddStep
      BY <3>3 DEF AddStep
    <3> QED BY <2>1, <3>1, <3>2, <3>3, StepIs DEF IInv
  <2> QED BY <2>1
<1> QED BY <1>1, TableStaysWellFormed, PTL DEF Spec, NextPatchIsInPlace

\* What the table is to a caller: its strings, each an identifier or not.
Doc(f) == [i \in DOMAIN f.small |-> [value |-> Stored(f, i), ident |-> IsIdentifier(f, i)]]

DocChanged(f, g, i, value) == Doc(g) = [Doc(f) EXCEPT ![i].value = value]

\* A string that shows differently is an assignment to the document.
LEMMA DocOfShown ==
  ASSUME NEW f, WellFormed(f), NEW g, NEW i \in DOMAIN f.small, NEW value, Shows(f, g, i, value)
  PROVE  DocChanged(f, g, i, value)
<1>1. DOMAIN f.small = 1..Len(f.small) /\ DOMAIN g.small = DOMAIN f.small /\ g.kinds = f.kinds
  BY WellFormedIs DEF Shows
<1>2. \A j : IsIdentifier(g, j) = IsIdentifier(f, j)
  BY <1>1 DEF IsIdentifier
<1>3. Stored(g, i) = value /\ \A j \in DOMAIN f.small : j # i => Stored(g, j) = Stored(f, j)
  BY <1>1 DEF Shows
<1> QED BY <1>1, <1>2, <1>3 DEF Doc, DocChanged

\* A string more is appended to the document.
LEMMA DocOfMore ==
  ASSUME NEW f, WellFormed(f), NEW g, NEW value, NEW ident \in BOOLEAN, ShowsMore(f, g, value, ident)
  PROVE  Doc(g) = Append(Doc(f), [value |-> value, ident |-> ident])
<1> DEFINE n == Len(f.small)
           X == ExpandedKinds(f.kinds)
           Y == ExpandedKinds(g.kinds)
           r == [value |-> value, ident |-> ident]
           d == Doc(f)
           e == Doc(g)
<1>1. /\ n \in Nat /\ DOMAIN f.small = 1..n /\ f.kinds \in Seq(Kinds) /\ Len(X) = n
      /\ DOMAIN g.small = 1..n + 1 /\ g.kinds = KindsWith(f.kinds, ident)
      /\ Stored(g, n + 1) = value /\ \A j \in 1..n : Stored(g, j) = Stored(f, j)
  BY WellFormedIs DEF ShowsMore
<1>2. X \in Seq(BOOLEAN) /\ Y = Append(X, ident)
  BY <1>1, KindsGrow, SpeltIs
<1>3. /\ \A j \in 1..n : IsIdentifier(g, j) = IsIdentifier(f, j)
      /\ IsIdentifier(g, n + 1) = ident
  <2>1. IsIdentifier(g, n + 1) <=> ident
    <3> HIDE DEF X, n
    <3>1. n + 1 \in DOMAIN Y /\ Y[n + 1] = ident
      BY <1>1, <1>2
    <3> QED BY <3>1 DEF IsIdentifier
  <2>2. ASSUME NEW j \in 1..n
        PROVE  IsIdentifier(g, j) = IsIdentifier(f, j)
    <3> HIDE DEF X, n
    <3>1. j \in DOMAIN Y /\ Y[j] = X[j] /\ j \in DOMAIN X
      BY <1>1, <1>2
    <3> QED BY <3>1 DEF IsIdentifier, X
  <2>3. IsIdentifier(g, n + 1) \in BOOLEAN
    BY DEF IsIdentifier
  <2> QED BY <2>1, <2>2, <2>3
<1> HIDE DEF n, X, Y
<1>4. /\ d = [j \in 1..n |-> [value |-> Stored(f, j), ident |-> IsIdentifier(f, j)]]
      /\ e = [j \in 1..n + 1 |-> [value |-> Stored(g, j), ident |-> IsIdentifier(g, j)]]
  BY <1>1 DEF Doc
<1>5. /\ d = [j \in 1..n |-> d[j]] /\ e = [j \in 1..n + 1 |-> e[j]]
      /\ e[n + 1] = r /\ \A j \in 1..n : e[j] = d[j]
  BY <1>1, <1>3, <1>4
<1> HIDE DEF d, e, r
<1>6. PICK S : r \in S /\ \A j \in 1..n : d[j] \in S
  <2> DEFINE T == {r} \cup {d[j] : j \in 1..n}
  <2>1. r \in T /\ \A j \in 1..n : d[j] \in T
    OBVIOUS
  <2> QED BY <2>1
<1>7. e = Append(d, r)
  <2>1. d \in [1..n -> S] /\ e \in [1..n + 1 -> S]
    BY <1>1, <1>5, <1>6
  <2>2. /\ d \in Seq(S) /\ Len(d) = n /\ e \in Seq(S) /\ Len(e) = n + 1
    <3>1. n + 1 \in Nat
      BY <1>1
    <3> QED BY <1>1, <2>1, <3>1, FunIsSeq
  <2>3. /\ Append(d, r) \in Seq(S) /\ Len(Append(d, r)) = n + 1
        /\ \A j \in 1..n : Append(d, r)[j] = d[j]
        /\ Append(d, r)[n + 1] = r
    BY <1>6, <2>2, AppendProperties
  <2>4. \A j \in 1..n + 1 : e[j] = Append(d, r)[j]
    <3>1. 1..n + 1 = (1..n) \cup {n + 1}
      BY <1>1
    <3> QED BY <1>5, <2>3, <3>1
  <2> QED BY <2>2, <2>3, <2>4, SeqEqual
<1> QED BY <1>7 DEF d, e, r

\* Every edit does to the strings what it was asked to and nothing else: the tables
\* implement the document, and validate has nothing to refuse.
THEOREM EditsShowAsAsked == Spec => EditsAsAsked
<1> DEFINE D == Doc(file)
<1>1. IInv /\ [Next]_vars => [Document!Next]_(Document!vars)
  <2>1. ASSUME WellFormed(file), SetStep
        PROVE  Document!Set
    <3>1. PICK i \in DOMAIN file.small, value \in Values :
            /\ Shows(file, file', i, value)
            /\ last' = [op |-> "set", id |-> i, value |-> value]
      BY <2>1 DEF SetStep
    <3>2. Doc(file') = [Doc(file) EXCEPT ![i].value = value]
      <4>1. DocChanged(file, file', i, value)
        BY <2>1, <3>1, DocOfShown
      <4> QED BY <4>1 DEF DocChanged
    <3>3. i \in DOMAIN Doc(file)
      BY DEF Doc
    <3> QED BY <3>1, <3>2, <3>3 DEF Document!Set, Doc
  <2>2. ASSUME WellFormed(file), RetargetStep
        PROVE  Document!Retarget
    <3>1. PICK i, j \in DOMAIN file.small :
            /\ i # j /\ Shows(file, file', i, Stored(file, j))
            /\ last' = [op |-> "retarget", id |-> i, to |-> j]
      BY <2>2 DEF RetargetStep
    <3>2. Doc(file') = [Doc(file) EXCEPT ![i].value = Stored(file, j)]
      <4>1. DocChanged(file, file', i, Stored(file, j))
        BY <2>2, <3>1, DocOfShown
      <4> QED BY <4>1 DEF DocChanged
    <3>3. i \in DOMAIN Doc(file) /\ j \in DOMAIN Doc(file) /\ Doc(file)[j].value = Stored(file, j)
      BY DEF Doc
    <3> QED BY <3>1, <3>2, <3>3 DEF Document!Retarget, Doc
  <2>3. ASSUME WellFormed(file), AddStep
        PROVE  Document!Add
    <3>1. PICK value \in Values, ident \in BOOLEAN :
            /\ ShowsMore(file, file', value, ident)
            /\ last' = [op |-> "add", value |-> value, ident |-> ident]
      BY <2>3 DEF AddStep
    <3>2. Doc(file') = Append(Doc(file), [value |-> value, ident |-> ident])
      BY <2>3, <3>1, DocOfMore
    <3> QED BY <3>1, <3>2 DEF Document!Add, Doc
  <2>4. CASE UNCHANGED vars
    BY <2>4 DEF vars, Document!vars, Stored, Loc, IsIdentifier
  <2> QED BY <2>1, <2>2, <2>3, <2>4, StepIs DEF Document!Next, IInv
<1> QED BY <1>1, TableStaysWellFormed, PTL DEF Spec, EditsAsAsked, Document!Spec
=============================================================================
