-------------------------- MODULE ByteQueue_proofs --------------------------
(***************************************************************************)
(* Proofs about ByteQueue: that the list of nodes is a queue of bytes, for *)
(* bytes, strings, arrays and queues of any size.  And about the           *)
(* EqualityComparisonFilter, which keeps such a queue for either of its    *)
(* channels: that its verdict is that of the messages, for messages of any *)
(* number and length, brought in any pieces and any order.                 *)
(***************************************************************************)
EXTENDS ByteQueue, CommonLemmas, FiniteSetTheorems

-----------------------------------------------------------------------------
(* Parts of sequences.                                                     *)

\* A sequence is its first k elements and the others.
LEMMA Part ==
  ASSUME NEW S, NEW s \in Seq(S), NEW k \in 0 .. Len(s)
  PROVE  /\ SubSeq(s, 1, k) \in Seq(S) /\ Len(SubSeq(s, 1, k)) = k
         /\ SubSeq(s, k + 1, Len(s)) \in Seq(S) /\ Len(SubSeq(s, k + 1, Len(s))) = Len(s) - k
         /\ s = SubSeq(s, 1, k) \o SubSeq(s, k + 1, Len(s))
<1>1. Len(s) \in Nat
  OBVIOUS
<1>2. SubSeq(s, 1, k) \in Seq(S) /\ Len(SubSeq(s, 1, k)) = k
  BY <1>1
<1>3. SubSeq(s, k + 1, Len(s)) \in Seq(S) /\ Len(SubSeq(s, k + 1, Len(s))) = Len(s) - k
  BY <1>1
<1>4. 1 \in 1 .. Len(s) + 1 /\ k \in 1 - 1 .. Len(s) /\ Len(s) \in k .. Len(s)
  BY <1>1
<1>5. SubSeq(s, 1, k) \o SubSeq(s, k + 1, Len(s)) = SubSeq(s, 1, Len(s))
  BY <1>4, ConcatAdjacentSubSeq
<1> QED BY <1>2, <1>3, <1>5, SubSeqFull

\* s without its first n elements.
Dropped(s, n) == SubSeq(s, n + 1, Len(s))

\* What is left of s, element by element.
LEMMA DroppedIs ==
  ASSUME NEW S, NEW s \in Seq(S), NEW n \in Nat
  PROVE  /\ Dropped(s, n) \in Seq(S)
         /\ Len(Dropped(s, n)) = IF n <= Len(s) THEN Len(s) - n ELSE 0
         /\ \A i \in 1 .. Len(s) - n : Dropped(s, n)[i] = s[n + i]
         /\ n >= Len(s) => Dropped(s, n) = <<>>
<1>1. Len(s) \in Nat
  OBVIOUS
<1>2. n >= Len(s) => SubSeq(s, n + 1, Len(s)) = <<>>
  BY <1>1, SubSeqEmpty
<1>3. \A i \in n + 1 .. Len(s) : s[i] \in S
  OBVIOUS
<1>4. /\ SubSeq(s, n + 1, Len(s)) \in Seq(S)
      /\ Len(SubSeq(s, n + 1, Len(s))) = IF n + 1 <= Len(s) THEN Len(s) - (n + 1) + 1 ELSE 0
      /\ \A i \in 1 .. Len(s) - (n + 1) + 1 : SubSeq(s, n + 1, Len(s))[i] = s[n + 1 + i - 1]
  BY <1>1, <1>3, SubSeqProperties
<1>5. Len(s) - (n + 1) + 1 = Len(s) - n /\ \A i \in 1 .. Len(s) - n : n + 1 + i - 1 = n + i
  BY <1>1
<1> QED BY <1>1, <1>2, <1>4, <1>5 DEF Dropped

\* Elements dropped of s \o t leave s first.
LEMMA DroppedOfJoin ==
  ASSUME NEW S, NEW s \in Seq(S), NEW t \in Seq(S), NEW n \in Nat
  PROVE  Dropped(s \o t, n) = Dropped(s, n) \o Dropped(t, Higher(0, n - Len(s)))
<1> DEFINE k == Higher(0, n - Len(s))
           u == s \o t
           a == Dropped(u, n)
           b == Dropped(s, n)
           c == Dropped(t, k)
<1>1. Len(s) \in Nat /\ Len(t) \in Nat /\ u \in Seq(S) /\ Len(u) = Len(s) + Len(t)
  BY ConcatProperties
<1>2. k \in Nat /\ (n <= Len(s) => k = 0) /\ (n > Len(s) => k = n - Len(s))
  BY <1>1 DEF Higher
<1> HIDE DEF k
<1>3. /\ a \in Seq(S) /\ Len(a) = IF n <= Len(s) + Len(t) THEN Len(s) + Len(t) - n ELSE 0
      /\ \A i \in 1 .. Len(s) + Len(t) - n : a[i] = u[n + i]
  <2> HIDE DEF u
  <2>1. /\ a \in Seq(S) /\ Len(a) = IF n <= Len(u) THEN Len(u) - n ELSE 0
        /\ \A i \in 1 .. Len(u) - n : a[i] = u[n + i]
    BY <1>1, DroppedIs
  <2> HIDE DEF a
  <2> QED BY <2>1, <1>1
<1>4. /\ b \in Seq(S) /\ Len(b) = IF n <= Len(s) THEN Len(s) - n ELSE 0
      /\ \A i \in 1 .. Len(s) - n : b[i] = s[n + i]
  BY DroppedIs
<1>5. /\ c \in Seq(S) /\ Len(c) = IF k <= Len(t) THEN Len(t) - k ELSE 0
      /\ \A i \in 1 .. Len(t) - k : c[i] = t[k + i]
  BY <1>2, DroppedIs
<1> HIDE DEF a, b, c
<1>6. /\ b \o c \in Seq(S) /\ Len(b \o c) = Len(b) + Len(c)
      /\ \A i \in 1 .. Len(b) + Len(c) : (b \o c)[i] = IF i <= Len(b) THEN b[i] ELSE c[i - Len(b)]
  BY <1>4, <1>5, ConcatProperties
<1>7. \A i \in 1 .. Len(s) + Len(t) : u[i] = IF i <= Len(s) THEN s[i] ELSE t[i - Len(s)]
  BY ConcatProperties
<1> HIDE DEF u
<1>8. Len(b \o c) = Len(a) /\ Len(a) \in Nat /\ Len(b) \in Nat /\ Len(c) \in Nat
  <2>1. /\ Len(b \o c) = Len(b) + Len(c)
        /\ Len(a) = IF n <= Len(s) + Len(t) THEN Len(s) + Len(t) - n ELSE 0
        /\ Len(b) = IF n <= Len(s) THEN Len(s) - n ELSE 0
        /\ Len(c) = IF k <= Len(t) THEN Len(t) - k ELSE 0
    BY <1>3, <1>4, <1>5, <1>6
  <2>2. CASE n <= Len(s)
    BY <2>1, <2>2, <1>1, <1>2
  <2>3. CASE n > Len(s)
    <3>1. k = n - Len(s) /\ Len(b) = 0 /\ Len(s) \in Nat /\ Len(t) \in Nat
      BY <2>1, <2>3, <1>1, <1>2
    <3>2. k <= Len(t) <=> n <= Len(s) + Len(t)
      BY <3>1
    <3>3. Len(b \o c) = Len(c)
      BY <3>1, <2>1
    <3>4. Len(a) = Len(c) /\ Len(c) \in Nat
      <4>1. CASE k <= Len(t)
        BY <4>1, <2>1, <3>1, <3>2
      <4>2. CASE ~(k <= Len(t))
        BY <4>2, <2>1, <3>1, <3>2
      <4> QED BY <4>1, <4>2
    <3> QED BY <3>1, <3>3, <3>4
  <2> QED BY <2>2, <2>3, <1>1
<1>9. ASSUME NEW i \in 1 .. Len(a) PROVE a[i] = (b \o c)[i]
  <2>1. n + i \in 1 .. Len(s) + Len(t) /\ i \in 1 .. Len(s) + Len(t) - n /\ i \in 1 .. Len(b) + Len(c)
    BY <1>1, <1>3, <1>6, <1>8
  <2>2. a[i] = IF n + i <= Len(s) THEN s[n + i] ELSE t[n + i - Len(s)]
    BY <2>1, <1>3, <1>7
  <2>3. (b \o c)[i] = IF i <= Len(b) THEN b[i] ELSE c[i - Len(b)]
    BY <2>1, <1>6
  <2>4. CASE i <= Len(b)
    <3>1. i \in 1 .. Len(s) - n /\ n + i <= Len(s)
      BY <2>4, <1>1, <1>4
    <3> QED BY <3>1, <2>2, <2>3, <2>4, <1>4
  <2>5. CASE ~(i <= Len(b))
    <3>1. /\ i - Len(b) \in 1 .. Len(c)
          /\ Len(b) = IF n <= Len(s) THEN Len(s) - n ELSE 0
          /\ Len(c) = IF k <= Len(t) THEN Len(t) - k ELSE 0
      BY <2>1, <2>5, <1>4, <1>5, <1>8
    <3>2. /\ i - Len(b) \in 1 .. Len(t) - k /\ ~(n + i <= Len(s))
          /\ k + (i - Len(b)) = n + i - Len(s)
      <4>1. CASE n <= Len(s)
        BY <4>1, <3>1, <2>5, <1>1, <1>2
      <4>2. CASE n > Len(s)
        <5>1. k = n - Len(s) /\ Len(b) = 0 /\ Len(s) \in Nat /\ Len(t) \in Nat
          BY <4>2, <3>1, <1>1, <1>2
        <5>2. i \in 1 .. Len(t) - k
          BY <5>1, <3>1
        <5> QED BY <5>1, <5>2, <4>2
      <4> QED BY <4>1, <4>2, <1>1
    <3> QED BY <3>2, <2>2, <2>3, <2>5, <1>5
  <2> QED BY <2>4, <2>5
<1>10. a = b \o c
  BY <1>3, <1>6, <1>8, <1>9, SeqEqual
<1> QED BY <1>10 DEF a, b, c, k, u

-----------------------------------------------------------------------------
(* Lists of nodes.                                                         *)

\* A node, and a list of them.
NodeRec == [max : Nat \ {0}, head : Nat, data : Seq(Byte)]
NodeList == Seq(NodeRec)

\* The data of a list of nodes, of which Stored is made.
Data(ns) == [i \in DOMAIN ns |-> ns[i].data]

\* Strings may be joined in any order.
LEMMA BytesJoin ==
  ASSUME NEW a \in Seq(Byte), NEW b \in Seq(Byte), NEW c \in Seq(Byte)
  PROVE  (a \o b) \o c = a \o (b \o c)
BY ConcatAssociative

\* Stored is what the arrays flatten to.
LEMMA DataIs ==
  ASSUME NEW ns \in NodeList
  PROVE  /\ Data(ns) \in Seq(Seq(Byte)) /\ Len(Data(ns)) = Len(ns)
         /\ \A i \in 1 .. Len(ns) : Data(ns)[i] = ns[i].data
         /\ Stored(ns) = FlattenSeq(Data(ns))
<1>1. \A i \in 1 .. Len(ns) : ns[i].data \in Seq(Byte)
  <2>1. \A i \in 1 .. Len(ns) : ns[i] \in NodeRec
    BY DEF NodeList
  <2> QED BY <2>1 DEF NodeRec
<1>2. DOMAIN ns = 1 .. Len(ns) /\ Len(ns) \in Nat
  BY DEF NodeList
<1>3. Data(ns) \in Seq(Seq(Byte)) /\ Len(Data(ns)) = Len(ns)
  BY <1>1, <1>2 DEF Data
<1>4. \A i \in 1 .. Len(ns) : Data(ns)[i] = ns[i].data
  BY <1>2 DEF Data
<1>5. Stored(ns) = FlattenSeq(Data(ns))
  BY DEF Stored, Data
<1> QED BY <1>3, <1>4, <1>5

\* What a list stores is a sequence of bytes.
LEMMA StoredIsSequence ==
  ASSUME NEW ns \in NodeList
  PROVE  Stored(ns) \in Seq(Byte) /\ Len(Stored(ns)) \in Nat
<1>1. Stored(ns) \in Seq(Byte)
  BY DataIs, FlattenIsSequence
<1> QED BY <1>1

\* Lists with the same data store the same.
LEMMA StoredSame ==
  ASSUME NEW ns \in NodeList, NEW ms \in NodeList, Len(ms) = Len(ns),
         \A i \in 1 .. Len(ns) : ms[i].data = ns[i].data
  PROVE  Stored(ms) = Stored(ns)
<1>1. \A i \in 1 .. Len(ns) : Data(ms)[i] = Data(ns)[i]
  BY DataIs
<1>2. Data(ms) = Data(ns)
  BY <1>1, DataIs, SeqEqual
<1> QED BY <1>2, DataIs

\* No node stores nothing.
LEMMA StoredNone == Stored(<<>>) = <<>>
<1>1. [i \in DOMAIN <<>> |-> (<<>>)[i].data] = <<>>
  OBVIOUS
<1> QED BY <1>1, FlattenNone DEF Stored

\* One node stores its array.
LEMMA StoredOne ==
  ASSUME NEW n \in NodeRec
  PROVE  Stored(<<n>>) = n.data
<1>1. <<n>> \in NodeList /\ n.data \in Seq(Byte)
  BY DEF NodeList, NodeRec
<1>2. Data(<<n>>) = <<n.data>>
  BY DEF Data
<1> QED BY <1>1, <1>2, DataIs, FlattenOne

\* Two lists store one behind the other.
LEMMA StoredJoin ==
  ASSUME NEW ns \in NodeList, NEW ms \in NodeList
  PROVE  Stored(ns \o ms) = Stored(ns) \o Stored(ms)
<1>1. ns \o ms \in NodeList /\ Len(ns \o ms) = Len(ns) + Len(ms)
  BY DEF NodeList
<1>2. \A i \in 1 .. Len(ns) + Len(ms) :
        (ns \o ms)[i] = IF i <= Len(ns) THEN ns[i] ELSE ms[i - Len(ns)]
  BY ConcatProperties DEF NodeList
<1>3. Len(ns) \in Nat /\ Len(ms) \in Nat
  BY DEF NodeList
<1>4. Data(ns) \in Seq(Seq(Byte)) /\ Data(ms) \in Seq(Seq(Byte))
  BY DataIs
<1> DEFINE d == Data(ns) \o Data(ms)
<1>5. /\ d \in Seq(Seq(Byte)) /\ Len(d) = Len(ns) + Len(ms)
      /\ \A i \in 1 .. Len(d) :
           d[i] = IF i <= Len(ns) THEN Data(ns)[i] ELSE Data(ms)[i - Len(ns)]
  <2>1. Len(Data(ns)) = Len(ns) /\ Len(Data(ms)) = Len(ms)
    BY DataIs
  <2>2. /\ d \in Seq(Seq(Byte)) /\ Len(d) = Len(Data(ns)) + Len(Data(ms))
        /\ \A i \in 1 .. Len(Data(ns)) + Len(Data(ms)) :
             d[i] = IF i <= Len(Data(ns)) THEN Data(ns)[i] ELSE Data(ms)[i - Len(Data(ns))]
    BY <1>4, ConcatProperties
  <2> HIDE DEF d
  <2> QED BY <2>1, <2>2
<1> HIDE DEF d
<1>6. \A i \in 1 .. Len(d) : Data(ns \o ms)[i] = d[i]
  <2> TAKE i \in 1 .. Len(d)
  <2>1. Data(ns \o ms)[i] = (ns \o ms)[i].data
    BY <1>1, <1>5, DataIs
  <2>2. CASE i <= Len(ns)
    <3>1. i \in 1 .. Len(ns) /\ i \in 1 .. Len(ns) + Len(ms)
      BY <2>2, <1>3, <1>5
    <3> QED BY <2>1, <2>2, <3>1, <1>2, <1>5, DataIs
  <2>3. CASE ~(i <= Len(ns))
    <3>1. i - Len(ns) \in 1 .. Len(ms) /\ i \in 1 .. Len(ns) + Len(ms)
      BY <2>3, <1>3, <1>5
    <3> QED BY <2>1, <2>3, <3>1, <1>2, <1>5, DataIs
  <2> QED BY <2>2, <2>3
<1>7. Data(ns \o ms) = d
  BY <1>1, <1>5, <1>6, DataIs, SeqEqual
<1>8. Stored(ns \o ms) = FlattenSeq(d)
  BY <1>1, <1>7, DataIs
<1>9. FlattenSeq(d) = FlattenSeq(Data(ns)) \o FlattenSeq(Data(ms))
  BY <1>4, FlattenJoin DEF d
<1> QED BY <1>8, <1>9, DataIs

\* A list is cut at any place.
LEMMA StoredCut ==
  ASSUME NEW ns \in NodeList, NEW k \in 0 .. Len(ns)
  PROVE  /\ SubSeq(ns, 1, k) \in NodeList /\ Len(SubSeq(ns, 1, k)) = k
         /\ SubSeq(ns, k + 1, Len(ns)) \in NodeList /\ Len(SubSeq(ns, k + 1, Len(ns))) = Len(ns) - k
         /\ ns = SubSeq(ns, 1, k) \o SubSeq(ns, k + 1, Len(ns))
         /\ Stored(ns) = Stored(SubSeq(ns, 1, k)) \o Stored(SubSeq(ns, k + 1, Len(ns)))
<1>1. /\ SubSeq(ns, 1, k) \in NodeList /\ Len(SubSeq(ns, 1, k)) = k
      /\ SubSeq(ns, k + 1, Len(ns)) \in NodeList /\ Len(SubSeq(ns, k + 1, Len(ns))) = Len(ns) - k
      /\ ns = SubSeq(ns, 1, k) \o SubSeq(ns, k + 1, Len(ns))
  BY Part DEF NodeList
<1> QED BY <1>1, StoredJoin

\* The node after k of them.
LEMMA StoredStep ==
  ASSUME NEW ns \in NodeList, NEW k \in Nat, k < Len(ns)
  PROVE  Stored(SubSeq(ns, 1, k + 1)) = Stored(SubSeq(ns, 1, k)) \o ns[k + 1].data
<1>1. ns[k + 1] \in NodeRec
  BY DEF NodeList
<1>2. SubSeq(ns, 1, k + 1) = SubSeq(ns, 1, k) \o <<ns[k + 1]>>
  BY DEF NodeList
<1>3. SubSeq(ns, 1, k) \in NodeList /\ <<ns[k + 1]>> \in NodeList
  BY <1>1 DEF NodeList
<1> QED BY <1>1, <1>2, <1>3, StoredJoin, StoredOne

\* Nodes without data store nothing.
LEMMA StoredOfEmpty ==
  ASSUME NEW ns \in NodeList, \A i \in 1 .. Len(ns) : ns[i].data = <<>>
  PROVE  Stored(ns) = <<>>
<1> DEFINE T == {k \in Nat : k <= Len(ns) => Stored(SubSeq(ns, 1, k)) = <<>>}
<1>1. 0 \in T
  <2>1. SubSeq(ns, 1, 0) = <<>>
    BY DEF NodeList
  <2> QED BY <2>1, StoredNone
<1>2. ASSUME NEW k \in Nat, k \in T PROVE k + 1 \in T
  <2>1. SUFFICES ASSUME k + 1 <= Len(ns) PROVE Stored(SubSeq(ns, 1, k + 1)) = <<>>
    OBVIOUS
  <2>2. k < Len(ns) /\ k + 1 \in 1 .. Len(ns) /\ k <= Len(ns) /\ Len(ns) \in Nat
    BY <2>1 DEF NodeList
  <2>3. Stored(SubSeq(ns, 1, k)) = <<>> /\ ns[k + 1].data = <<>>
    BY <2>2, <1>2
  <2>4. Stored(SubSeq(ns, 1, k + 1)) = <<>> \o <<>>
    BY <2>2, <2>3, StoredStep
  <2> QED BY <2>4
<1> HIDE DEF T
<1>3. Nat \subseteq T
  BY <1>1, <1>2, AllNaturals
<1>4. Len(ns) \in Nat /\ SubSeq(ns, 1, Len(ns)) = ns /\ Len(ns) <= Len(ns)
  BY SubSeqFull DEF NodeList
<1>5. Len(ns) \in T
  BY <1>3, <1>4
<1>6. Stored(SubSeq(ns, 1, Len(ns))) = <<>>
  BY <1>4, <1>5, Zenon DEF T
<1> QED BY <1>4, <1>6
\* A list is what is before a node, the node, and what is behind it.
LEMMA StoredAround ==
  ASSUME NEW ns \in NodeList, NEW i \in 1 .. Len(ns)
  PROVE  Stored(ns) = (Stored(SubSeq(ns, 1, i - 1)) \o ns[i].data) \o Stored(SubSeq(ns, i + 1, Len(ns)))
<1>1. Len(ns) \in Nat
  BY DEF NodeList
<1>2. i - 1 \in Nat /\ i - 1 < Len(ns) /\ (i - 1) + 1 = i /\ i \in 0 .. Len(ns)
  BY <1>1
<1>3. Stored(ns) = Stored(SubSeq(ns, 1, i)) \o Stored(SubSeq(ns, i + 1, Len(ns)))
  BY <1>2, StoredCut
<1>4. Stored(SubSeq(ns, 1, (i - 1) + 1)) = Stored(SubSeq(ns, 1, i - 1)) \o ns[(i - 1) + 1].data
  BY <1>2, StoredStep
<1> QED BY <1>2, <1>3, <1>4

\* The first node's bytes come first.
LEMMA StoredFirst ==
  ASSUME NEW ns \in NodeList, ns # <<>>
  PROVE  Stored(ns) = ns[1].data \o Stored(SubSeq(ns, 2, Len(ns)))
<1>1. Len(ns) \in Nat /\ 1 \in 1 .. Len(ns) /\ 1 - 1 = 0 /\ 1 + 1 = 2
  BY DEF NodeList
<1>2. SubSeq(ns, 1, 0) = <<>>
  BY SubSeqEmpty
<1>3. ns[1].data \in Seq(Byte)
  BY <1>1, DataIs, ElementOfSeq
<1>4. Stored(ns) = (Stored(<<>>) \o ns[1].data) \o Stored(SubSeq(ns, 2, Len(ns)))
  <2>1. Stored(ns) = (Stored(SubSeq(ns, 1, 1 - 1)) \o ns[1].data) \o Stored(SubSeq(ns, 1 + 1, Len(ns)))
    BY <1>1, StoredAround
  <2> QED BY <2>1, <1>1, <1>2
<1>5. <<>> \o ns[1].data = ns[1].data
  BY <1>3, ConcatEmptySeq
<1> QED BY <1>4, <1>5, StoredNone

\* The last node's bytes come last.
LEMMA StoredLast ==
  ASSUME NEW ns \in NodeList, ns # <<>>
  PROVE  Stored(ns) = Stored(SubSeq(ns, 1, Len(ns) - 1)) \o ns[Len(ns)].data
<1>1. Len(ns) \in Nat /\ Len(ns) - 1 \in Nat /\ Len(ns) - 1 < Len(ns) /\ (Len(ns) - 1) + 1 = Len(ns)
  BY DEF NodeList
<1>2. Stored(SubSeq(ns, 1, (Len(ns) - 1) + 1)) = Stored(SubSeq(ns, 1, Len(ns) - 1)) \o ns[(Len(ns) - 1) + 1].data
  BY <1>1, StoredStep
<1>3. SubSeq(ns, 1, Len(ns)) = ns
  BY SubSeqFull DEF NodeList
<1> QED BY <1>1, <1>2, <1>3

\* A list in use: only its first node has been taken from and only its last one
\* has room, no node holds more than its array, and the first is not used up.
Listed(ns) ==
  /\ ns \in NodeList /\ ns # <<>>
  /\ \A i \in 1 .. Len(ns) : ns[i].head + Len(ns[i].data) <= ns[i].max
  /\ \A i \in 1 .. Len(ns) - 1 : Room(ns[i]) = 0
  /\ \A i \in 2 .. Len(ns) : ns[i].head = 0
  /\ ~UsedUp(ns[1])

-----------------------------------------------------------------------------
(* Appending.                                                              *)

\* f is what Doubled computes.
Doubles(f, size, m) == f = [k \in 0 .. m |-> IF k = 0 THEN size ELSE 2 * f[k - 1]]

\* There is such an f, and it grows beyond every number.
LEMMA DoublesExists ==
  ASSUME NEW size \in Nat \ {0}, NEW n \in Nat
  PROVE  \E f \in [0 .. n -> Nat] : Doubles(f, size, n) /\ \A k \in 0 .. n : f[k] > k
<1> DEFINE T == {m \in Nat : \E f \in [0 .. m -> Nat] : Doubles(f, size, m) /\ \A k \in 0 .. m : f[k] > k}
<1>1. 0 \in T
  <2> DEFINE f == [k \in 0 .. 0 |-> size]
  <2>1. \A k \in 0 .. 0 : size = IF k = 0 THEN size ELSE 2 * f[k - 1]
    OBVIOUS
  <2>2. Doubles(f, size, 0)
    BY <2>1, Zenon DEF Doubles
  <2>3. f \in [0 .. 0 -> Nat] /\ \A k \in 0 .. 0 : f[k] > k
    OBVIOUS
  <2> HIDE DEF f
  <2> QED BY <2>2, <2>3
<1>2. ASSUME NEW m \in Nat, m \in T PROVE m + 1 \in T
  <2>1. PICK f \in [0 .. m -> Nat] : Doubles(f, size, m) /\ \A k \in 0 .. m : f[k] > k
    BY <1>2
  <2> DEFINE g == [k \in 0 .. m + 1 |-> IF k = 0 THEN size ELSE 2 * f[k - 1]]
  <2>2. \A k \in 0 .. m : f[k] = IF k = 0 THEN size ELSE 2 * f[k - 1]
    BY <2>1, Zenon DEF Doubles
  <2>3. \A k \in 0 .. m : f[k] = g[k]
    BY <2>2
  <2>4. \A k \in 0 .. m + 1 : g[k] = IF k = 0 THEN size ELSE 2 * f[k - 1]
    OBVIOUS
  <2>5. \A k \in 1 .. m + 1 : k - 1 \in 0 .. m /\ f[k - 1] \in Nat /\ f[k - 1] > k - 1
    BY <2>1
  <2>6. g \in [0 .. m + 1 -> Nat]
    BY <2>5
  <2> HIDE DEF g
  <2>7. \A k \in 0 .. m + 1 : (IF k = 0 THEN size ELSE 2 * f[k - 1]) = (IF k = 0 THEN size ELSE 2 * g[k - 1])
    BY <2>3, <2>5
  <2>8. Doubles(g, size, m + 1)
    BY <2>7, Zenon DEF Doubles, g
  <2>9. \A k \in 0 .. m + 1 : g[k] > k
    BY <2>4, <2>5
  <2> QED BY <2>6, <2>8, <2>9
<1> HIDE DEF T
<1>3. Nat \subseteq T
  BY <1>1, <1>2, AllNaturals
<1> QED BY <1>3 DEF T

\* There is one such f.
LEMMA DoublesIsUnique ==
  ASSUME NEW size \in Nat \ {0}, NEW n \in Nat, NEW f, NEW g, Doubles(f, size, n), Doubles(g, size, n)
  PROVE  \A k \in 0 .. n : f[k] = g[k]
<1> DEFINE T == {k \in Nat : k <= n => f[k] = g[k]}
<1>1. \A k \in 0 .. n : /\ f[k] = IF k = 0 THEN size ELSE 2 * f[k - 1]
                        /\ g[k] = IF k = 0 THEN size ELSE 2 * g[k - 1]
  BY Zenon DEF Doubles
<1>2. 0 \in T
  BY <1>1
<1>3. ASSUME NEW k \in Nat, k \in T PROVE k + 1 \in T
  <2>1. SUFFICES ASSUME k + 1 <= n PROVE f[k + 1] = g[k + 1]
    OBVIOUS
  <2>2. f[k] = g[k] /\ k + 1 \in 0 .. n /\ (k + 1) - 1 = k /\ k + 1 # 0
    BY <2>1, <1>3
  <2> QED BY <2>2, <1>1
<1> HIDE DEF T
<1>4. Nat \subseteq T
  BY <1>2, <1>3, AllNaturals
<1> QED BY <1>4 DEF T

\* A doubled size is a size: what fits in the largest is reached.
LEMMA DoubledIs ==
  ASSUME ByteQueueAssumption, NEW size \in Nat \ {0}, NEW len \in Nat
  PROVE  Doubled(size, len) \in Nat \ {0}
<1> DEFINE M == s_maxAutoNodeSize
           F == CHOOSE f : f = [k \in 0 .. M |-> IF k = 0 THEN size ELSE 2 * f[k - 1]]
           low == Lower(len, M)
           D == {n \in {F[k] : k \in 1 .. M} : n >= low}
<1>1. M \in Nat \ {0}
  BY DEF ByteQueueAssumption
<1>2. PICK g \in [0 .. M -> Nat] : Doubles(g, size, M) /\ \A k \in 0 .. M : g[k] > k
  BY <1>1, DoublesExists
<1>3. Doubles(F, size, M)
  <2>1. \E f : f = [k \in 0 .. M |-> IF k = 0 THEN size ELSE 2 * f[k - 1]]
    BY <1>2, Zenon DEF Doubles
  <2> QED BY <2>1, Zenon DEF Doubles
<1>4. Doubled(size, len) = IF m_autoNodeSize /\ size < M THEN Min(D) ELSE size
  BY Zenon DEF Doubled
<1>5. low \in Nat /\ low <= M
  BY <1>1 DEF Lower
<1> HIDE DEF F, low, M
<1>6. \A k \in 0 .. M : F[k] = g[k]
  BY <1>1, <1>2, <1>3, DoublesIsUnique
<1>7. \A k \in 0 .. M : F[k] \in Nat /\ F[k] > k
  BY <1>2, <1>6
<1>8. D \subseteq Nat \ {0}
  BY <1>1, <1>7
<1>9. F[M] \in D
  <2>1. M \in 1 .. M /\ M \in 0 .. M
    BY <1>1
  <2>2. F[M] >= low
    BY <2>1, <1>1, <1>5, <1>7
  <2> QED BY <2>1, <2>2
<1> HIDE DEF D
<1>10. Min(D) \in D
  BY <1>8, <1>9, MinOfNaturals
<1> QED BY <1>4, <1>8, <1>10
\* The fields of a new node.
LEMMA NodeIs ==
  ASSUME NEW size \in Nat \ {0}, NEW s \in Seq(Byte)
  PROVE  /\ Node(size, s) \in NodeRec
         /\ Node(size, s).max = size /\ Node(size, s).head = 0 /\ Node(size, s).data = s
BY DEF Node, NodeRec

\* A node with other bytes.
LEMMA WithData ==
  ASSUME NEW n \in NodeRec, NEW d \in Seq(Byte)
  PROVE  /\ [n EXCEPT !.data = d] \in NodeRec
         /\ [n EXCEPT !.data = d].max = n.max /\ [n EXCEPT !.data = d].head = n.head
         /\ [n EXCEPT !.data = d].data = d
BY DEF NodeRec

\* The fields of a node.
LEMMA FieldsOfNode ==
  ASSUME NEW n \in NodeRec
  PROVE  n.max \in Nat \ {0} /\ n.head \in Nat /\ n.data \in Seq(Byte) /\ Len(n.data) \in Nat
BY DEF NodeRec

\* The nodes of a list.
LEMMA NodesOfList ==
  ASSUME NEW ns \in NodeList
  PROVE  /\ Len(ns) \in Nat /\ DOMAIN ns = 1 .. Len(ns)
         /\ \A i \in 1 .. Len(ns) :
              /\ ns[i] \in NodeRec
              /\ ns[i].max \in Nat \ {0} /\ ns[i].head \in Nat
              /\ ns[i].data \in Seq(Byte) /\ Len(ns[i].data) \in Nat
         /\ ns # <<>> => Len(ns) # 0
<1>1. Len(ns) \in Nat /\ DOMAIN ns = 1 .. Len(ns) /\ (ns # <<>> => Len(ns) # 0)
  BY DEF NodeList
<1>2. \A i \in 1 .. Len(ns) : ns[i] \in NodeRec
  BY DEF NodeList
<1> QED BY <1>1, <1>2, FieldsOfNode

\* A list with another node in one place.
Replaced(ns, i, x) == [ns EXCEPT ![i] = x]

\* A list with one node changed.
LEMMA NodeChanged ==
  ASSUME NEW ns \in NodeList, NEW i \in 1 .. Len(ns), NEW x \in NodeRec
  PROVE  /\ Replaced(ns, i, x) \in NodeList /\ Len(Replaced(ns, i, x)) = Len(ns)
         /\ \A j \in 1 .. Len(ns) : Replaced(ns, i, x)[j] = IF j = i THEN x ELSE ns[j]
BY ExceptSeq DEF NodeList, Replaced

\* The same nodes in the same places.
LEMMA SameNodes ==
  ASSUME NEW ns \in NodeList, NEW ms \in NodeList, NEW a \in Nat \ {0}, NEW b \in Nat,
         b <= Len(ns), b <= Len(ms), \A j \in a .. b : ms[j] = ns[j]
  PROVE  SubSeq(ms, a, b) = SubSeq(ns, a, b)
<1>1. \A j \in a .. b : ns[j] \in NodeRec /\ ms[j] \in NodeRec
  BY NodesOfList
<1>2. /\ SubSeq(ns, a, b) \in NodeList /\ SubSeq(ms, a, b) \in NodeList
      /\ Len(SubSeq(ns, a, b)) = (IF a <= b THEN (b - a) + 1 ELSE 0)
      /\ Len(SubSeq(ms, a, b)) = Len(SubSeq(ns, a, b))
      /\ \A j \in 1 .. (b - a) + 1 :
           SubSeq(ns, a, b)[j] = ns[a + j - 1] /\ SubSeq(ms, a, b)[j] = ms[a + j - 1]
  BY <1>1, SubSeqProperties DEF NodeList
<1>3. \A j \in 1 .. Len(SubSeq(ns, a, b)) : j \in 1 .. (b - a) + 1 /\ a + j - 1 \in a .. b
  BY <1>2
<1>4. \A j \in 1 .. Len(SubSeq(ns, a, b)) : SubSeq(ms, a, b)[j] = SubSeq(ns, a, b)[j]
  BY <1>2, <1>3
<1> QED BY <1>2, <1>4, SeqEqual DEF NodeList

\* The tail takes as much of s as it has room for.
LEMMA TailFilled ==
  ASSUME NEW ns, Listed(ns), NEW s \in Seq(Byte), Len(s) <= Room(ns[Len(ns)])
  PROVE  LET ms == [ns EXCEPT ![Len(ns)].data = @ \o s]
         IN  /\ Listed(ms) /\ Stored(ms) = Stored(ns) \o s /\ Len(ms) = Len(ns)
             /\ Room(ms[Len(ns)]) = Room(ns[Len(ns)]) - Len(s)
<1> DEFINE n == Len(ns)
           x == [ns[n] EXCEPT !.data = @ \o s]
           ms == Replaced(ns, n, x)
<1>1. ns \in NodeList /\ ns # <<>>
  BY DEF Listed
<1>2. n \in Nat /\ n # 0 /\ n \in 1 .. n
  BY <1>1, NodesOfList
<1>3. ns[n] \in NodeRec /\ ns[n].data \o s \in Seq(Byte) /\ Len(ns[n].data \o s) = Len(ns[n].data) + Len(s)
  BY <1>1, <1>2, NodesOfList, ConcatProperties
<1>4. x = [ns[n] EXCEPT !.data = ns[n].data \o s]
  OBVIOUS
<1>5. /\ x \in NodeRec /\ x.max = ns[n].max /\ x.head = ns[n].head
      /\ x.data = ns[n].data \o s
  BY <1>3, <1>4, WithData
<1>6. [ns EXCEPT ![Len(ns)].data = @ \o s] = ms
  BY <1>1, <1>2 DEF NodeList, Replaced
<1> HIDE DEF x
<1>7. /\ ms \in NodeList /\ Len(ms) = n
      /\ \A j \in 1 .. n : ms[j] = IF j = n THEN x ELSE ns[j]
  BY <1>1, <1>2, <1>5, NodeChanged
<1> HIDE DEF ms, n
<1>8. Room(ms[n]) = Room(ns[n]) - Len(s)
  <2>1. ms[n] = x /\ Len(x.data) = Len(ns[n].data) + Len(s)
    BY <1>2, <1>3, <1>5, <1>7
  <2>2. ns[n].max \in Nat /\ ns[n].head \in Nat /\ Len(ns[n].data) \in Nat /\ Len(s) \in Nat
    BY <1>3, FieldsOfNode
  <2>3. x.max - x.head - Len(x.data) = (ns[n].max - ns[n].head - Len(ns[n].data)) - Len(s)
    BY <2>1, <2>2, <1>5
  <2> QED BY <2>1, <2>3 DEF Room
<1>9. Listed(ms)
  <2>1. /\ \A i \in 1 .. n : ns[i].head + Len(ns[i].data) <= ns[i].max
        /\ \A i \in 1 .. n - 1 : Room(ns[i]) = 0
        /\ \A i \in 2 .. n : ns[i].head = 0
        /\ ~UsedUp(ns[1])
    BY DEF Listed, n
  <2>2. \A i \in 1 .. n : ms[i].head = ns[i].head /\ ms[i].max = ns[i].max
    BY <1>5, <1>7
  <2>3. x.head + Len(x.data) <= x.max
    BY <1>1, <1>2, <1>3, <1>5, NodesOfList DEF Room, n
  <2>4. \A i \in 1 .. n : ms[i].head + Len(ms[i].data) <= ms[i].max
    BY <1>7, <2>1, <2>3
  <2>5. \A i \in 1 .. n - 1 : ms[i] = ns[i]
    BY <1>2, <1>7
  <2>6. ~UsedUp(ms[1])
    BY <1>2, <2>1, <2>2 DEF UsedUp
  <2>7. \A i \in 2 .. n : ms[i].head = 0
    BY <2>1, <2>2
  <2>8. ms # <<>>
    BY <1>2, <1>7
  <2> QED BY <1>7, <2>1, <2>4, <2>5, <2>6, <2>7, <2>8 DEF Listed
<1>10. Stored(ms) = Stored(ns) \o s
  <2> DEFINE front == SubSeq(ns, 1, n - 1)
  <2>1. SubSeq(ms, 1, n - 1) = front
    <3>1. \A j \in 1 .. n - 1 : ms[j] = ns[j]
      BY <1>2, <1>7
    <3>2. n - 1 \in Nat /\ n - 1 <= Len(ns) /\ n - 1 <= Len(ms)
      BY <1>2, <1>7 DEF n
    <3> QED BY <3>1, <3>2, <1>1, <1>7, SameNodes
  <2>2. Stored(ms) = Stored(front) \o ms[n].data
    BY <1>7, <1>9, <2>1, StoredLast DEF Listed
  <2>3. Stored(ns) = Stored(front) \o ns[n].data
    BY <1>1, StoredLast DEF n
  <2>4. front \in NodeList
    BY <1>1, <1>2, NodesOfList, Part DEF NodeList, n
  <2>5. Stored(front) \in Seq(Byte) /\ ns[n].data \in Seq(Byte)
    BY <2>4, <1>1, <1>2, StoredIsSequence, NodesOfList DEF n
  <2>6. (Stored(front) \o ns[n].data) \o s = Stored(front) \o (ns[n].data \o s)
    <3> DEFINE p == Stored(front)
               d == ns[n].data
    <3> HIDE DEF p, d
    <3>1. p \in Seq(Byte) /\ d \in Seq(Byte)
      BY <2>5 DEF p, d
    <3>2. (p \o d) \o s = p \o (d \o s)
      BY <3>1, BytesJoin
    <3> QED BY <3>2 DEF p, d
  <2>7. ms[n].data = ns[n].data \o s
    BY <1>2, <1>5, <1>7
  <2> QED BY <2>2, <2>3, <2>6, <2>7
<1> QED BY <1>6, <1>7, <1>8, <1>9, <1>10 DEF n
\* A node goes behind a tail that is full.
LEMMA NodeAppended ==
  ASSUME NEW ns, Listed(ns), Room(ns[Len(ns)]) = 0,
         NEW x \in NodeRec, x.head = 0, Len(x.data) <= x.max
  PROVE  Listed(Append(ns, x)) /\ Stored(Append(ns, x)) = Stored(ns) \o x.data
<1> DEFINE n == Len(ns)
           ms == Append(ns, x)
<1>1. ns \in NodeList /\ ns # <<>>
  BY DEF Listed
<1>2. n \in Nat /\ n # 0
  BY <1>1, NodesOfList
<1>3. /\ ms \in NodeList /\ ms # <<>> /\ Len(ms) = n + 1
      /\ \A i \in 1 .. n : ms[i] = ns[i]
      /\ ms[n + 1] = x
  BY <1>1, AppendProperties DEF NodeList
<1>4. Stored(ms) = Stored(ns) \o x.data
  <2>1. ms = ns \o <<x>>
    BY <1>1, AppendIsConcat DEF NodeList
  <2>2. <<x>> \in NodeList
    BY DEF NodeList
  <2> QED BY <1>1, <2>1, <2>2, StoredJoin, StoredOne
<1> HIDE DEF ms
<1>5. /\ \A i \in 1 .. n : ns[i].head + Len(ns[i].data) <= ns[i].max
      /\ \A i \in 1 .. n - 1 : Room(ns[i]) = 0
      /\ \A i \in 2 .. n : ns[i].head = 0
      /\ ~UsedUp(ns[1])
      /\ Room(ns[n]) = 0
  BY DEF Listed
<1> HIDE DEF n
<1>6. Len(x.data) \in Nat /\ x.max \in Nat
  BY FieldsOfNode
<1>7. \A i \in 1 .. n + 1 : ms[i].head + Len(ms[i].data) <= ms[i].max
  <2> TAKE i \in 1 .. n + 1
  <2>1. CASE i \in 1 .. n
    BY <2>1, <1>3, <1>5
  <2>2. CASE i = n + 1
    BY <2>2, <1>3, <1>6
  <2> QED BY <2>1, <2>2, <1>2
<1>8. \A i \in 1 .. (n + 1) - 1 : Room(ms[i]) = 0
  <2> TAKE i \in 1 .. (n + 1) - 1
  <2>1. i \in 1 .. n /\ (i \in 1 .. n - 1 \/ i = n)
    BY <1>2
  <2> QED BY <2>1, <1>3, <1>5
<1>9. \A i \in 2 .. n + 1 : ms[i].head = 0
  <2> TAKE i \in 2 .. n + 1
  <2>1. i \in 2 .. n \/ i = n + 1
    BY <1>2
  <2> QED BY <2>1, <1>3, <1>5
<1>10. ~UsedUp(ms[1])
  <2>1. 1 \in 1 .. n
    BY <1>2
  <2> QED BY <2>1, <1>3, <1>5
<1>11. Listed(ms)
  BY <1>3, <1>7, <1>8, <1>9, <1>10 DEF Listed
<1> QED BY <1>4, <1>11 DEF ms

\* Strings put into a list are stored behind what it holds.
LEMMA PutBytesIs ==
  ASSUME ByteQueueAssumption, NEW ns, Listed(ns), NEW size \in Nat \ {0}, NEW s \in Seq(Byte)
  PROVE  LET b == PutBytes(Buf(ns, size), s)
         IN  Listed(b.nodes) /\ Stored(b.nodes) = Stored(ns) \o s /\ b.size \in Nat \ {0}
<1> DEFINE n    == Len(ns)
           room == Room(ns[n])
           fits == Lower(Len(s), room)
           part == SubSeq(s, 1, fits)
           rest == SubSeq(s, fits + 1, Len(s))
           old  == [ns EXCEPT ![n].data = @ \o part]
           next == Doubled(size, Len(rest))
           x    == Node(Higher(next, Len(rest)), rest)
<1>1. ns \in NodeList /\ ns # <<>>
  BY DEF Listed
<1>2. n \in Nat /\ n # 0 /\ n \in 1 .. n
  BY <1>1, NodesOfList
<1>3. PutBytes(Buf(ns, size), s) =
        IF rest = <<>> THEN Buf(old, size) ELSE Buf(Append(old, x), next)
  <2>1. Buf(ns, size).nodes = ns /\ Buf(ns, size).size = size
    BY DEF Buf
  <2>2. Last(ns) = ns[n]
    BY DEF Last
  <2> QED BY <2>1, <2>2, Zenon DEF PutBytes
<1>4. room \in Nat
  <2>1. ns[n].head + Len(ns[n].data) <= ns[n].max
    BY <1>2, Zenon DEF Listed
  <2>2. ns[n].max \in Nat /\ ns[n].head \in Nat /\ Len(ns[n].data) \in Nat
    BY <1>1, <1>2, NodesOfList
  <2> QED BY <2>1, <2>2, SMTT(30) DEF Room
<1>5. fits \in 0 .. Len(s) /\ fits <= room /\ (fits = room \/ fits = Len(s))
  <2>1. Len(s) \in Nat
    OBVIOUS
  <2> HIDE DEF room
  <2> QED BY <2>1, <1>4 DEF Lower
<1> HIDE DEF fits
<1>6. /\ part \in Seq(Byte) /\ Len(part) = fits
      /\ rest \in Seq(Byte) /\ Len(rest) = Len(s) - fits
      /\ s = part \o rest
  BY <1>5, Part
<1> HIDE DEF part, rest
<1>7. /\ Listed(old) /\ Stored(old) = Stored(ns) \o part /\ Len(old) = n
      /\ Room(old[n]) = room - fits
  <2>1. part \in Seq(Byte) /\ Len(part) <= room
    BY <1>5, <1>6
  <2>2. LET ms == [ns EXCEPT ![Len(ns)].data = @ \o part]
        IN  /\ Listed(ms) /\ Stored(ms) = Stored(ns) \o part /\ Len(ms) = Len(ns)
            /\ Room(ms[Len(ns)]) = Room(ns[Len(ns)]) - Len(part)
    BY <2>1, TailFilled
  <2> QED BY <2>2, <1>6
<1> HIDE DEF old
<1>8. Stored(ns) \o s = Stored(old) \o rest
  <2> DEFINE p == Stored(ns)
  <2>1. p \in Seq(Byte)
    BY <1>1, StoredIsSequence
  <2> HIDE DEF p
  <2>2. (p \o part) \o rest = p \o (part \o rest)
    BY <2>1, <1>6, BytesJoin
  <2> QED BY <2>2, <1>6, <1>7 DEF p
<1>9. CASE rest = <<>>
  <2>1. PutBytes(Buf(ns, size), s).nodes = old /\ PutBytes(Buf(ns, size), s).size = size
    BY <1>3, <1>9 DEF Buf
  <2>2. old \in NodeList /\ Stored(old) \in Seq(Byte)
    BY <1>7, StoredIsSequence DEF Listed
  <2>3. Stored(old) \o rest = Stored(old)
    BY <2>2, <1>9, ConcatEmptySeq
  <2> QED BY <2>1, <2>3, <1>7, <1>8
<1>10. CASE rest # <<>>
  <2>1. PutBytes(Buf(ns, size), s).nodes = Append(old, x) /\ PutBytes(Buf(ns, size), s).size = next
    BY <1>3, <1>10 DEF Buf
  <2>2. Len(rest) \in Nat \ {0}
    BY <1>6, <1>10
  <2>3. next \in Nat \ {0}
    BY <2>2, DoubledIs
  <2>4. Room(old[n]) = 0
    <3>1. fits # Len(s)
      BY <2>2, <1>6
    <3> HIDE DEF room
    <3> QED BY <3>1, <1>4, <1>5, <1>7
  <2> HIDE DEF next
  <2>5. Higher(next, Len(rest)) \in Nat \ {0} /\ Len(rest) <= Higher(next, Len(rest))
    BY <2>2, <2>3 DEF Higher
  <2>6. x \in NodeRec /\ x.head = 0 /\ x.data = rest /\ x.max = Higher(next, Len(rest))
    BY <2>5, <1>6, NodeIs
  <2> HIDE DEF x
  <2>7. Listed(Append(old, x)) /\ Stored(Append(old, x)) = Stored(old) \o rest
    BY <2>4, <2>5, <2>6, <1>7, NodeAppended
  <2> QED BY <2>1, <2>3, <2>7, <1>8 DEF next
<1> QED BY <1>9, <1>10
-----------------------------------------------------------------------------
(* Taking.                                                                 *)

\* The bytes stored in the first k nodes.
Before(ns, k) == Len(Stored(SubSeq(ns, 1, k)))

\* Bytes before a node add up.
LEMMA BeforeIs ==
  ASSUME NEW ns \in NodeList
  PROVE  /\ \A k \in 0 .. Len(ns) : Before(ns, k) \in Nat
         /\ \A k \in 1 .. Len(ns) : Before(ns, k) = Before(ns, k - 1) + Len(ns[k].data)
<1>1. ASSUME NEW k \in 0 .. Len(ns) PROVE Before(ns, k) \in Nat
  BY StoredCut, StoredIsSequence DEF Before
<1>2. ASSUME NEW k \in 1 .. Len(ns) PROVE Before(ns, k) = Before(ns, k - 1) + Len(ns[k].data)
  <2> DEFINE p == Stored(SubSeq(ns, 1, k - 1))
             d == ns[k].data
  <2>1. Len(ns) \in Nat /\ k - 1 \in Nat /\ k - 1 < Len(ns) /\ (k - 1) + 1 = k /\ k - 1 \in 0 .. Len(ns)
    BY NodesOfList
  <2>2. Stored(SubSeq(ns, 1, (k - 1) + 1)) = Stored(SubSeq(ns, 1, k - 1)) \o ns[(k - 1) + 1].data
    BY <2>1, StoredStep
  <2>3. p \in Seq(Byte) /\ d \in Seq(Byte)
    BY <2>1, StoredCut, StoredIsSequence, NodesOfList
  <2>4. Stored(SubSeq(ns, 1, k)) = p \o d
    BY <2>1, <2>2
  <2> HIDE DEF p, d
  <2>5. Len(p \o d) = Len(p) + Len(d)
    BY <2>3, ConcatProperties
  <2> QED BY <2>4, <2>5 DEF Before, p, d
<1> QED BY <1>1, <1>2

\* The further in the list, the more bytes there are before.
LEMMA BeforeGrows ==
  ASSUME NEW ns \in NodeList, NEW i \in 0 .. Len(ns), NEW j \in 0 .. Len(ns), i <= j
  PROVE  Before(ns, i) <= Before(ns, j)
<1> DEFINE T == {k \in Nat : i + k <= Len(ns) => Before(ns, i) <= Before(ns, i + k)}
<1>1. Len(ns) \in Nat /\ \A k \in 0 .. Len(ns) : Before(ns, k) \in Nat
  BY BeforeIs, NodesOfList
<1>2. 0 \in T
  <2>1. i + 0 = i /\ Before(ns, i) \in Nat
    BY <1>1
  <2> QED BY <2>1
<1>3. ASSUME NEW k \in Nat, k \in T PROVE k + 1 \in T
  <2>1. SUFFICES ASSUME i + (k + 1) <= Len(ns) PROVE Before(ns, i) <= Before(ns, i + (k + 1))
    OBVIOUS
  <2>2. i + (k + 1) \in 1 .. Len(ns) /\ i + k \in 0 .. Len(ns) /\ (i + (k + 1)) - 1 = i + k
    BY <2>1, <1>1
  <2>3. Before(ns, i + (k + 1)) = Before(ns, (i + (k + 1)) - 1) + Len(ns[i + (k + 1)].data)
    BY <2>2, BeforeIs
  <2>4. Len(ns[i + (k + 1)].data) \in Nat
    BY <2>2, NodesOfList
  <2>5. Before(ns, i) <= Before(ns, i + k)
    BY <2>2, <1>1, <1>3
  <2>6. Before(ns, i) \in Nat /\ Before(ns, i + k) \in Nat
    BY <2>2, <1>1
  <2> QED BY <2>2, <2>3, <2>4, <2>5, <2>6
<1> HIDE DEF T
<1>4. Nat \subseteq T
  BY <1>2, <1>3, AllNaturals
<1>5. j - i \in T /\ i + (j - i) = j
  BY <1>1, <1>4
<1> QED BY <1>1, <1>5 DEF T

\* What is taken from node i when n bytes are taken off the list.
Gone(ns, n, i) == Lower(Len(ns[i].data), Higher(0, n - Before(ns, i - 1)))

\* A node loses bytes only when all before it are gone.
LEMMA GoneIs ==
  ASSUME NEW ns \in NodeList, NEW n \in Nat, NEW i \in 1 .. Len(ns)
  PROVE  /\ Gone(ns, n, i) \in 0 .. Len(ns[i].data)
         /\ Gone(ns, n, i) < Len(ns[i].data) => n < Before(ns, i)
         /\ n <= Before(ns, i - 1) => Gone(ns, n, i) = 0
         /\ Dropped(ns[i].data, Gone(ns, n, i)) = Dropped(ns[i].data, Higher(0, n - Before(ns, i - 1)))
<1> DEFINE b == Before(ns, i - 1)
           d == ns[i].data
           h == Higher(0, n - b)
<1>1. Len(ns) \in Nat /\ i - 1 \in 0 .. Len(ns) /\ d \in Seq(Byte) /\ Len(d) \in Nat
  BY NodesOfList
<1>2. b \in Nat /\ Before(ns, i) = b + Len(d)
  BY <1>1, BeforeIs
<1>3. Gone(ns, n, i) = Lower(Len(d), h)
  BY DEF Gone
<1> HIDE DEF b, d
<1>4. h \in Nat /\ (n <= b => h = 0) /\ (n > b => h = n - b)
  BY <1>2 DEF Higher
<1> HIDE DEF h
<1>5. Lower(Len(d), h) \in 0 .. Len(d)
  BY <1>1, <1>4 DEF Lower
<1>6. Lower(Len(d), h) < Len(d) => n < b + Len(d)
  BY <1>1, <1>2, <1>4 DEF Lower
<1>7. n <= b => Lower(Len(d), h) = 0
  BY <1>1, <1>4 DEF Lower
<1>8. Dropped(d, Lower(Len(d), h)) = Dropped(d, h)
  <2>1. CASE Len(d) < h
    <3>1. Lower(Len(d), h) = Len(d)
      BY <2>1 DEF Lower
    <3> QED BY <3>1, <2>1, <1>1, <1>4, DroppedIs
  <2>2. CASE ~(Len(d) < h)
    <3>1. Lower(Len(d), h) = h
      BY <2>2, <1>1, <1>4 DEF Lower
    <3> QED BY <3>1
  <2> QED BY <2>1, <2>2
<1> QED BY <1>2, <1>3, <1>5, <1>6, <1>7, <1>8 DEF b, d, h

\* A node with another m_head and other bytes.
With(n, k, d) == [n EXCEPT !.head = k, !.data = d]

\* Its fields.
LEMMA WithIs ==
  ASSUME NEW n \in NodeRec, NEW k \in Nat, NEW d \in Seq(Byte)
  PROVE  /\ With(n, k, d) \in NodeRec /\ With(n, k, d).max = n.max
         /\ With(n, k, d).head = k /\ With(n, k, d).data = d
BY DEF With, NodeRec

\* Taken, node by node.
LEMMA TakenIs ==
  ASSUME NEW ns \in NodeList, NEW n \in Nat
  PROVE  /\ Taken(ns, n) \in NodeList /\ Len(Taken(ns, n)) = Len(ns)
         /\ \A i \in 1 .. Len(ns) :
              /\ Taken(ns, n)[i].max = ns[i].max
              /\ Taken(ns, n)[i].head = ns[i].head + Gone(ns, n, i)
              /\ Taken(ns, n)[i].data = Dropped(ns[i].data, Gone(ns, n, i))
<1>1. Len(ns) \in Nat /\ DOMAIN ns = 1 .. Len(ns)
  BY NodesOfList
<1>2. Taken(ns, n) = [i \in 1 .. Len(ns) |->
        [ns[i] EXCEPT !.head = @ + Gone(ns, n, i), !.data = SubSeq(@, Gone(ns, n, i) + 1, Len(@))]]
  BY <1>1, Zenon DEF Taken, Gone, Before
<1>3. \A i \in 1 .. Len(ns) :
        Taken(ns, n)[i] = With(ns[i], ns[i].head + Gone(ns, n, i), Dropped(ns[i].data, Gone(ns, n, i)))
  BY <1>2 DEF Dropped, With
<1>4. ASSUME NEW i \in 1 .. Len(ns)
      PROVE  /\ Taken(ns, n)[i] \in NodeRec /\ Taken(ns, n)[i].max = ns[i].max
             /\ Taken(ns, n)[i].head = ns[i].head + Gone(ns, n, i)
             /\ Taken(ns, n)[i].data = Dropped(ns[i].data, Gone(ns, n, i))
  <2> DEFINE g == Gone(ns, n, i)
             m == ns[i]
             d == ns[i].data
             e == Dropped(d, g)
             h == ns[i].head + g
  <2>1. g \in Nat /\ m \in NodeRec /\ ns[i].head \in Nat /\ d \in Seq(Byte)
    BY GoneIs, NodesOfList
  <2> HIDE DEF g, d
  <2>2. h \in Nat
    BY <2>1
  <2>3. e \in Seq(Byte)
    BY <2>1, DroppedIs
  <2>4. Taken(ns, n)[i] = With(m, h, e)
    BY <1>3 DEF g, d
  <2> HIDE DEF e, h, m
  <2>5. /\ With(m, h, e) \in NodeRec /\ With(m, h, e).max = m.max
        /\ With(m, h, e).head = h /\ With(m, h, e).data = e
    BY <2>1, <2>2, <2>3, WithIs
  <2> QED BY <2>4, <2>5 DEF e, h, g, d, m
<1>5. Taken(ns, n) \in NodeList /\ Len(Taken(ns, n)) = Len(ns)
  <2>1. \A i \in 1 .. Len(ns) : Taken(ns, n)[i] \in NodeRec
    BY <1>4
  <2>2. Taken(ns, n) = [i \in 1 .. Len(ns) |-> Taken(ns, n)[i]]
    BY <1>2, Zenon
  <2> QED BY <1>1, <2>1, <2>2 DEF NodeList
<1> QED BY <1>4, <1>5
\* n bytes off the nodes are the first n bytes they store.
LEMMA StoredTaken ==
  ASSUME NEW ns \in NodeList, NEW n \in Nat
  PROVE  Stored(Taken(ns, n)) = Dropped(Stored(ns), n)
<1> DEFINE ts == Taken(ns, n)
           T == {k \in Nat : k <= Len(ns) =>
                   Stored(SubSeq(ts, 1, k)) = Dropped(Stored(SubSeq(ns, 1, k)), n)}
<1>1. ts \in NodeList /\ Len(ts) = Len(ns) /\ Len(ns) \in Nat
  BY TakenIs, NodesOfList
<1>2. \A i \in 1 .. Len(ns) : ts[i].data = Dropped(ns[i].data, Higher(0, n - Before(ns, i - 1)))
  BY TakenIs, GoneIs
<1> HIDE DEF ts
<1>3. 0 \in T
  <2>1. SubSeq(ts, 1, 0) = <<>> /\ SubSeq(ns, 1, 0) = <<>>
    BY SubSeqEmpty
  <2>2. Len(<<>>) < n + 1 /\ n + 1 \in Int /\ Len(<<>>) \in Int
    OBVIOUS
  <2>3. Dropped(<<>>, n) = <<>>
    BY <2>2, SubSeqEmpty DEF Dropped
  <2> QED BY <2>1, <2>3, StoredNone
<1>4. ASSUME NEW k \in Nat, k \in T PROVE k + 1 \in T
  <2>1. SUFFICES ASSUME k + 1 <= Len(ns)
                 PROVE  Stored(SubSeq(ts, 1, k + 1)) = Dropped(Stored(SubSeq(ns, 1, k + 1)), n)
    OBVIOUS
  <2>2. k < Len(ns) /\ k < Len(ts) /\ k + 1 \in 1 .. Len(ns) /\ (k + 1) - 1 = k /\ k \in 0 .. Len(ns)
    BY <2>1, <1>1
  <2> DEFINE p == Stored(SubSeq(ns, 1, k))
             d == ns[k + 1].data
  <2>3. Stored(SubSeq(ts, 1, k)) = Dropped(p, n)
    BY <2>2, <1>4
  <2>4. Stored(SubSeq(ts, 1, k + 1)) = Stored(SubSeq(ts, 1, k)) \o ts[k + 1].data
    BY <2>2, <1>1, StoredStep
  <2>5. Stored(SubSeq(ns, 1, k + 1)) = p \o d
    BY <2>2, StoredStep
  <2>6. p \in Seq(Byte) /\ d \in Seq(Byte)
    BY <2>2, StoredCut, StoredIsSequence, NodesOfList
  <2>7. ts[k + 1].data = Dropped(d, Higher(0, n - Len(p)))
    <3>1. ts[k + 1].data = Dropped(ns[k + 1].data, Higher(0, n - Before(ns, (k + 1) - 1)))
      BY <2>2, <1>2
    <3> QED BY <3>1, <2>2 DEF Before
  <2> HIDE DEF p, d, T
  <2>8. Dropped(p \o d, n) = Dropped(p, n) \o Dropped(d, Higher(0, n - Len(p)))
    BY <2>6, DroppedOfJoin
  <2> QED BY <2>3, <2>4, <2>5, <2>7, <2>8
<1> HIDE DEF T
<1>5. Nat \subseteq T
  BY <1>3, <1>4, AllNaturals
<1>6. SubSeq(ts, 1, Len(ns)) = ts /\ SubSeq(ns, 1, Len(ns)) = ns /\ Len(ns) <= Len(ns)
  BY <1>1, SubSeqFull DEF NodeList
<1>7. Stored(SubSeq(ts, 1, Len(ns))) = Dropped(Stored(SubSeq(ns, 1, Len(ns))), n)
  BY <1>1, <1>5, <1>6, Zenon DEF T
<1> QED BY <1>6, <1>7 DEF ts

\* A list some of whose first nodes may be used up.
Worn(ns) ==
  /\ ns \in NodeList /\ ns # <<>>
  /\ \A i \in 1 .. Len(ns) : ns[i].head + Len(ns[i].data) <= ns[i].max
  /\ \A i \in 1 .. Len(ns) - 1 : Room(ns[i]) = 0
  /\ \A i, j \in 1 .. Len(ns) : i < j /\ ~UsedUp(ns[i]) => ns[j].head = 0

\* Bytes taken off a list leave such a list.
LEMMA TakenIsWorn ==
  ASSUME NEW ns, Listed(ns), NEW n \in Nat
  PROVE  Worn(Taken(ns, n))
<1> DEFINE ts == Taken(ns, n)
           m == Len(ns)
           g(i) == Gone(ns, n, i)
<1>1. ns \in NodeList /\ ns # <<>> /\ m \in Nat /\ m # 0
  BY NodesOfList DEF Listed
<1>2. /\ ts \in NodeList /\ Len(ts) = m
      /\ \A i \in 1 .. m : /\ ts[i].max = ns[i].max /\ ts[i].head = ns[i].head + g(i)
                           /\ ts[i].data = Dropped(ns[i].data, g(i))
  BY <1>1, TakenIs
<1>3. \A i \in 1 .. m : /\ ns[i].max \in Nat /\ ns[i].head \in Nat /\ ns[i].data \in Seq(Byte)
                        /\ Len(ns[i].data) \in Nat
  BY <1>1, NodesOfList
<1>4. \A i \in 1 .. m : g(i) \in 0 .. Len(ns[i].data)
  BY <1>1, GoneIs
<1>5. \A i \in 1 .. m : Len(ts[i].data) = Len(ns[i].data) - g(i)
  <2> TAKE i \in 1 .. m
  <2> DEFINE d == ns[i].data
             k == g(i)
  <2>1. d \in Seq(Byte) /\ Len(d) \in Nat /\ k \in 0 .. Len(d) /\ ts[i].data = Dropped(d, k)
    BY <1>2, <1>3, <1>4
  <2> HIDE DEF d, k
  <2>2. k \in Nat /\ k <= Len(d)
    BY <2>1
  <2>3. Len(Dropped(d, k)) = Len(d) - k
    BY <2>1, <2>2, DroppedIs
  <2> QED BY <2>1, <2>3 DEF d, k
<1>6. /\ \A i \in 1 .. m : ns[i].head + Len(ns[i].data) <= ns[i].max
      /\ \A i \in 1 .. m - 1 : Room(ns[i]) = 0
      /\ \A i \in 2 .. m : ns[i].head = 0
  BY DEF Listed
<1> HIDE DEF ts, m
<1>7. \A i \in 1 .. m : ts[i].head + Len(ts[i].data) = ns[i].head + Len(ns[i].data)
  <2> HIDE DEF g
  <2> QED BY <1>2, <1>3, <1>4, <1>5
<1>8. \A i \in 1 .. m : ts[i].head + Len(ts[i].data) <= ts[i].max
  BY <1>2, <1>6, <1>7
<1>9. \A i \in 1 .. m - 1 : Room(ts[i]) = 0
  <2> TAKE i \in 1 .. m - 1
  <2>1. i \in 1 .. m
    BY <1>1
  <2>2. ns[i].max - ns[i].head - Len(ns[i].data) = 0
    BY <1>6 DEF Room
  <2>3. ts[i].max = ns[i].max /\ ts[i].head + Len(ts[i].data) = ns[i].head + Len(ns[i].data)
    BY <2>1, <1>2, <1>7
  <2>4. ts[i].head \in Nat /\ Len(ts[i].data) \in Nat
    BY <2>1, <1>2, NodesOfList
  <2>5. ns[i].max \in Nat /\ ns[i].head \in Nat /\ Len(ns[i].data) \in Nat
    BY <2>1, <1>3
  <2>6. ns[i].max = ns[i].head + Len(ns[i].data)
    BY <2>2, <2>5
  <2>7. ts[i].max = ts[i].head + Len(ts[i].data)
    BY <2>3, <2>6
  <2>8. ts[i].max - ts[i].head - Len(ts[i].data) = 0
    BY <2>4, <2>7
  <2> QED BY <2>8 DEF Room
<1>10. ASSUME NEW i \in 1 .. m, NEW j \in 1 .. m, i < j, ~UsedUp(ts[i])
       PROVE  ts[j].head = 0
  <2>1. i \in 1 .. m - 1 /\ j \in 2 .. m
    BY <1>1, <1>10
  <2>2. ts[i].max - ts[i].head - Len(ts[i].data) = 0 /\ ts[i].head # ts[i].max
    BY <2>1, <1>9, <1>10 DEF Room, UsedUp
  <2>3. ts[i].max \in Nat /\ ts[i].head \in Nat /\ Len(ts[i].data) \in Nat
    BY <1>2, NodesOfList
  <2>4. Len(ts[i].data) > 0
    BY <2>2, <2>3
  <2>5. g(i) < Len(ns[i].data)
    BY <2>4, <1>3, <1>4, <1>5
  <2>6. n < Before(ns, i)
    BY <2>5, <1>1, GoneIs DEF m
  <2>7. Before(ns, i) <= Before(ns, j - 1) /\ Before(ns, i) \in Nat /\ Before(ns, j - 1) \in Nat
    <3>1. i \in 0 .. Len(ns) /\ j - 1 \in 0 .. Len(ns) /\ i <= j - 1
      BY <1>1, <1>10 DEF m
    <3> QED BY <3>1, <1>1, BeforeGrows, BeforeIs
  <2>8. g(j) = 0
    <3>1. n <= Before(ns, j - 1)
      BY <2>6, <2>7
    <3> QED BY <3>1, <1>1, GoneIs DEF m
  <2>9. ns[j].head = 0
    BY <2>1, <1>6
  <2> QED BY <2>8, <2>9, <1>2
<1>11. ts # <<>>
  BY <1>1, <1>2
<1>12. Worn(ts)
  BY <1>2, <1>8, <1>9, <1>10, <1>11 DEF Worn
<1> QED BY <1>12 DEF ts
\* A node with another m_head.
LEMMA WithHead ==
  ASSUME NEW n \in NodeRec, NEW k \in Nat
  PROVE  /\ [n EXCEPT !.head = k] \in NodeRec
         /\ [n EXCEPT !.head = k].max = n.max /\ [n EXCEPT !.head = k].head = k
         /\ [n EXCEPT !.head = k].data = n.data
BY DEF NodeRec

\* The rest of a list behind its first k nodes.
LEMMA Behind ==
  ASSUME NEW ns \in NodeList, NEW k \in 1 .. Len(ns)
  PROVE  /\ SubSeq(ns, k, Len(ns)) \in NodeList /\ Len(SubSeq(ns, k, Len(ns))) = (Len(ns) - k) + 1
         /\ \A j \in 1 .. (Len(ns) - k) + 1 :
              SubSeq(ns, k, Len(ns))[j] = ns[(k + j) - 1] /\ (k + j) - 1 \in k .. Len(ns)
<1>1. Len(ns) \in Nat /\ \A i \in k .. Len(ns) : ns[i] \in NodeRec
  BY NodesOfList
<1>2. /\ SubSeq(ns, k, Len(ns)) \in Seq(NodeRec)
      /\ Len(SubSeq(ns, k, Len(ns))) = IF k <= Len(ns) THEN (Len(ns) - k) + 1 ELSE 0
      /\ \A j \in 1 .. (Len(ns) - k) + 1 : SubSeq(ns, k, Len(ns))[j] = ns[(k + j) - 1]
  BY <1>1, SubSeqProperties
<1>3. \A j \in 1 .. (Len(ns) - k) + 1 : (k + j) - 1 \in k .. Len(ns)
  BY <1>1
<1>4. k <= Len(ns)
  BY <1>1
<1> QED BY <1>2, <1>3, <1>4 DEF NodeList

\* A cleaned list is in use and stores what it did.
LEMMA CleanedUp ==
  ASSUME NEW ns, Worn(ns)
  PROVE  Listed(CleanupUsedNodes(ns)) /\ Stored(CleanupUsedNodes(ns)) = Stored(ns)
<1> DEFINE m     == Len(ns)
           D     == {i \in DOMAIN ns : i = m \/ ~UsedUp(ns[i])}
           first == Min(D)
           left  == SubSeq(ns, first, m)
           l     == (m - first) + 1
           x     == [left[1] EXCEPT !.head = 0]
           ms    == Replaced(left, 1, x)
<1>1. ns \in NodeList /\ ns # <<>> /\ m \in Nat /\ m # 0 /\ DOMAIN ns = 1 .. m
  BY NodesOfList DEF Worn
<1>2. /\ \A i \in 1 .. m : ns[i].head + Len(ns[i].data) <= ns[i].max
      /\ \A i \in 1 .. m - 1 : Room(ns[i]) = 0
      /\ \A i, j \in 1 .. m : i < j /\ ~UsedUp(ns[i]) => ns[j].head = 0
  BY DEF Worn
<1>3. \A i \in 1 .. m : /\ ns[i] \in NodeRec /\ ns[i].max \in Nat \ {0} /\ ns[i].head \in Nat
                        /\ ns[i].data \in Seq(Byte) /\ Len(ns[i].data) \in Nat
  BY <1>1, NodesOfList
<1>4. CleanupUsedNodes(ns) = IF left[1].data = <<>> THEN [left EXCEPT ![1].head = 0] ELSE left
  BY Zenon DEF CleanupUsedNodes
<1> HIDE DEF m
<1>5. first \in D /\ \A i \in D : first <= i
  <2>1. D \subseteq Nat /\ m \in D
    BY <1>1
  <2> HIDE DEF D
  <2> QED BY <2>1, MinOfNaturals
<1>6. /\ first \in 1 .. m /\ (first = m \/ ~UsedUp(ns[first]))
      /\ \A i \in 1 .. first - 1 : UsedUp(ns[i]) /\ i \in 1 .. m
  <2> HIDE DEF first
  <2>1. first \in 1 .. m /\ (first = m \/ ~UsedUp(ns[first]))
    BY <1>1, <1>5
  <2>2. \A i \in 1 .. first - 1 : i \in 1 .. m /\ ~(first <= i)
    BY <2>1, <1>1
  <2> QED BY <2>1, <2>2, <1>1, <1>5
<1> HIDE DEF first, D
<1>7. /\ left \in NodeList /\ Len(left) = l
      /\ \A j \in 1 .. l : left[j] = ns[(first + j) - 1] /\ (first + j) - 1 \in first .. m
  BY <1>1, <1>6, Behind DEF m
<1>8. l \in Nat /\ l # 0 /\ (first + 1) - 1 = first /\ 1 \in 1 .. l /\ (l = 1 <=> first = m)
  BY <1>1, <1>6
<1>9. left[1] = ns[first]
  BY <1>7, <1>8
<1>10. Stored(left) = Stored(ns)
  <2> DEFINE front == SubSeq(ns, 1, first - 1)
  <2>1. first \in 1 .. m /\ m \in Nat
    BY <1>1, <1>6
  <2>2. first - 1 \in 0 .. Len(ns) /\ (first - 1) + 1 = first
    BY <2>1 DEF m
  <2>3. /\ front \in NodeList /\ Len(front) = first - 1
        /\ Stored(ns) = Stored(front) \o Stored(left)
    <3> DEFINE k == first - 1
    <3>1. k \in 0 .. Len(ns)
      BY <2>2
    <3> HIDE DEF k
    <3>2. /\ SubSeq(ns, 1, k) \in NodeList /\ Len(SubSeq(ns, 1, k)) = k
          /\ Stored(ns) = Stored(SubSeq(ns, 1, k)) \o Stored(SubSeq(ns, k + 1, Len(ns)))
      BY <3>1, <1>1, StoredCut
    <3> QED BY <3>2, <2>2 DEF k, m
  <2>4. \A i \in 1 .. first - 1 : front[i] = ns[i]
    <3>1. \A i \in 1 .. first - 1 : ns[i] \in NodeRec
      BY <1>3, <1>6
    <3>2. \A i \in 1 .. ((first - 1) - 1) + 1 : front[i] = ns[(1 + i) - 1]
      BY <3>1, <1>6, <1>1, SubSeqProperties
    <3>3. ((first - 1) - 1) + 1 = first - 1 /\ \A i \in 1 .. first - 1 : (1 + i) - 1 = i
      BY <1>6, <1>1
    <3> QED BY <3>2, <3>3
  <2> HIDE DEF front, left
  <2>5. \A i \in 1 .. first - 1 : ns[i].data = <<>>
    <3> TAKE i \in 1 .. first - 1
    <3>1. ns[i].head = ns[i].max /\ i \in 1 .. m
      BY <1>6 DEF UsedUp
    <3>2. Len(ns[i].data) = 0
      BY <3>1, <1>2, <1>3
    <3> QED BY <3>1, <3>2, <1>3
  <2>6. Stored(front) = <<>>
    BY <2>3, <2>4, <2>5, StoredOfEmpty
  <2>7. Stored(left) \in Seq(Byte)
    BY <1>7, StoredIsSequence
  <2>8. <<>> \o Stored(left) = Stored(left)
    BY <2>7, ConcatEmptySeq
  <2> QED BY <2>3, <2>6, <2>8
<1> HIDE DEF left
<1>11. /\ \A j \in 1 .. l : left[j].head + Len(left[j].data) <= left[j].max
       /\ \A j \in 1 .. l - 1 : Room(left[j]) = 0
       /\ \A j \in 2 .. l : left[j].head = 0
  <2>1. ASSUME NEW j \in 1 .. l PROVE left[j].head + Len(left[j].data) <= left[j].max
    <3>1. (first + j) - 1 \in 1 .. m /\ left[j] = ns[(first + j) - 1]
      BY <1>6, <1>7, <1>1
    <3> QED BY <3>1, <1>2
  <2>2. ASSUME NEW j \in 1 .. l - 1 PROVE Room(left[j]) = 0
    <3>1. (first + j) - 1 \in 1 .. m - 1 /\ j \in 1 .. l
      BY <1>1, <1>6, <1>8
    <3>2. left[j] = ns[(first + j) - 1]
      BY <3>1, <1>7
    <3> QED BY <3>1, <3>2, <1>2
  <2>3. ASSUME NEW j \in 2 .. l PROVE left[j].head = 0
    <3>1. (first + j) - 1 \in 1 .. m /\ j \in 1 .. l /\ first < (first + j) - 1 /\ first # m
      BY <1>1, <1>6, <1>8
    <3>2. left[j] = ns[(first + j) - 1]
      BY <3>1, <1>7
    <3> QED BY <3>1, <3>2, <1>2, <1>6
  <2> QED BY <2>1, <2>2, <2>3
<1>12. left # <<>> /\ left[1] \in NodeRec /\ left[1].max \in Nat \ {0} /\ left[1].data \in Seq(Byte)
  BY <1>3, <1>6, <1>7, <1>8, <1>9
<1>13. CASE left[1].data # <<>>
  <2>1. ~UsedUp(left[1])
    <3>1. ns[first].head + Len(ns[first].data) <= ns[first].max
      BY <1>2, <1>6
    <3>2. Len(ns[first].data) # 0
      BY <1>9, <1>12, <1>13
    <3> QED BY <3>1, <3>2, <1>3, <1>6, <1>9 DEF UsedUp
  <2>2. Listed(left)
    BY <2>1, <1>7, <1>11, <1>12 DEF Listed
  <2> QED BY <2>2, <1>4, <1>10, <1>13
<1>14. CASE left[1].data = <<>>
  <2>1. x \in NodeRec /\ x.max = left[1].max /\ x.head = 0 /\ x.data = <<>>
    BY <1>12, <1>14, WithHead
  <2>2. [left EXCEPT ![1].head = 0] = ms
    BY <1>7, <1>8 DEF NodeList, Replaced
  <2> HIDE DEF x
  <2>3. /\ ms \in NodeList /\ Len(ms) = l
        /\ \A j \in 1 .. l : ms[j] = IF j = 1 THEN x ELSE left[j]
    <3>1. 1 \in 1 .. Len(left) /\ left \in NodeList /\ x \in NodeRec /\ Len(left) = l
      BY <2>1, <1>7, <1>8
    <3> HIDE DEF l
    <3>2. /\ ms \in NodeList /\ Len(ms) = Len(left)
          /\ \A j \in 1 .. Len(left) : ms[j] = IF j = 1 THEN x ELSE left[j]
      BY <3>1, NodeChanged
    <3> HIDE DEF ms
    <3> QED BY <3>1, <3>2
  <2> HIDE DEF ms
  <2>4. first = m
    <3>1. SUFFICES ASSUME first # m PROVE FALSE
      OBVIOUS
    <3>2. first \in 1 .. m - 1
      BY <3>1, <1>1, <1>6
    <3>3. Room(ns[first]) = 0 /\ Len(ns[first].data) = 0
      BY <3>2, <1>2, <1>9, <1>14
    <3>4. ns[first].head = ns[first].max
      BY <3>3, <1>3, <1>6 DEF Room
    <3> QED BY <3>1, <3>4, <1>6 DEF UsedUp
  <2>5. l = 1
    BY <2>4, <1>8
  <2>6. /\ \A j \in 1 .. l : ms[j].head + Len(ms[j].data) <= ms[j].max
        /\ ~UsedUp(ms[1]) /\ ms # <<>>
    BY <2>1, <2>3, <2>5, <1>12 DEF UsedUp
  <2>7. Listed(ms)
    BY <2>3, <2>5, <2>6 DEF Listed
  <2>8. Stored(ms) = Stored(left)
    <3>1. \A j \in 1 .. Len(left) : ms[j].data = left[j].data
      BY <2>1, <2>3, <1>7, <1>14
    <3> QED BY <3>1, <2>3, <1>7, StoredSame
  <2> QED BY <2>2, <2>7, <2>8, <1>4, <1>10, <1>14
<1> QED BY <1>13, <1>14
\* A list in use whose first node is replaced.
LEMMA FirstReplaced ==
  ASSUME NEW ns, Listed(ns), NEW x \in NodeRec,
         x.head + Len(x.data) <= x.max, ~UsedUp(x), Len(ns) # 1 => Room(x) = 0
  PROVE  /\ Listed(Replaced(ns, 1, x))
         /\ Stored(Replaced(ns, 1, x)) = x.data \o Stored(SubSeq(ns, 2, Len(ns)))
<1> DEFINE m  == Len(ns)
           ms == Replaced(ns, 1, x)
<1>1. ns \in NodeList /\ ns # <<>> /\ m \in Nat /\ m # 0 /\ 1 \in 1 .. m
  BY NodesOfList DEF Listed
<1>2. /\ ms \in NodeList /\ Len(ms) = m
      /\ \A j \in 1 .. m : ms[j] = IF j = 1 THEN x ELSE ns[j]
  BY <1>1, NodeChanged
<1> HIDE DEF ms
<1>3. /\ \A i \in 1 .. m : ns[i].head + Len(ns[i].data) <= ns[i].max
      /\ \A i \in 1 .. m - 1 : Room(ns[i]) = 0
      /\ \A i \in 2 .. m : ns[i].head = 0
  BY DEF Listed
<1>4. Stored(ms) = x.data \o Stored(SubSeq(ns, 2, Len(ns)))
  <2>1. ms # <<>> /\ ms[1] = x
    BY <1>1, <1>2
  <2>2. Stored(ms) = ms[1].data \o Stored(SubSeq(ms, 2, Len(ms)))
    BY <1>2, <2>1, StoredFirst
  <2>3. SubSeq(ms, 2, Len(ms)) = SubSeq(ns, 2, Len(ns))
    <3>1. /\ \A j \in 2 .. Len(ns) : ms[j] = ns[j]
          /\ Len(ms) = Len(ns) /\ Len(ns) \in Nat /\ Len(ns) <= Len(ns)
      BY <1>1, <1>2
    <3>2. SubSeq(ms, 2, Len(ns)) = SubSeq(ns, 2, Len(ns))
      BY <3>1, <1>1, <1>2, SameNodes
    <3> QED BY <3>1, <3>2
  <2> QED BY <2>1, <2>2, <2>3
<1> HIDE DEF m
<1>5. \A i \in 1 .. m : ms[i].head + Len(ms[i].data) <= ms[i].max
  BY <1>2, <1>3
<1>6. \A i \in 1 .. m - 1 : Room(ms[i]) = 0
  <2> TAKE i \in 1 .. m - 1
  <2>1. i \in 1 .. m /\ m # 1
    BY <1>1
  <2>2. Room(x) = 0
    BY <2>1 DEF m
  <2> QED BY <2>1, <2>2, <1>2, <1>3
<1>7. \A i \in 2 .. m : ms[i].head = 0
  BY <1>2, <1>3
<1>8. ms # <<>> /\ ~UsedUp(ms[1])
  BY <1>1, <1>2
<1>9. Listed(ms)
  BY <1>2, <1>5, <1>6, <1>7, <1>8 DEF Listed
<1> QED BY <1>4, <1>9 DEF ms

\* A full node goes before a list nothing has been taken from.
LEMMA NodePrefixed ==
  ASSUME NEW ns, Listed(ns), ns[1].head = 0, NEW s \in Seq(Byte), s # <<>>
  PROVE  /\ Listed(<<Node(Len(s), s)>> \o ns)
         /\ Stored(<<Node(Len(s), s)>> \o ns) = s \o Stored(ns)
<1> DEFINE m  == Len(ns)
           x  == Node(Len(s), s)
           ms == <<x>> \o ns
<1>1. ns \in NodeList /\ ns # <<>> /\ m \in Nat /\ m # 0
  BY NodesOfList DEF Listed
<1>2. Len(s) \in Nat \ {0}
  OBVIOUS
<1>3. x \in NodeRec /\ x.max = Len(s) /\ x.head = 0 /\ x.data = s
  BY <1>2, NodeIs
<1> HIDE DEF x
<1>4. <<x>> \in NodeList /\ Len(<<x>>) = 1 /\ (<<x>>)[1] = x
  BY <1>3 DEF NodeList
<1>5. /\ ms \in NodeList /\ Len(ms) = 1 + m
      /\ \A i \in 1 .. 1 + m : ms[i] = IF i <= 1 THEN (<<x>>)[i] ELSE ns[i - 1]
  <2>1. /\ <<x>> \o ns \in Seq(NodeRec)
        /\ Len(<<x>> \o ns) = Len(<<x>>) + Len(ns)
        /\ \A i \in 1 .. Len(<<x>>) + Len(ns) :
             (<<x>> \o ns)[i] = IF i <= Len(<<x>>) THEN (<<x>>)[i] ELSE ns[i - Len(<<x>>)]
    BY <1>1, <1>4, ConcatProperties DEF NodeList
  <2> QED BY <2>1, <1>4 DEF NodeList
<1>6. Stored(ms) = s \o Stored(ns)
  BY <1>1, <1>3, <1>4, StoredJoin, StoredOne
<1> HIDE DEF ms
<1>7. /\ \A i \in 1 .. m : ns[i].head + Len(ns[i].data) <= ns[i].max
      /\ \A i \in 1 .. m - 1 : Room(ns[i]) = 0
      /\ \A i \in 2 .. m : ns[i].head = 0
  BY DEF Listed
<1> HIDE DEF m
<1>8. ms[1] = x /\ \A i \in 2 .. 1 + m : ms[i] = ns[i - 1] /\ i - 1 \in 1 .. m
  BY <1>1, <1>4, <1>5
<1>9. \A i \in 1 .. 1 + m : ms[i].head + Len(ms[i].data) <= ms[i].max
  <2> TAKE i \in 1 .. 1 + m
  <2>1. i = 1 \/ i \in 2 .. 1 + m
    BY <1>1
  <2>2. CASE i = 1
    BY <2>2, <1>2, <1>3, <1>8
  <2>3. CASE i \in 2 .. 1 + m
    BY <2>3, <1>7, <1>8
  <2> QED BY <2>1, <2>2, <2>3
<1>10. \A i \in 1 .. (1 + m) - 1 : Room(ms[i]) = 0
  <2> TAKE i \in 1 .. (1 + m) - 1
  <2>1. i = 1 \/ (i \in 2 .. 1 + m /\ i - 1 \in 1 .. m - 1)
    BY <1>1
  <2>2. CASE i = 1
    BY <2>2, <1>2, <1>3, <1>8 DEF Room
  <2>3. CASE i \in 2 .. 1 + m /\ i - 1 \in 1 .. m - 1
    BY <2>3, <1>7, <1>8
  <2> QED BY <2>1, <2>2, <2>3
<1>11. \A i \in 2 .. 1 + m : ms[i].head = 0
  <2> TAKE i \in 2 .. 1 + m
  <2>1. i = 2 \/ i - 1 \in 2 .. m
    BY <1>1
  <2>2. CASE i = 2
    BY <2>2, <1>8
  <2>3. CASE i - 1 \in 2 .. m
    BY <2>3, <1>7, <1>8
  <2> QED BY <2>1, <2>2, <2>3
<1>12. ms # <<>> /\ ~UsedUp(ms[1])
  BY <1>1, <1>2, <1>3, <1>5, <1>8 DEF UsedUp
<1>13. Listed(ms)
  BY <1>5, <1>9, <1>10, <1>11, <1>12 DEF Listed
<1> QED BY <1>6, <1>13 DEF ms, x

\* What Unget makes of a list.
Ungot(ns, s) ==
  LET len  == Lower(Len(s), ns[1].head)
      part == UngetSplit(s, len)
      ms   == Replaced(ns, 1, With(ns[1], ns[1].head - len, part.old \o ns[1].data))
  IN  IF part.new = <<>> THEN ms ELSE <<Node(Len(part.new), part.new)>> \o ms

\* What is put back comes first, and the list stays one of a queue.
LEMMA UngotIs ==
  ASSUME NEW ns, Listed(ns), NEW s \in Seq(Byte)
  PROVE  Listed(Ungot(ns, s)) /\ Stored(Ungot(ns, s)) = s \o Stored(ns)
<1> DEFINE n    == ns[1]
           len  == Lower(Len(s), n.head)
           k    == Len(s) - len
           new  == SubSeq(s, 1, k)
           old  == SubSeq(s, k + 1, Len(s))
           d    == n.data
           e    == old \o d
           h    == n.head - len
           x    == With(n, h, e)
           ms   == Replaced(ns, 1, x)
           back == Stored(SubSeq(ns, 2, Len(ns)))
<1>1. /\ ns \in NodeList /\ ns # <<>> /\ Len(ns) \in Nat /\ 1 \in 1 .. Len(ns)
      /\ n \in NodeRec /\ n.max \in Nat \ {0} /\ n.head \in Nat /\ d \in Seq(Byte) /\ Len(d) \in Nat
  <2>1. ns \in NodeList /\ ns # <<>>
    BY DEF Listed
  <2>2. Len(ns) \in Nat /\ 1 \in 1 .. Len(ns)
    BY <2>1, NodesOfList
  <2> QED BY <2>1, <2>2, NodesOfList
<1>2. /\ n.head + Len(d) <= n.max /\ ~UsedUp(n)
      /\ Len(ns) # 1 => Room(n) = 0
  <2> DEFINE l == Len(ns)
  <2>1. l \in Nat /\ 1 \in 1 .. l
    BY <1>1
  <2> HIDE DEF l
  <2>2. l # 1 => 1 \in 1 .. l - 1
    BY <2>1
  <2> QED BY <2>1, <2>2 DEF Listed, l
<1>3. Ungot(ns, s) = IF new = <<>> THEN ms ELSE <<Node(Len(new), new)>> \o ms
  <2>1. UngetSplit(s, len).new = new /\ UngetSplit(s, len).old = old
    BY DEF UngetSplit
  <2> QED BY <2>1 DEF Ungot
<1> HIDE DEF n
<1>4. len \in 0 .. Len(s) /\ len <= n.head /\ (len = n.head \/ len = Len(s)) /\ k \in 0 .. Len(s)
  <2>1. Len(s) \in Nat
    OBVIOUS
  <2> QED BY <2>1, <1>1 DEF Lower
<1> HIDE DEF len
<1>5. /\ new \in Seq(Byte) /\ Len(new) = k /\ old \in Seq(Byte) /\ Len(old) = Len(s) - k
      /\ s = new \o old
  BY <1>4, Part
<1>6. Len(old) = len /\ Len(s) \in Nat
  BY <1>4, <1>5
<1> HIDE DEF new, old, k
<1> HIDE DEF d
<1>7. e \in Seq(Byte) /\ Len(e) = len + Len(d)
  BY <1>1, <1>5, <1>6, ConcatProperties
<1>8. h \in Nat /\ h + Len(e) = n.head + Len(d) /\ h <= n.head
  BY <1>1, <1>4, <1>7
<1> HIDE DEF h, e
<1>9. x \in NodeRec /\ x.max = n.max /\ x.head = h /\ x.data = e
  BY <1>1, <1>7, <1>8, WithIs
<1> HIDE DEF x
<1>10. /\ x.head + Len(x.data) <= x.max /\ ~UsedUp(x)
       /\ Len(ns) # 1 => Room(x) = 0
  <2>1. n.head # n.max
    BY <1>2 DEF UsedUp
  <2>2. x.head + Len(x.data) <= x.max /\ x.head # x.max
    BY <2>1, <1>1, <1>2, <1>8, <1>9
  <2>3. Room(x) = Room(n)
    <3>1. x.max \in Nat /\ x.head \in Nat /\ Len(x.data) \in Nat
      BY <1>9, FieldsOfNode
    <3>2. x.max - x.head - Len(x.data) = x.max - (x.head + Len(x.data))
      BY <3>1
    <3>3. n.max - n.head - Len(n.data) = n.max - (n.head + Len(n.data))
      BY <1>1 DEF d
    <3>4. x.max - (x.head + Len(x.data)) = n.max - (n.head + Len(n.data))
      BY <1>8, <1>9 DEF d
    <3> QED BY <3>2, <3>3, <3>4 DEF Room
  <2> QED BY <2>2, <2>3, <1>2 DEF UsedUp
<1>11. Listed(ms) /\ Stored(ms) = e \o back
  BY <1>9, <1>10, FirstReplaced
<1>12. Stored(ns) = d \o back
  BY <1>1, StoredFirst DEF d, n
<1>13. back \in Seq(Byte)
  <2>1. 1 \in 0 .. Len(ns) /\ 1 + 1 = 2
    BY <1>1
  <2>2. SubSeq(ns, 1 + 1, Len(ns)) \in NodeList
    BY <1>1, <2>1, StoredCut
  <2> QED BY <2>1, <2>2, StoredIsSequence
<1>14. ms[1] = x
  BY <1>1, <1>9, NodeChanged
<1> HIDE DEF ms, back
<1>15. Stored(ms) = old \o Stored(ns)
  <2>1. (old \o d) \o back = old \o (d \o back)
    <3>1. old \in Seq(Byte) /\ d \in Seq(Byte) /\ back \in Seq(Byte)
      BY <1>1, <1>5, <1>13
    <3> QED BY <3>1, BytesJoin
  <2> QED BY <2>1, <1>11, <1>12 DEF e
<1>16. CASE new = <<>>
  <2>1. s = old
    BY <1>5, <1>16, ConcatEmptySeq
  <2> QED BY <2>1, <1>3, <1>11, <1>15, <1>16
<1>17. CASE new # <<>>
  <2>1. len # Len(s)
    BY <1>4, <1>5, <1>6, <1>17
  <2>2. h = 0
    BY <2>1, <1>1, <1>4 DEF h
  <2>3. /\ Listed(<<Node(Len(new), new)>> \o ms)
        /\ Stored(<<Node(Len(new), new)>> \o ms) = new \o Stored(ms)
    BY <2>2, <1>5, <1>9, <1>11, <1>14, <1>17, NodePrefixed
  <2>4. new \o (old \o Stored(ns)) = (new \o old) \o Stored(ns)
    <3> DEFINE p == Stored(ns)
    <3>1. p \in Seq(Byte)
      BY <1>1, StoredIsSequence
    <3> HIDE DEF p
    <3>2. new \in Seq(Byte) /\ old \in Seq(Byte)
      BY <1>5
    <3>3. new \o (old \o p) = (new \o old) \o p
      BY <3>1, <3>2, BytesJoin
    <3> QED BY <3>3 DEF p
  <2> QED BY <2>3, <2>4, <1>3, <1>5, <1>15, <1>17
<1> QED BY <1>16, <1>17
-----------------------------------------------------------------------------
(* The Walker.                                                             *)

\* To drop a and then b is to drop a + b.
LEMMA DroppedTwice ==
  ASSUME NEW S, NEW s \in Seq(S), NEW a \in Nat, NEW b \in Nat
  PROVE  Dropped(Dropped(s, a), b) = Dropped(s, a + b)
<1> DEFINE t == Dropped(s, a)
           u == Dropped(t, b)
           v == Dropped(s, a + b)
<1>1. Len(s) \in Nat /\ a + b \in Nat
  OBVIOUS
<1>2. /\ t \in Seq(S) /\ Len(t) = IF a <= Len(s) THEN Len(s) - a ELSE 0
      /\ \A i \in 1 .. Len(s) - a : t[i] = s[a + i]
  BY DroppedIs
<1>3. /\ v \in Seq(S) /\ Len(v) = IF a + b <= Len(s) THEN Len(s) - (a + b) ELSE 0
      /\ \A i \in 1 .. Len(s) - (a + b) : v[i] = s[(a + b) + i]
  BY <1>1, DroppedIs
<1> HIDE DEF t, v
<1>4. /\ u \in Seq(S) /\ Len(u) = IF b <= Len(t) THEN Len(t) - b ELSE 0
      /\ \A i \in 1 .. Len(t) - b : u[i] = t[b + i]
  BY <1>2, DroppedIs
<1> HIDE DEF u
<1>5. Len(u) = Len(v) /\ Len(v) \in Nat /\ (Len(v) > 0 => Len(t) = Len(s) - a /\ Len(v) = Len(t) - b
                                                    /\ Len(v) = Len(s) - (a + b))
  <2>1. Len(t) = (IF a <= Len(s) THEN Len(s) - a ELSE 0) /\ Len(u) = (IF b <= Len(t) THEN Len(t) - b ELSE 0)
        /\ Len(v) = (IF a + b <= Len(s) THEN Len(s) - (a + b) ELSE 0)
    BY <1>2, <1>3, <1>4
  <2>2. CASE a <= Len(s)
    BY <2>1, <2>2, <1>1
  <2>3. CASE ~(a <= Len(s))
    BY <2>1, <2>3, <1>1
  <2> QED BY <2>2, <2>3
<1>6. ASSUME NEW i \in 1 .. Len(u) PROVE u[i] = v[i]
  <2>1. Len(v) > 0 /\ i \in 1 .. Len(v)
    BY <1>5
  <2>2. Len(t) = Len(s) - a /\ Len(v) = Len(t) - b /\ Len(v) = Len(s) - (a + b)
    BY <2>1, <1>5
  <2>3. i \in 1 .. Len(t) - b /\ i \in 1 .. Len(s) - (a + b) /\ b + i \in 1 .. Len(s) - a
        /\ a + (b + i) = (a + b) + i
    BY <2>1, <2>2, <1>1
  <2>4. u[i] = t[b + i] /\ t[b + i] = s[a + (b + i)] /\ v[i] = s[(a + b) + i]
    BY <2>3, <1>2, <1>3, <1>4
  <2> QED BY <2>3, <2>4
<1>7. u = v
  BY <1>3, <1>4, <1>5, <1>6, SeqEqual
<1> QED BY <1>7 DEF u, v, t

\* To drop nothing.
LEMMA DroppedNone ==
  ASSUME NEW S, NEW s \in Seq(S)
  PROVE  Dropped(s, 0) = s
BY SubSeqFull DEF Dropped

\* A Walker that stands at a node of the queue or behind the last one.
Placed(w) ==
  /\ w.node \in 1 .. Len(nodes) + 1 /\ w.offset \in Nat
  /\ w.lazy \in Seq(Byte) /\ w.seen \in Seq(Byte)

\* What it has read and what it has still to read are the queue.
Reads(w) == Placed(w) /\ w.seen \o FlattenSeq(Pieces(w)) = Contents

\* The pieces before a Walker, one by one.
LEMMA PiecesAre ==
  ASSUME nodes \in NodeList, NEW w, Placed(w)
  PROVE  /\ Pieces(w) \in Seq(Seq(Byte)) /\ Len(Pieces(w)) = Len(nodes) + 2 - w.node
         /\ Len(Pieces(w)) \in Nat \ {0}
         /\ \A i \in 1 .. Len(Pieces(w)) :
              Pieces(w)[i] = IF i = Len(Pieces(w)) THEN w.lazy
                             ELSE Dropped(nodes[w.node + i - 1].data, Offset(w, i))
         /\ \A i \in 1 .. Len(Pieces(w)) - 1 : w.node + i - 1 \in 1 .. Len(nodes)
         /\ \A i \in 1 .. Len(Pieces(w)) : Offset(w, i) \in Nat
<1> DEFINE l == Len(nodes) + 2 - w.node
           piece(i) == IF i = l THEN w.lazy ELSE Dropped(nodes[w.node + i - 1].data, Offset(w, i))
<1>1. Len(nodes) \in Nat /\ w.node \in 1 .. Len(nodes) + 1 /\ w.offset \in Nat /\ w.lazy \in Seq(Byte)
  BY NodesOfList DEF Placed
<1>2. l \in Nat \ {0}
  BY <1>1
<1>3. \A i \in 1 .. l : Offset(w, i) \in Nat
  BY <1>1 DEF Offset
<1>4. \A i \in 1 .. l : i # l => w.node + i - 1 \in 1 .. Len(nodes)
  BY <1>1
<1>5. \A i \in 1 .. l : (w.node + i - 1 > Len(nodes)) <=> i = l
  BY <1>1
<1>6. ASSUME NEW i \in 1 .. l PROVE piece(i) \in Seq(Byte)
  <2>1. CASE i = l
    BY <2>1, <1>1
  <2>2. CASE i # l
    <3> DEFINE d == nodes[w.node + i - 1].data
               o == Offset(w, i)
    <3>1. d \in Seq(Byte) /\ o \in Nat
      BY <2>2, <1>3, <1>4, NodesOfList
    <3> HIDE DEF d, o
    <3>2. Dropped(d, o) \in Seq(Byte)
      BY <3>1, DroppedIs
    <3> QED BY <2>2, <3>2 DEF d, o
  <2> QED BY <2>1, <2>2
<1>7. ASSUME NEW i \in 1 .. l PROVE Pieces(w)[i] = piece(i)
  <2>1. Pieces(w)[i] = IF w.node + i - 1 > Len(nodes) THEN w.lazy
                       ELSE LET d == nodes[w.node + i - 1].data
                            IN  IF i = 1 THEN SubSeq(d, w.offset + 1, Len(d)) ELSE d
    BY DEF Pieces
  <2>2. CASE i = l
    BY <2>1, <2>2, <1>5
  <2>3. CASE i # l
    <3> DEFINE d == nodes[w.node + i - 1].data
    <3>1. Pieces(w)[i] = IF i = 1 THEN SubSeq(d, w.offset + 1, Len(d)) ELSE d
      BY <2>1, <2>3, <1>5
    <3>2. d \in Seq(Byte)
      BY <2>3, <1>4, NodesOfList
    <3> HIDE DEF d
    <3>3. piece(i) = Dropped(d, Offset(w, i))
      BY <2>3 DEF d
    <3>4. CASE i = 1
      BY <3>1, <3>3, <3>4 DEF Dropped, Offset
    <3>5. CASE i # 1
      BY <3>1, <3>2, <3>3, <3>5, DroppedNone DEF Offset
    <3> QED BY <3>4, <3>5
  <2> QED BY <2>2, <2>3
<1> HIDE DEF piece
<1>8. Pieces(w) \in Seq(Seq(Byte)) /\ Len(Pieces(w)) = l
  <2>1. Pieces(w) = [i \in 1 .. l |-> Pieces(w)[i]]
    BY DEF Pieces
  <2>2. \A i \in 1 .. l : Pieces(w)[i] \in Seq(Byte)
    BY <1>6, <1>7
  <2> HIDE DEF l
  <2> QED BY <2>1, <2>2, <1>2
<1>9. \A i \in 1 .. l : Pieces(w)[i] = IF i = l THEN w.lazy
                             ELSE Dropped(nodes[w.node + i - 1].data, Offset(w, i))
  BY <1>7 DEF piece
<1> HIDE DEF l
<1>10. \A i \in 1 .. l - 1 : w.node + i - 1 \in 1 .. Len(nodes)
  <2>1. \A i \in 1 .. l - 1 : i \in 1 .. l /\ i # l
    BY <1>2
  <2> QED BY <2>1, <1>4
<1> QED BY <1>2, <1>3, <1>8, <1>9, <1>10 DEF l
\* The Walker when it has gone on.
LEMMA ReachedIs ==
  ASSUME nodes \in NodeList, NEW w, Placed(w), NEW j \in 1 .. Len(Pieces(w)),
         NEW part \in 0 .. Len(Pieces(w)[j])
  PROVE  /\ Placed(Reached(w, j, part)) /\ Reached(w, j, part).node = w.node + j - 1
         /\ j < Len(Pieces(w)) =>
              /\ Reached(w, j, part).offset = Offset(w, j) + part
              /\ Reached(w, j, part).lazy = w.lazy
         /\ j = Len(Pieces(w)) => Reached(w, j, part).lazy = Dropped(w.lazy, part)
         /\ Reached(w, j, part).seen =
              (w.seen \o FlattenSeq(SubSeq(Pieces(w), 1, j - 1))) \o SubSeq(Pieces(w)[j], 1, part)
<1> DEFINE p == Pieces(w)
           r == Reached(w, j, part)
           b == FlattenSeq(SubSeq(p, 1, j - 1))
<1>1. /\ p \in Seq(Seq(Byte)) /\ Len(p) = Len(nodes) + 2 - w.node /\ Len(p) \in Nat
      /\ Offset(w, j) \in Nat
  BY PiecesAre
<1>2. Len(nodes) \in Nat /\ w.node \in 1 .. Len(nodes) + 1 /\ w.lazy \in Seq(Byte) /\ w.seen \in Seq(Byte)
  BY NodesOfList DEF Placed
<1>3. /\ r.node = w.node + j - 1
      /\ r.offset = IF j < Len(p) THEN Offset(w, j) + part ELSE 0
      /\ r.lazy = IF j < Len(p) THEN w.lazy ELSE Dropped(w.lazy, part)
      /\ r.seen = w.seen \o b \o SubSeq(p[j], 1, part)
  BY DEF Reached, Dropped
<1>4. part \in Nat
  BY <1>1, ElementOfSeq
<1> HIDE DEF r, p
<1>5. r.node \in 1 .. Len(nodes) + 1
  <2>1. j \in 1 .. (Len(nodes) + 2 - w.node) /\ r.node = w.node + j - 1
    BY <1>1, <1>3 DEF p
  <2>2. Len(nodes) \in Nat /\ w.node \in Nat
    BY <1>2
  <2>3. j \in Int /\ 1 <= j /\ j <= Len(nodes) + 2 - w.node
    BY <2>1, <2>2
  <2>4. 1 <= w.node
    BY <1>2
  <2> QED BY <2>1, <2>2, <2>3, <2>4
<1>6. r.offset \in Nat
  BY <1>4, <1>1, <1>3
<1>7. r.lazy \in Seq(Byte)
  <2>1. Dropped(w.lazy, part) \in Seq(Byte)
    BY <1>4, <1>2, DroppedIs
  <2> QED BY <2>1, <1>2, <1>3
<1>8. r.seen \in Seq(Byte)
  <2>1. SubSeq(p, 1, j - 1) \in Seq(Seq(Byte))
    <3>1. j - 1 \in 0 .. Len(p)
      BY <1>1 DEF p
    <3> QED BY <3>1, <1>1, Part
  <2>2. b \in Seq(Byte)
    BY <2>1, FlattenIsSequence
  <2> HIDE DEF b
  <2> DEFINE q == SubSeq(p[j], 1, part)
  <2>3. q \in Seq(Byte)
    <3>1. p[j] \in Seq(Byte)
      BY <1>1, ElementOfSeq DEF p
    <3> DEFINE e == p[j]
    <3>2. e \in Seq(Byte)
      BY <3>1
    <3> HIDE DEF e
    <3>3. SubSeq(e, 1, part) \in Seq(Byte)
      BY <3>2, Part DEF e, p
    <3> QED BY <3>3 DEF e
  <2> HIDE DEF q
  <2>4. (w.seen \o b) \o q \in Seq(Byte)
    BY <1>2, <2>2, <2>3, ConcatProperties
  <2> QED BY <2>4, <1>3 DEF q
<1>9. Placed(r)
  BY <1>5, <1>6, <1>7, <1>8 DEF Placed
<1> QED BY <1>3, <1>9 DEF r, p
\* When it has read part of a piece, the rest of that and the others are left.
LEMMA PiecesAfter ==
  ASSUME nodes \in NodeList, NEW w, Placed(w), NEW j \in 1 .. Len(Pieces(w)),
         NEW part \in 0 .. Len(Pieces(w)[j])
  PROVE  Pieces(Reached(w, j, part)) =
           <<Dropped(Pieces(w)[j], part)>> \o SubSeq(Pieces(w), j + 1, Len(Pieces(w)))
<1> DEFINE p == Pieces(w)
           l == Len(p)
           r == Reached(w, j, part)
           q == Pieces(r)
           x == Dropped(p[j], part)
           t == SubSeq(p, j + 1, l)
           u == <<x>> \o t
<1>1. /\ p \in Seq(Seq(Byte)) /\ l = Len(nodes) + 2 - w.node /\ l \in Nat \ {0}
      /\ \A i \in 1 .. l : p[i] = IF i = l THEN w.lazy ELSE Dropped(nodes[w.node + i - 1].data, Offset(w, i))
      /\ \A i \in 1 .. l - 1 : w.node + i - 1 \in 1 .. Len(nodes)
      /\ \A i \in 1 .. l : Offset(w, i) \in Nat
  BY PiecesAre
<1>2. /\ Placed(r) /\ r.node = w.node + j - 1
      /\ j < l => r.offset = Offset(w, j) + part /\ r.lazy = w.lazy
      /\ j = l => r.lazy = Dropped(w.lazy, part)
  BY ReachedIs
<1> HIDE DEF r
<1>3. /\ q \in Seq(Seq(Byte)) /\ Len(q) = Len(nodes) + 2 - r.node
      /\ \A i \in 1 .. Len(q) :
           q[i] = IF i = Len(q) THEN r.lazy ELSE Dropped(nodes[r.node + i - 1].data, Offset(r, i))
  BY <1>2, PiecesAre
<1>4. Len(nodes) \in Nat /\ w.node \in Nat /\ w.lazy \in Seq(Byte)
  BY NodesOfList DEF Placed
<1>5. j \in 1 .. l /\ part \in 0 .. Len(p[j]) /\ p[j] \in Seq(Byte)
  BY <1>1, ElementOfSeq
<1> HIDE DEF q, p
<1>6. l \in Nat /\ j \in Nat /\ 1 <= j /\ j <= l /\ part \in Nat
  BY <1>1, <1>5
<1>7. Len(q) = (l - j) + 1
  <2>1. Len(q) = Len(nodes) + 2 - (w.node + j - 1) /\ l = Len(nodes) + 2 - w.node
    BY <1>1, <1>2, <1>3
  <2> HIDE DEF l
  <2> QED BY <2>1, <1>4, <1>6, SMTT(30)
<1>8. x \in Seq(Byte)
  BY <1>5, <1>6, DroppedIs
<1>9. /\ t \in Seq(Seq(Byte)) /\ Len(t) = l - j
      /\ \A i \in 1 .. l - j : t[i] = p[j + i]
  <2>1. Dropped(p, j) = t
    BY DEF Dropped
  <2> HIDE DEF t
  <2>2. /\ Dropped(p, j) \in Seq(Seq(Byte))
        /\ Len(Dropped(p, j)) = IF j <= Len(p) THEN Len(p) - j ELSE 0
        /\ \A i \in 1 .. Len(p) - j : Dropped(p, j)[i] = p[j + i]
    BY <1>1, <1>6, DroppedIs
  <2> QED BY <2>1, <2>2, <1>6
<1> HIDE DEF x, t
<1>10. /\ u \in Seq(Seq(Byte)) /\ Len(u) = 1 + (l - j)
       /\ u[1] = x
       /\ \A i \in 2 .. 1 + (l - j) : u[i] = t[i - 1]
  <2> DEFINE v == <<x>>
  <2>1. v \in Seq(Seq(Byte)) /\ Len(v) = 1 /\ v[1] = x
    BY <1>8
  <2> HIDE DEF v
  <2>2. /\ v \o t \in Seq(Seq(Byte)) /\ Len(v \o t) = Len(v) + Len(t)
        /\ \A i \in 1 .. Len(v) + Len(t) : (v \o t)[i] = IF i <= Len(v) THEN v[i] ELSE t[i - Len(v)]
    BY <2>1, <1>9, ConcatProperties
  <2>3. u = v \o t
    BY DEF v
  <2> HIDE DEF u, l
  <2>4. 1 \in 1 .. 1 + (l - j) /\ l - j \in Nat
    BY <1>6
  <2> QED BY <2>1, <2>2, <2>3, <2>4, <1>9
<1> HIDE DEF u
<1>11. ASSUME NEW i \in 1 .. Len(q) PROVE q[i] = u[i]
  <2> HIDE DEF l
  <2>1. i \in Nat /\ 1 <= i /\ i <= (l - j) + 1
    BY <1>6, <1>7
  <2>2. CASE i = 1
    <3>1. CASE j = l
      <4>1. i = Len(q)
        BY <2>2, <3>1, <1>6, <1>7
      <4>2. q[i] = Dropped(w.lazy, part) /\ p[j] = w.lazy
        BY <4>1, <3>1, <1>1, <1>2, <1>3, <1>5
      <4> QED BY <4>2, <2>2, <1>10 DEF x
    <3>2. CASE j # l
      <4> DEFINE d == nodes[w.node + j - 1].data
                 o == Offset(w, j)
      <4>1. i # Len(q) /\ r.node + i - 1 = w.node + j - 1 /\ j < l /\ j \in 1 .. l - 1
        BY <2>2, <3>2, <1>2, <1>4, <1>6, <1>7
      <4>2. q[i] = Dropped(d, Offset(r, i))
        BY <4>1, <1>3
      <4>3. Offset(r, i) = o + part
        BY <2>2, <4>1, <1>2 DEF Offset
      <4>4. p[j] = Dropped(d, o)
        BY <3>2, <1>1, <1>5
      <4>5. d \in Seq(Byte) /\ o \in Nat
        BY <4>1, <1>1, <1>5, NodesOfList
      <4> HIDE DEF d, o
      <4>6. Dropped(Dropped(d, o), part) = Dropped(d, o + part)
        BY <4>5, <1>6, DroppedTwice
      <4> QED BY <4>2, <4>3, <4>4, <4>6, <2>2, <1>10 DEF x
    <3> QED BY <3>1, <3>2
  <2>3. CASE i # 1
    <3> DEFINE k == j + i - 1
    <3>1. /\ i \in 2 .. 1 + (l - j) /\ i - 1 \in 1 .. l - j /\ j + (i - 1) = k /\ k \in 1 .. l
          /\ k # 1 /\ j < l /\ r.node + i - 1 = w.node + k - 1 /\ (i = Len(q) <=> k = l)
      BY <2>1, <2>3, <1>2, <1>4, <1>6, <1>7
    <3>2. u[i] = p[k]
      BY <3>1, <1>9, <1>10
    <3>3. Offset(r, i) = Offset(w, k)
      BY <3>1, <2>3 DEF Offset
    <3> HIDE DEF k
    <3>4. q[i] = p[k]
      BY <3>1, <3>3, <1>1, <1>2, <1>3
    <3> QED BY <3>2, <3>4
  <2> QED BY <2>2, <2>3
<1>12. q = u
  <2>1. Len(q) = Len(u)
    <3> HIDE DEF l
    <3> QED BY <1>6, <1>7, <1>10
  <2> QED BY <2>1, <1>3, <1>10, <1>11, SeqEqual
<1> QED BY <1>12 DEF q, u, x, t, p, r
\* A sequence of sequences is what is before one of them, that one, the others.
LEMMA FlattenAround ==
  ASSUME NEW S, NEW p \in Seq(Seq(S)), NEW j \in 1 .. Len(p)
  PROVE  /\ FlattenSeq(SubSeq(p, 1, j - 1)) \in Seq(S) /\ p[j] \in Seq(S)
         /\ FlattenSeq(SubSeq(p, j + 1, Len(p))) \in Seq(S)
         /\ SubSeq(p, j + 1, Len(p)) \in Seq(Seq(S))
         /\ FlattenSeq(SubSeq(p, 1, j)) = FlattenSeq(SubSeq(p, 1, j - 1)) \o p[j]
         /\ FlattenSeq(p) = FlattenSeq(SubSeq(p, 1, j)) \o FlattenSeq(SubSeq(p, j + 1, Len(p)))
<1> DEFINE a == SubSeq(p, 1, j - 1)
           b == SubSeq(p, j + 1, Len(p))
           c == SubSeq(p, 1, j)
<1>1. Len(p) \in Nat /\ j - 1 \in 0 .. Len(p) /\ j \in 0 .. Len(p) /\ 1 \in 1 .. Len(p) /\ j \in 1 .. Len(p)
  OBVIOUS
<1>2. a \in Seq(Seq(S))
  BY <1>1, Part
<1>3. b \in Seq(Seq(S)) /\ c \in Seq(Seq(S)) /\ p = c \o b
  BY <1>1, Part
<1>4. p[j] \in Seq(S)
  BY ElementOfSeq
<1>5. c = Append(a, p[j])
  <2>1. c = a \o <<p[j]>>
    BY <1>1, SubSeqRecursiveSecond
  <2> HIDE DEF a, c
  <2> QED BY <2>1, <1>2, <1>4, AppendIsConcat
<1> HIDE DEF a, b, c
<1>6. FlattenSeq(c) = FlattenSeq(a) \o p[j]
  BY <1>2, <1>4, <1>5, FlattenGrows
<1>7. FlattenSeq(p) = FlattenSeq(c) \o FlattenSeq(b)
  BY <1>3, FlattenJoin
<1>8. FlattenSeq(a) \in Seq(S) /\ FlattenSeq(b) \in Seq(S)
  BY <1>2, <1>3, FlattenIsSequence
<1> QED BY <1>3, <1>4, <1>6, <1>7, <1>8 DEF a, b, c

\* A Walker that goes on reads on.
LEMMA ReachedReads ==
  ASSUME nodes \in NodeList, NEW w, Reads(w), NEW j \in 1 .. Len(Pieces(w)),
         NEW part \in 0 .. Len(Pieces(w)[j])
  PROVE  /\ Reads(Reached(w, j, part))
         /\ Len(Reached(w, j, part).seen) = Len(w.seen) + Upto(w, j - 1) + part
<1> DEFINE p == Pieces(w)
           r == Reached(w, j, part)
           before == FlattenSeq(SubSeq(p, 1, j - 1))
           after  == FlattenSeq(SubSeq(p, j + 1, Len(p)))
           read == SubSeq(p[j], 1, part)
           left == Dropped(p[j], part)
           seen == w.seen
<1>1. Placed(w) /\ seen \in Seq(Byte) /\ seen \o FlattenSeq(p) = Contents
  BY DEF Reads, Placed
<1>2. p \in Seq(Seq(Byte))
  BY <1>1, PiecesAre
<1>3. Placed(r) /\ r.seen = (seen \o before) \o read
  BY <1>1, ReachedIs
<1>4. Pieces(r) = <<left>> \o SubSeq(p, j + 1, Len(p))
  BY <1>1, PiecesAfter
<1> HIDE DEF r
<1>5. j \in 1 .. Len(p) /\ part \in 0 .. Len(p[j])
  OBVIOUS
<1>6. before \in Seq(Byte) /\ after \in Seq(Byte) /\ p[j] \in Seq(Byte)
      /\ SubSeq(p, j + 1, Len(p)) \in Seq(Seq(Byte))
      /\ FlattenSeq(p) = (before \o p[j]) \o after
  BY <1>2, <1>5, FlattenAround
<1>7. read \in Seq(Byte) /\ Len(read) = part /\ left \in Seq(Byte) /\ p[j] = read \o left
  <2> DEFINE e == p[j]
  <2>1. e \in Seq(Byte) /\ part \in 0 .. Len(e)
    BY <1>5, <1>6
  <2> HIDE DEF e
  <2>2. SubSeq(e, 1, part) \in Seq(Byte) /\ Len(SubSeq(e, 1, part)) = part
        /\ Dropped(e, part) \in Seq(Byte) /\ e = SubSeq(e, 1, part) \o Dropped(e, part)
    BY <2>1, Part DEF Dropped
  <2> QED BY <2>2 DEF e
<1>8. FlattenSeq(Pieces(r)) = left \o after
  <2> DEFINE t == SubSeq(p, j + 1, Len(p))
  <2>1. <<left>> \in Seq(Seq(Byte)) /\ t \in Seq(Seq(Byte))
    <3> HIDE DEF left
    <3> QED BY <1>6, <1>7
  <2> HIDE DEF t, left
  <2>2. FlattenSeq(<<left>> \o t) = FlattenSeq(<<left>>) \o FlattenSeq(t)
    BY <2>1, FlattenJoin
  <2>3. FlattenSeq(<<left>>) = left
    BY <1>7, FlattenOne
  <2> QED BY <2>2, <2>3, <1>4 DEF t
<1>9. Upto(w, j - 1) = Len(before)
  BY DEF Upto
<1> HIDE DEF before, after, read, left, seen, p
<1>10. r.seen \o (left \o after) = seen \o FlattenSeq(p)
  <2>1. seen \o before \in Seq(Byte) /\ left \o after \in Seq(Byte)
    BY <1>1, <1>6, <1>7
  <2>2. ((seen \o before) \o read) \o (left \o after) = (seen \o before) \o (read \o (left \o after))
    <3> DEFINE a == seen \o before
               b == left \o after
    <3>1. a \in Seq(Byte) /\ b \in Seq(Byte)
      BY <2>1
    <3> HIDE DEF a, b
    <3>2. (a \o read) \o b = a \o (read \o b)
      BY <3>1, <1>7, BytesJoin
    <3> QED BY <3>2 DEF a, b
  <2>3. read \o (left \o after) = p[j] \o after
    <3>1. read \in Seq(Byte) /\ left \in Seq(Byte) /\ after \in Seq(Byte)
      BY <1>6, <1>7
    <3>2. read \o (left \o after) = (read \o left) \o after
      BY <3>1, BytesJoin
    <3> QED BY <3>2, <1>7
  <2>4. (seen \o before) \o (p[j] \o after) = seen \o ((before \o p[j]) \o after)
    <3> DEFINE e == p[j]
    <3>1. e \in Seq(Byte) /\ e \o after \in Seq(Byte)
      BY <1>6, ConcatProperties
    <3> HIDE DEF e
    <3>2. (seen \o before) \o (e \o after) = seen \o (before \o (e \o after))
      <4> DEFINE f == e \o after
      <4>1. f \in Seq(Byte)
        BY <3>1
      <4> HIDE DEF f
      <4>2. (seen \o before) \o f = seen \o (before \o f)
        BY <4>1, <1>1, <1>6, BytesJoin
      <4> QED BY <4>2 DEF f
    <3>3. before \o (e \o after) = (before \o e) \o after
      <4>1. before \in Seq(Byte) /\ e \in Seq(Byte) /\ after \in Seq(Byte)
        BY <3>1, <1>6
      <4> QED BY <4>1, BytesJoin
    <3> QED BY <3>2, <3>3 DEF e
  <2> QED BY <2>2, <2>3, <2>4, <1>3, <1>6
<1>11. Len(r.seen) = Len(seen) + Len(before) + part
  <2> DEFINE a == seen \o before
  <2>1. a \in Seq(Byte) /\ Len(a) = Len(seen) + Len(before)
    BY <1>1, <1>6, ConcatProperties
  <2> HIDE DEF a
  <2>2. Len(a \o read) = Len(a) + Len(read)
    BY <2>1, <1>7, ConcatProperties
  <2> QED BY <2>1, <2>2, <1>3, <1>7 DEF a
<1>12. Reads(r)
  BY <1>1, <1>3, <1>8, <1>10 DEF Reads
<1> QED BY <1>9, <1>11, <1>12 DEF r, seen

\* Bytes up to a piece add up.
LEMMA UptoIs ==
  ASSUME nodes \in NodeList, NEW w, Placed(w)
  PROVE  /\ \A j \in 1 .. Len(Pieces(w)) :
              /\ Upto(w, j - 1) \in Nat /\ Upto(w, j) \in Nat /\ Len(Pieces(w)[j]) \in Nat
              /\ Upto(w, j) = Upto(w, j - 1) + Len(Pieces(w)[j])
              /\ Upto(w, j) <= Upto(w, Len(Pieces(w)))
         /\ Upto(w, 0) = 0
         /\ Upto(w, Len(Pieces(w))) = Len(FlattenSeq(Pieces(w)))
<1> DEFINE p == Pieces(w)
<1>1. p \in Seq(Seq(Byte))
  BY PiecesAre
<1>2. SubSeq(p, 1, Len(p)) = p
  BY <1>1, SubSeqFull
<1>3. Upto(w, Len(p)) = Len(FlattenSeq(p))
  BY <1>2 DEF Upto
<1>4. Upto(w, 0) = 0
  <2>1. SubSeq(p, 1, 0) = <<>>
    BY SubSeqEmpty
  <2>2. Upto(w, 0) = Len(FlattenSeq(SubSeq(p, 1, 0)))
    BY DEF Upto
  <2> HIDE DEF p
  <2>3. FlattenSeq(SubSeq(p, 1, 0)) = <<>>
    BY <2>1, FlattenNone
  <2> QED BY <2>2, <2>3
<1>5. ASSUME NEW j \in 1 .. Len(p)
      PROVE  /\ Upto(w, j - 1) \in Nat /\ Upto(w, j) \in Nat /\ Len(p[j]) \in Nat
             /\ Upto(w, j) = Upto(w, j - 1) + Len(p[j])
             /\ Upto(w, j) <= Upto(w, Len(p))
  <2> DEFINE a == FlattenSeq(SubSeq(p, 1, j - 1))
             b == FlattenSeq(SubSeq(p, j + 1, Len(p)))
             c == FlattenSeq(SubSeq(p, 1, j))
             e == p[j]
             f == FlattenSeq(p)
  <2>1. a \in Seq(Byte) /\ e \in Seq(Byte) /\ b \in Seq(Byte) /\ c = a \o e /\ f = c \o b
    BY <1>1, FlattenAround
  <2>2. Upto(w, j - 1) = Len(a) /\ Upto(w, j) = Len(c)
    BY DEF Upto
  <2> HIDE DEF a, b, c, e, f
  <2>3. c \in Seq(Byte) /\ Len(c) = Len(a) + Len(e)
    BY <2>1, ConcatProperties
  <2>4. Len(f) = Len(c) + Len(b)
    BY <2>1, <2>3, ConcatProperties
  <2>5. Len(a) \in Nat /\ Len(e) \in Nat /\ Len(c) \in Nat /\ Len(b) \in Nat
    BY <2>1, <2>3
  <2>6. Upto(w, Len(p)) = Len(f)
    BY <1>3 DEF f
  <2>7. Len(c) <= Len(f)
    BY <2>4, <2>5
  <2> QED BY <2>2, <2>3, <2>5, <2>6, <2>7 DEF e
<1> QED BY <1>3, <1>4, <1>5
\* A Walker whose target takes all has read n bytes more, if there are as many.
LEMMA WalkedReads ==
  ASSUME nodes \in NodeList, NEW w, Reads(w), NEW n \in Nat \ {0}
  PROVE  /\ Reads(Walked(w, n))
         /\ Len(Walked(w, n).seen) = Len(w.seen) + Lower(n, Len(FlattenSeq(Pieces(w))))
<1> DEFINE last == Len(Pieces(w))
           T == {k \in 1 .. last : k = last \/ n <= Upto(w, k)}
           j == Min(T)
           part == Lower(n, Upto(w, last)) - Upto(w, j - 1)
<1>1. Placed(w)
  BY DEF Reads
<1>2. last \in Nat \ {0}
  BY <1>1, PiecesAre
<1>3. T \subseteq Nat /\ last \in T
  <2> HIDE DEF last
  <2> QED BY <1>2
<1>4. j \in T /\ \A k \in T : j <= k
  <2> HIDE DEF T
  <2> QED BY <1>3, MinOfNaturals
<1>5. j \in 1 .. last /\ (j = last \/ n <= Upto(w, j))
  BY <1>4
<1>6. j # 1 => Upto(w, j - 1) < n
  <2> SUFFICES ASSUME j # 1
               PROVE  Upto(w, j - 1) < n
    OBVIOUS
  <2>1. j - 1 \in 1 .. last /\ j - 1 \notin T /\ j - 1 # last
    <3> HIDE DEF last, T
    <3>1. j \in Nat \ {0} /\ j <= last
      BY <1>2, <1>4, <1>5
    <3>2. j - 1 \in T => j <= j - 1
      BY <1>4
    <3> HIDE DEF j
    <3> QED BY <3>1, <3>2, <1>2
  <2>2. ~(n <= Upto(w, j - 1))
    BY <2>1
  <2>3. Upto(w, j - 1) \in Nat
    <3>1. \A k \in 1 .. last : Upto(w, k) \in Nat
      BY <1>1, UptoIs
    <3> QED BY <3>1, <2>1
  <2> HIDE DEF j
  <2> QED BY <2>2, <2>3
<1> HIDE DEF T
<1>7. /\ Upto(w, j - 1) \in Nat /\ Upto(w, j) \in Nat /\ Len(Pieces(w)[j]) \in Nat
      /\ Upto(w, j) = Upto(w, j - 1) + Len(Pieces(w)[j])
      /\ Upto(w, j) <= Upto(w, last) /\ Upto(w, 0) = 0
      /\ Upto(w, last) = Len(FlattenSeq(Pieces(w)))
  BY <1>1, <1>5, UptoIs
<1>8. Upto(w, last) \in Nat
  BY <1>1, <1>2, UptoIs
<1>9. j = 1 => Upto(w, j - 1) = 0
  <2> SUFFICES ASSUME j = 1
               PROVE  Upto(w, j - 1) = 0
    OBVIOUS
  <2>1. j - 1 = 0
    <3> HIDE DEF j
    <3> QED OBVIOUS
  <2> QED BY <2>1, <1>7
<1>10. part \in 0 .. Len(Pieces(w)[j])
  <2> DEFINE a == Upto(w, j - 1)
             b == Upto(w, j)
             c == Upto(w, last)
             e == Len(Pieces(w)[j])
  <2>1. a \in Nat /\ b \in Nat /\ c \in Nat /\ e \in Nat /\ b = a + e /\ b <= c
    BY <1>7, <1>8
  <2>2. b = c \/ n <= b
    BY <1>5
  <2>3. a < n
    BY <1>6, <1>9
  <2> HIDE DEF a, b, c, e
  <2>4. Lower(n, c) - a \in 0 .. e
    BY <2>1, <2>2, <2>3 DEF Lower
  <2> QED BY <2>4 DEF a, c, e
<1>11. Walked(w, n) = Reached(w, j, part)
  BY DEF Walked, T
<1>12. Reads(Walked(w, n)) /\ Len(Walked(w, n).seen) = Len(w.seen) + Upto(w, j - 1) + part
  <2> HIDE DEF j, part, last
  <2> QED BY <1>5, <1>10, <1>11, ReachedReads DEF last
<1>13. Len(w.seen) \in Nat
  BY <1>1 DEF Placed
<1>14. Len(w.seen) + Upto(w, j - 1) + part = Len(w.seen) + Lower(n, Upto(w, last))
  <2> DEFINE a == Upto(w, j - 1)
             c == Lower(n, Upto(w, last))
             d == Len(w.seen)
  <2>1. a \in Nat /\ c \in Nat /\ d \in Nat
    BY <1>7, <1>8, <1>13 DEF Lower
  <2> HIDE DEF a, c, d
  <2>2. (d + a) + (c - a) = d + c
    BY <2>1
  <2> QED BY <2>2 DEF a, c, d
<1> QED BY <1>7, <1>12, <1>14

\* A Walker whose target blocked has read fewer.
LEMMA BlockedReads ==
  ASSUME nodes \in NodeList, NEW w, Reads(w), NEW n \in Nat, NEW v \in Blocked(w, n)
  PROVE  Reads(v) /\ Len(v.seen) \in Nat /\ Len(v.seen) < Len(w.seen) + n
<1>1. Placed(w) /\ w.seen \in Seq(Byte)
  BY DEF Reads, Placed
<1>2. PICK j \in DOMAIN Pieces(w) : Upto(w, j - 1) < n /\ v = Reached(w, j, 0)
  BY DEF Blocked
<1>3. j \in 1 .. Len(Pieces(w))
  BY <1>1, PiecesAre
<1>4. Upto(w, j - 1) \in Nat /\ Len(Pieces(w)[j]) \in Nat
  BY <1>1, <1>3, UptoIs
<1>5. 0 \in 0 .. Len(Pieces(w)[j])
  <2> DEFINE e == Len(Pieces(w)[j])
  <2>1. e \in Nat
    BY <1>4
  <2> HIDE DEF e
  <2>2. 0 \in 0 .. e
    BY <2>1
  <2> QED BY <2>2 DEF e
<1>6. Reads(v) /\ Len(v.seen) = Len(w.seen) + Upto(w, j - 1) + 0
  BY <1>2, <1>3, <1>5, ReachedReads
<1>7. Len(w.seen) \in Nat
  BY <1>1
<1> QED BY <1>2, <1>4, <1>6, <1>7

\* A new Walker has read nothing and has all before it.
LEMMA AtBeginReads ==
  ASSUME nodes \in NodeList, m_lazyString \in Seq(Byte)
  PROVE  Reads(AtBegin) /\ AtBegin.seen = <<>>
<1>1. Len(nodes) \in Nat
  BY NodesOfList
<1>2. /\ AtBegin.node = 1 /\ AtBegin.offset = 0 /\ AtBegin.lazy = m_lazyString
      /\ AtBegin.seen = <<>>
  BY DEF AtBegin
<1> DEFINE w == AtBegin
           p == Pieces(w)
           d == Data(nodes)
           q == Append(d, m_lazyString)
<1>3. Placed(w)
  <2> HIDE DEF w
  <2>1. w.node = 1 /\ w.offset = 0 /\ w.lazy = m_lazyString /\ w.seen = <<>>
    BY <1>2 DEF w
  <2> QED BY <2>1, <1>1 DEF Placed
<1>4. d \in Seq(Seq(Byte)) /\ Len(d) = Len(nodes) /\ Stored(nodes) = FlattenSeq(d)
      /\ \A i \in 1 .. Len(nodes) : d[i] = nodes[i].data
  BY DataIs
<1>5. p \in Seq(Seq(Byte)) /\ Len(p) = Len(nodes) + 2 - w.node
      /\ \A i \in 1 .. Len(p) : p[i] = IF i = Len(p) THEN w.lazy
                                       ELSE Dropped(nodes[w.node + i - 1].data, Offset(w, i))
  BY <1>3, PiecesAre
<1> HIDE DEF w, p, d
<1>6. Len(p) = Len(nodes) + 1
  BY <1>1, <1>2, <1>5 DEF w
<1>7. q \in Seq(Seq(Byte)) /\ Len(q) = Len(nodes) + 1 /\ q[Len(nodes) + 1] = m_lazyString
      /\ \A i \in 1 .. Len(nodes) : q[i] = d[i]
  BY <1>1, <1>4
<1>8. ASSUME NEW i \in 1 .. Len(p)
      PROVE  p[i] = q[i]
  <2>1. CASE i = Len(p)
    BY <2>1, <1>2, <1>5, <1>6, <1>7 DEF w
  <2>2. CASE i # Len(p)
    <3>1. i \in 1 .. Len(nodes) /\ w.node + i - 1 = i /\ Offset(w, i) = 0
      <4>1. w.node = 1 /\ w.offset = 0
        BY <1>2 DEF w
      <4> QED BY <4>1, <2>2, <1>1, <1>6 DEF Offset
    <3>2. p[i] = Dropped(nodes[i].data, 0)
      BY <3>1, <2>2, <1>5
    <3>3. nodes[i].data \in Seq(Byte)
      BY <3>1, NodesOfList
    <3>4. p[i] = nodes[i].data
      BY <3>2, <3>3, DroppedNone
    <3> QED BY <3>1, <3>4, <1>4, <1>7
  <2> QED BY <2>1, <2>2
<1>9. p = q
  BY <1>5, <1>6, <1>7, <1>8, SeqEqual
<1>10. FlattenSeq(p) = FlattenSeq(d) \o m_lazyString
  BY <1>9, <1>4, FlattenGrows
<1>11. FlattenSeq(p) = Contents
  BY <1>4, <1>10 DEF Contents
<1>12. Contents \in Seq(Byte)
  BY StoredIsSequence DEF Contents
<1>13. w.seen \o FlattenSeq(p) = Contents
  <2>1. w.seen = <<>>
    BY <1>2 DEF w
  <2> QED BY <2>1, <1>11, <1>12, ConcatEmptySeq
<1> QED BY <1>2, <1>3, <1>13 DEF Reads, w, p
-----------------------------------------------------------------------------
(* The inductive invariant.                                                *)

\* The list is one of a queue, and a Walker has before it what it has not
\* read.
Inv ==
  /\ Listed(nodes)
  /\ m_nodeSize \in Nat \ {0} /\ m_autoNodeSize \in BOOLEAN
  /\ m_lazyString \in Seq(Byte)
  /\ walker = NoWalker \/ Reads(walker)

\* What a step does to the contents.
FifoStep == [Fifo!Next]_(Fifo!vars)

\* What is in the queue.
LEMMA ContentsAre ==
  ASSUME Listed(nodes), m_lazyString \in Seq(Byte)
  PROVE  /\ nodes \in NodeList /\ nodes # <<>>
         /\ Stored(nodes) \in Seq(Byte) /\ Len(Stored(nodes)) \in Nat
         /\ Contents \in Seq(Byte) /\ Len(Contents) \in Nat
         /\ Len(Contents) = Len(Stored(nodes)) + Len(m_lazyString)
         /\ Contents = Stored(nodes) \o m_lazyString
<1>1. nodes \in NodeList /\ nodes # <<>>
  BY DEF Listed
<1>2. Stored(nodes) \in Seq(Byte) /\ Len(Stored(nodes)) \in Nat
  BY <1>1, StoredIsSequence
<1>3. Contents = Stored(nodes) \o m_lazyString
  BY DEF Contents
<1> DEFINE s == Stored(nodes)
<1> HIDE DEF s
<1>4. s \in Seq(Byte)
  BY <1>2 DEF s
<1>5. s \o m_lazyString \in Seq(Byte) /\ Len(s \o m_lazyString) = Len(s) + Len(m_lazyString)
  BY <1>4, ConcatProperties
<1>6. Len(s \o m_lazyString) \in Nat
  BY <1>5
<1> QED BY <1>1, <1>2, <1>3, <1>5, <1>6 DEF s

\* What can be put is a sequence of bytes.
LEMMA StringsAre ==
  ASSUME ByteQueueAssumption
  PROVE  String \subseteq Seq(Byte)
<1>1. MaxPut \in Nat
  BY DEF ByteQueueAssumption
<1>2. \A m \in 0 .. MaxPut : [1 .. m -> Byte] \subseteq Seq(Byte)
  <2> TAKE m \in 0 .. MaxPut
  <2>1. m \in Nat
    BY <1>1
  <2> QED BY <2>1, SeqDef
<1> QED BY <1>2 DEF String, BoundedSeq, SeqOf

\* The sizes of nodes are sizes.
LEMMA SizesAre ==
  ASSUME ByteQueueAssumption, NEW n \in NodeSizes
  PROVE  SizeOf(n) \in Nat \ {0}
BY DEF ByteQueueAssumption, SizeOf

\* The lazy string copied into the nodes changes the list, not the contents.
LEMMA FinalizedIs ==
  ASSUME ByteQueueAssumption, Inv
  PROVE  /\ Listed(Finalized.nodes) /\ Finalized.size \in Nat \ {0}
         /\ Stored(Finalized.nodes) = Contents
<1>1. Listed(nodes) /\ m_nodeSize \in Nat \ {0} /\ m_lazyString \in Seq(Byte)
  BY DEF Inv
<1>2. LET b == PutBytes(Buf(nodes, m_nodeSize), m_lazyString)
      IN  Listed(b.nodes) /\ Stored(b.nodes) = Stored(nodes) \o m_lazyString
          /\ b.size \in Nat \ {0}
  BY <1>1, PutBytesIs
<1> QED BY <1>2 DEF Finalized, Contents

\* A step that leaves no Walker and a list that is one of a queue.
LEMMA InvAfter ==
  ASSUME Inv, Listed(nodes'), m_nodeSize' \in Nat \ {0}, m_autoNodeSize' \in BOOLEAN,
         m_lazyString' \in Seq(Byte), walker' = NoWalker
  PROVE  Inv'
BY DEF Inv, NoWalker

\* Nothing lazy is left.
LEMMA NothingLazy ==
  ASSUME Listed(nodes'), m_lazyString' = <<>>
  PROVE  Contents' = Stored(nodes')
<1>1. nodes' \in NodeList
  BY DEF Listed
<1>2. Stored(nodes') \in Seq(Byte)
  BY <1>1, StoredIsSequence
<1>3. Contents' = Stored(nodes') \o <<>>
  BY DEF Contents
<1> DEFINE s == Stored(nodes')
<1> HIDE DEF s
<1>4. s \in Seq(Byte)
  BY <1>2 DEF s
<1>5. s \o <<>> = s
  BY <1>4, ConcatEmptySeq
<1> QED BY <1>3, <1>5 DEF s

\* Steps of the Fifo, by their operation.
LEMMA KeepStep ==
  ASSUME Contents' = Contents, call'.op = "Keep", out' = <<>>
  PROVE  FifoStep
BY DEF FifoStep, Fifo!Next, Fifo!Keep

\* A string queued.
LEMMA PutStep ==
  ASSUME Contents' = Contents \o call'.arg, call'.op = "Put", out' = <<>>
  PROVE  FifoStep
BY DEF FifoStep, Fifo!Next, Fifo!Put

\* A string put back.
LEMMA UngetStep ==
  ASSUME Contents' = call'.arg \o Contents, call'.op = "Unget", out' = <<>>
  PROVE  FifoStep
BY DEF FifoStep, Fifo!Next, Fifo!Unget

\* Bytes taken back.
LEMMA UndoStep ==
  ASSUME Contents' = SubSeq(Contents, 1, Len(Contents) - call'.arg), call'.op = "Undo", out' = <<>>
  PROVE  FifoStep
BY DEF FifoStep, Fifo!Next, Fifo!Undo

\* All given up.
LEMMA ClearStep ==
  ASSUME Contents' = <<>>, call'.op = "Clear", out' = <<>>
  PROVE  FifoStep
BY DEF FifoStep, Fifo!Next, Fifo!Clear

\* n bytes handed over.
LEMMA TakeStep ==
  ASSUME NEW n \in 0 .. Len(Contents), n <= call'.arg,
         call'.op = "GetOrBlock" \/ (call'.op = "Get" /\ (n = call'.arg \/ n = Len(Contents))),
         out' = SubSeq(Contents, 1, n), Contents' = Dropped(Contents, n)
  PROVE  FifoStep
<1>1. Fifo!Take
  BY DEF Fifo!Take, Dropped
<1> QED BY <1>1 DEF FifoStep, Fifo!Next
-----------------------------------------------------------------------------
(* One lemma for each action: the invariant, and the step of the Fifo.     *)

\* A list of one empty node.
LEMMA OneIsListed ==
  ASSUME NEW x \in NodeRec, x.head = 0, x.data = <<>>
  PROVE  Listed(<<x>>)
<1> DEFINE ns == <<x>>
<1>1. ns \in NodeList /\ ns # <<>> /\ Len(ns) = 1 /\ ns[1] = x
  BY DEF NodeList
<1>2. x.max \in Nat \ {0}
  BY FieldsOfNode
<1> HIDE DEF ns
<1>3. \A i \in 1 .. Len(ns) : ns[i].head + Len(ns[i].data) <= ns[i].max
  <2>1. Len(<<>>) = 0
    OBVIOUS
  <2>2. x.head + Len(x.data) <= x.max
    BY <2>1, <1>2
  <2> QED BY <2>2, <1>1
<1>4. ~UsedUp(ns[1])
  BY <1>1, <1>2 DEF UsedUp
<1>5. (1 .. Len(ns) - 1) = {} /\ (2 .. Len(ns)) = {}
  BY <1>1
<1>6. Listed(ns)
  BY <1>1, <1>3, <1>4, <1>5 DEF Listed
<1> QED BY <1>6 DEF ns

\* A new queue has one empty node.
LEMMA InitIs ==
  ASSUME ByteQueueAssumption, Init
  PROVE  Inv /\ Fifo!Init
<1> DEFINE x == Node(m_nodeSize, <<>>)
<1>1. m_nodeSize \in Nat \ {0} /\ m_autoNodeSize \in BOOLEAN
  <2>1. PICK n \in NodeSizes : m_nodeSize = SizeOf(n) /\ m_autoNodeSize = (n = 0)
    BY DEF Init
  <2> QED BY <2>1, SizesAre
<1>2. nodes = <<x>> /\ m_lazyString = <<>> /\ walker = NoWalker /\ out = <<>>
  BY DEF Init
<1>3. <<>> \in Seq(Byte)
  OBVIOUS
<1>4. x \in NodeRec /\ x.max = m_nodeSize /\ x.head = 0 /\ x.data = <<>>
  BY <1>1, <1>3, NodeIs
<1> HIDE DEF x
<1>5. Listed(<<x>>)
  BY <1>1, <1>4, OneIsListed
<1>6. Inv
  BY <1>1, <1>2, <1>3, <1>5 DEF Inv
<1>7. Contents = <<>>
  <2>1. Stored(nodes) = <<>>
    BY <1>2, <1>4, StoredOne
  <2> QED BY <2>1, <1>2, <1>3, ConcatEmptySeq DEF Contents
<1> QED BY <1>2, <1>6, <1>7 DEF Fifo!Init

\* FinalizeLazyPut and CopyFrom.
LEMMA FinalizeStep ==
  ASSUME ByteQueueAssumption, Inv, FinalizeLazyPut \/ CopyFrom
  PROVE  Inv' /\ FifoStep
<1>1. /\ nodes' = Finalized.nodes /\ m_nodeSize' = Finalized.size /\ m_lazyString' = <<>>
      /\ m_autoNodeSize' = m_autoNodeSize
      /\ call'.op = "Keep" /\ out' = <<>> /\ walker' = NoWalker
  BY DEF FinalizeLazyPut, CopyFrom, Becomes, Did
<1>2. Listed(nodes') /\ m_nodeSize' \in Nat \ {0} /\ Stored(nodes') = Contents
  BY <1>1, FinalizedIs
<1>3. Inv'
  <2>1. m_autoNodeSize' \in BOOLEAN /\ m_lazyString' \in Seq(Byte)
    BY <1>1 DEF Inv
  <2> QED BY <1>1, <1>2, <2>1, InvAfter
<1>4. Contents' = Contents
  BY <1>1, <1>2, NothingLazy
<1> QED BY <1>1, <1>3, <1>4, KeepStep

\* A Put is one at the tail, after the lazy string.
LEMMA Put2Step ==
  ASSUME ByteQueueAssumption, Inv, NEW s \in String, Put2(s)
  PROVE  Inv' /\ FifoStep
<1> DEFINE b == PutBytes(Finalized, s)
<1>1. /\ nodes' = b.nodes /\ m_nodeSize' = b.size /\ m_lazyString' = <<>>
      /\ m_autoNodeSize' = m_autoNodeSize
      /\ call' = [op |-> "Put", arg |-> s] /\ out' = <<>> /\ walker' = NoWalker
  BY DEF Put2, Becomes, Did
<1>2. Listed(Finalized.nodes) /\ Finalized.size \in Nat \ {0} /\ Stored(Finalized.nodes) = Contents
  BY FinalizedIs
<1>3. s \in Seq(Byte)
  BY StringsAre
<1>4. Listed(b.nodes) /\ Stored(b.nodes) = Stored(Finalized.nodes) \o s /\ b.size \in Nat \ {0}
  <2> DEFINE ns == Finalized.nodes
             size == Finalized.size
  <2>1. Listed(ns) /\ size \in Nat \ {0}
    BY <1>2
  <2>2. Finalized = Buf(ns, size)
    BY DEF Finalized, PutBytes, Buf
  <2> HIDE DEF ns, size
  <2>3. LET c == PutBytes(Buf(ns, size), s)
        IN  Listed(c.nodes) /\ Stored(c.nodes) = Stored(ns) \o s /\ c.size \in Nat \ {0}
    BY <2>1, <1>3, PutBytesIs
  <2>4. PutBytes(Buf(ns, size), s) = b
    BY <2>2
  <2> HIDE DEF b
  <2> QED BY <2>3, <2>4 DEF ns
<1> HIDE DEF b
<1>5. Inv'
  <2>1. m_autoNodeSize' \in BOOLEAN /\ m_lazyString' \in Seq(Byte)
    BY <1>1 DEF Inv
  <2> QED BY <1>1, <1>4, <2>1, InvAfter
<1>6. Contents' = Contents \o s
  BY <1>1, <1>2, <1>4, NothingLazy
<1> QED BY <1>1, <1>5, <1>6, PutStep

\* A LazyPut queues the string behind the one before.
LEMMA LazyPutStep ==
  ASSUME ByteQueueAssumption, Inv, NEW s \in String, LazyPut(s)
  PROVE  Inv' /\ FifoStep
<1>1. /\ nodes' = Finalized.nodes /\ m_nodeSize' = Finalized.size /\ m_lazyString' = s
      /\ m_autoNodeSize' = m_autoNodeSize
      /\ call' = [op |-> "Put", arg |-> s] /\ out' = <<>> /\ walker' = NoWalker
  BY DEF LazyPut, Becomes, Did
<1>2. Listed(nodes') /\ m_nodeSize' \in Nat \ {0} /\ Stored(nodes') = Contents
  BY <1>1, FinalizedIs
<1>3. s \in Seq(Byte)
  BY StringsAre
<1>4. Inv'
  <2>1. m_autoNodeSize' \in BOOLEAN /\ m_lazyString' \in Seq(Byte)
    BY <1>1, <1>3 DEF Inv
  <2> QED BY <1>1, <1>2, <2>1, InvAfter
<1>5. Contents' = Contents \o s
  BY <1>1, <1>2 DEF Contents
<1> QED BY <1>1, <1>4, <1>5, PutStep

\* A node that is only room changes nothing.
LEMMA CreatePutSpaceStep ==
  ASSUME ByteQueueAssumption, Inv, NEW n \in Nat, CreatePutSpace(n)
  PROVE  Inv' /\ FifoStep
<1> DEFINE ns == Finalized.nodes
           size == Finalized.size
           x == Node(Higher(size, n), <<>>)
<1>1. /\ nodes' = IF NeedsNode(Last(ns), n) THEN Append(ns, x) ELSE ns
      /\ m_nodeSize' = size /\ m_lazyString' = <<>>
      /\ m_autoNodeSize' = m_autoNodeSize
      /\ call'.op = "Keep" /\ out' = <<>> /\ walker' = NoWalker
  BY DEF CreatePutSpace, Did
<1>2. Listed(ns) /\ size \in Nat \ {0} /\ Stored(ns) = Contents
  BY FinalizedIs
<1> HIDE DEF ns, size
<1>3. Listed(nodes') /\ Stored(nodes') = Stored(ns)
  <2>1. CASE NeedsNode(Last(ns), n)
    <3>1. Higher(size, n) \in Nat \ {0}
      BY <1>2 DEF Higher
    <3>2. <<>> \in Seq(Byte) /\ Len(<<>>) = 0
      OBVIOUS
    <3>3. x \in NodeRec /\ x.max = Higher(size, n) /\ x.head = 0 /\ x.data = <<>>
      BY <3>1, <3>2, NodeIs
    <3>4. Len(x.data) <= x.max
      BY <3>1, <3>2, <3>3
    <3>5. Room(ns[Len(ns)]) = 0
      BY <2>1 DEF NeedsNode, Last
    <3> HIDE DEF x
    <3>6. Listed(Append(ns, x)) /\ Stored(Append(ns, x)) = Stored(ns) \o x.data
      BY <1>2, <3>3, <3>4, <3>5, NodeAppended
    <3>7. Stored(ns) \o x.data = Stored(ns)
      <4> DEFINE s == Stored(ns)
      <4>1. ns \in NodeList
        BY <1>2 DEF Listed
      <4>2. s \in Seq(Byte)
        BY <4>1, StoredIsSequence
      <4> HIDE DEF s
      <4>3. s \o <<>> = s
        BY <4>2, ConcatEmptySeq
      <4> QED BY <4>3, <3>3 DEF s
    <3> QED BY <2>1, <1>1, <3>6, <3>7
  <2>2. CASE ~NeedsNode(Last(ns), n)
    BY <2>2, <1>1, <1>2
  <2> QED BY <2>1, <2>2
<1>4. Inv'
  <2>1. m_autoNodeSize' \in BOOLEAN /\ m_lazyString' \in Seq(Byte) /\ m_nodeSize' \in Nat \ {0}
    BY <1>1, <1>2 DEF Inv
  <2> QED BY <1>1, <1>3, <2>1, InvAfter
<1>5. Contents' = Contents
  BY <1>1, <1>2, <1>3, NothingLazy
<1> QED BY <1>1, <1>4, <1>5, KeepStep
\* The lazy string loses its end, which is the end of the contents.
LEMMA UndoLazyPutStep ==
  ASSUME ByteQueueAssumption, Inv, NEW n \in Nat, UndoLazyPut(n)
  PROVE  Inv' /\ FifoStep
<1> DEFINE s == Stored(nodes)
           k == Len(m_lazyString) - n
           t == SubSeq(m_lazyString, 1, k)
           u == s \o t
           v == SubSeq(Contents, 1, Len(Contents) - n)
<1>1. /\ nodes' = nodes /\ m_nodeSize' = m_nodeSize /\ m_lazyString' = t
      /\ m_autoNodeSize' = m_autoNodeSize /\ n <= Len(m_lazyString)
      /\ call' = [op |-> "Undo", arg |-> n] /\ out' = <<>> /\ walker' = NoWalker
  BY DEF UndoLazyPut, Did
<1>2. Listed(nodes) /\ m_lazyString \in Seq(Byte) /\ m_nodeSize \in Nat \ {0} /\ m_autoNodeSize \in BOOLEAN
  BY DEF Inv
<1>3. k \in 0 .. Len(m_lazyString)
  BY <1>1, <1>2
<1>4. t \in Seq(Byte) /\ Len(t) = k /\ \A i \in 1 .. k : t[i] = m_lazyString[i]
  <2> HIDE DEF k
  <2> QED BY <1>2, <1>3
<1>5. s \in Seq(Byte) /\ Len(s) \in Nat /\ Contents \in Seq(Byte) /\ Contents = s \o m_lazyString
      /\ Len(Contents) = Len(s) + Len(m_lazyString)
  BY <1>2, ContentsAre
<1>6. Contents' = u
  BY <1>1 DEF Contents
<1>7. Inv'
  BY <1>1, <1>2, <1>4, InvAfter
<1> HIDE DEF s, t
<1>8. u \in Seq(Byte) /\ Len(u) = Len(s) + k
      /\ \A i \in 1 .. Len(u) : u[i] = IF i <= Len(s) THEN s[i] ELSE t[i - Len(s)]
  <2>1. s \in Seq(Byte) /\ t \in Seq(Byte)
    BY <1>4, <1>5
  <2>2. /\ u \in Seq(Byte) /\ Len(u) = Len(s) + Len(t)
        /\ \A i \in 1 .. Len(s) + Len(t) : u[i] = IF i <= Len(s) THEN s[i] ELSE t[i - Len(s)]
    BY <2>1, ConcatProperties
  <2> HIDE DEF u
  <2> QED BY <2>2, <1>4
<1>9. \A i \in 1 .. Len(Contents) : Contents[i] = IF i <= Len(s) THEN s[i] ELSE m_lazyString[i - Len(s)]
  BY <1>2, <1>5, ConcatProperties
<1> HIDE DEF u
<1>10. Len(Contents) - n = Len(s) + k /\ Len(s) + k \in 0 .. Len(Contents)
  BY <1>1, <1>2, <1>3, <1>5
<1>11. v \in Seq(Byte) /\ Len(v) = Len(s) + k /\ \A i \in 1 .. Len(s) + k : v[i] = Contents[i]
  <2> DEFINE e == Len(Contents) - n
  <2>1. e \in 0 .. Len(Contents)
    BY <1>10
  <2> HIDE DEF e
  <2>2. SubSeq(Contents, 1, e) \in Seq(Byte) /\ Len(SubSeq(Contents, 1, e)) = e
        /\ \A i \in 1 .. e : SubSeq(Contents, 1, e)[i] = Contents[i]
    BY <2>1, <1>5
  <2>3. e = Len(s) + k
    BY <1>10 DEF e
  <2> QED BY <2>2, <2>3 DEF e
<1> HIDE DEF v, k
<1>12. ASSUME NEW i \in 1 .. Len(u)
       PROVE  u[i] = v[i]
  <2>1. i \in 1 .. Len(s) + k /\ i \in 1 .. Len(Contents)
    BY <1>8, <1>10, <1>5
  <2>2. v[i] = IF i <= Len(s) THEN s[i] ELSE m_lazyString[i - Len(s)]
    BY <2>1, <1>9, <1>11
  <2>3. ~(i <= Len(s)) => i - Len(s) \in 1 .. k
    BY <2>1, <1>3, <1>5
  <2> QED BY <2>2, <2>3, <1>4, <1>8
<1>13. u = v
  BY <1>8, <1>11, <1>12, SeqEqual
<1> QED BY <1>1, <1>6, <1>7, <1>13, UndoStep DEF v

\* An empty first node is the only one.
LEMMA FrontIsEmpty ==
  ASSUME NEW ns, Listed(ns), ns[1].data = <<>>
  PROVE  Len(ns) = 1 /\ Stored(ns) = <<>>
<1>1. ns \in NodeList /\ ns # <<>>
  BY DEF Listed
<1>2. Len(ns) \in Nat \ {0} /\ 1 \in 1 .. Len(ns)
  BY <1>1, NodesOfList
<1>3. ns[1].max \in Nat /\ ns[1].head \in Nat
  BY <1>1, <1>2, NodesOfList
<1>4. Len(ns) # 1 => Room(ns[1]) = 0
  <2>1. Len(ns) # 1 => 1 \in 1 .. Len(ns) - 1
    <3> DEFINE n == Len(ns)
    <3>1. n \in Nat /\ n # 0
      BY <1>2
    <3> HIDE DEF n
    <3>2. n # 1 => 1 \in 1 .. n - 1
      BY <3>1
    <3> QED BY <3>2 DEF n
  <2>2. \A i \in 1 .. Len(ns) - 1 : Room(ns[i]) = 0
    BY DEF Listed
  <2> QED BY <2>1, <2>2
<1>5. Room(ns[1]) = ns[1].max - ns[1].head
  BY <1>3 DEF Room
<1>6. ns[1].max # ns[1].head
  BY DEF Listed, UsedUp
<1>7. Len(ns) = 1
  BY <1>3, <1>4, <1>5, <1>6
<1>8. \A i \in 1 .. Len(ns) : ns[i].data = <<>>
  BY <1>7
<1> QED BY <1>1, <1>7, <1>8, StoredOfEmpty

\* What leaves the nodes and the lazy string leaves the contents.
LEMMA TransferredIs ==
  ASSUME Inv, NEW n \in Nat, Transferred(n), walker' = NoWalker
  PROVE  Inv' /\ Contents' = Dropped(Contents, n)
<1> DEFINE s == Stored(nodes)
           left == Higher(0, n - Len(s))
           lazy == Lower(left, Len(m_lazyString))
           ts == Taken(nodes, n)
<1>1. /\ nodes' = CleanupUsedNodes(ts) /\ m_nodeSize' = m_nodeSize /\ m_autoNodeSize' = m_autoNodeSize
      /\ m_lazyString' = Dropped(m_lazyString, lazy)
  BY DEF Transferred, Dropped
<1>2. Listed(nodes) /\ m_lazyString \in Seq(Byte) /\ m_nodeSize \in Nat \ {0} /\ m_autoNodeSize \in BOOLEAN
  BY DEF Inv
<1>3. nodes \in NodeList /\ s \in Seq(Byte) /\ Len(s) \in Nat /\ Contents = s \o m_lazyString
  BY <1>2, ContentsAre
<1>4. Worn(ts)
  BY <1>2, TakenIsWorn
<1>5. Listed(nodes') /\ Stored(nodes') = Dropped(s, n)
  <2>1. Stored(ts) = Dropped(s, n)
    BY <1>3, StoredTaken
  <2> HIDE DEF ts, s
  <2> QED BY <2>1, <1>1, <1>4, CleanedUp
<1>6. left \in Nat /\ Len(m_lazyString) \in Nat
  <2> HIDE DEF s
  <2> QED BY <1>2, <1>3 DEF Higher
<1> HIDE DEF left, s, ts
<1>7. lazy \in Nat /\ (lazy = left \/ (lazy <= left /\ lazy = Len(m_lazyString)))
  BY <1>6 DEF Lower
<1> HIDE DEF lazy
<1>8. m_lazyString' = Dropped(m_lazyString, left) /\ m_lazyString' \in Seq(Byte)
  <2>1. lazy # left => left >= Len(m_lazyString) /\ lazy >= Len(m_lazyString)
    BY <1>6, <1>7
  <2>2. lazy >= Len(m_lazyString) => Dropped(m_lazyString, lazy) = <<>>
    BY <1>2, <1>7, DroppedIs
  <2>3. left >= Len(m_lazyString) => Dropped(m_lazyString, left) = <<>>
    BY <1>2, <1>6, DroppedIs
  <2>4. Dropped(m_lazyString, left) \in Seq(Byte)
    BY <1>2, <1>6, DroppedIs
  <2> QED BY <2>1, <2>2, <2>3, <2>4, <1>1
<1>9. Dropped(s \o m_lazyString, n) = Dropped(s, n) \o Dropped(m_lazyString, left)
  BY <1>2, <1>3, DroppedOfJoin DEF left
<1>10. Contents' = Dropped(Contents, n)
  <2>1. Contents' = Stored(nodes') \o m_lazyString'
    BY DEF Contents
  <2> QED BY <2>1, <1>3, <1>5, <1>8, <1>9
<1>11. Inv'
  BY <1>1, <1>2, <1>5, <1>8, InvAfter
<1> QED BY <1>10, <1>11

\* TransferTo2 hands over all it was asked for or all there is.
LEMMA TransferTo2Step ==
  ASSUME ByteQueueAssumption, Inv, NEW n \in Nat, TransferTo2(n)
  PROVE  Inv' /\ FifoStep
<1> DEFINE k == Lower(n, Len(Contents))
<1>1. Transferred(n) /\ walker' = NoWalker /\ call' = [op |-> "Get", arg |-> n]
      /\ out' = SubSeq(Contents, 1, k)
  BY DEF TransferTo2, Did
<1>2. Inv' /\ Contents' = Dropped(Contents, n)
  BY <1>1, TransferredIs
<1>3. Contents \in Seq(Byte) /\ Len(Contents) \in Nat
  BY ContentsAre DEF Inv
<1>4. k \in 0 .. Len(Contents) /\ k <= n /\ (k = n \/ (k = Len(Contents) /\ n > Len(Contents)))
  BY <1>3 DEF Lower
<1> HIDE DEF k
<1>5. Dropped(Contents, n) = Dropped(Contents, k)
  <2>1. k # n => n >= Len(Contents) /\ k >= Len(Contents) /\ k \in Nat
    BY <1>3, <1>4
  <2>2. n >= Len(Contents) => Dropped(Contents, n) = <<>>
    BY <1>3, DroppedIs
  <2>3. k \in Nat /\ k >= Len(Contents) => Dropped(Contents, k) = <<>>
    BY <1>3, DroppedIs
  <2> QED BY <2>1, <2>2, <2>3
<1> QED BY <1>1, <1>2, <1>4, <1>5, TakeStep

\* The one byte is the first of the contents.
LEMMA GetByteStep ==
  ASSUME ByteQueueAssumption, Inv, GetByte
  PROVE  Inv' /\ FifoStep
<1> DEFINE s == Stored(nodes)
           ts == Taken(nodes, 1)
           d == nodes[1].data
<1>1. Listed(nodes) /\ m_lazyString \in Seq(Byte) /\ m_nodeSize \in Nat \ {0} /\ m_autoNodeSize \in BOOLEAN
  BY DEF Inv
<1>2. nodes \in NodeList /\ nodes # <<>> /\ s \in Seq(Byte) /\ Len(s) \in Nat /\ Contents = s \o m_lazyString
      /\ Contents \in Seq(Byte) /\ Len(Contents) = Len(s) + Len(m_lazyString) /\ Len(Contents) \in Nat
  BY <1>1, ContentsAre
<1>3. Len(nodes) \in Nat \ {0} /\ 1 \in 1 .. Len(nodes) /\ d \in Seq(Byte)
  <2>1. Len(nodes) \in Nat \ {0} /\ 1 \in 1 .. Len(nodes)
    BY <1>2, NodesOfList
  <2> QED BY <2>1, <1>2, NodesOfList
<1>4. m_nodeSize' = m_nodeSize /\ m_autoNodeSize' = m_autoNodeSize /\ walker' = NoWalker
      /\ call' = [op |-> "Get", arg |-> 1]
  BY DEF GetByte, Did
<1>5. CASE d # <<>>
  <2>1. /\ nodes' = IF UsedUp(ts[1]) THEN CleanupUsedNodes(ts) ELSE ts
        /\ m_lazyString' = m_lazyString /\ out' = <<d[1]>>
    BY <1>5 DEF GetByte, Did
  <2>2. Worn(ts) /\ Stored(ts) = Dropped(s, 1)
    BY <1>1, <1>2, TakenIsWorn, StoredTaken
  <2> HIDE DEF s
  <2>3. Listed(nodes') /\ Stored(nodes') = Dropped(s, 1)
    <3> HIDE DEF ts
    <3>1. CASE UsedUp(ts[1])
      BY <3>1, <2>1, <2>2, CleanedUp
    <3>2. CASE ~UsedUp(ts[1])
      <4>1. ts \in NodeList /\ ts # <<>> /\ Len(ts) \in Nat
        BY <2>2, NodesOfList DEF Worn
      <4>2. \A i \in 2 .. Len(ts) : ts[i].head = 0
        BY <2>2, <3>2, <4>1 DEF Worn
      <4>3. Listed(ts)
        BY <2>2, <3>2, <4>2 DEF Worn, Listed
      <4> QED BY <4>3, <3>2, <2>1, <2>2
    <3> QED BY <3>1, <3>2
  <2>4. Inv'
    BY <2>1, <2>3, <1>1, <1>4, InvAfter
  <2>5. s = d \o Stored(SubSeq(nodes, 2, Len(nodes)))
    BY <1>2, StoredFirst DEF s
  <2>6. Len(s) # 0 /\ s[1] = d[1] /\ Len(d) # 0
    <3> DEFINE e == Stored(SubSeq(nodes, 2, Len(nodes)))
    <3>1. e \in Seq(Byte)
      <4>1. SubSeq(nodes, 1 + 1, Len(nodes)) \in NodeList
        <5>1. nodes \in NodeList /\ 1 \in 0 .. Len(nodes)
          BY <1>2, <1>3
        <5> QED BY <5>1, StoredCut
      <4>2. 1 + 1 = 2
        OBVIOUS
      <4> QED BY <4>1, <4>2, StoredIsSequence
    <3> HIDE DEF e, d
    <3>2. Len(d) # 0 /\ Len(d) \in Nat /\ Len(e) \in Nat
      BY <3>1, <1>3, <1>5
    <3>3. Len(d \o e) = Len(d) + Len(e) /\ \A i \in 1 .. Len(d) + Len(e) : i <= Len(d) => (d \o e)[i] = d[i]
      BY <3>1, <1>3, ConcatProperties
    <3> QED BY <3>2, <3>3, <2>5 DEF e
  <2>7. Contents[1] = d[1] /\ Len(Contents) # 0
    <3>1. Len(s) # 0 => (s \o m_lazyString)[1] = s[1]
      BY <1>1, <1>2, ConcatProperties
    <3>2. Len(m_lazyString) \in Nat
      BY <1>1
    <3> QED BY <3>1, <3>2, <1>2, <2>6
  <2>8. SubSeq(Contents, 1, 1) = <<d[1]>>
    <3> DEFINE c == Contents
    <3>1. c \in Seq(Byte) /\ Len(c) \in Nat \ {0} /\ c[1] = d[1]
      BY <2>7, <1>2
    <3> HIDE DEF c, d
    <3>2. SubSeq(c, 1, 1) = <<c[1]>>
      <4> DEFINE f == SubSeq(c, 1, 1)
                 g == <<c[1]>>
      <4>1. f \in Seq(Byte) /\ Len(f) = 1 /\ f[1] = c[1]
        BY <3>1
      <4>2. g \in Seq(Byte) /\ Len(g) = 1 /\ g[1] = c[1]
        BY <3>1
      <4> HIDE DEF f, g
      <4>3. \A i \in 1 .. Len(f) : f[i] = g[i]
        BY <4>1, <4>2
      <4>4. f = g
        BY <4>1, <4>2, <4>3, SeqEqual
      <4> QED BY <4>4 DEF f, g
    <3> QED BY <3>1, <3>2 DEF c
  <2>9. Contents' = Dropped(Contents, 1)
    <3>1. Higher(0, 1 - Len(s)) = 0
      BY <1>2, <2>6 DEF Higher
    <3>2. Dropped(s \o m_lazyString, 1) = Dropped(s, 1) \o Dropped(m_lazyString, Higher(0, 1 - Len(s)))
      BY <1>1, <1>2, DroppedOfJoin
    <3>3. Dropped(m_lazyString, 0) = m_lazyString
      BY <1>1, DroppedNone
    <3>4. Contents' = Stored(nodes') \o m_lazyString'
      BY DEF Contents
    <3> QED BY <3>1, <3>2, <3>3, <3>4, <2>1, <2>3, <1>2
  <2>10. 1 \in 0 .. Len(Contents)
    BY <2>7, <1>2
  <2> HIDE DEF d
  <2>11. FifoStep
    <3>1. call'.op = "Get" /\ call'.arg = 1 /\ 1 <= call'.arg
      BY <1>4
    <3>2. out' = SubSeq(Contents, 1, 1)
      BY <2>1, <2>8
    <3> QED BY <3>1, <3>2, <2>9, <2>10, TakeStep
  <2> QED BY <2>4, <2>11
<1>6. CASE d = <<>>
  <2>1. nodes' = nodes /\ m_lazyString' = Rest(m_lazyString) /\ out' = First(m_lazyString)
    BY <1>6 DEF GetByte, Did
  <2>2. s = <<>>
    BY <1>1, <1>6, FrontIsEmpty
  <2>3. Contents = m_lazyString
    BY <2>2, <1>1, <1>2, ConcatEmptySeq
  <2>4. m_lazyString' \in Seq(Byte)
    BY <2>1, <1>1 DEF Rest
  <2>5. Contents' = m_lazyString'
    <3>1. Contents' = s \o m_lazyString'
      BY <2>1 DEF Contents
    <3> QED BY <3>1, <2>2, <2>4, ConcatEmptySeq
  <2>6. Inv'
    BY <2>1, <2>4, <1>1, <1>4, InvAfter
  <2> DEFINE lazy == m_lazyString
             k == IF lazy = <<>> THEN 0 ELSE 1
  <2> HIDE DEF d, s
  <2>7. k \in 0 .. Len(lazy) /\ k <= 1 /\ (k = 1 \/ k = Len(lazy))
        /\ First(lazy) = SubSeq(lazy, 1, k) /\ Rest(lazy) = Dropped(lazy, k)
    <3>1. CASE lazy = <<>>
      <4>1. Len(<<>>) = 0 /\ SubSeq(<<>>, 1, 0) = <<>> /\ Dropped(<<>>, 0) = <<>>
        BY SubSeqEmpty DEF Dropped
      <4> QED BY <3>1, <4>1 DEF First, Rest
    <3>2. CASE lazy # <<>>
      <4>1. lazy \in Seq(Byte) /\ Len(lazy) \in Nat \ {0}
        BY <3>2, <1>1
      <4> HIDE DEF lazy
      <4>2. <<lazy[1]>> = SubSeq(lazy, 1, 1) /\ Tail(lazy) = SubSeq(lazy, 2, Len(lazy))
        BY <4>1
      <4>3. 1 + 1 = 2 /\ k = 1
        BY <3>2
      <4> QED BY <3>2, <4>1, <4>2, <4>3 DEF First, Rest, Dropped
    <3> QED BY <3>1, <3>2
  <2> HIDE DEF k
  <2>8. FifoStep
    BY <2>1, <2>3, <2>5, <2>7, <1>4, TakeStep
  <2> QED BY <2>6, <2>8
<1> QED BY <1>5, <1>6
\* What a Walker has read is the front of the queue.
LEMMA ReadIsFront ==
  ASSUME Listed(nodes), m_lazyString \in Seq(Byte), NEW w, Reads(w)
  PROVE  /\ w.seen \in Seq(Byte) /\ Len(w.seen) \in 0 .. Len(Contents)
         /\ w.seen = SubSeq(Contents, 1, Len(w.seen))
<1> DEFINE a == w.seen
           b == FlattenSeq(Pieces(w))
           c == a \o b
<1>1. Placed(w) /\ a \in Seq(Byte) /\ c = Contents
  BY DEF Reads, Placed
<1>2. b \in Seq(Byte)
  <2> DEFINE p == Pieces(w)
  <2>1. nodes \in NodeList
    BY DEF Listed
  <2>2. p \in Seq(Seq(Byte))
    BY <1>1, <2>1, PiecesAre
  <2> HIDE DEF p
  <2>3. FlattenSeq(p) \in Seq(Byte)
    BY <2>2, FlattenIsSequence
  <2> QED BY <2>3 DEF p
<1> HIDE DEF a, b
<1>3. c \in Seq(Byte) /\ Len(c) = Len(a) + Len(b)
      /\ \A i \in 1 .. Len(a) + Len(b) : c[i] = IF i <= Len(a) THEN a[i] ELSE b[i - Len(a)]
  BY <1>1, <1>2, ConcatProperties
<1>4. Len(a) \in Nat /\ Len(b) \in Nat
  BY <1>1, <1>2
<1> DEFINE f == SubSeq(c, 1, Len(a))
<1>5. f \in Seq(Byte) /\ Len(f) = Len(a) /\ \A i \in 1 .. Len(a) : f[i] = c[i]
  <2> HIDE DEF c
  <2>1. Len(a) \in 0 .. Len(c)
    BY <1>3, <1>4
  <2> QED BY <2>1, <1>3
<1> HIDE DEF c
<1>6. ASSUME NEW i \in 1 .. Len(a)
      PROVE  a[i] = f[i]
  <2>1. i \in 1 .. Len(a) + Len(b) /\ i <= Len(a)
    BY <1>4
  <2> QED BY <2>1, <1>3, <1>5
<1> HIDE DEF f
<1>7. a = f
  BY <1>1, <1>5, <1>6, SeqEqual
<1>8. Len(a) \in 0 .. Len(c)
  BY <1>3, <1>4
<1> QED BY <1>1, <1>7, <1>8 DEF a, f

\* What the Walker got rid of is what is skipped.
LEMMA TransferOrBlockStep ==
  ASSUME ByteQueueAssumption, Inv, NEW n \in Nat \ {0}, TransferOrBlock(n)
  PROVE  Inv' /\ FifoStep
<1>1. Listed(nodes) /\ m_lazyString \in Seq(Byte) /\ nodes \in NodeList
  BY DEF Inv, Listed
<1>2. PICK w \in {Walked(AtBegin, n)} \cup Blocked(AtBegin, n) :
        Transferred(Len(w.seen)) /\ Did("GetOrBlock", n, w.seen)
  BY DEF TransferOrBlock
<1>3. Reads(AtBegin) /\ Len(AtBegin.seen) = 0
  <2>1. Len(<<>>) = 0
    OBVIOUS
  <2> QED BY <2>1, <1>1, AtBeginReads
<1>4. Reads(w) /\ Len(w.seen) \in Nat /\ Len(w.seen) <= n
  <2> DEFINE v == AtBegin
             m == Len(FlattenSeq(Pieces(v)))
  <2>1. Reads(v) /\ Len(v.seen) = 0
    BY <1>3
  <2>2. m \in Nat
    <3> DEFINE p == Pieces(v)
    <3>1. p \in Seq(Seq(Byte))
      BY <1>1, <2>1, PiecesAre DEF Reads
    <3> HIDE DEF p
    <3>2. FlattenSeq(p) \in Seq(Byte)
      BY <3>1, FlattenIsSequence
    <3>3. Len(FlattenSeq(p)) \in Nat
      BY <3>2
    <3> QED BY <3>3 DEF p
  <2>3. CASE w = Walked(v, n)
    <3> HIDE DEF v
    <3>1. Reads(w) /\ Len(w.seen) = Len(v.seen) + Lower(n, m)
      BY <1>1, <2>1, <2>3, WalkedReads
    <3> HIDE DEF m
    <3> QED BY <3>1, <2>1, <2>2 DEF Lower
  <2>4. CASE w \in Blocked(v, n)
    <3> HIDE DEF v
    <3>1. Reads(w) /\ Len(w.seen) \in Nat /\ Len(w.seen) < Len(v.seen) + n
      BY <1>1, <2>1, <2>4, BlockedReads
    <3> QED BY <3>1, <2>1
  <2> QED BY <1>2, <2>3, <2>4
<1> DEFINE k == Len(w.seen)
<1>5. call' = [op |-> "GetOrBlock", arg |-> n] /\ out' = w.seen /\ walker' = NoWalker
  BY <1>2 DEF Did
<1>6. Inv' /\ Contents' = Dropped(Contents, k)
  BY <1>2, <1>4, <1>5, TransferredIs
<1>7. k \in 0 .. Len(Contents) /\ w.seen = SubSeq(Contents, 1, k)
  BY <1>1, <1>4, ReadIsFront
<1>8. k <= n
  BY <1>4
<1> HIDE DEF k
<1>9. call'.op = "GetOrBlock" /\ k <= call'.arg /\ out' = SubSeq(Contents, 1, k)
  BY <1>5, <1>7, <1>8
<1> QED BY <1>6, <1>7, <1>9, TakeStep

\* A Walker reads on when the list and the lazy string stay.
LEMMA StillReads ==
  ASSUME Reads(walker'), nodes' = nodes, m_lazyString' = m_lazyString
  PROVE  Reads(walker)'
<1>1. Pieces(walker)' = Pieces(walker')
  BY DEF Pieces
<1>2. Contents' = Contents
  BY DEF Contents
<1> QED BY <1>1, <1>2 DEF Reads, Placed

\* A Walker changes nothing of the queue.
LEMMA WalkStep ==
  ASSUME ByteQueueAssumption, Inv, NEW n \in Nat \ {0}, Walk(n)
  PROVE  Inv' /\ FifoStep
<1> DEFINE w == IF walker = NoWalker THEN AtBegin ELSE walker
<1>1. Listed(nodes) /\ m_lazyString \in Seq(Byte) /\ nodes \in NodeList
  BY DEF Inv, Listed
<1>2. walker' \in {Walked(w, n)} \cup Blocked(w, n) /\ call'.op = "Keep" /\ out' = <<>>
      /\ nodes' = nodes /\ m_nodeSize' = m_nodeSize /\ m_autoNodeSize' = m_autoNodeSize
      /\ m_lazyString' = m_lazyString
  BY DEF Walk, queue
<1>3. Reads(w)
  BY <1>1, AtBeginReads DEF Inv
<1> HIDE DEF w
<1>4. Reads(walker')
  BY <1>1, <1>2, <1>3, WalkedReads, BlockedReads
<1>5. Reads(walker)'
  BY <1>2, <1>4, StillReads
<1>6. Inv'
  BY <1>2, <1>5 DEF Inv
<1>7. Contents' = Contents
  BY <1>2 DEF Contents
<1> QED BY <1>2, <1>6, <1>7, KeepStep

\* Two fields of the first node changed are the node changed.
LEMMA FirstChanged ==
  ASSUME NEW ns \in NodeList, ns # <<>>, NEW k, NEW d
  PROVE  [ns EXCEPT ![1].head = k, ![1].data = d] = Replaced(ns, 1, With(ns[1], k, d))
<1>1. DOMAIN ns = 1 .. Len(ns) /\ 1 \in DOMAIN ns
  BY NodesOfList
<1>2. ns[1] \in NodeRec
  BY <1>1, NodesOfList
<1> QED BY <1>1, <1>2 DEF Replaced, With, NodeRec, NodeList

\* Unget puts the string before the contents.
LEMMA UngetIs ==
  ASSUME ByteQueueAssumption, Inv, NEW s \in String, Unget(s)
  PROVE  Inv' /\ FifoStep
<1>1. /\ nodes' = Ungot(nodes, s)
      /\ m_nodeSize' = m_nodeSize /\ m_autoNodeSize' = m_autoNodeSize /\ m_lazyString' = m_lazyString
      /\ call' = [op |-> "Unget", arg |-> s] /\ out' = <<>> /\ walker' = NoWalker
  <2> DEFINE len  == Lower(Len(s), nodes[1].head)
             part == UngetSplit(s, len)
             k == nodes[1].head - len
             d == part.old \o nodes[1].data
             ns == [nodes EXCEPT ![1].head = k, ![1].data = d]
             ms == Replaced(nodes, 1, With(nodes[1], k, d))
  <2>1. /\ nodes' = IF part.new = <<>> THEN ns ELSE <<Node(Len(part.new), part.new)>> \o ns
        /\ m_nodeSize' = m_nodeSize /\ m_autoNodeSize' = m_autoNodeSize /\ m_lazyString' = m_lazyString
        /\ call' = [op |-> "Unget", arg |-> s] /\ out' = <<>> /\ walker' = NoWalker
    BY DEF Unget, Did
  <2>2. Ungot(nodes, s) = IF part.new = <<>> THEN ms ELSE <<Node(Len(part.new), part.new)>> \o ms
    BY DEF Ungot
  <2> HIDE DEF k, d
  <2>3. ns = ms
    BY FirstChanged DEF Inv, Listed
  <2> QED BY <2>1, <2>2, <2>3
<1>2. Listed(nodes) /\ m_lazyString \in Seq(Byte) /\ m_nodeSize \in Nat \ {0} /\ m_autoNodeSize \in BOOLEAN
  BY DEF Inv
<1>3. s \in Seq(Byte)
  BY StringsAre
<1>4. Listed(nodes') /\ Stored(nodes') = s \o Stored(nodes)
  BY <1>1, <1>2, <1>3, UngotIs
<1>5. Inv'
  BY <1>1, <1>2, <1>4, InvAfter
<1>6. Contents' = s \o Contents
  <2> DEFINE q == Stored(nodes)
  <2>1. q \in Seq(Byte) /\ Contents = q \o m_lazyString
    BY <1>2, ContentsAre
  <2>2. Contents' = (s \o q) \o m_lazyString
    BY <1>1, <1>4 DEF Contents
  <2> HIDE DEF q
  <2>3. (s \o q) \o m_lazyString = s \o (q \o m_lazyString)
    BY <2>1, <1>2, <1>3, BytesJoin
  <2> QED BY <2>1, <2>2, <2>3
<1> QED BY <1>1, <1>5, <1>6, UngetStep

\* Clear leaves one empty node.
LEMMA ClearIs ==
  ASSUME ByteQueueAssumption, Inv, NEW size \in Nat \ {0}, Clear(size)
  PROVE  Inv' /\ FifoStep
<1> DEFINE x == With(nodes[1], 0, <<>>)
<1>1. /\ nodes' = <<x>> /\ m_nodeSize' = size /\ m_autoNodeSize' = m_autoNodeSize
      /\ m_lazyString' = <<>> /\ call'.op = "Clear" /\ out' = <<>> /\ walker' = NoWalker
  BY DEF Clear, Did, With
<1>2. Listed(nodes) /\ m_autoNodeSize \in BOOLEAN
  BY DEF Inv
<1>3. nodes[1] \in NodeRec
  <2>1. nodes \in NodeList /\ nodes # <<>>
    BY <1>2 DEF Listed
  <2>2. 1 \in 1 .. Len(nodes)
    BY <2>1, NodesOfList
  <2> QED BY <2>1, <2>2, NodesOfList
<1>4. <<>> \in Seq(Byte) /\ Len(<<>>) = 0
  OBVIOUS
<1>5. x \in NodeRec /\ x.max = nodes[1].max /\ x.head = 0 /\ x.data = <<>> /\ x.max \in Nat \ {0}
  <2>1. x \in NodeRec /\ x.max = nodes[1].max /\ x.head = 0 /\ x.data = <<>>
    <3> DEFINE n == nodes[1]
               e == <<>>
    <3>1. n \in NodeRec /\ 0 \in Nat /\ e \in Seq(Byte)
      BY <1>3, <1>4
    <3> HIDE DEF n, e
    <3>2. /\ With(n, 0, e) \in NodeRec /\ With(n, 0, e).max = n.max
          /\ With(n, 0, e).head = 0 /\ With(n, 0, e).data = e
      BY <3>1, WithIs
    <3> QED BY <3>2 DEF n, e
  <2> HIDE DEF x
  <2> QED BY <2>1, FieldsOfNode
<1> HIDE DEF x
<1>6. Listed(<<x>>)
  BY <1>5, OneIsListed
<1>7. Inv'
  BY <1>1, <1>2, <1>4, <1>6, InvAfter
<1>8. Contents' = <<>>
  <2>1. Stored(<<x>>) = <<>>
    BY <1>5, StoredOne
  <2> QED BY <2>1, <1>1, <1>6, NothingLazy
<1> QED BY <1>1, <1>7, <1>8, ClearStep

\* SetNodeSize changes what the next node is only.
LEMMA SetNodeSizeStep ==
  ASSUME ByteQueueAssumption, Inv, NEW n \in NodeSizes, SetNodeSize(n)
  PROVE  Inv' /\ FifoStep
<1>1. /\ m_nodeSize' = SizeOf(n) /\ m_autoNodeSize' \in BOOLEAN
      /\ nodes' = nodes /\ m_lazyString' = m_lazyString /\ walker' = walker
      /\ call'.op = "Keep" /\ out' = <<>>
  BY DEF SetNodeSize
<1>2. m_nodeSize' \in Nat \ {0}
  BY <1>1, SizesAre
<1>3. walker' = NoWalker \/ Reads(walker')
  BY <1>1 DEF Inv
<1>4. walker' = NoWalker \/ Reads(walker)'
  BY <1>1, <1>3, StillReads
<1>5. Inv'
  BY <1>1, <1>2, <1>4 DEF Inv, NoWalker
<1>6. Contents' = Contents
  BY <1>1 DEF Contents
<1> QED BY <1>1, <1>5, <1>6, KeepStep

\* Every step.
LEMMA NextStep ==
  ASSUME ByteQueueAssumption, Inv, [Next]_vars
  PROVE  Inv' /\ FifoStep
<1>1. MaxPut \in Nat /\ MaxBytes \in Nat
  BY DEF ByteQueueAssumption
<1>2. CASE \E s \in String : Put2(s) \/ LazyPut(s) \/ Unget(s)
  BY <1>2, Put2Step, LazyPutStep, UngetIs
<1>3. CASE \E n \in 0 .. MaxPut : UndoLazyPut(n) \/ CreatePutSpace(n)
  <2>1. \A n \in 0 .. MaxPut : n \in Nat
    BY <1>1
  <2> QED BY <2>1, <1>3, UndoLazyPutStep, CreatePutSpaceStep
<1>4. CASE \E n \in 1 .. MaxBytes : TransferTo2(n) \/ TransferOrBlock(n) \/ Walk(n)
  <2>1. \A n \in 1 .. MaxBytes : n \in Nat /\ n \in Nat \ {0}
    BY <1>1
  <2> QED BY <2>1, <1>4, TransferTo2Step, TransferOrBlockStep, WalkStep
<1>5. CASE GetByte
  BY <1>5, GetByteStep
<1>6. CASE FinalizeLazyPut \/ CopyFrom
  BY <1>6, FinalizeStep
<1>7. CASE \E n \in NodeSizes : SetNodeSize(n)
  BY <1>7, SetNodeSizeStep
<1>8. CASE \E size \in {m_nodeSize, AutoNodeSize} \cup (NodeSizes \ {0}) : Clear(size)
  <2>1. \A size \in {m_nodeSize, AutoNodeSize} \cup (NodeSizes \ {0}) : size \in Nat \ {0}
    BY DEF ByteQueueAssumption, Inv, TypeOK
  <2> QED BY <2>1, <1>8, ClearIs
<1>9. CASE UNCHANGED vars
  <2>1. /\ nodes' = nodes /\ m_nodeSize' = m_nodeSize /\ m_autoNodeSize' = m_autoNodeSize
        /\ m_lazyString' = m_lazyString /\ walker' = walker /\ call' = call /\ out' = out
    BY <1>9 DEF vars
  <2>2. walker' = NoWalker \/ Reads(walker')
    BY <2>1 DEF Inv
  <2>3. walker' = NoWalker \/ Reads(walker)'
    BY <2>1, <2>2, StillReads
  <2>4. Inv'
    BY <2>1, <2>3 DEF Inv, NoWalker
  <2>5. Contents' = Contents
    BY <2>1 DEF Contents
  <2>6. UNCHANGED Fifo!vars
    BY <2>1, <2>5 DEF Fifo!vars
  <2> QED BY <2>4, <2>6 DEF FifoStep
<1> QED BY <1>2, <1>3, <1>4, <1>5, <1>6, <1>7, <1>8, <1>9 DEF Next
-----------------------------------------------------------------------------
(* The theorems.                                                           *)

\* What the invariant says of a state.
LEMMA InvSays ==
  ASSUME Inv
  PROVE  TypeOK /\ RoomAtTheTailOnly /\ FrontShows /\ WalkerReadsTheFront
<1>1. Listed(nodes) /\ m_lazyString \in Seq(Byte) /\ nodes \in NodeList /\ nodes # <<>>
  BY DEF Inv, Listed
<1> DEFINE s == Stored(nodes)
           d == nodes[1].data
<1>2. s \in Seq(Byte) /\ Len(s) \in Nat /\ Contents = s \o m_lazyString
      /\ Contents \in Seq(Byte) /\ Len(Contents) = Len(s) + Len(m_lazyString)
  BY <1>1, ContentsAre
<1>3. Len(nodes) \in Nat \ {0} /\ 1 \in 1 .. Len(nodes) /\ DOMAIN nodes = 1 .. Len(nodes)
  BY <1>1, NodesOfList
<1>4. TypeOK
  BY <1>1, <1>3 DEF Inv, TypeOK, Listed, NodeList, NodeRec
<1>5. RoomAtTheTailOnly
  BY DEF Inv, RoomAtTheTailOnly, Listed
<1>6. d = <<>> => Len(nodes) = 1 /\ s = <<>> /\ Contents = m_lazyString
  <2>1. d = <<>> => Len(nodes) = 1 /\ s = <<>>
    BY <1>1, FrontIsEmpty
  <2> HIDE DEF s
  <2>2. s = <<>> => Contents = m_lazyString
    BY <1>1, <1>2, ConcatEmptySeq
  <2> QED BY <2>1, <2>2
<1>7. d # <<>> => Contents # <<>>
  <2>1. d \in Seq(Byte)
    BY <1>1, <1>3, NodesOfList
  <2>2. s = d \o Stored(SubSeq(nodes, 2, Len(nodes)))
    BY <1>1, StoredFirst
  <2> DEFINE e == Stored(SubSeq(nodes, 2, Len(nodes)))
  <2>3. e \in Seq(Byte)
    <3>1. nodes \in NodeList /\ 1 \in 0 .. Len(nodes) /\ 1 + 1 = 2
      BY <1>1, <1>3
    <3>2. SubSeq(nodes, 1 + 1, Len(nodes)) \in NodeList
      BY <3>1, StoredCut
    <3> QED BY <3>1, <3>2, StoredIsSequence
  <2> HIDE DEF s, d, e
  <2>4. Len(d \o e) = Len(d) + Len(e)
    BY <2>1, <2>3, ConcatProperties
  <2>5. d # <<>> => Len(d) # 0
    BY <2>1
  <2>6. Len(d) \in Nat /\ Len(e) \in Nat /\ Len(m_lazyString) \in Nat
    BY <2>1, <2>3, <1>1
  <2>7. d # <<>> => Len(Contents) # 0
    BY <2>2, <2>4, <2>5, <2>6, <1>2 DEF e
  <2>8. Len(<<>>) = 0
    OBVIOUS
  <2> QED BY <2>7, <2>8
<1>8. FrontShows
  BY <1>6, <1>7 DEF FrontShows, IsEmpty, Spied
<1>9. WalkerReadsTheFront
  <2>1. CASE walker = NoWalker
    <3>1. walker.seen = <<>>
      BY <2>1 DEF NoWalker
    <3> DEFINE c == Contents
    <3>2. c \in Seq(Byte)
      BY <1>2
    <3> HIDE DEF c
    <3>3. Len(<<>>) = 0 /\ Len(c) \in Nat
      BY <3>2
    <3>4. <<>> = SubSeq(c, 1, 0)
      BY SubSeqEmpty
    <3>5. IsPrefix(<<>>, c)
      BY <3>3, <3>4 DEF IsPrefix
    <3> QED BY <3>1, <3>5 DEF WalkerReadsTheFront, c
  <2>2. CASE Reads(walker)
    <3> DEFINE a == walker.seen
               c == Contents
    <3>1. a \in Seq(Byte) /\ Len(a) \in 0 .. Len(c) /\ a = SubSeq(c, 1, Len(a)) /\ c \in Seq(Byte)
      BY <1>1, <1>2, <2>2, ReadIsFront
    <3> HIDE DEF a, c
    <3>2. Len(a) <= Len(c)
      BY <3>1
    <3>3. IsPrefix(a, c)
      BY <3>1, <3>2 DEF IsPrefix
    <3> QED BY <3>3 DEF WalkerReadsTheFront, a, c
  <2> QED BY <2>1, <2>2 DEF Inv
<1> QED BY <1>4, <1>5, <1>8, <1>9

\* The list, the sizes, the lazy string and the Walker are what the calls of
\* queue.cpp leave one another, for nodes of any size and strings of any length.
THEOREM InvHolds == ByteQueueAssumption => (Spec => []Inv)
<1> SUFFICES ASSUME ByteQueueAssumption
             PROVE  Spec => []Inv
  OBVIOUS
<1>1. Init => Inv
  BY InitIs
<1>2. Inv /\ [Next]_vars => Inv'
  BY NextStep
<1> QED BY <1>1, <1>2, PTL DEF Spec

\* Free space is at the end of the list only: appending to the tail appends to
\* the queue (queue.cpp:217-238, 390-396).
THEOREM RoomIsAtTheTail == ByteQueueAssumption => (Spec => [](TypeOK /\ RoomAtTheTailOnly))
<1> SUFFICES ASSUME ByteQueueAssumption
             PROVE  Spec => [](TypeOK /\ RoomAtTheTailOnly)
  OBVIOUS
<1>1. Spec => []Inv
  BY InvHolds
<1>2. Inv => TypeOK /\ RoomAtTheTailOnly
  BY InvSays
<1> QED BY <1>1, <1>2, PTL

\* IsEmpty, Spy and the Get of one byte, which look at the front only, are
\* right about the whole queue.
THEOREM FrontShowsHolds == ByteQueueAssumption => (Spec => []FrontShows)
<1> SUFFICES ASSUME ByteQueueAssumption
             PROVE  Spec => []FrontShows
  OBVIOUS
<1>1. Spec => []Inv
  BY InvHolds
<1>2. Inv => FrontShows
  BY InvSays
<1> QED BY <1>1, <1>2, PTL

\* A Walker whose target blocks now and then has read the front of the queue,
\* nothing lost and nothing twice (queue.cpp:510-551).
THEOREM WalkerReads == ByteQueueAssumption => (Spec => []WalkerReadsTheFront)
<1> SUFFICES ASSUME ByteQueueAssumption
             PROVE  Spec => []WalkerReadsTheFront
  OBVIOUS
<1>1. Spec => []Inv
  BY InvHolds
<1>2. Inv => WalkerReadsTheFront
  BY InvSays
<1> QED BY <1>1, <1>2, PTL

\* Whatever calls move them, the bytes leave in the order they came: the list
\* of arrays with its lazy string implements ByteFifo.
THEOREM QueueIsFifo == ByteQueueAssumption => (Spec => ImplementsFifo)
<1> SUFFICES ASSUME ByteQueueAssumption
             PROVE  Spec => ImplementsFifo
  OBVIOUS
<1>1. Init => Fifo!Init
  BY InitIs
<1>2. Spec => []Inv
  BY InvHolds
<1>3. Inv /\ [Next]_vars => [Fifo!Next]_(Fifo!vars)
  BY NextStep DEF FifoStep
<1> QED BY <1>1, <1>2, <1>3, PTL DEF Spec, ImplementsFifo, Fifo!Spec

-----------------------------------------------------------------------------
(* EqualityComparisonFilter, with one series of messages on each channel.  *)

CONSTANTS MaxPiece, MaxItems, MaxSeries
VARIABLES m_q, m_mismatchDetected, m_throwIfNotEqual, output, sent

Eq == INSTANCE EqualityComparisonFilter

\* What a channel may bring.
Item == Byte \cup {Eq!End, Eq!SeriesEnd}

\* The three kinds of items are told apart.
Told == Eq!End \notin Byte /\ Eq!SeriesEnd \notin Byte /\ Eq!End # Eq!SeriesEnd

\* The assumption of the model, as the lemmas use it.
LEMMA ItemsAreTold ==
  ASSUME Eq!EqualityAssumption
  PROVE  Told
BY DEF Told, Eq!EqualityAssumption, Eq!End, Eq!SeriesEnd

\* The sequence of messages c, each with its end, then the bytes o of one that
\* is open and, if e, the end of the series.
Ended(c) == [k \in 1 .. Len(c) |-> Append(c[k], Eq!End)]
Closing(e) == IF e THEN <<Eq!SeriesEnd>> ELSE <<>>
ItemsOf(c, o, e) == FlattenSeq(Ended(c)) \o (o \o Closing(e))

\* The lengths of messages.
Lengths(c) == [k \in 1 .. Len(c) |-> Len(c[k])]

\* A MessageQueue.
QueueRec == [bytes : Seq(Byte), lengths : Seq(Nat), counts : Seq(Nat)]

\* q is the MessageQueue that holds them.
IsQueue(q, c, o, e) ==
  /\ c \in Seq(Seq(Byte)) /\ o \in Seq(Byte) /\ e \in BOOLEAN
  /\ q \in QueueRec
  /\ q.bytes = FlattenSeq(c) \o o
  /\ q.lengths = Append(Lengths(c), Len(o))
  /\ Len(q.counts) = IF e THEN 2 ELSE 1
  /\ q.counts[1] >= Len(c)
  /\ e => o = <<>>

\* A function on 1 .. n is a sequence of length n.
LEMMA FunctionIsSequence ==
  ASSUME NEW S, NEW n \in Nat, NEW f \in [1 .. n -> S]
  PROVE  f \in Seq(S) /\ Len(f) = n
OBVIOUS

\* The end of a series is a sequence of items.
LEMMA ClosingIs ==
  ASSUME NEW e \in BOOLEAN
  PROVE  Closing(e) \in Seq(Item)
<1>1. Eq!SeriesEnd \in Item
  BY DEF Item
<1>2. <<Eq!SeriesEnd>> \in Seq(Item) /\ <<>> \in Seq(Item)
  BY <1>1
<1> QED BY <1>2 DEF Closing

\* Messages with their ends, and the lengths of messages.
LEMMA EndedIs ==
  ASSUME NEW c \in Seq(Seq(Byte))
  PROVE  /\ Ended(c) \in Seq(Seq(Item)) /\ Len(Ended(c)) = Len(c)
         /\ \A k \in 1 .. Len(c) : Ended(c)[k] = Append(c[k], Eq!End)
         /\ Lengths(c) \in Seq(Nat) /\ Len(Lengths(c)) = Len(c)
         /\ \A k \in 1 .. Len(c) : Lengths(c)[k] = Len(c[k])
<1>1. \A k \in 1 .. Len(c) : c[k] \in Seq(Byte) /\ c[k] \in Seq(Item)
  BY DEF Item
<1>2. Eq!End \in Item
  BY DEF Item
<1>3. \A k \in 1 .. Len(c) : Append(c[k], Eq!End) \in Seq(Item) /\ Len(c[k]) \in Nat
  BY <1>1, <1>2
<1>4. Len(c) \in Nat
  OBVIOUS
<1>5. Ended(c) \in [1 .. Len(c) -> Seq(Item)] /\ Lengths(c) \in [1 .. Len(c) -> Nat]
  BY <1>3 DEF Ended, Lengths
<1>6. Ended(c) \in Seq(Seq(Item)) /\ Lengths(c) \in Seq(Nat)
  BY <1>4, <1>5, FunctionIsSequence
<1>7. Len(Ended(c)) = Len(c) /\ Len(Lengths(c)) = Len(c)
  BY <1>4, <1>5, FunctionIsSequence
<1> QED BY <1>6, <1>7 DEF Ended, Lengths

\* No message has ended.
LEMMA NothingEnded ==
  /\ Ended(<<>>) = <<>> /\ Lengths(<<>>) = <<>>
  /\ \A o \in Seq(Byte), e \in BOOLEAN : ItemsOf(<<>>, o, e) = o \o Closing(e)
<1>1. Ended(<<>>) = <<>> /\ Lengths(<<>>) = <<>>
  <2>1. <<>> \in Seq(Seq(Byte)) /\ Len(<<>>) = 0
    OBVIOUS
  <2>2. Ended(<<>>) \in Seq(Seq(Item)) /\ Len(Ended(<<>>)) = 0 /\ Lengths(<<>>) \in Seq(Nat) /\ Len(Lengths(<<>>)) = 0
    BY <2>1, EndedIs
  <2> QED BY <2>2
<1>2. ASSUME NEW o \in Seq(Byte), NEW e \in BOOLEAN PROVE ItemsOf(<<>>, o, e) = o \o Closing(e)
  <2>1. o \o Closing(e) \in Seq(Item)
    <3>1. o \in Seq(Item)
      BY DEF Item
    <3> QED BY <3>1, ClosingIs
  <2>2. ItemsOf(<<>>, o, e) = <<>> \o (o \o Closing(e))
    BY <1>1, FlattenNone DEF ItemsOf
  <2> HIDE DEF ItemsOf
  <2> QED BY <2>1, <2>2
<1> QED BY <1>1, <1>2

\* What it is when one more message ends.
LEMMA EndedGrows ==
  ASSUME NEW c \in Seq(Seq(Byte)), NEW o \in Seq(Byte)
  PROVE  /\ Ended(Append(c, o)) = Append(Ended(c), Append(o, Eq!End))
         /\ Lengths(Append(c, o)) = Append(Lengths(c), Len(o))
<1> DEFINE d == Append(c, o)
           n == Len(c)
           x == Append(o, Eq!End)
<1>1. d \in Seq(Seq(Byte)) /\ Len(d) = n + 1 /\ d[n + 1] = o /\ \A k \in 1 .. n : d[k] = c[k]
  BY AppendProperties
<1> HIDE DEF d
<1>2. /\ Ended(d) \in Seq(Seq(Item)) /\ Len(Ended(d)) = n + 1
      /\ \A k \in 1 .. n + 1 : Ended(d)[k] = Append(d[k], Eq!End)
      /\ Lengths(d) \in Seq(Nat) /\ Len(Lengths(d)) = n + 1
      /\ \A k \in 1 .. n + 1 : Lengths(d)[k] = Len(d[k])
  BY <1>1, EndedIs
<1>3. /\ Ended(c) \in Seq(Seq(Item)) /\ Len(Ended(c)) = n
      /\ \A k \in 1 .. n : Ended(c)[k] = Append(c[k], Eq!End)
      /\ Lengths(c) \in Seq(Nat) /\ Len(Lengths(c)) = n
      /\ \A k \in 1 .. n : Lengths(c)[k] = Len(c[k])
  BY EndedIs
<1>4. x \in Seq(Item) /\ Len(o) \in Nat /\ n \in Nat
  BY DEF Item
<1>5. \A k \in 1 .. n + 1 : k \in 1 .. n \/ k = n + 1
  BY <1>4
<1> HIDE DEF n
<1> DEFINE u == Append(Ended(c), x)
           w == Append(Lengths(c), Len(o))
<1> HIDE DEF x
<1>6. u \in Seq(Seq(Item)) /\ Len(u) = n + 1 /\ u[n + 1] = x /\ \A k \in 1 .. n : u[k] = Ended(c)[k]
  BY <1>3, <1>4, AppendProperties
<1>7. w \in Seq(Nat) /\ Len(w) = n + 1 /\ w[n + 1] = Len(o) /\ \A k \in 1 .. n : w[k] = Lengths(c)[k]
  BY <1>3, <1>4, AppendProperties
<1> HIDE DEF u, w
<1>8. \A k \in 1 .. n + 1 : Ended(d)[k] = u[k] /\ Lengths(d)[k] = w[k]
  <2> SUFFICES ASSUME NEW k \in 1 .. n + 1 PROVE Ended(d)[k] = u[k] /\ Lengths(d)[k] = w[k]
    OBVIOUS
  <2>1. CASE k \in 1 .. n
    BY <2>1, <1>1, <1>2, <1>3, <1>6, <1>7
  <2>2. CASE k = n + 1
    BY <2>2, <1>1, <1>2, <1>6, <1>7 DEF x
  <2> QED BY <1>5, <2>1, <2>2
<1>9. Ended(d) = u
  BY <1>2, <1>6, <1>8, SeqEqual
<1>10. Lengths(d) = w
  BY <1>2, <1>7, <1>8, SeqEqual
<1> QED BY <1>9, <1>10 DEF d, u, w, x

\* And when the first is c's.
LEMMA EndedStarts ==
  ASSUME NEW c \in Seq(Seq(Byte)), NEW x \in Seq(Byte)
  PROVE  /\ Ended(<<x>> \o c) = <<Append(x, Eq!End)>> \o Ended(c)
         /\ Lengths(<<x>> \o c) = <<Len(x)>> \o Lengths(c)
<1> DEFINE d == <<x>> \o c
           n == Len(c)
           y == Append(x, Eq!End)
<1>1. d \in Seq(Seq(Byte)) /\ Len(d) = n + 1 /\ d[1] = x /\ \A k \in 1 .. n : d[k + 1] = c[k]
  OBVIOUS
<1> HIDE DEF d
<1>2. /\ Ended(d) \in Seq(Seq(Item)) /\ Len(Ended(d)) = n + 1
      /\ \A k \in 1 .. n + 1 : Ended(d)[k] = Append(d[k], Eq!End)
      /\ Lengths(d) \in Seq(Nat) /\ Len(Lengths(d)) = n + 1
      /\ \A k \in 1 .. n + 1 : Lengths(d)[k] = Len(d[k])
  BY <1>1, EndedIs
<1>3. /\ Ended(c) \in Seq(Seq(Item)) /\ Len(Ended(c)) = n
      /\ \A k \in 1 .. n : Ended(c)[k] = Append(c[k], Eq!End)
      /\ Lengths(c) \in Seq(Nat) /\ Len(Lengths(c)) = n
      /\ \A k \in 1 .. n : Lengths(c)[k] = Len(c[k])
  BY EndedIs
<1>4. y \in Seq(Item) /\ Len(x) \in Nat /\ n \in Nat
  BY DEF Item
<1>5. \A k \in 1 .. n + 1 : k = 1 \/ (k - 1 \in 1 .. n /\ (k - 1) + 1 = k)
  BY <1>4
<1> HIDE DEF n
<1> DEFINE e == Ended(c)
           l == Lengths(c)
           m == Len(x)
           u == <<y>> \o e
           w == <<m>> \o l
<1> HIDE DEF e, l, y, m
<1>6. u \in Seq(Seq(Item)) /\ Len(u) = n + 1 /\ u[1] = y /\ \A k \in 1 .. n : u[k + 1] = e[k]
  BY <1>3, <1>4 DEF e
<1>7. w \in Seq(Nat) /\ Len(w) = n + 1 /\ w[1] = m /\ \A k \in 1 .. n : w[k + 1] = l[k]
  BY <1>3, <1>4 DEF l, m
<1> HIDE DEF u, w
<1>8. \A k \in 1 .. n + 1 : Ended(d)[k] = u[k] /\ Lengths(d)[k] = w[k]
  <2> SUFFICES ASSUME NEW k \in 1 .. n + 1 PROVE Ended(d)[k] = u[k] /\ Lengths(d)[k] = w[k]
    OBVIOUS
  <2>1. CASE k = 1
    BY <2>1, <1>1, <1>2, <1>6, <1>7 DEF y, m
  <2>2. CASE k - 1 \in 1 .. n /\ (k - 1) + 1 = k
    <3> DEFINE j == k - 1
    <3>1. j \in 1 .. n /\ j + 1 = k
      BY <2>2
    <3> HIDE DEF j
    <3>2. d[k] = c[j] /\ u[k] = e[j] /\ w[k] = l[j]
      BY <3>1, <1>1, <1>6, <1>7
    <3> QED BY <3>1, <3>2, <1>2, <1>3 DEF e, l
  <2> QED BY <1>5, <2>1, <2>2
<1>9. Ended(d) = u
  BY <1>2, <1>6, <1>8, SeqEqual
<1>10. Lengths(d) = w
  BY <1>2, <1>7, <1>8, SeqEqual
<1> QED BY <1>9, <1>10 DEF d, u, w, e, l, y, m

\* Messages, open bytes and the end of a series are sequences of items.
LEMMA ItemsAre ==
  ASSUME NEW c \in Seq(Seq(Byte)), NEW o \in Seq(Byte), NEW e \in BOOLEAN
  PROVE  /\ FlattenSeq(Ended(c)) \in Seq(Item) /\ o \in Seq(Item) /\ Closing(e) \in Seq(Item)
         /\ ItemsOf(c, o, e) \in Seq(Item)
         /\ ItemsOf(c, o, FALSE) = FlattenSeq(Ended(c)) \o o
<1>1. FlattenSeq(Ended(c)) \in Seq(Item)
  BY EndedIs, FlattenIsSequence
<1>2. o \in Seq(Item)
  BY DEF Item
<1>3. Closing(e) \in Seq(Item)
  BY ClosingIs
<1>4. ItemsOf(c, o, e) \in Seq(Item)
  BY <1>1, <1>2, <1>3 DEF ItemsOf
<1>5. Closing(FALSE) = <<>> /\ o \o <<>> = o
  BY <1>2 DEF Closing
<1>6. ItemsOf(c, o, FALSE) = FlattenSeq(Ended(c)) \o o
  BY <1>5 DEF ItemsOf
<1> QED BY <1>1, <1>2, <1>3, <1>4, <1>6

\* Bytes are added to the open message.
LEMMA ItemsGrow ==
  ASSUME NEW c \in Seq(Seq(Byte)), NEW o \in Seq(Byte), NEW s \in Seq(Byte)
  PROVE  ItemsOf(c, o \o s, FALSE) = ItemsOf(c, o, FALSE) \o s
<1> DEFINE x == FlattenSeq(Ended(c))
<1>1. o \o s \in Seq(Byte)
  OBVIOUS
<1>2. ItemsOf(c, o \o s, FALSE) = x \o (o \o s) /\ ItemsOf(c, o, FALSE) = x \o o
  BY <1>1, ItemsAre
<1>3. x \in Seq(Item) /\ o \in Seq(Item) /\ s \in Seq(Item)
  BY ItemsAre
<1> HIDE DEF x
<1>4. (x \o o) \o s = x \o (o \o s)
  BY <1>3, ConcatAssociative
<1> QED BY <1>2, <1>4

\* The open message ends.
LEMMA ItemsEnd ==
  ASSUME NEW c \in Seq(Seq(Byte)), NEW o \in Seq(Byte)
  PROVE  ItemsOf(Append(c, o), <<>>, FALSE) = ItemsOf(c, o, FALSE) \o <<Eq!End>>
<1> DEFINE x == FlattenSeq(Ended(c))
           n == <<>>
           y == Append(o, Eq!End)
           z == <<Eq!End>>
<1>1. Append(c, o) \in Seq(Seq(Byte)) /\ n \in Seq(Byte)
  OBVIOUS
<1>2. Eq!End \in Item /\ o \in Seq(Item)
  BY DEF Item
<1>3. y \in Seq(Item) /\ z \in Seq(Item) /\ y = o \o z
  BY <1>2
<1>4. FlattenSeq(Ended(Append(c, o))) = x \o y
  <2>1. Ended(Append(c, o)) = Append(Ended(c), y) /\ Ended(c) \in Seq(Seq(Item))
    BY EndedGrows, EndedIs
  <2> HIDE DEF y
  <2> QED BY <2>1, <1>3, FlattenGrows
<1>5. x \in Seq(Item)
  BY ItemsAre
<1> HIDE DEF x, n
<1>6. ItemsOf(Append(c, o), n, FALSE) = (x \o y) \o n /\ ItemsOf(c, o, FALSE) = x \o o
  BY <1>1, <1>4, ItemsAre DEF x
<1> HIDE DEF y, z
<1>7. (x \o y) \o n = x \o y
  BY <1>3, <1>5 DEF n
<1>8. (x \o o) \o z = x \o (o \o z)
  BY <1>2, <1>3, <1>5, ConcatAssociative
<1> QED BY <1>3, <1>6, <1>7, <1>8 DEF n, z

\* The series ends.
LEMMA ItemsClose ==
  ASSUME NEW c \in Seq(Seq(Byte))
  PROVE  ItemsOf(c, <<>>, TRUE) = ItemsOf(c, <<>>, FALSE) \o <<Eq!SeriesEnd>>
<1> DEFINE x == FlattenSeq(Ended(c))
           z == <<Eq!SeriesEnd>>
           n == <<>>
<1>1. n \in Seq(Byte) /\ Closing(TRUE) = z
  BY DEF Closing
<1>2. z \in Seq(Item)
  BY ClosingIs DEF Closing
<1>3. x \in Seq(Item) /\ ItemsOf(c, n, FALSE) = x \o n
  BY <1>1, ItemsAre
<1>4. x \o n = x /\ n \o z = z
  <2> HIDE DEF x, z
  <2> QED BY <1>2, <1>3
<1> QED BY <1>1, <1>3, <1>4 DEF ItemsOf

\* The first message comes before everything else.
LEMMA ItemsStart ==
  ASSUME NEW c \in Seq(Seq(Byte)), NEW o \in Seq(Byte), NEW e \in BOOLEAN, NEW x \in Seq(Byte)
  PROVE  ItemsOf(<<x>> \o c, o, e) = x \o (<<Eq!End>> \o ItemsOf(c, o, e))
<1> DEFINE y == FlattenSeq(Ended(c))
           z == <<Eq!End>>
           w == o \o Closing(e)
           a == Append(x, Eq!End)
<1>1. Eq!End \in Item /\ x \in Seq(Item)
  BY DEF Item
<1>2. z \in Seq(Item) /\ a \in Seq(Item) /\ a = x \o z
  BY <1>1
<1>3. y \in Seq(Item) /\ w \in Seq(Item)
  <2>1. y \in Seq(Item) /\ o \in Seq(Item) /\ Closing(e) \in Seq(Item)
    BY ItemsAre
  <2> QED BY <2>1
<1>4. FlattenSeq(Ended(<<x>> \o c)) = a \o y
  <2>1. Ended(<<x>> \o c) = <<a>> \o Ended(c) /\ Ended(c) \in Seq(Seq(Item))
    BY EndedStarts, EndedIs
  <2> HIDE DEF a
  <2>2. <<a>> \in Seq(Seq(Item)) /\ FlattenSeq(<<a>>) = a
    <3>1. a \in Seq(Item)
      BY <1>2 DEF a
    <3> QED BY <3>1, FlattenOne
  <2> QED BY <2>1, <2>2, FlattenJoin
<1>5. ItemsOf(<<x>> \o c, o, e) = (a \o y) \o w /\ ItemsOf(c, o, e) = y \o w
  BY <1>4 DEF ItemsOf
<1> HIDE DEF a, y, z, w
<1>6. (a \o y) \o w = a \o (y \o w) /\ y \o w \in Seq(Item)
  <2>1. a \in Seq(Item) /\ y \in Seq(Item) /\ w \in Seq(Item)
    BY <1>2, <1>3
  <2> QED BY <2>1, ConcatAssociative
<1> DEFINE v == y \o w
<1>7. v \in Seq(Item)
  BY <1>6
<1> HIDE DEF v
<1>8. (x \o z) \o v = x \o (z \o v)
  BY <1>1, <1>2, <1>7, ConcatAssociative
<1> QED BY <1>2, <1>5, <1>6, <1>8 DEF v, z

\* Cutting a sequence where two were joined.
LEMMA CutJoined ==
  ASSUME NEW S, NEW s \in Seq(S), NEW t \in Seq(S)
  PROVE  /\ SubSeq(s \o t, Len(s) + 1, Len(s \o t)) = t
         /\ \A n \in 0 .. Len(s) : SubSeq(s \o t, 1, n) = SubSeq(s, 1, n)
<1> DEFINE u == s \o t
           m == Len(s)
           v == SubSeq(u, m + 1, Len(u))
<1>1. /\ u \in Seq(S) /\ Len(u) = m + Len(t) /\ m \in Nat /\ Len(t) \in Nat
      /\ \A i \in 1 .. m : u[i] = s[i]
      /\ \A i \in 1 .. Len(t) : u[m + i] = t[i]
  OBVIOUS
<1> HIDE DEF u, m
<1>2. v \in Seq(S) /\ Len(v) = Len(t) /\ \A i \in 1 .. Len(t) : v[i] = u[m + i]
  BY <1>1
<1> HIDE DEF v
<1>3. v = t
  BY <1>1, <1>2, SeqEqual
<1>4. ASSUME NEW n \in 0 .. m PROVE SubSeq(u, 1, n) = SubSeq(s, 1, n)
  <2> DEFINE a == SubSeq(u, 1, n)
             b == SubSeq(s, 1, n)
  <2>1. a \in Seq(S) /\ Len(a) = n /\ \A i \in 1 .. n : a[i] = u[i]
    BY <1>1
  <2>2. b \in Seq(S) /\ Len(b) = n /\ \A i \in 1 .. n : b[i] = s[i]
    BY <1>1 DEF m
  <2>3. \A i \in 1 .. n : u[i] = s[i]
    BY <1>1
  <2> HIDE DEF a, b
  <2>4. a = b
    BY <2>1, <2>2, <2>3, SeqEqual
  <2> QED BY <2>4 DEF a, b
<1> QED BY <1>3, <1>4 DEF u, v, m

-----------------------------------------------------------------------------

\* The fields of a MessageQueue.
LEMMA QueueFields ==
  ASSUME NEW q \in QueueRec
  PROVE  q.bytes \in Seq(Byte) /\ q.lengths \in Seq(Nat) /\ q.counts \in Seq(Nat)
BY DEF QueueRec

\* p is q with other bytes, lengths and counts.
Changed(p, q, b, l, k) == p = [q EXCEPT !.bytes = b, !.lengths = l, !.counts = k]

\* A MessageQueue whose fields are changed is one.
LEMMA QueueChanged ==
  ASSUME NEW q \in QueueRec, NEW b \in Seq(Byte), NEW l \in Seq(Nat), NEW k \in Seq(Nat),
         NEW p, Changed(p, q, b, l, k)
  PROVE  p \in QueueRec /\ p.bytes = b /\ p.lengths = l /\ p.counts = k
BY DEF QueueRec, Changed

\* The counts: the first is raised, or one is put behind.
LEMMA OneIsChanged ==
  ASSUME NEW S, NEW n \in Nat, n >= 1, NEW k \in Seq(S), Len(k) = n, NEW a \in S, NEW j
  PROVE  /\ k[1] \in S
         /\ j = [k EXCEPT ![1] = a] => j \in Seq(S) /\ Len(j) = n /\ j[1] = a
         /\ j = Append(k, a) => j \in Seq(S) /\ Len(j) = n + 1 /\ j[1] = k[1]
<1>1. k[1] \in S
  OBVIOUS
<1>2. ASSUME j = [k EXCEPT ![1] = a] PROVE j \in Seq(S) /\ Len(j) = n /\ j[1] = a
  BY <1>2
<1>3. ASSUME j = Append(k, a) PROVE j \in Seq(S) /\ Len(j) = n + 1 /\ j[1] = k[1]
  BY <1>3, AppendProperties
<1> QED BY <1>1, <1>2, <1>3

\* The only count is raised, or a count is put behind it.
LEMMA CountsChange ==
  ASSUME NEW k \in Seq(Nat), Len(k) = 1, NEW j
  PROVE  /\ k[1] \in Nat
         /\ j = [k EXCEPT ![Len(k)] = k[Len(k)] + 1] =>
              j \in Seq(Nat) /\ Len(j) = 1 /\ j[1] = k[1] + 1
         /\ j = Append(k, 0) => j \in Seq(Nat) /\ Len(j) = 2 /\ j[1] = k[1]
<1> DEFINE v == k[1] + 1
           S == Nat
           n == 1
<1>1. k[1] \in Nat
  OBVIOUS
<1>2. v \in S /\ 0 \in S /\ k \in Seq(S) /\ n \in Nat /\ n >= 1 /\ Len(k) = n
  BY <1>1
<1> HIDE DEF v, S, n
<1>3. j = [k EXCEPT ![1] = v] => j \in Seq(S) /\ Len(j) = n /\ j[1] = v
  BY <1>2, OneIsChanged
<1>4. j = Append(k, 0) => j \in Seq(S) /\ Len(j) = n + 1 /\ j[1] = k[1]
  BY <1>2, OneIsChanged
<1> QED BY <1>1, <1>3, <1>4 DEF v, S, n

\* A new MessageQueue holds nothing.
LEMMA EmptyIs == IsQueue(Eq!Empty, <<>>, <<>>, FALSE)
<1>1. /\ Eq!Empty.bytes = <<>> /\ Eq!Empty.lengths = <<0>> /\ Eq!Empty.counts = <<0>>
      /\ Eq!Empty \in QueueRec
  BY DEF Eq!Empty, QueueRec
<1>2. <<>> \o <<>> = <<>> /\ Append(<<>>, Len(<<>>)) = <<0>> /\ Len(<<0>>) = 1 /\ Len(<<>>) = 0
      /\ <<>> \in Seq(Seq(Byte)) /\ <<>> \in Seq(Byte) /\ <<0>>[1] >= 0
  OBVIOUS
<1> QED BY <1>1, <1>2, NothingEnded, FlattenNone DEF IsQueue

\* The last of a sequence is changed.
LEMMA LastChanged ==
  ASSUME NEW S, NEW l \in Seq(S), NEW a \in S, NEW b \in S
  PROVE  [Append(l, a) EXCEPT ![Len(Append(l, a))] = b] = Append(l, b)
<1> DEFINE n == Len(l)
           u == Append(l, a)
           v == Append(l, b)
           w == [u EXCEPT ![n + 1] = b]
<1>1. /\ u \in Seq(S) /\ Len(u) = n + 1 /\ u[n + 1] = a /\ \A i \in 1 .. n : u[i] = l[i]
      /\ v \in Seq(S) /\ Len(v) = n + 1 /\ v[n + 1] = b /\ \A i \in 1 .. n : v[i] = l[i]
      /\ n \in Nat
  BY AppendProperties
<1> HIDE DEF u, v, n
<1>2. /\ w \in Seq(S) /\ Len(w) = n + 1 /\ w[n + 1] = b /\ \A i \in 1 .. n : w[i] = u[i]
  BY <1>1
<1> HIDE DEF w
<1>3. \A i \in 1 .. n + 1 : i \in 1 .. n \/ i = n + 1
  BY <1>1
<1>4. \A i \in 1 .. n + 1 : w[i] = v[i]
  BY <1>1, <1>2, <1>3
<1>5. w = v
  BY <1>1, <1>2, <1>4, SeqEqual
<1> QED BY <1>1, <1>5 DEF u, v, w

\* Put adds bytes to the open message (MessageQueue::Put2).
LEMMA QueuePut ==
  ASSUME NEW q, NEW c, NEW o, IsQueue(q, c, o, FALSE), NEW s \in Seq(Byte)
  PROVE  IsQueue(Eq!Put(q, s), c, o \o s, FALSE)
<1> DEFINE l == q.lengths
           n == Len(l)
           p == Eq!Put(q, s)
           m == Lengths(c)
           x == FlattenSeq(c)
           a == Len(o)
           b == Len(s)
<1>1. /\ c \in Seq(Seq(Byte)) /\ o \in Seq(Byte)
      /\ q \in QueueRec
      /\ q.bytes = x \o o /\ l = Append(m, a)
      /\ Len(q.counts) = 1 /\ q.counts[1] >= Len(c)
  BY DEF IsQueue
<1>2. /\ p = [q EXCEPT !.bytes = q.bytes \o s, !.lengths = [l EXCEPT ![n] = l[n] + b]]
  BY DEF Eq!Put
<1>3. m \in Seq(Nat) /\ a \in Nat /\ b \in Nat /\ x \in Seq(Byte) /\ Len(o \o s) = a + b
  BY <1>1, EndedIs, FlattenIsSequence
<1> HIDE DEF m, a, b, x, l
<1>4. n = Len(Append(m, a)) /\ l[n] = a
  BY <1>1, <1>3, AppendProperties
<1>5. [l EXCEPT ![n] = a + b] = Append(m, a + b)
  <2> HIDE DEF n
  <2> DEFINE d == a + b
  <2>1. d \in Nat
    BY <1>3
  <2> HIDE DEF d
  <2>2. [Append(m, a) EXCEPT ![Len(Append(m, a))] = d] = Append(m, d)
    <3> DEFINE S == Nat
    <3>1. m \in Seq(S) /\ a \in S /\ d \in S
      BY <1>3, <2>1
    <3> HIDE DEF S
    <3> QED BY <3>1, LastChanged
  <2> QED BY <1>1, <1>4, <2>2 DEF d
<1>6. (x \o o) \o s = x \o (o \o s) /\ x \o (o \o s) \in Seq(Byte) /\ o \o s \in Seq(Byte)
  <2>1. x \in Seq(Byte) /\ o \in Seq(Byte) /\ s \in Seq(Byte)
    BY <1>1, <1>3
  <2>2. (x \o o) \o s = x \o (o \o s)
    BY <2>1, ConcatAssociative
  <2>3. o \o s \in Seq(Byte)
    BY <2>1
  <2>4. x \o (o \o s) \in Seq(Byte)
    <3> DEFINE d == o \o s
    <3>1. d \in Seq(Byte)
      BY <2>3
    <3> HIDE DEF d
    <3>2. x \o d \in Seq(Byte)
      BY <2>1, <3>1
    <3> QED BY <3>2 DEF d
  <2> QED BY <2>2, <2>3, <2>4
<1>7. Append(m, a + b) \in Seq(Nat)
  BY <1>3
<1> HIDE DEF n, p
<1> DEFINE u == x \o (o \o s)
           w == Append(m, a + b)
<1>8. Changed(p, q, u, w, q.counts)
  <2>1. q.bytes \o s = u /\ [l EXCEPT ![n] = l[n] + b] = w
    BY <1>1, <1>4, <1>5, <1>6
  <2> HIDE DEF u, w
  <2> QED BY <1>1, <1>2, <2>1 DEF QueueRec, Changed
<1>9. p.bytes = u /\ p.lengths = w /\ p.counts = q.counts /\ p \in QueueRec
  <2>1. q \in QueueRec /\ u \in Seq(Byte) /\ w \in Seq(Nat) /\ q.counts \in Seq(Nat)
    BY <1>1, <1>6, <1>7, QueueFields
  <2> HIDE DEF u, w
  <2> QED BY <1>8, <2>1, QueueChanged
<1> QED BY <1>1, <1>3, <1>6, <1>9 DEF IsQueue, m, x, p

\* The open message ends (MessageQueue::MessageEnd).
LEMMA QueueEnd ==
  ASSUME NEW q, NEW c, NEW o, IsQueue(q, c, o, FALSE)
  PROVE  IsQueue(Eq!MessageEnd(q), Append(c, o), <<>>, FALSE)
<1> DEFINE l == q.lengths
           k == q.counts
           p == Eq!MessageEnd(q)
           d == Append(c, o)
<1>1. /\ c \in Seq(Seq(Byte)) /\ o \in Seq(Byte)
      /\ q \in QueueRec
      /\ q.bytes = FlattenSeq(c) \o o /\ l = Append(Lengths(c), Len(o))
      /\ Len(k) = 1 /\ k[1] >= Len(c)
  BY DEF IsQueue
<1>2. d \in Seq(Seq(Byte)) /\ Len(d) = Len(c) + 1
  BY <1>1
<1>3. FlattenSeq(d) = FlattenSeq(c) \o o /\ Lengths(d) = Append(Lengths(c), Len(o))
  BY <1>1, FlattenGrows, EndedGrows
<1> HIDE DEF d
<1> DEFINE j == [k EXCEPT ![Len(k)] = k[Len(k)] + 1]
<1>0. q.bytes \in Seq(Byte) /\ l \in Seq(Nat) /\ k \in Seq(Nat)
  BY <1>1, QueueFields
<1> DEFINE w == Append(l, 0)
<1>4. Changed(p, q, q.bytes, w, j)
  BY <1>1 DEF Eq!MessageEnd, QueueRec, Changed
<1> HIDE DEF l, k
<1>5. j \in Seq(Nat) /\ Len(j) = 1 /\ j[1] >= Len(d)
  <2>1. k \in Seq(Nat) /\ Len(k) = 1 /\ k[1] >= Len(c) /\ Len(d) = Len(c) + 1 /\ Len(c) \in Nat
    BY <1>0, <1>1, <1>2
  <2>2. j \in Seq(Nat) /\ Len(j) = 1 /\ j[1] = k[1] + 1 /\ k[1] \in Nat
    BY <2>1, CountsChange DEF j
  <2> HIDE DEF j
  <2> QED BY <2>1, <2>2
<1>6. w \in Seq(Nat)
  BY <1>0
<1> HIDE DEF p, j
<1>7. p.bytes = q.bytes /\ p.lengths = w /\ p.counts = j /\ p \in QueueRec
  <2> HIDE DEF w
  <2>1. q \in QueueRec /\ q.bytes \in Seq(Byte) /\ w \in Seq(Nat) /\ j \in Seq(Nat)
    BY <1>0, <1>1, <1>5, <1>6
  <2> QED BY <1>4, <2>1, QueueChanged
<1>8. p.bytes = FlattenSeq(d) \o <<>> /\ p.lengths = Append(Lengths(d), Len(<<>>)) /\ <<>> \in Seq(Byte)
  <2>1. FlattenSeq(d) \in Seq(Byte)
    BY <1>2, FlattenIsSequence
  <2>2. FlattenSeq(d) \o <<>> = FlattenSeq(d) /\ Len(<<>>) = 0
    BY <2>1
  <2> QED BY <1>1, <1>3, <1>7, <2>2
<1> QED BY <1>2, <1>5, <1>7, <1>8 DEF IsQueue, d, p

\* The series ends (MessageQueue::ChannelMessageSeriesEnd).
LEMMA QueueClose ==
  ASSUME NEW q, NEW c, IsQueue(q, c, <<>>, FALSE)
  PROVE  IsQueue(Eq!MessageSeriesEnd(q), c, <<>>, TRUE)
<1> DEFINE k == q.counts
           p == Eq!MessageSeriesEnd(q)
           j == Append(k, 0)
<1>1. /\ q \in QueueRec
      /\ Len(k) = 1 /\ k[1] >= Len(c)
  BY DEF IsQueue
<1>0. q.bytes \in Seq(Byte) /\ q.lengths \in Seq(Nat) /\ k \in Seq(Nat)
  BY <1>1, QueueFields
<1>3. Changed(p, q, q.bytes, q.lengths, j)
  BY <1>1 DEF Eq!MessageSeriesEnd, QueueRec, Changed
<1> HIDE DEF k
<1>2. j \in Seq(Nat) /\ Len(j) = 2 /\ j[1] = k[1]
  BY <1>0, <1>1, CountsChange
<1> HIDE DEF j, p
<1>4. /\ p.bytes = q.bytes /\ p.lengths = q.lengths /\ p.counts = j
      /\ p \in QueueRec
  BY <1>0, <1>1, <1>2, <1>3, QueueChanged
<1> QED BY <1>1, <1>2, <1>4 DEF IsQueue, p, k

\* An element in front and one behind.
LEMMA AppendBehind ==
  ASSUME NEW m \in Seq(Nat), NEW a \in Nat, NEW d \in Nat
  PROVE  Append(<<a>> \o m, d) = <<a>> \o Append(m, d) /\ Append(m, d) \in Seq(Nat)
<1> DEFINE u == Append(<<a>> \o m, d)
           w == Append(m, d)
           v == <<a>> \o w
           n == Len(m)
<1>1. /\ n \in Nat /\ w \in Seq(Nat) /\ Len(w) = n + 1 /\ w[n + 1] = d
      /\ \A i \in 1 .. n : w[i] = m[i]
  OBVIOUS
<1>2. <<a>> \o m \in Seq(Nat) /\ Len(<<a>> \o m) = n + 1
      /\ \A i \in 1 .. n + 1 : (<<a>> \o m)[i] = IF i = 1 THEN a ELSE m[i - 1]
  OBVIOUS
<1> HIDE DEF w
<1>3. v \in Seq(Nat) /\ Len(v) = n + 2 /\ \A i \in 1 .. n + 2 : v[i] = IF i = 1 THEN a ELSE w[i - 1]
  BY <1>1
<1>4. u \in Seq(Nat) /\ Len(u) = n + 2 /\ u[n + 2] = d
      /\ \A i \in 1 .. n + 1 : u[i] = IF i = 1 THEN a ELSE m[i - 1]
  BY <1>1, <1>2
<1> HIDE DEF u, v, n
<1>5. ASSUME NEW i \in 1 .. n + 2 PROVE u[i] = v[i]
  <2>1. CASE i = 1
    BY <2>1, <1>1, <1>3, <1>4
  <2>2. CASE i = n + 2
    BY <2>2, <1>1, <1>3, <1>4
  <2>3. CASE i # 1 /\ i # n + 2
    <3>1. i \in 1 .. n + 1 /\ i - 1 \in 1 .. n
      BY <1>1, <2>3
    <3> QED BY <3>1, <2>3, <1>1, <1>3, <1>4
  <2> QED BY <2>1, <2>2, <2>3
<1>6. u = v
  BY <1>3, <1>4, <1>5, SeqEqual
<1> QED BY <1>1, <1>6 DEF u, v, w

\* Behind the last message: bytes of the one that is open are skipped.
LEMMA QueueSkipOpen ==
  ASSUME NEW q, NEW e, NEW s \in Seq(Byte), NEW r \in Seq(Byte), IsQueue(q, <<>>, s \o r, e)
  PROVE  IsQueue(Eq!Skip(q, Len(s)), <<>>, r, e)
<1> DEFINE n == Len(s)
           o == s \o r
           p == Eq!Skip(q, n)
           l == q.lengths
           b == SubSeq(q.bytes, n + 1, Len(q.bytes))
<1>1. /\ q \in QueueRec
      /\ q.bytes = <<>> \o o /\ l = Append(<<>>, Len(o)) /\ e \in BOOLEAN
      /\ Len(q.counts) = (IF e THEN 2 ELSE 1) /\ q.counts[1] >= 0
      /\ e => o = <<>>
  BY NothingEnded, FlattenNone DEF IsQueue
<1>2. o \in Seq(Byte) /\ Len(o) = n + Len(r) /\ n \in Nat /\ Len(r) \in Nat
  OBVIOUS
<1>3. b = r
  <2> HIDE DEF o
  <2>1. q.bytes = o
    BY <1>1, <1>2
  <2> QED BY <2>1, CutJoined DEF o
<1>4. [l EXCEPT ![1] = l[1] - n] = Append(<<>>, Len(r))
  <2> HIDE DEF o, n, l
  <2>1. l = <<Len(o)>> /\ l[1] - n = Len(r)
    BY <1>1, <1>2
  <2> QED BY <2>1, <1>2
<1>5. p = [q EXCEPT !.bytes = b, !.lengths = [l EXCEPT ![1] = l[1] - n], !.counts = q.counts]
  BY <1>1 DEF Eq!Skip, QueueRec
<1>6. e => r = <<>>
  BY <1>1, <1>2
<1> HIDE DEF p, b, l, n, o
<1>7. /\ p.bytes = r /\ p.lengths = Append(<<>>, Len(r)) /\ p.counts = q.counts
      /\ p \in QueueRec
  <2> DEFINE w == Append(<<>>, Len(r))
  <2>1. w \in Seq(Nat) /\ q.counts \in Seq(Nat) /\ q \in QueueRec
    BY <1>1, <1>2, QueueFields
  <2>2. Changed(p, q, r, w, q.counts)
    BY <1>3, <1>4, <1>5 DEF Changed
  <2> HIDE DEF w
  <2>3. p.bytes = r /\ p.lengths = w /\ p.counts = q.counts /\ p \in QueueRec
    BY <2>1, <2>2, QueueChanged
  <2> QED BY <2>3 DEF w
<1>8. p.bytes = FlattenSeq(<<>>) \o r /\ p.lengths = Append(Lengths(<<>>), Len(r))
  <2>1. <<>> \o r = r
    OBVIOUS
  <2> QED BY <1>7, <2>1, NothingEnded, FlattenNone
<1>9. <<>> \in Seq(Seq(Byte)) /\ Len(<<>>) = 0
  OBVIOUS
<1> QED BY <1>1, <1>6, <1>7, <1>8, <1>9 DEF IsQueue, p, n

\* Bytes of the first message are skipped.
LEMMA QueueSkipFirst ==
  ASSUME NEW q, NEW c \in Seq(Seq(Byte)), NEW o, NEW e, NEW s \in Seq(Byte), NEW r \in Seq(Byte),
         IsQueue(q, <<s \o r>> \o c, o, e)
  PROVE  IsQueue(Eq!Skip(q, Len(s)), <<r>> \o c, o, e)
<1> DEFINE n == Len(s)
           x == s \o r
           f == FlattenSeq(c)
           p == Eq!Skip(q, n)
           l == q.lengths
           b == SubSeq(q.bytes, n + 1, Len(q.bytes))
           m == Lengths(c)
           t == Append(m, Len(o))
<1>1. x \in Seq(Byte) /\ f \in Seq(Byte) /\ m \in Seq(Nat) /\ n \in Nat /\ Len(r) \in Nat
      /\ Len(x) = n + Len(r)
  BY EndedIs, FlattenIsSequence
<1>2. Lengths(<<x>> \o c) = <<Len(x)>> \o m /\ Lengths(<<r>> \o c) = <<Len(r)>> \o m
  <2> HIDE DEF x
  <2> QED BY <1>1, EndedStarts
<1>3. FlattenSeq(<<x>> \o c) = x \o f /\ FlattenSeq(<<r>> \o c) = r \o f
  <2> HIDE DEF x
  <2>1. /\ <<x>> \in Seq(Seq(Byte)) /\ FlattenSeq(<<x>>) = x
        /\ <<r>> \in Seq(Seq(Byte)) /\ FlattenSeq(<<r>>) = r
    BY <1>1, FlattenOne
  <2> QED BY <2>1, FlattenJoin
<1>4. /\ q \in QueueRec
      /\ q.bytes = (x \o f) \o o /\ l = Append(<<Len(x)>> \o m, Len(o)) /\ e \in BOOLEAN
      /\ Len(q.counts) = (IF e THEN 2 ELSE 1) /\ q.counts[1] >= Len(<<x>> \o c)
      /\ o \in Seq(Byte)
      /\ e => o = <<>>
  BY <1>2, <1>3 DEF IsQueue
<1> HIDE DEF m, f
<1>5. b = (r \o f) \o o
  <2>1. o \in Seq(Byte) /\ r \in Seq(Byte) /\ s \in Seq(Byte) /\ f \in Seq(Byte)
    BY <1>1, <1>4
  <2>0. \A w \in Seq(Byte) : (s \o w) \o o = s \o (w \o o)
    <3> SUFFICES ASSUME NEW w \in Seq(Byte) PROVE (s \o w) \o o = s \o (w \o o)
      OBVIOUS
    <3>1. o \in Seq(Byte)
      BY <2>1
    <3> HIDE DEF x, n
    <3> QED BY <3>1, ConcatAssociative
  <2> DEFINE g == r \o f
             d == g \o o
  <2>2. g \in Seq(Byte) /\ x \o f = s \o g
    BY <2>1, ConcatAssociative
  <2> HIDE DEF g
  <2>3. d \in Seq(Byte) /\ (s \o g) \o o = s \o d
    <3>1. d \in Seq(Byte)
      BY <2>1, <2>2
    <3>2. (s \o g) \o o = s \o (g \o o)
      BY <2>0, <2>2
    <3> QED BY <3>1, <3>2
  <2> HIDE DEF d
  <2>4. q.bytes = s \o d
    BY <1>4, <2>2, <2>3
  <2>5. SubSeq(s \o d, Len(s) + 1, Len(s \o d)) = d
    BY <2>1, <2>3, CutJoined
  <2> QED BY <2>4, <2>5 DEF d, g
<1>6. l = <<Len(x)>> \o t /\ t \in Seq(Nat) /\ Append(<<Len(r)>> \o m, Len(o)) = <<Len(r)>> \o t
  <2> HIDE DEF x
  <2>1. Len(x) \in Nat /\ Len(r) \in Nat /\ Len(o) \in Nat
    BY <1>1, <1>4
  <2> DEFINE a == Len(x)
             d == Len(o)
             g == Len(r)
  <2> HIDE DEF a, d, g
  <2>2. Append(<<a>> \o m, d) = <<a>> \o Append(m, d) /\ Append(<<g>> \o m, d) = <<g>> \o Append(m, d)
        /\ Append(m, d) \in Seq(Nat)
    <3>1. a \in Nat /\ d \in Nat /\ g \in Nat /\ m \in Seq(Nat)
      BY <2>1, <1>1 DEF a, d, g
    <3> QED BY <3>1, AppendBehind
  <2> QED BY <1>4, <2>2 DEF a, d, g
<1> HIDE DEF t
<1>7. [l EXCEPT ![1] = l[1] - n] = <<Len(r)>> \o t
  <2> HIDE DEF x, n
  <2> DEFINE a == Len(x)
             g == Len(r)
             u == <<a>> \o t
             v == <<g>> \o t
             w == [u EXCEPT ![1] = g]
  <2>1. a \in Nat /\ g \in Nat /\ a - n = g
    BY <1>1
  <2> HIDE DEF a, g
  <2>2. /\ u \in Seq(Nat) /\ Len(u) = Len(t) + 1 /\ u[1] = a
        /\ v \in Seq(Nat) /\ Len(v) = Len(t) + 1 /\ v[1] = g
        /\ \A i \in 1 .. Len(u) : i # 1 => u[i] = v[i]
    BY <2>1, <1>6
  <2> HIDE DEF u, v
  <2>3. w \in Seq(Nat) /\ Len(w) = Len(t) + 1 /\ \A i \in 1 .. Len(u) : w[i] = IF i = 1 THEN g ELSE u[i]
    BY <2>1, <2>2
  <2> HIDE DEF w
  <2>4. \A i \in 1 .. Len(t) + 1 : w[i] = v[i]
    BY <2>2, <2>3
  <2>5. w = v
    BY <2>2, <2>3, <2>4, SeqEqual
  <2>6. l = u
    BY <1>6 DEF u, a
  <2> QED BY <2>1, <2>2, <2>5, <2>6 DEF w, v, g
<1>8. p = [q EXCEPT !.bytes = b, !.lengths = [l EXCEPT ![1] = l[1] - n], !.counts = q.counts]
  BY <1>4 DEF Eq!Skip, QueueRec
<1> DEFINE w == <<Len(r)>> \o t
<1>9. b \in Seq(Byte) /\ w \in Seq(Nat)
  <2>1. f \in Seq(Byte) /\ o \in Seq(Byte) /\ Len(r) \in Nat
    BY <1>1, <1>4
  <2>2. (r \o f) \o o \in Seq(Byte)
    BY <2>1
  <2>3. w \in Seq(Nat)
    BY <1>6, <2>1
  <2> QED BY <1>5, <2>2, <2>3
<1> HIDE DEF p, b, l, n
<1>10. /\ p.bytes = (r \o f) \o o /\ p.lengths = Append(<<Len(r)>> \o m, Len(o)) /\ p.counts = q.counts
       /\ p \in QueueRec
  <2>1. Append(<<Len(r)>> \o m, Len(o)) = w
    BY <1>6
  <2> HIDE DEF w
  <2>2. Changed(p, q, b, w, q.counts)
    BY <1>7, <1>8 DEF w, Changed
  <2>3. q.counts \in Seq(Nat) /\ q \in QueueRec
    BY <1>4, QueueFields
  <2>4. p.bytes = b /\ p.lengths = w /\ p.counts = q.counts /\ p \in QueueRec
    BY <1>9, <2>2, <2>3, QueueChanged
  <2> QED BY <1>5, <2>1, <2>4
<1>11. <<r>> \o c \in Seq(Seq(Byte)) /\ Len(<<r>> \o c) = Len(<<x>> \o c)
  BY <1>1
<1> QED BY <1>2, <1>3, <1>4, <1>10, <1>11 DEF IsQueue, p, n

\* The first message is done with.
LEMMA QueueNext ==
  ASSUME NEW q, NEW c \in Seq(Seq(Byte)), NEW o, NEW e, IsQueue(q, <<<<>>>> \o c, o, e)
  PROVE  IsQueue(Eq!GetNextMessage(q), c, o, e)
<1> DEFINE x == <<>>
           f == FlattenSeq(c)
           p == Eq!GetNextMessage(q)
           l == q.lengths
           k == q.counts
           m == Lengths(c)
           t == Append(m, Len(o))
<1>1. x \in Seq(Byte) /\ Len(x) = 0 /\ f \in Seq(Byte) /\ m \in Seq(Nat)
  BY EndedIs, FlattenIsSequence
<1>2. Lengths(<<x>> \o c) = <<Len(x)>> \o m /\ FlattenSeq(<<x>> \o c) = f
  <2> HIDE DEF x
  <2>0. x \in Seq(Byte)
    BY <1>1
  <2>1. <<x>> \in Seq(Seq(Byte)) /\ FlattenSeq(<<x>>) = x
    BY <2>0, FlattenOne
  <2>2. FlattenSeq(<<x>> \o c) = x \o f
    BY <2>1, FlattenJoin
  <2>3. x \o f = f
    BY <1>1 DEF x
  <2> QED BY <1>1, <2>2, <2>3, EndedStarts
<1>3. /\ q \in QueueRec
      /\ q.bytes = f \o o /\ l = Append(<<0>> \o m, Len(o)) /\ e \in BOOLEAN
      /\ Len(k) = (IF e THEN 2 ELSE 1) /\ k[1] >= Len(<<x>> \o c)
      /\ o \in Seq(Byte)
      /\ e => o = <<>>
  BY <1>1, <1>2 DEF IsQueue
<1> HIDE DEF f, m, x
<1>4. Len(<<x>> \o c) = Len(c) + 1 /\ Len(c) \in Nat
  BY <1>1
<1>5. k \in Seq(Nat) /\ k[1] \in Nat /\ k[1] # 0 /\ k[1] >= Len(c)
  <2>1. k \in Seq(Nat) /\ Len(k) >= 1
    BY <1>3, QueueFields
  <2>2. k[1] \in Nat
    BY <2>1
  <2> QED BY <2>1, <2>2, <1>3, <1>4
<1>6. Tail(l) = t /\ t \in Seq(Nat)
  <2> DEFINE d == Len(o)
  <2>1. d \in Nat
    BY <1>3
  <2> HIDE DEF d
  <2>2. Append(<<0>> \o m, d) = <<0>> \o Append(m, d) /\ Append(m, d) \in Seq(Nat)
    BY <2>1, <1>1
  <2> DEFINE u == Append(m, d)
  <2>3. u \in Seq(Nat)
    BY <2>2
  <2> HIDE DEF u
  <2>4. Tail(<<0>> \o u) = u
    BY <2>3
  <2> QED BY <1>3, <2>2, <2>3, <2>4 DEF u, d
<1>7. Changed(p, q, q.bytes, t, k)
  BY <1>3, <1>5, <1>6 DEF Eq!GetNextMessage, Changed, QueueRec
<1> HIDE DEF p, l, t
<1>8. /\ p.bytes = f \o o /\ p.lengths = t /\ p.counts = k
      /\ p \in QueueRec
  <2>1. q \in QueueRec /\ q.bytes \in Seq(Byte) /\ t \in Seq(Nat) /\ k \in Seq(Nat)
    BY <1>3, <1>5, <1>6, QueueFields
  <2> HIDE DEF k
  <2>2. p.bytes = q.bytes /\ p.lengths = t /\ p.counts = k /\ p \in QueueRec
    BY <1>7, <2>1, QueueChanged
  <2> QED BY <1>3, <2>2
<1> QED BY <1>3, <1>5, <1>8 DEF IsQueue, p, t, f, m

\* Joining is associative.
LEMMA Rejoined ==
  ASSUME NEW S, NEW a \in Seq(S), NEW b \in Seq(S), NEW d \in Seq(S)
  PROVE  (a \o b) \o d = a \o (b \o d) /\ b \o d \in Seq(S) /\ a \o b \in Seq(S)
BY ConcatAssociative

-----------------------------------------------------------------------------
\* What the filter asks of a queue.

\* A queue without a complete message: what MaxRetrievable and the others return.
LEMMA OpenQueue ==
  ASSUME NEW q, NEW o, NEW e, IsQueue(q, <<>>, o, e)
  PROVE  /\ o \in Seq(Byte) /\ e \in BOOLEAN /\ q.bytes = o
         /\ Eq!MaxRetrievable(q) = Len(o) /\ (Eq!AnyRetrievable(q) <=> Len(o) > 0)
         /\ ~Eq!AnyMessages(q) /\ (Eq!NumberOfMessageSeries(q) > 0 <=> e)
<1>1. /\ o \in Seq(Byte) /\ e \in BOOLEAN /\ q.bytes = FlattenSeq(<<>>) \o o
      /\ q.lengths = Append(Lengths(<<>>), Len(o))
      /\ Len(q.counts) = IF e THEN 2 ELSE 1
  BY DEF IsQueue
<1>2. q.bytes = o
  <2>1. <<>> \o o = o
    BY <1>1
  <2> QED BY <1>1, <2>1, FlattenNone
<1>3. q.lengths[1] = Len(o) /\ Len(q.lengths) = 1
  <2>1. Len(o) \in Nat
    BY <1>1
  <2> DEFINE n == Len(o)
  <2> HIDE DEF n
  <2>2. Append(<<>>, n)[1] = n /\ Len(Append(<<>>, n)) = 1
    OBVIOUS
  <2> QED BY <1>1, <2>2, NothingEnded DEF n
<1> QED
  BY <1>1, <1>2, <1>3 DEF Eq!MaxRetrievable, Eq!AnyRetrievable, Eq!AnyMessages,
     Eq!NumberOfMessages, Eq!NumberOfMessageSeries

\* And a queue whose first message is x.
LEMMA FullQueue ==
  ASSUME NEW q, NEW c \in Seq(Seq(Byte)), NEW x \in Seq(Byte), NEW o, NEW e, IsQueue(q, <<x>> \o c, o, e)
  PROVE  /\ o \in Seq(Byte) /\ e \in BOOLEAN
         /\ Eq!MaxRetrievable(q) = Len(x) /\ (Eq!AnyRetrievable(q) <=> Len(x) > 0)
         /\ Eq!AnyMessages(q)
         /\ \A n \in 0 .. Len(x) : SubSeq(q.bytes, 1, n) = SubSeq(x, 1, n)
<1> DEFINE f == FlattenSeq(c)
           m == Lengths(c)
<1>1. f \in Seq(Byte) /\ m \in Seq(Nat)
  BY EndedIs, FlattenIsSequence
<1>2. Lengths(<<x>> \o c) = <<Len(x)>> \o m /\ FlattenSeq(<<x>> \o c) = x \o f
  <2>1. <<x>> \in Seq(Seq(Byte)) /\ FlattenSeq(<<x>>) = x
    BY FlattenOne
  <2> QED BY <2>1, FlattenJoin, EndedStarts
<1>3. /\ q.bytes = (x \o f) \o o /\ q.lengths = Append(<<Len(x)>> \o m, Len(o))
      /\ o \in Seq(Byte) /\ e \in BOOLEAN
  BY <1>2 DEF IsQueue
<1> HIDE DEF f, m
<1>4. ASSUME NEW n \in 0 .. Len(x) PROVE SubSeq(q.bytes, 1, n) = SubSeq(x, 1, n)
  <2>1. (x \o f) \o o = x \o (f \o o) /\ f \o o \in Seq(Byte)
    <3>1. f \in Seq(Byte) /\ o \in Seq(Byte)
      BY <1>1, <1>3
    <3> QED BY <3>1, Rejoined
  <2> DEFINE t == f \o o
  <2>2. t \in Seq(Byte) /\ q.bytes = x \o t
    BY <1>3, <2>1
  <2> HIDE DEF t
  <2> QED BY <2>2, CutJoined
<1>5. q.lengths[1] = Len(x) /\ Len(q.lengths) = Len(m) + 2 /\ Len(m) \in Nat
  <2> DEFINE a == Len(x)
             d == Len(o)
  <2>1. a \in Nat /\ d \in Nat
    BY <1>3
  <2> HIDE DEF a, d
  <2>2. Append(<<a>> \o m, d) = <<a>> \o Append(m, d) /\ Append(m, d) \in Seq(Nat) /\ Len(Append(m, d)) = Len(m) + 1
    BY <1>1, <2>1, AppendBehind
  <2> DEFINE t == Append(m, d)
  <2> HIDE DEF t
  <2>3. (<<a>> \o t)[1] = a /\ Len(<<a>> \o t) = Len(t) + 1
    BY <2>2 DEF t
  <2> QED BY <1>1, <1>3, <2>2, <2>3 DEF a, d, t
<1> QED
  BY <1>3, <1>4, <1>5 DEF Eq!MaxRetrievable, Eq!AnyRetrievable, Eq!AnyMessages, Eq!NumberOfMessages

-----------------------------------------------------------------------------
\* A call of ChannelPut2, by what it finds and leaves: q1 is the queue of the
\* channel that is fed, q2 the other's.

\* The items of a call.
Brought(s, messageEnd) == s \o (IF messageEnd THEN <<Eq!End>> ELSE <<>>)

\* What ChannelPut2 puts and skips.
PutOn(q1, q2, s) == Eq!Put(q1, SubSeq(s, Eq!Compared(q2, s) + 1, Len(s)))
Left(q2, s) == Eq!Skip(q2, Eq!Compared(q2, s))

\* What makes ChannelPut2 tell a mismatch.
Refused(q2, s, messageEnd) ==
  \/ Eq!TooLong(q2, s)
  \/ SubSeq(s, 1, Eq!Compared(q2, s)) # SubSeq(q2.bytes, 1, Eq!Compared(q2, s))
  \/ messageEnd /\ Eq!EndsEarly(Left(q2, s))
  \/ messageEnd /\ ~Eq!AnyMessages(Left(q2, s)) /\ Eq!NumberOfMessageSeries(Left(q2, s)) > 0

\* The queue of the channel that is fed, afterwards.
Own(q1, q2, s, messageEnd) ==
  IF messageEnd /\ ~Eq!AnyMessages(Left(q2, s)) THEN Eq!MessageEnd(PutOn(q1, q2, s)) ELSE PutOn(q1, q2, s)

\* The other queue, afterwards.
Other(q2, s, messageEnd) ==
  IF messageEnd /\ Eq!AnyMessages(Left(q2, s)) THEN Eq!GetNextMessage(Left(q2, s)) ELSE Left(q2, s)

\* ChannelPut2 in these words.
LEMMA PutMeans ==
  ASSUME NEW i \in Eq!Channel, NEW s, NEW messageEnd \in BOOLEAN, Eq!ChannelPut2(i, s, messageEnd)
  PROVE  IF Refused(m_q[1 - i], s, messageEnd)
         THEN Eq!HandleMismatchDetected
         ELSE /\ m_q' = [k \in Eq!Channel |-> IF k = i THEN Own(m_q[i], m_q[1 - i], s, messageEnd)
                                                     ELSE Other(m_q[1 - i], s, messageEnd)]
              /\ UNCHANGED <<m_mismatchDetected, m_throwIfNotEqual, output>>
BY DEF Eq!ChannelPut2, Refused, Own, Other, PutOn, Left, Eq!Queues

\* What a channel has brought that has not ended its series.
Unended == Byte \cup {Eq!End}

\* q1 holds c, o and e, by which s1 is ahead of s2.
Leads(q1, q2, s1, s2, c, o, e) ==
  /\ IsQueue(q1, c, o, e)
  /\ IsQueue(q2, <<>>, <<>>, FALSE)
  /\ s2 \in Seq(Unended)
  /\ s1 = s2 \o ItemsOf(c, o, e)

\* The first channel is ahead, and its queue holds the lead.
Lead(q1, q2, s1, s2) == \E c, o, e : Leads(q1, q2, s1, s2, c, o, e)

\* s1 has bytes of a message where s2 has ended its series.
Unnoticed(q1, q2, s1, s2) ==
  \E z \in Seq(Unended), x \in Seq(Byte) :
    /\ x # <<>>
    /\ IsQueue(q1, <<>>, x, FALSE)
    /\ IsQueue(q2, <<>>, <<>>, TRUE)
    /\ s1 = z \o x
    /\ s2 = z \o <<Eq!SeriesEnd>>

\* The channels differ at a place both have reached.
Differ(s1, s2) == \E k \in 1 .. Len(s1) : k \in 1 .. Len(s2) /\ s1[k] # s2[k]

\* The items of a call, by its kind.
LEMMA BroughtIs ==
  ASSUME NEW s \in Seq(Byte), NEW messageEnd \in BOOLEAN
  PROVE  /\ Brought(s, FALSE) = s /\ Brought(s, TRUE) = s \o <<Eq!End>>
         /\ Brought(s, messageEnd) \in Seq(Unended) /\ Brought(s, messageEnd) \in Seq(Item)
<1>1. s \o <<>> = s
  OBVIOUS
<1>2. Brought(s, FALSE) = s /\ Brought(s, TRUE) = s \o <<Eq!End>>
  BY <1>1 DEF Brought
<1>3. Eq!End \in Unended /\ Eq!End \in Item /\ s \in Seq(Unended) /\ s \in Seq(Item)
  BY DEF Unended, Item
<1>4. s \o <<Eq!End>> \in Seq(Unended) /\ s \o <<Eq!End>> \in Seq(Item)
  BY <1>3
<1> QED BY <1>2, <1>3, <1>4

\* Bytes and ends of messages are items.
LEMMA UnendedIsItem ==
  ASSUME NEW s \in Seq(Unended)
  PROVE  s \in Seq(Item)
BY DEF Unended, Item

\* The channel that leads brings a call's items.
LEMMA MoreItems ==
  ASSUME NEW c \in Seq(Seq(Byte)), NEW o \in Seq(Byte), NEW s \in Seq(Byte)
  PROVE  /\ ItemsOf(c, o \o s, FALSE) = ItemsOf(c, o, FALSE) \o Brought(s, FALSE)
         /\ ItemsOf(Append(c, o \o s), <<>>, FALSE) = ItemsOf(c, o, FALSE) \o Brought(s, TRUE)
<1> DEFINE y == ItemsOf(c, o, FALSE)
           z == <<Eq!End>>
<1>1. o \o s \in Seq(Byte)
  OBVIOUS
<1>2. ItemsOf(c, o \o s, FALSE) = y \o s
  BY ItemsGrow
<1>3. ItemsOf(Append(c, o \o s), <<>>, FALSE) = ItemsOf(c, o \o s, FALSE) \o z
  BY <1>1, ItemsEnd
<1>4. y \in Seq(Item) /\ s \in Seq(Item) /\ z \in Seq(Item)
  <2>1. Eq!End \in Item
    BY DEF Item
  <2>2. s \in Seq(Item)
    BY DEF Item
  <2>3. y \in Seq(Item)
    BY ItemsAre
  <2>4. z \in Seq(Item)
    BY <2>1
  <2> QED BY <2>2, <2>3, <2>4
<1> HIDE DEF y, z
<1>5. (y \o s) \o z = y \o (s \o z)
  BY <1>4, Rejoined
<1> QED BY <1>2, <1>3, <1>5, BroughtIs DEF z, y

\* The channel that leads is fed.
LEMMA LeadPut ==
  ASSUME NEW q1, NEW q2, NEW s1, NEW s2, NEW c, NEW o, NEW s \in Seq(Byte), NEW messageEnd \in BOOLEAN,
         Leads(q1, q2, s1, s2, c, o, FALSE)
  PROVE  /\ ~Refused(q2, s, messageEnd)
         /\ Lead(Own(q1, q2, s, messageEnd), Other(q2, s, messageEnd), s1 \o Brought(s, messageEnd), s2)
<1>1. /\ IsQueue(q1, c, o, FALSE) /\ IsQueue(q2, <<>>, <<>>, FALSE)
      /\ s2 \in Seq(Unended) /\ s1 = s2 \o ItemsOf(c, o, FALSE)
  BY DEF Leads
<1>2. c \in Seq(Seq(Byte)) /\ o \in Seq(Byte)
  BY <1>1 DEF IsQueue
<1>3. /\ q2.bytes = <<>> /\ Eq!MaxRetrievable(q2) = 0 /\ ~Eq!AnyMessages(q2)
  <2>1. Len(<<>>) = 0
    OBVIOUS
  <2> QED BY <1>1, <2>1, OpenQueue
<1>4. Eq!Compared(q2, s) = 0
  <2>1. Len(s) \in Nat
    OBVIOUS
  <2> QED BY <1>3, <2>1 DEF Eq!Compared
<1>5. IsQueue(Left(q2, s), <<>>, <<>>, FALSE)
  <2> DEFINE n == <<>>
  <2>1. n \in Seq(Byte) /\ n \o n = n /\ Len(n) = 0
    OBVIOUS
  <2> HIDE DEF n
  <2>2. IsQueue(q2, <<>>, n \o n, FALSE)
    BY <1>1, <2>1 DEF n
  <2>3. IsQueue(Eq!Skip(q2, Len(n)), <<>>, n, FALSE)
    BY <2>1, <2>2, QueueSkipOpen
  <2> QED BY <1>4, <2>1, <2>3 DEF Left, n
<1>6. /\ ~Eq!AnyMessages(Left(q2, s)) /\ ~Eq!EndsEarly(Left(q2, s))
      /\ ~(Eq!NumberOfMessageSeries(Left(q2, s)) > 0)
  <2>1. ~(Len(<<>>) > 0)
    OBVIOUS
  <2> QED BY <1>5, <2>1, OpenQueue DEF Eq!EndsEarly
<1>7. ~Refused(q2, s, messageEnd)
  <2>1. SubSeq(s, 1, 0) = SubSeq(<<>>, 1, 0)
    OBVIOUS
  <2> QED BY <1>3, <1>4, <1>6, <2>1 DEF Refused, Eq!TooLong
<1>8. PutOn(q1, q2, s) = Eq!Put(q1, s)
  <2>1. SubSeq(s, 0 + 1, Len(s)) = s
    OBVIOUS
  <2> QED BY <1>4, <2>1 DEF PutOn
<1>9. IsQueue(PutOn(q1, q2, s), c, o \o s, FALSE)
  BY <1>1, <1>8, QueuePut
<1>10. Other(q2, s, messageEnd) = Left(q2, s)
  BY <1>6 DEF Other
<1> DEFINE y == ItemsOf(c, o, FALSE)
<1>11. s1 \o Brought(s, messageEnd) = s2 \o (y \o Brought(s, messageEnd))
  <2> DEFINE t == Brought(s, messageEnd)
  <2>1. s2 \in Seq(Item) /\ y \in Seq(Item) /\ t \in Seq(Item)
    BY <1>1, <1>2, UnendedIsItem, ItemsAre, BroughtIs
  <2> HIDE DEF t, y
  <2>2. (s2 \o y) \o t = s2 \o (y \o t)
    BY <2>1, Rejoined
  <2> QED BY <1>1, <2>2 DEF y, t
<1>12. CASE messageEnd
  <2>1. Own(q1, q2, s, messageEnd) = Eq!MessageEnd(PutOn(q1, q2, s))
    BY <1>6, <1>12 DEF Own
  <2>2. IsQueue(Own(q1, q2, s, messageEnd), Append(c, o \o s), <<>>, FALSE)
    BY <1>9, <2>1, QueueEnd
  <2>3. s1 \o Brought(s, messageEnd) = s2 \o ItemsOf(Append(c, o \o s), <<>>, FALSE)
    BY <1>2, <1>11, <1>12, MoreItems
  <2>4. Leads(Own(q1, q2, s, messageEnd), Other(q2, s, messageEnd), s1 \o Brought(s, messageEnd), s2,
              Append(c, o \o s), <<>>, FALSE)
    BY <1>1, <1>5, <1>10, <2>2, <2>3 DEF Leads
  <2> QED BY <1>7, <2>4 DEF Lead
<1>13. CASE ~messageEnd
  <2>1. Own(q1, q2, s, messageEnd) = PutOn(q1, q2, s) /\ messageEnd = FALSE
    BY <1>13 DEF Own
  <2>2. s1 \o Brought(s, messageEnd) = s2 \o ItemsOf(c, o \o s, FALSE)
    BY <1>2, <1>11, <2>1, MoreItems
  <2>3. Leads(Own(q1, q2, s, messageEnd), Other(q2, s, messageEnd), s1 \o Brought(s, messageEnd), s2,
              c, o \o s, FALSE)
    BY <1>1, <1>5, <1>9, <1>10, <2>1, <2>2 DEF Leads
  <2> QED BY <1>7, <2>3 DEF Lead
<1> QED BY <1>12, <1>13

-----------------------------------------------------------------------------
\* The channel that is behind is fed.

\* x starts with s: the rest of it.
LEMMA SameStart ==
  ASSUME NEW x \in Seq(Byte), NEW s \in Seq(Byte), Len(s) <= Len(x), s = SubSeq(x, 1, Len(s))
  PROVE  \E r \in Seq(Byte) : x = s \o r /\ Len(x) = Len(s) + Len(r)
<1> DEFINE n == Len(s)
           r == SubSeq(x, n + 1, Len(x))
           y == s \o r
<1>1. n \in Nat /\ Len(x) \in Nat /\ n <= Len(x)
  OBVIOUS
<1>2. r \in Seq(Byte) /\ Len(r) = Len(x) - n /\ \A i \in 1 .. Len(r) : r[i] = x[n + i]
  BY <1>1
<1>3. \A i \in 1 .. n : s[i] = x[i]
  BY <1>1
<1> HIDE DEF r
<1>4. y \in Seq(Byte) /\ Len(y) = n + Len(r)
      /\ \A i \in 1 .. n + Len(r) : y[i] = IF i <= n THEN s[i] ELSE r[i - n]
  BY <1>1, <1>2
<1> HIDE DEF y
<1>5. ASSUME NEW i \in 1 .. Len(x) PROVE y[i] = x[i]
  <2>1. CASE i <= n
    <3>1. i \in 1 .. n
      BY <1>1, <2>1
    <3> QED BY <3>1, <1>1, <1>2, <1>3, <1>4
  <2>2. CASE ~(i <= n)
    <3>1. i - n \in 1 .. Len(r) /\ n + (i - n) = i /\ i \in 1 .. n + Len(r)
      BY <1>1, <1>2, <2>2
    <3> QED BY <3>1, <2>2, <1>2, <1>4
  <2> QED BY <2>1, <2>2
<1>6. y = x
  BY <1>1, <1>2, <1>4, <1>5, SeqEqual
<1> QED BY <1>1, <1>2, <1>6 DEF y, n

\* x does not start with s: a place where they differ.
LEMMA OtherStart ==
  ASSUME NEW x \in Seq(Byte), NEW s \in Seq(Byte), Len(s) <= Len(x), s # SubSeq(x, 1, Len(s))
  PROVE  \E k \in 1 .. Len(s) : s[k] # x[k]
<1> DEFINE n == Len(s)
           y == SubSeq(x, 1, n)
<1>1. y \in Seq(Byte) /\ Len(y) = n /\ \A k \in 1 .. n : y[k] = x[k]
  OBVIOUS
<1> HIDE DEF y
<1>2. SUFFICES ASSUME \A k \in 1 .. n : s[k] = x[k] PROVE s = y
  BY DEF y
<1> QED BY <1>1, <1>2, SeqEqual

\* A difference stays one behind a common beginning.
LEMMA DifferBehind ==
  ASSUME NEW S, NEW z \in Seq(S), NEW t \in Seq(S), NEW u \in Seq(S), NEW k \in Nat \ {0},
         k <= Len(t), k <= Len(u), t[k] # u[k]
  PROVE  Differ(z \o t, z \o u)
<1> DEFINE j == Len(z) + k
<1>1. /\ Len(z) \in Nat /\ Len(t) \in Nat /\ Len(u) \in Nat
      /\ Len(z \o t) = Len(z) + Len(t) /\ Len(z \o u) = Len(z) + Len(u)
  OBVIOUS
<1>2. j \in 1 .. Len(z \o t) /\ j \in 1 .. Len(z \o u)
  BY <1>1
<1>3. k \in 1 .. Len(t) /\ k \in 1 .. Len(u)
  BY <1>1
<1>4. (z \o t)[j] = t[k] /\ (z \o u)[j] = u[k]
  BY <1>1, <1>3
<1> HIDE DEF j
<1> QED BY <1>2, <1>4 DEF Differ

\* Where two joined sequences are alike.
LEMMA ElementsJoined ==
  ASSUME NEW S, NEW a \in Seq(S), NEW b \in Seq(S)
  PROVE  /\ a \o b \in Seq(S) /\ Len(a \o b) = Len(a) + Len(b) /\ Len(a) \in Nat /\ Len(b) \in Nat
         /\ \A k \in 1 .. Len(a) : (a \o b)[k] = a[k] /\ a[k] \in S
         /\ \A k \in 1 .. Len(b) : (a \o b)[Len(a) + k] = b[k] /\ b[k] \in S
OBVIOUS

\* One element in front.
LEMMA OneFirst ==
  ASSUME NEW S, NEW s \in Seq(S), NEW a \in S
  PROVE  /\ <<a>> \o s \in Seq(S) /\ Len(<<a>> \o s) = Len(s) + 1 /\ Len(s) \in Nat
         /\ (<<a>> \o s)[1] = a
OBVIOUS

\* One element behind.
LEMMA OneMore ==
  ASSUME NEW S, NEW s \in Seq(S), NEW a \in S
  PROVE  /\ s \o <<a>> \in Seq(S) /\ Len(s \o <<a>>) = Len(s) + 1 /\ Len(s) \in Nat
         /\ \A k \in 1 .. Len(s) : (s \o <<a>>)[k] = s[k]
         /\ (s \o <<a>>)[Len(s) + 1] = a
OBVIOUS

\* The items of a call, one by one.
LEMMA BroughtHas ==
  ASSUME NEW s \in Seq(Byte), NEW messageEnd \in BOOLEAN
  PROVE  /\ Len(Brought(s, messageEnd)) >= Len(s) /\ Len(Brought(s, messageEnd)) \in Nat
         /\ \A k \in 1 .. Len(s) : Brought(s, messageEnd)[k] = s[k]
         /\ messageEnd => Len(Brought(s, messageEnd)) = Len(s) + 1 /\ Brought(s, messageEnd)[Len(s) + 1] = Eq!End
<1>0. Len(s) \in Nat
  OBVIOUS
<1>1. CASE messageEnd
  <2> DEFINE t == Brought(s, messageEnd)
  <2>1. s \in Seq(Item) /\ Eq!End \in Item
    BY DEF Item
  <2>2. t = s \o <<Eq!End>>
    BY <1>1, BroughtIs
  <2> HIDE DEF t
  <2>3. /\ Len(t) = Len(s) + 1
        /\ \A k \in 1 .. Len(s) : t[k] = s[k]
        /\ t[Len(s) + 1] = Eq!End
    BY <2>1, <2>2, OneMore
  <2>4. Len(t) >= Len(s) /\ Len(t) \in Nat
    BY <1>0, <2>3
  <2> QED BY <2>3, <2>4 DEF t
<1>2. CASE ~messageEnd
  <2>1. messageEnd = FALSE
    BY <1>2
  <2>2. Brought(s, messageEnd) = s
    BY <2>1, BroughtIs
  <2> QED BY <1>0, <1>2, <2>2
<1> QED BY <1>1, <1>2

\* The channel that was behind gets ahead by w.
LEMMA RestIs ==
  ASSUME NEW q, NEW w \in Seq(Byte), IsQueue(q, <<>>, <<>>, FALSE)
  PROVE  /\ IsQueue(Eq!Put(q, w), <<>>, w, FALSE)
         /\ IsQueue(Eq!MessageEnd(Eq!Put(q, w)), <<w>>, <<>>, FALSE)
         /\ ItemsOf(<<>>, w, FALSE) = w /\ ItemsOf(<<w>>, <<>>, FALSE) = w \o <<Eq!End>>
<1>1. <<>> \o w = w /\ Append(<<>>, w) = <<w>> /\ w \o <<>> = w
  OBVIOUS
<1>2. IsQueue(Eq!Put(q, w), <<>>, w, FALSE)
  <2>1. IsQueue(Eq!Put(q, w), <<>>, <<>> \o w, FALSE)
    BY QueuePut
  <2> QED BY <1>1, <2>1
<1>3. IsQueue(Eq!MessageEnd(Eq!Put(q, w)), <<w>>, <<>>, FALSE)
  <2>1. IsQueue(Eq!MessageEnd(Eq!Put(q, w)), Append(<<>>, w), <<>>, FALSE)
    BY <1>2, QueueEnd
  <2> QED BY <1>1, <2>1
<1>4. ItemsOf(<<>>, w, FALSE) = w
  <2>1. Closing(FALSE) = <<>>
    BY DEF Closing
  <2>2. ItemsOf(<<>>, w, FALSE) = w \o Closing(FALSE)
    BY NothingEnded
  <2> QED BY <1>1, <2>1, <2>2
<1>5. ItemsOf(<<w>>, <<>>, FALSE) = w \o <<Eq!End>>
  <2>1. ItemsOf(Append(<<>>, w), <<>>, FALSE) = ItemsOf(<<>>, w, FALSE) \o <<Eq!End>>
    <3>1. <<>> \in Seq(Seq(Byte))
      OBVIOUS
    <3> QED BY <3>1, ItemsEnd
  <2> QED BY <1>1, <1>4, <2>1
<1> QED BY <1>2, <1>3, <1>4, <1>5

\* The first message of the channel that leads is complete.
LEMMA FollowFull ==
  ASSUME Told, NEW q1, NEW q2, NEW s1, NEW s2, NEW d \in Seq(Seq(Byte)), NEW x \in Seq(Byte), NEW o, NEW e,
         NEW s \in Seq(Byte), NEW messageEnd \in BOOLEAN,
         Leads(q2, q1, s2, s1, <<x>> \o d, o, e)
  PROVE  IF Refused(q2, s, messageEnd)
         THEN Differ(s1 \o Brought(s, messageEnd), s2)
         ELSE Lead(Other(q2, s, messageEnd), Own(q1, q2, s, messageEnd), s2, s1 \o Brought(s, messageEnd))
<1> DEFINE t == Brought(s, messageEnd)
           y == ItemsOf(d, o, e)
           z == <<Eq!End>>
           v == z \o y
           u == x \o v
           n == Len(s)
<1>1. /\ IsQueue(q2, <<x>> \o d, o, e) /\ IsQueue(q1, <<>>, <<>>, FALSE) /\ s1 \in Seq(Unended)
      /\ s2 = s1 \o ItemsOf(<<x>> \o d, o, e)
  BY DEF Leads
<1>2. /\ o \in Seq(Byte) /\ e \in BOOLEAN
      /\ Eq!MaxRetrievable(q2) = Len(x) /\ Eq!AnyMessages(q2)
      /\ \A k \in 0 .. Len(x) : SubSeq(q2.bytes, 1, k) = SubSeq(x, 1, k)
  BY <1>1, FullQueue
<1>3. y \in Seq(Item) /\ z \in Seq(Item) /\ x \in Seq(Item) /\ t \in Seq(Item) /\ s1 \in Seq(Item) /\ s \in Seq(Item)
  <2>1. y \in Seq(Item)
    BY <1>2, ItemsAre
  <2>2. Eq!End \in Item /\ x \in Seq(Item) /\ s \in Seq(Item)
    BY DEF Item
  <2>3. t \in Seq(Item) /\ s1 \in Seq(Item)
    BY <1>1, BroughtIs, UnendedIsItem
  <2>4. z \in Seq(Item)
    BY <2>2
  <2> QED BY <2>1, <2>2, <2>3, <2>4
<1>4. s2 = s1 \o u
  BY <1>1, <1>2, ItemsStart
<1> HIDE DEF y
<1>5. v \in Seq(Item) /\ v[1] = Eq!End /\ Len(v) \in Nat /\ Len(v) >= 1
  <2>1. Eq!End \in Item
    BY DEF Item
  <2>2. v \in Seq(Item) /\ v[1] = Eq!End /\ Len(v) = Len(y) + 1 /\ Len(y) \in Nat
    BY <1>3, <2>1, OneFirst
  <2> HIDE DEF v
  <2> QED BY <2>2
<1> HIDE DEF v
<1>6. /\ u \in Seq(Item) /\ Len(u) >= Len(x) + 1 /\ Len(x) \in Nat /\ Len(u) \in Nat
      /\ \A k \in 1 .. Len(x) : u[k] = x[k] /\ x[k] \in Byte
      /\ u[Len(x) + 1] = Eq!End
  <2>1. /\ u \in Seq(Item) /\ Len(u) = Len(x) + Len(v) /\ Len(x) \in Nat
        /\ \A k \in 1 .. Len(x) : u[k] = x[k]
        /\ \A k \in 1 .. Len(v) : u[Len(x) + k] = v[k]
    BY <1>3, <1>5, ElementsJoined
  <2>2. 1 \in 1 .. Len(v)
    BY <1>5
  <2>3. \A k \in 1 .. Len(x) : x[k] \in Byte
    OBVIOUS
  <2> HIDE DEF u
  <2> QED BY <1>5, <2>1, <2>2, <2>3
<1>7. /\ Len(t) >= n /\ Len(t) \in Nat /\ n \in Nat
      /\ \A k \in 1 .. n : t[k] = s[k] /\ s[k] \in Byte
      /\ messageEnd => Len(t) = n + 1 /\ t[n + 1] = Eq!End
  <2>1. \A k \in 1 .. n : s[k] \in Byte
    OBVIOUS
  <2>2. n \in Nat
    OBVIOUS
  <2> QED BY <2>1, <2>2, BroughtHas
<1> HIDE DEF t, u, n
<1>8. ASSUME NEW k \in Nat \ {0}, k <= Len(t), k <= Len(u), t[k] # u[k] PROVE Differ(s1 \o t, s2)
  BY <1>3, <1>4, <1>6, <1>8, DifferBehind
<1>9. CASE n > Len(x)
  <2>1. Refused(q2, s, messageEnd)
    BY <1>2, <1>9 DEF Refused, Eq!TooLong, n
  <2>2. Differ(s1 \o t, s2)
    <3> DEFINE k == Len(x) + 1
    <3>1. k \in Nat \ {0} /\ k <= Len(t) /\ k <= Len(u) /\ k \in 1 .. n
      BY <1>6, <1>7, <1>9
    <3>2. t[k] \in Byte /\ u[k] = Eq!End
      BY <3>1, <1>6, <1>7
    <3> HIDE DEF k
    <3> QED BY <3>1, <3>2, <1>8 DEF Told
  <2> QED BY <2>1, <2>2 DEF t
<1>10. CASE n <= Len(x)
  <2>1. Eq!Compared(q2, s) = n
    BY <1>2, <1>6, <1>7, <1>10 DEF Eq!Compared, n
  <2>2. ~Eq!TooLong(q2, s)
    BY <1>2, <1>6, <1>7, <1>10 DEF Eq!TooLong, n
  <2>3. SubSeq(s, 1, n) = s /\ SubSeq(q2.bytes, 1, n) = SubSeq(x, 1, n)
    <3>1. SubSeq(s, 1, Len(s)) = s
      OBVIOUS
    <3>2. n \in 0 .. Len(x)
      BY <1>6, <1>7, <1>10
    <3> QED BY <3>1, <3>2, <1>2 DEF n
  <2>4. CASE s # SubSeq(x, 1, n)
    <3>1. Refused(q2, s, messageEnd)
      BY <2>1, <2>3, <2>4 DEF Refused
    <3>2. PICK k \in 1 .. n : s[k] # x[k]
      BY <2>4, <1>10, OtherStart DEF n
    <3>3. k \in Nat \ {0} /\ k <= Len(t) /\ k <= Len(u) /\ k \in 1 .. Len(x)
      BY <1>6, <1>7, <1>10
    <3>4. t[k] # u[k]
      BY <3>2, <3>3, <1>6, <1>7
    <3>5. Differ(s1 \o t, s2)
      BY <3>3, <3>4, <1>8
    <3> QED BY <3>1, <3>5 DEF t
  <2>5. CASE s = SubSeq(x, 1, n)
    <3>1. PICK r \in Seq(Byte) : x = s \o r /\ Len(x) = Len(s) + Len(r)
      BY <2>5, <1>10, SameStart DEF n
    <3>2. IsQueue(Left(q2, s), <<r>> \o d, o, e)
      <4>1. IsQueue(q2, <<s \o r>> \o d, o, e)
        BY <1>1, <3>1
      <4> QED BY <4>1, <2>1, QueueSkipFirst DEF Left, n
    <3>3. Eq!AnyMessages(Left(q2, s)) /\ (Eq!EndsEarly(Left(q2, s)) <=> Len(r) > 0)
      BY <3>2, FullQueue DEF Eq!EndsEarly
    <3>4. Refused(q2, s, messageEnd) <=> (messageEnd /\ Len(r) > 0)
      BY <2>1, <2>2, <2>3, <2>5, <3>3 DEF Refused
    <3>5. IsQueue(Own(q1, q2, s, messageEnd), <<>>, <<>>, FALSE)
      <4>1. SubSeq(s, n + 1, Len(s)) = <<>>
        BY DEF n
      <4>2. Own(q1, q2, s, messageEnd) = Eq!Put(q1, <<>>)
        BY <2>1, <3>3, <4>1 DEF Own, PutOn
      <4>3. <<>> \in Seq(Byte)
        OBVIOUS
      <4> QED BY <4>2, <4>3, <1>1, RestIs
    <3>6. s1 \o t \in Seq(Unended)
      <4>1. t \in Seq(Unended)
        BY BroughtIs DEF t
      <4> QED BY <4>1, <1>1
    <3>7. CASE messageEnd /\ Len(r) > 0
      <4> DEFINE k == n + 1
      <4>1. Len(r) \in Nat
        OBVIOUS
      <4>2. k \in Nat \ {0} /\ k <= Len(t) /\ k <= Len(u) /\ k \in 1 .. Len(x)
        BY <1>6, <1>7, <3>1, <3>7, <4>1 DEF n
      <4>3. t[k] = Eq!End /\ u[k] \in Byte
        BY <1>6, <1>7, <3>7, <4>2
      <4> HIDE DEF k
      <4>4. Differ(s1 \o t, s2)
        BY <1>8, <4>2, <4>3 DEF Told
      <4> QED BY <3>4, <3>7, <4>4 DEF t
    <3>8. CASE messageEnd /\ ~(Len(r) > 0)
      <4>1. r = <<>>
        <5>1. Len(r) = 0
          BY <3>8
        <5> QED BY <5>1
      <4>2. Other(q2, s, messageEnd) = Eq!GetNextMessage(Left(q2, s))
        BY <3>3, <3>8 DEF Other
      <4>3. IsQueue(Other(q2, s, messageEnd), d, o, e)
        BY <3>2, <4>1, <4>2, QueueNext
      <4>4. t = s \o z
        BY <3>8, BroughtIs DEF t
      <4>5. x = s
        BY <3>1, <4>1
      <4>6. s2 = (s1 \o t) \o y
        <5>1. u = t \o y
          <6> HIDE DEF z
          <6>0. s \in Seq(Item) /\ z \in Seq(Item) /\ y \in Seq(Item)
            BY <1>3 DEF z
          <6>1. (s \o z) \o y = s \o (z \o y)
            BY <6>0, Rejoined
          <6> QED BY <4>4, <4>5, <6>1 DEF u, v
        <5>2. (s1 \o t) \o y = s1 \o (t \o y)
          <6>1. s1 \in Seq(Item) /\ t \in Seq(Item) /\ y \in Seq(Item)
            BY <1>3
          <6> QED BY <6>1, Rejoined
        <5> QED BY <1>4, <5>1, <5>2
      <4>7. Leads(Other(q2, s, messageEnd), Own(q1, q2, s, messageEnd), s2, s1 \o t, d, o, e)
        BY <3>5, <3>6, <4>3, <4>6 DEF Leads, y
      <4> QED BY <3>4, <3>8, <4>7 DEF Lead, t
    <3>9. CASE ~messageEnd
      <4>1. Other(q2, s, messageEnd) = Left(q2, s)
        BY <3>9 DEF Other
      <4>2. t = s
        <5>1. messageEnd = FALSE
          BY <3>9
        <5> QED BY <5>1, BroughtIs DEF t
      <4>3. s2 = (s1 \o t) \o (r \o v)
        <5>0. r \in Seq(Item)
          BY DEF Item
        <5>1. u = s \o (r \o v) /\ r \o v \in Seq(Item)
          <6>1. (s \o r) \o v = s \o (r \o v) /\ r \o v \in Seq(Item)
            <7>1. s \in Seq(Item) /\ v \in Seq(Item)
              BY <1>3, <1>5
            <7> QED BY <5>0, <7>1, Rejoined
          <6> QED BY <3>1, <6>1 DEF u
        <5> DEFINE w == r \o v
        <5>2. w \in Seq(Item)
          BY <5>1
        <5> HIDE DEF w
        <5>3. (s1 \o s) \o w = s1 \o (s \o w)
          BY <1>3, <5>2, Rejoined
        <5> QED BY <1>4, <4>2, <5>1, <5>3 DEF w
      <4>4. ItemsOf(<<r>> \o d, o, e) = r \o v
        BY <1>2, ItemsStart DEF v, y
      <4>5. Leads(Other(q2, s, messageEnd), Own(q1, q2, s, messageEnd), s2, s1 \o t, <<r>> \o d, o, e)
        BY <3>2, <3>5, <3>6, <4>1, <4>3, <4>4 DEF Leads
      <4> QED BY <3>4, <3>9, <4>5 DEF Lead, t
    <3> QED BY <3>7, <3>8, <3>9
  <2> QED BY <2>4, <2>5
<1> QED
  <2>1. n > Len(x) \/ n <= Len(x)
    BY <1>6, <1>7
  <2> QED BY <1>9, <1>10, <2>1

\* Bytes behind items of an open series.
LEMMA BytesAreUnended ==
  ASSUME NEW z \in Seq(Unended), NEW x \in Seq(Byte)
  PROVE  x \in Seq(Unended) /\ z \o x \in Seq(Unended)
<1>1. x \in Seq(Unended)
  BY DEF Unended
<1> QED BY <1>1

\* The channel that leads has no message that is complete.
LEMMA FollowOpen ==
  ASSUME Told, NEW q1, NEW q2, NEW s1, NEW s2, NEW o, NEW e,
         NEW s \in Seq(Byte), NEW messageEnd \in BOOLEAN,
         Leads(q2, q1, s2, s1, <<>>, o, e)
  PROVE  IF Refused(q2, s, messageEnd)
         THEN Differ(s1 \o Brought(s, messageEnd), s2)
         ELSE \/ Lead(Other(q2, s, messageEnd), Own(q1, q2, s, messageEnd), s2, s1 \o Brought(s, messageEnd))
              \/ Lead(Own(q1, q2, s, messageEnd), Other(q2, s, messageEnd), s1 \o Brought(s, messageEnd), s2)
              \/ Unnoticed(Own(q1, q2, s, messageEnd), Other(q2, s, messageEnd), s1 \o Brought(s, messageEnd), s2)
<1> DEFINE t == Brought(s, messageEnd)
           u == o \o Closing(e)
           n == Len(s)
           m == Len(o)
           own == Own(q1, q2, s, messageEnd)
           other == Other(q2, s, messageEnd)
<1>1. /\ IsQueue(q2, <<>>, o, e) /\ IsQueue(q1, <<>>, <<>>, FALSE) /\ s1 \in Seq(Unended)
      /\ s2 = s1 \o ItemsOf(<<>>, o, e)
  BY DEF Leads
<1>2. /\ o \in Seq(Byte) /\ e \in BOOLEAN /\ q2.bytes = o
      /\ Eq!MaxRetrievable(q2) = m /\ ~Eq!AnyMessages(q2)
  BY <1>1, OpenQueue
<1>3. o \in Seq(Item) /\ t \in Seq(Item) /\ s1 \in Seq(Item) /\ s \in Seq(Item) /\ Closing(e) \in Seq(Item)
  <2>1. s \in Seq(Item) /\ o \in Seq(Item)
    BY <1>2 DEF Item
  <2>2. t \in Seq(Item) /\ s1 \in Seq(Item)
    BY <1>1, BroughtIs, UnendedIsItem
  <2> QED BY <1>2, <2>1, <2>2, ClosingIs
<1>4. s2 = s1 \o u
  BY <1>1, <1>2, NothingEnded
<1>5. e => o = <<>> /\ m = 0
  <2>1. Len(<<>>) = 0
    OBVIOUS
  <2> QED BY <1>1, <2>1 DEF IsQueue
<1>6. /\ u \in Seq(Item) /\ Len(u) >= m /\ m \in Nat /\ Len(u) \in Nat
      /\ \A k \in 1 .. m : u[k] = o[k] /\ o[k] \in Byte
  <2>1. /\ u \in Seq(Item) /\ Len(u) = m + Len(Closing(e)) /\ m \in Nat /\ Len(Closing(e)) \in Nat
        /\ \A k \in 1 .. m : u[k] = o[k]
    BY <1>3, ElementsJoined
  <2>2. \A k \in 1 .. m : o[k] \in Byte
    BY <1>2
  <2> HIDE DEF u
  <2> QED BY <2>1, <2>2
<1>7. e => u = <<Eq!SeriesEnd>> /\ Len(u) = 1 /\ u[1] = Eq!SeriesEnd
  <2> SUFFICES ASSUME e PROVE u = <<Eq!SeriesEnd>> /\ Len(u) = 1 /\ u[1] = Eq!SeriesEnd
    OBVIOUS
  <2> DEFINE z == <<Eq!SeriesEnd>>
  <2>1. Closing(e) = z
    BY DEF Closing
  <2>2. z \in Seq(Item)
    BY DEF Item
  <2>3. <<>> \o z = z
    <3> HIDE DEF z
    <3> QED BY <2>2
  <2>4. u = z
    BY <1>5, <2>1, <2>3
  <2>5. Len(z) = 1 /\ z[1] = Eq!SeriesEnd
    OBVIOUS
  <2> QED BY <2>4, <2>5
<1>8. /\ Len(t) >= n /\ Len(t) \in Nat /\ n \in Nat
      /\ \A k \in 1 .. n : t[k] = s[k] /\ s[k] \in Byte
      /\ messageEnd => Len(t) = n + 1 /\ t[n + 1] = Eq!End
  <2>1. \A k \in 1 .. n : s[k] \in Byte
    OBVIOUS
  <2>2. n \in Nat
    OBVIOUS
  <2> QED BY <2>1, <2>2, BroughtHas
<1>9. /\ messageEnd => t = s \o <<Eq!End>>
      /\ ~messageEnd => t = s
      /\ s1 \o t \in Seq(Unended)
  <2>1. messageEnd => t = s \o <<Eq!End>>
    BY BroughtIs
  <2>2. ~messageEnd => t = s
    <3> SUFFICES ASSUME ~messageEnd PROVE t = s
      OBVIOUS
    <3>1. messageEnd = FALSE
      OBVIOUS
    <3> QED BY <3>1, BroughtIs
  <2>3. t \in Seq(Unended)
    BY BroughtIs
  <2> HIDE DEF t
  <2>4. s1 \o t \in Seq(Unended)
    BY <1>1, <2>3
  <2> QED BY <2>1, <2>2, <2>4
<1> HIDE DEF t, u, n, m
<1>10. ASSUME NEW k \in Nat \ {0}, k <= Len(t), k <= Len(u), t[k] # u[k] PROVE Differ(s1 \o t, s2)
  BY <1>3, <1>4, <1>6, <1>10, DifferBehind
<1>11. ~Eq!TooLong(q2, s)
  BY <1>2 DEF Eq!TooLong
<1>12. CASE n <= m
  <2>1. Eq!Compared(q2, s) = n
    BY <1>2, <1>6, <1>8, <1>12 DEF Eq!Compared, n
  <2>2. SubSeq(s, 1, n) = s
    BY DEF n
  <2>3. CASE s # SubSeq(o, 1, n)
    <3>1. Refused(q2, s, messageEnd)
      BY <1>2, <2>1, <2>2, <2>3 DEF Refused
    <3>2. PICK k \in 1 .. n : s[k] # o[k]
      BY <1>2, <2>3, <1>12, OtherStart DEF n, m
    <3>3. k \in Nat \ {0} /\ k <= Len(t) /\ k <= Len(u) /\ k \in 1 .. m
      BY <1>6, <1>8, <1>12
    <3>4. t[k] # u[k]
      BY <3>2, <3>3, <1>6, <1>8
    <3>5. Differ(s1 \o t, s2)
      BY <3>3, <3>4, <1>10
    <3> QED BY <3>1, <3>5 DEF t
  <2>4. CASE s = SubSeq(o, 1, n)
    <3>1. PICK r \in Seq(Byte) : o = s \o r /\ Len(o) = Len(s) + Len(r)
      BY <1>2, <2>4, <1>12, SameStart DEF n, m
    <3>2. IsQueue(Left(q2, s), <<>>, r, e)
      <4>1. IsQueue(q2, <<>>, s \o r, e)
        BY <1>1, <3>1
      <4> QED BY <4>1, <2>1, QueueSkipOpen DEF Left, n
    <3>3. /\ ~Eq!AnyMessages(Left(q2, s)) /\ (Eq!EndsEarly(Left(q2, s)) <=> Len(r) > 0)
          /\ (Eq!NumberOfMessageSeries(Left(q2, s)) > 0 <=> e)
      BY <3>2, OpenQueue DEF Eq!EndsEarly
    <3>4. Refused(q2, s, messageEnd) <=> (messageEnd /\ (Len(r) > 0 \/ e))
      BY <1>2, <1>11, <2>1, <2>2, <2>4, <3>3 DEF Refused
    <3>5. other = Left(q2, s)
      BY <3>3 DEF Other
    <3>6. PutOn(q1, q2, s) = Eq!Put(q1, <<>>)
      <4>1. SubSeq(s, n + 1, Len(s)) = <<>>
        BY DEF n
      <4> QED BY <2>1, <4>1 DEF PutOn
    <3>7. <<>> \in Seq(Byte) /\ Len(r) \in Nat
      OBVIOUS
    <3>8. CASE messageEnd /\ Len(r) > 0
      <4> DEFINE k == n + 1
      <4>1. k \in Nat \ {0} /\ k <= Len(t) /\ k <= Len(u) /\ k \in 1 .. m
        BY <1>6, <1>8, <3>1, <3>7, <3>8 DEF n, m
      <4>2. t[k] = Eq!End /\ u[k] \in Byte
        BY <1>6, <1>8, <3>8, <4>1
      <4> HIDE DEF k
      <4>3. Differ(s1 \o t, s2)
        BY <1>10, <4>1, <4>2 DEF Told
      <4> QED BY <3>4, <3>8, <4>3 DEF t
    <3>9. CASE messageEnd /\ e
      <4>1. n = 0
        BY <1>5, <1>8, <1>12, <3>9
      <4>2. t[1] = Eq!End /\ u[1] = Eq!SeriesEnd /\ 1 <= Len(t) /\ 1 <= Len(u)
        <5>1. u[1] = Eq!SeriesEnd /\ Len(u) = 1
          BY <1>7, <3>9
        <5>2. Len(t) = n + 1 /\ t[n + 1] = Eq!End
          BY <1>8, <3>9
        <5> QED BY <4>1, <5>1, <5>2
      <4>3. 1 \in Nat \ {0} /\ t[1] # u[1]
        BY <4>2 DEF Told
      <4>4. Differ(s1 \o t, s2)
        BY <1>10, <4>2, <4>3
      <4> QED BY <3>4, <3>9, <4>4 DEF t
    <3>10. CASE messageEnd /\ ~(Len(r) > 0) /\ ~e
      <4>1. r = <<>> /\ e = FALSE
        <5>1. Len(r) = 0 /\ e = FALSE
          BY <1>2, <3>7, <3>10
        <5> QED BY <5>1
      <4>2. own = Eq!MessageEnd(Eq!Put(q1, <<>>))
        BY <3>3, <3>6, <3>10 DEF Own
      <4>3. IsQueue(own, <<<<>>>>, <<>>, FALSE) /\ ItemsOf(<<<<>>>>, <<>>, FALSE) = <<>> \o <<Eq!End>>
        BY <1>1, <3>7, <4>2, RestIs
      <4>4. s2 = s1 \o s
        <5>1. o = s
          BY <3>1, <4>1
        <5>2. Closing(FALSE) = <<>> /\ s \o <<>> = s
          BY DEF Closing
        <5> QED BY <1>4, <4>1, <5>1, <5>2 DEF u
      <4>5. s2 \in Seq(Unended)
        BY <1>1, <4>4, BytesAreUnended
      <4> DEFINE z == <<Eq!End>>
      <4>6. s1 \o t = s2 \o (<<>> \o z)
        <5>1. z \in Seq(Item) /\ t = s \o z
          BY <1>9, <3>10 DEF Item
        <5> HIDE DEF z
        <5>2. <<>> \o z = z
          BY <5>1
        <5>3. (s1 \o s) \o z = s1 \o (s \o z)
          <6>1. s1 \in Seq(Item) /\ s \in Seq(Item) /\ z \in Seq(Item)
            BY <1>3, <5>1
          <6> QED BY <6>1, Rejoined
        <5> QED BY <4>4, <5>1, <5>2, <5>3
      <4>7. Leads(own, other, s1 \o t, s2, <<<<>>>>, <<>>, FALSE)
        BY <3>2, <3>5, <4>1, <4>3, <4>5, <4>6 DEF Leads
      <4> QED BY <3>4, <3>10, <4>7 DEF Lead, t
    <3>11. CASE ~messageEnd
      <4>1. own = Eq!Put(q1, <<>>)
        BY <3>6, <3>11 DEF Own
      <4>2. IsQueue(own, <<>>, <<>>, FALSE)
        BY <1>1, <3>7, <4>1, RestIs
      <4>3. ItemsOf(<<>>, r, e) = r \o Closing(e)
        BY <1>2, NothingEnded
      <4>4. s2 = (s1 \o t) \o (r \o Closing(e))
        <5> DEFINE w == r \o Closing(e)
        <5>1. r \in Seq(Item)
          BY DEF Item
        <5>2. (s \o r) \o Closing(e) = s \o w /\ w \in Seq(Item)
          <6>1. s \in Seq(Item) /\ Closing(e) \in Seq(Item)
            BY <1>3
          <6> QED BY <5>1, <6>1, Rejoined
        <5> HIDE DEF w
        <5>3. (s1 \o s) \o w = s1 \o (s \o w)
          <6>1. s1 \in Seq(Item) /\ s \in Seq(Item)
            BY <1>3
          <6> QED BY <5>2, <6>1, Rejoined
        <5>4. u = s \o w
          BY <3>1, <5>2 DEF u
        <5> QED BY <1>4, <1>9, <3>11, <5>3, <5>4 DEF w
      <4>5. Leads(other, own, s2, s1 \o t, <<>>, r, e)
        BY <1>9, <3>2, <3>5, <4>2, <4>3, <4>4 DEF Leads
      <4> QED BY <3>4, <3>11, <4>5 DEF Lead, t
    <3> QED BY <3>8, <3>9, <3>10, <3>11
  <2> QED BY <2>3, <2>4
<1>13. CASE m < n
  <2>1. Eq!Compared(q2, s) = m
    BY <1>2, <1>6, <1>8, <1>13 DEF Eq!Compared, n
  <2>2. SubSeq(o, 1, m) = o
    BY <1>2 DEF m
  <2>3. CASE o # SubSeq(s, 1, m)
    <3>1. Refused(q2, s, messageEnd)
      BY <1>2, <2>1, <2>2, <2>3 DEF Refused
    <3>2. PICK k \in 1 .. m : o[k] # s[k]
      <4>1. Len(o) <= Len(s)
        BY <1>6, <1>8, <1>13 DEF n, m
      <4> QED BY <1>2, <2>3, <4>1, OtherStart DEF m
    <3>3. k \in Nat \ {0} /\ k <= Len(t) /\ k <= Len(u) /\ k \in 1 .. n
      BY <1>6, <1>8, <1>13
    <3>4. t[k] # u[k]
      BY <3>2, <3>3, <1>6, <1>8
    <3>5. Differ(s1 \o t, s2)
      BY <3>3, <3>4, <1>10
    <3> QED BY <3>1, <3>5 DEF t
  <2>4. CASE o = SubSeq(s, 1, m)
    <3>1. PICK r \in Seq(Byte) : s = o \o r /\ Len(s) = Len(o) + Len(r)
      <4>1. Len(o) <= Len(s)
        BY <1>6, <1>8, <1>13 DEF n, m
      <4> QED BY <1>2, <2>4, <4>1, SameStart DEF m
    <3>2. r # <<>> /\ r \in Seq(Item)
      <4>1. Len(r) # 0
        BY <1>6, <1>8, <1>13, <3>1 DEF n, m
      <4> QED BY <4>1 DEF Item
    <3>3. IsQueue(Left(q2, s), <<>>, <<>>, e)
      <4> DEFINE p == <<>>
      <4>1. p \in Seq(Byte) /\ o \o p = o
        BY <1>2
      <4> HIDE DEF p
      <4>2. IsQueue(q2, <<>>, o \o p, e)
        BY <1>1, <4>1
      <4>3. IsQueue(Eq!Skip(q2, Len(o)), <<>>, p, e)
        BY <1>2, <4>1, <4>2, QueueSkipOpen
      <4> QED BY <4>3, <2>1 DEF Left, m, p
    <3>4. /\ ~Eq!AnyMessages(Left(q2, s)) /\ ~Eq!EndsEarly(Left(q2, s))
          /\ (Eq!NumberOfMessageSeries(Left(q2, s)) > 0 <=> e)
      <4>1. ~(Len(<<>>) > 0)
        OBVIOUS
      <4> QED BY <3>3, <4>1, OpenQueue DEF Eq!EndsEarly
    <3>5. Refused(q2, s, messageEnd) <=> (messageEnd /\ e)
      BY <1>2, <1>11, <2>1, <2>2, <2>4, <3>4 DEF Refused
    <3>6. other = Left(q2, s)
      BY <3>4 DEF Other
    <3>7. PutOn(q1, q2, s) = Eq!Put(q1, r)
      <4>1. SubSeq(s, m + 1, Len(s)) = r
        BY <1>2, <3>1, CutJoined DEF m
      <4> QED BY <2>1, <4>1 DEF PutOn
    <3>8. CASE messageEnd /\ e
      <4>1. n >= 1 /\ 1 \in 1 .. n
        BY <1>5, <1>8, <1>13, <3>8
      <4>2. t[1] \in Byte /\ u[1] = Eq!SeriesEnd /\ 1 <= Len(t) /\ 1 <= Len(u)
        <5>1. u[1] = Eq!SeriesEnd /\ Len(u) = 1
          BY <1>7, <3>8
        <5>2. t[1] = s[1] /\ s[1] \in Byte /\ 1 <= Len(t)
          BY <1>8, <4>1
        <5> QED BY <5>1, <5>2
      <4>3. 1 \in Nat \ {0} /\ t[1] # u[1]
        BY <4>2 DEF Told
      <4>4. Differ(s1 \o t, s2)
        BY <1>10, <4>2, <4>3
      <4> QED BY <3>5, <3>8, <4>4 DEF t
    <3>9. CASE ~e
      <4>1. e = FALSE
        BY <1>2, <3>9
      <4>2. s2 = s1 \o o
        <5>1. Closing(FALSE) = <<>> /\ o \o <<>> = o
          BY <1>2 DEF Closing
        <5> QED BY <1>4, <4>1, <5>1 DEF u
      <4>3. s2 \in Seq(Unended)
        BY <1>1, <1>2, <4>2, BytesAreUnended
      <4>4. s1 \o s = s2 \o r
        <5>1. s1 \in Seq(Item) /\ o \in Seq(Item)
          BY <1>3
        <5>2. (s1 \o o) \o r = s1 \o (o \o r)
          BY <3>2, <5>1, Rejoined
        <5> QED BY <3>1, <4>2, <5>2
      <4>5. CASE messageEnd
        <5>1. own = Eq!MessageEnd(Eq!Put(q1, r))
          BY <3>4, <3>7, <4>5 DEF Own
        <5>2. IsQueue(own, <<r>>, <<>>, FALSE) /\ ItemsOf(<<r>>, <<>>, FALSE) = r \o <<Eq!End>>
          BY <1>1, <5>1, RestIs
        <5> DEFINE z == <<Eq!End>>
        <5>3. s1 \o t = s2 \o (r \o z)
          <6>1. z \in Seq(Item) /\ t = s \o z
            BY <1>9, <4>5 DEF Item
          <6> HIDE DEF z
          <6>2. s1 \in Seq(Item) /\ s \in Seq(Item) /\ s2 \in Seq(Item)
            BY <1>3, <4>3, UnendedIsItem
          <6>3. (s1 \o s) \o z = s1 \o (s \o z)
            BY <6>1, <6>2, Rejoined
          <6>4. (s2 \o r) \o z = s2 \o (r \o z)
            BY <3>2, <6>1, <6>2, Rejoined
          <6> QED BY <4>4, <6>1, <6>3, <6>4
        <5>4. Leads(own, other, s1 \o t, s2, <<r>>, <<>>, FALSE)
          BY <3>3, <3>6, <4>1, <4>3, <5>2, <5>3 DEF Leads
        <5> QED BY <3>5, <3>9, <5>4 DEF Lead, t
      <4>6. CASE ~messageEnd
        <5>1. own = Eq!Put(q1, r)
          BY <3>7, <4>6 DEF Own
        <5>2. IsQueue(own, <<>>, r, FALSE) /\ ItemsOf(<<>>, r, FALSE) = r
          BY <1>1, <5>1, RestIs
        <5>3. s1 \o t = s2 \o r
          BY <1>9, <4>4, <4>6
        <5>4. Leads(own, other, s1 \o t, s2, <<>>, r, FALSE)
          BY <3>3, <3>6, <4>1, <4>3, <5>2, <5>3 DEF Leads
        <5> QED BY <3>5, <3>9, <5>4 DEF Lead, t
      <4> QED BY <4>5, <4>6
    <3>10. CASE ~messageEnd /\ e
      <4>1. s = r
        <5>1. <<>> \o r = r
          OBVIOUS
        <5> QED BY <1>5, <3>1, <3>10, <5>1
      <4>2. own = Eq!Put(q1, r)
        BY <3>7, <3>10 DEF Own
      <4>3. IsQueue(own, <<>>, r, FALSE)
        BY <1>1, <4>2, RestIs
      <4>4. IsQueue(other, <<>>, <<>>, TRUE)
        <5>1. e = TRUE
          BY <1>2, <3>10
        <5> QED BY <3>3, <3>6, <5>1
      <4>5. s1 \o t = s1 \o r /\ s2 = s1 \o <<Eq!SeriesEnd>>
        BY <1>4, <1>7, <1>9, <3>10, <4>1
      <4>6. Unnoticed(own, other, s1 \o t, s2)
        BY <1>1, <3>2, <4>3, <4>4, <4>5 DEF Unnoticed
      <4> QED BY <3>5, <3>10, <4>6 DEF t
    <3> QED BY <3>8, <3>9, <3>10
  <2> QED BY <2>3, <2>4
<1> QED
  <2>1. n <= m \/ m < n
    BY <1>6, <1>8
  <2> QED BY <1>12, <1>13, <2>1

\* When bytes have gone unnoticed, the channels differ.
LEMMA UnnoticedDiffer ==
  ASSUME Told, NEW q1, NEW q2, NEW s1, NEW s2, Unnoticed(q1, q2, s1, s2)
  PROVE  Differ(s1, s2)
<1>1. PICK z \in Seq(Unended), x \in Seq(Byte) :
        x # <<>> /\ s1 = z \o x /\ s2 = z \o <<Eq!SeriesEnd>>
  BY DEF Unnoticed
<1> DEFINE y == <<Eq!SeriesEnd>>
<1>2. y \in Seq(Item) /\ Len(y) = 1 /\ y[1] = Eq!SeriesEnd /\ z \in Seq(Item) /\ x \in Seq(Item)
  <2>1. Eq!SeriesEnd \in Item /\ x \in Seq(Item)
    BY DEF Item
  <2> QED BY <2>1, UnendedIsItem
<1>3. 1 <= Len(x) /\ x[1] \in Byte
  <2>1. Len(x) \in Nat /\ Len(x) # 0
    BY <1>1
  <2>2. 1 \in 1 .. Len(x)
    BY <2>1
  <2> QED BY <2>1, <2>2
<1>4. x[1] # y[1] /\ 1 \in Nat \ {0} /\ 1 <= Len(y)
  BY <1>2, <1>3 DEF Told
<1> HIDE DEF y
<1>5. Differ(z \o x, z \o y)
  BY <1>2, <1>3, <1>4, DifferBehind
<1> QED BY <1>1, <1>5 DEF y

\* What differs stays different.
LEMMA DifferStays ==
  ASSUME NEW S, NEW s1 \in Seq(S), NEW s2 \in Seq(S), NEW t \in Seq(S), Differ(s1, s2)
  PROVE  Differ(s1 \o t, s2) /\ Differ(s2, s1)
<1>1. PICK k \in 1 .. Len(s1) : k \in 1 .. Len(s2) /\ s1[k] # s2[k]
  BY DEF Differ
<1>2. /\ Len(s1 \o t) = Len(s1) + Len(t) /\ Len(s1) \in Nat /\ Len(t) \in Nat
      /\ (s1 \o t)[k] = s1[k]
  BY ElementsJoined
<1>3. k \in 1 .. Len(s1 \o t)
  BY <1>2
<1> QED BY <1>1, <1>2, <1>3 DEF Differ

\* More bytes go unnoticed, until a message ends.
LEMMA UnnoticedPut ==
  ASSUME Told, NEW q1, NEW q2, NEW s1, NEW s2, NEW s \in Seq(Byte), NEW messageEnd \in BOOLEAN,
         Unnoticed(q1, q2, s1, s2), s1 \in Seq(Item), s2 \in Seq(Item)
  PROVE  IF Refused(q2, s, messageEnd)
         THEN Differ(s1 \o Brought(s, messageEnd), s2)
         ELSE Unnoticed(Own(q1, q2, s, messageEnd), Other(q2, s, messageEnd), s1 \o Brought(s, messageEnd), s2)
<1>1. Differ(s1 \o Brought(s, messageEnd), s2)
  <2>1. Brought(s, messageEnd) \in Seq(Item) /\ Differ(s1, s2)
    BY BroughtIs, UnnoticedDiffer
  <2> DEFINE t == Brought(s, messageEnd)
  <2> HIDE DEF t
  <2>2. Differ(s1 \o t, s2)
    BY <2>1, DifferStays DEF t
  <2> QED BY <2>2 DEF t
<1>2. SUFFICES ASSUME ~Refused(q2, s, messageEnd)
      PROVE  Unnoticed(Own(q1, q2, s, messageEnd), Other(q2, s, messageEnd), s1 \o Brought(s, messageEnd), s2)
  BY <1>1
<1>3. PICK z \in Seq(Unended), x \in Seq(Byte) :
        /\ x # <<>> /\ s1 = z \o x /\ s2 = z \o <<Eq!SeriesEnd>>
        /\ IsQueue(q1, <<>>, x, FALSE) /\ IsQueue(q2, <<>>, <<>>, TRUE)
  BY DEF Unnoticed
<1>4. Eq!Compared(q2, s) = 0
  <2>1. Len(s) \in Nat /\ Len(<<>>) = 0
    OBVIOUS
  <2>2. Eq!MaxRetrievable(q2) = 0
    BY <1>3, <2>1, OpenQueue
  <2> QED BY <2>1, <2>2 DEF Eq!Compared
<1>5. IsQueue(Left(q2, s), <<>>, <<>>, TRUE)
  <2> DEFINE n == <<>>
  <2>1. n \in Seq(Byte) /\ n \o n = n /\ Len(n) = 0
    OBVIOUS
  <2> HIDE DEF n
  <2>2. IsQueue(q2, <<>>, n \o n, TRUE)
    BY <1>3, <2>1 DEF n
  <2>3. IsQueue(Eq!Skip(q2, Len(n)), <<>>, n, TRUE)
    BY <2>1, <2>2, QueueSkipOpen
  <2> QED BY <1>4, <2>1, <2>3 DEF Left, n
<1>6. ~Eq!AnyMessages(Left(q2, s)) /\ Eq!NumberOfMessageSeries(Left(q2, s)) > 0
  BY <1>5, OpenQueue
<1>7. ~messageEnd
  BY <1>2, <1>6 DEF Refused
<1>8. Own(q1, q2, s, messageEnd) = Eq!Put(q1, s)
  <2>1. SubSeq(s, 0 + 1, Len(s)) = s
    OBVIOUS
  <2> QED BY <1>4, <1>7, <2>1 DEF Own, PutOn
<1>9. Other(q2, s, messageEnd) = Left(q2, s)
  BY <1>7 DEF Other
<1>10. IsQueue(Own(q1, q2, s, messageEnd), <<>>, x \o s, FALSE)
  BY <1>3, <1>8, QueuePut
<1>11. x \o s \in Seq(Byte) /\ x \o s # <<>>
  <2>1. Len(x) # 0 /\ Len(x) \in Nat /\ Len(s) \in Nat /\ Len(x \o s) = Len(x) + Len(s) /\ x \o s \in Seq(Byte)
    BY <1>3
  <2>2. Len(x \o s) # 0 /\ Len(<<>>) = 0
    BY <2>1
  <2> QED BY <2>1, <2>2
<1>12. s1 \o Brought(s, messageEnd) = z \o (x \o s)
  <2>1. messageEnd = FALSE
    BY <1>7
  <2>2. Brought(s, messageEnd) = s
    BY <2>1, BroughtIs
  <2>3. x \in Seq(Unended) /\ s \in Seq(Unended)
    BY BytesAreUnended
  <2>4. (z \o x) \o s = z \o (x \o s)
    BY <2>3, Rejoined
  <2> QED BY <1>3, <2>2, <2>4
<1> QED BY <1>3, <1>5, <1>9, <1>10, <1>11, <1>12 DEF Unnoticed

-----------------------------------------------------------------------------
\* The end of a series.

\* The channel that leads ends its series.
LEMMA LeadEnds ==
  ASSUME NEW q1, NEW q2, NEW s1, NEW s2, NEW c, NEW o, Leads(q1, q2, s1, s2, c, o, FALSE),
         s1 # <<>> => Last(s1) \notin Byte
  PROVE  /\ ~Eq!SeriesIsLonger(q2) /\ ~(Eq!NumberOfMessageSeries(q2) > 0)
         /\ Lead(Eq!MessageSeriesEnd(q1), q2, s1 \o <<Eq!SeriesEnd>>, s2)
<1>1. /\ IsQueue(q1, c, o, FALSE) /\ IsQueue(q2, <<>>, <<>>, FALSE)
      /\ s2 \in Seq(Unended) /\ s1 = s2 \o ItemsOf(c, o, FALSE)
  BY DEF Leads
<1>2. c \in Seq(Seq(Byte)) /\ o \in Seq(Byte)
  BY <1>1 DEF IsQueue
<1>3. ~Eq!SeriesIsLonger(q2) /\ ~(Eq!NumberOfMessageSeries(q2) > 0)
  <2>1. ~(Len(<<>>) > 0)
    OBVIOUS
  <2> QED BY <1>1, <2>1, OpenQueue DEF Eq!SeriesIsLonger
<1>4. o = <<>>
  <2> SUFFICES ASSUME o # <<>> PROVE FALSE
    OBVIOUS
  <2> DEFINE f == FlattenSeq(Ended(c))
             n == Len(o)
             y == s2 \o f
  <2>1. f \in Seq(Item) /\ o \in Seq(Item) /\ s2 \in Seq(Item) /\ ItemsOf(c, o, FALSE) = f \o o
    BY <1>1, <1>2, ItemsAre, UnendedIsItem
  <2> HIDE DEF f
  <2>2. s1 = y \o o /\ y \in Seq(Item)
    <3>1. f \in Seq(Item) /\ o \in Seq(Item) /\ s2 \in Seq(Item)
      BY <2>1
    <3>2. (s2 \o f) \o o = s2 \o (f \o o) /\ s2 \o f \in Seq(Item)
      BY <3>1, Rejoined
    <3> QED BY <1>1, <2>1, <3>2
  <2>3. n \in Nat /\ n # 0
    BY <1>2
  <2>4. n \in 1 .. n /\ o[n] \in Byte
    BY <1>2, <2>3
  <2> HIDE DEF y, n
  <2>5. Len(s1) = Len(y) + n /\ s1[Len(y) + n] = o[n] /\ Len(y) \in Nat /\ s1 \in Seq(Item)
    BY <2>1, <2>2, <2>4, ElementsJoined DEF n
  <2>6. Last(s1) = o[n] /\ s1 # <<>>
    <3>1. Last(s1) = o[n]
      BY <2>5 DEF Last
    <3>2. Len(s1) # 0 /\ Len(<<>>) = 0
      BY <2>3, <2>5
    <3> QED BY <3>1, <3>2
  <2> QED BY <2>4, <2>6
<1>5. IsQueue(Eq!MessageSeriesEnd(q1), c, <<>>, TRUE)
  BY <1>1, <1>4, QueueClose
<1> DEFINE z == <<Eq!SeriesEnd>>
           y == ItemsOf(c, <<>>, FALSE)
<1>6. ItemsOf(c, <<>>, TRUE) = y \o z
  BY <1>2, ItemsClose
<1>7. s1 \o z = s2 \o (y \o z)
  <2>1. z \in Seq(Item)
    BY DEF Item
  <2>2. y \in Seq(Item) /\ s2 \in Seq(Item)
    BY <1>1, <1>2, <1>4, ItemsAre, UnendedIsItem
  <2> HIDE DEF z, y
  <2>3. (s2 \o y) \o z = s2 \o (y \o z)
    BY <2>1, <2>2, Rejoined
  <2> QED BY <1>1, <1>4, <2>3 DEF y
<1>8. Leads(Eq!MessageSeriesEnd(q1), q2, s1 \o z, s2, c, <<>>, TRUE)
  BY <1>1, <1>5, <1>6, <1>7 DEF Leads
<1> QED BY <1>3, <1>8 DEF Lead

\* The first of several messages.
LEMMA FirstOfMessages ==
  ASSUME NEW c \in Seq(Seq(Byte)), c # <<>>
  PROVE  \E x \in Seq(Byte), d \in Seq(Seq(Byte)) : c = <<x>> \o d
<1> DEFINE x == Head(c)
           d == Tail(c)
<1>1. x \in Seq(Byte) /\ d \in Seq(Seq(Byte)) /\ c = <<x>> \o d
  OBVIOUS
<1> QED BY <1>1

\* The channel that is behind ends its series.
LEMMA FollowEnds ==
  ASSUME Told, NEW q1, NEW q2, NEW s1, NEW s2, NEW c, NEW o, NEW e, Leads(q2, q1, s2, s1, c, o, e)
  PROVE  /\ Eq!SeriesIsLonger(q2) => Differ(s1 \o <<Eq!SeriesEnd>>, s2)
         /\ ~Eq!SeriesIsLonger(q2) =>
              /\ c = <<>> /\ o = <<>> /\ (Eq!NumberOfMessageSeries(q2) > 0 <=> e)
              /\ s2 = s1 \o Closing(e)
<1> DEFINE z == <<Eq!SeriesEnd>>
           u == ItemsOf(c, o, e)
<1>1. /\ IsQueue(q2, c, o, e) /\ IsQueue(q1, <<>>, <<>>, FALSE)
      /\ s1 \in Seq(Unended) /\ s2 = s1 \o u
  BY DEF Leads
<1>2. c \in Seq(Seq(Byte)) /\ o \in Seq(Byte) /\ e \in BOOLEAN
  BY <1>1 DEF IsQueue
<1>3. z \in Seq(Item) /\ Len(z) = 1 /\ z[1] = Eq!SeriesEnd /\ u \in Seq(Item) /\ s1 \in Seq(Item)
  <2>1. Eq!SeriesEnd \in Item
    BY DEF Item
  <2>2. u \in Seq(Item) /\ s1 \in Seq(Item)
    BY <1>1, <1>2, ItemsAre, UnendedIsItem
  <2> QED BY <2>1, <2>2
<1>4. ASSUME 1 <= Len(u), u[1] \in Unended PROVE Differ(s1 \o z, s2)
  <2>1. z[1] # u[1] /\ 1 \in Nat \ {0} /\ 1 <= Len(z)
    BY <1>3, <1>4 DEF Told, Unended
  <2> HIDE DEF z, u
  <2>2. Differ(s1 \o z, s1 \o u)
    BY <1>3, <1>4, <2>1, DifferBehind
  <2> QED BY <1>1, <2>2
<1>5. CASE c # <<>>
  <2>1. PICK x \in Seq(Byte), d \in Seq(Seq(Byte)) : c = <<x>> \o d
    BY <1>2, <1>5, FirstOfMessages
  <2>2. Eq!SeriesIsLonger(q2)
    BY <1>1, <2>1, FullQueue DEF Eq!SeriesIsLonger
  <2> DEFINE y == ItemsOf(d, o, e)
             v == <<Eq!End>> \o y
  <2>3. u = x \o v /\ y \in Seq(Item)
    BY <1>2, <2>1, ItemsStart, ItemsAre
  <2> HIDE DEF y
  <2>4. v \in Seq(Item) /\ v[1] = Eq!End /\ Len(v) = Len(y) + 1 /\ Len(y) \in Nat
    <3>1. Eq!End \in Item
      BY DEF Item
    <3> QED BY <2>3, <3>1, OneFirst
  <2> HIDE DEF v
  <2>5. x \in Seq(Item) /\ Len(x) \in Nat
    BY DEF Item
  <2>6. /\ Len(u) = Len(x) + Len(v) /\ \A k \in 1 .. Len(x) : u[k] = x[k]
        /\ \A k \in 1 .. Len(v) : u[Len(x) + k] = v[k]
    <3>1. x \in Seq(Item) /\ v \in Seq(Item) /\ u = x \o v
      BY <2>3, <2>4, <2>5 DEF v
    <3> HIDE DEF u
    <3> QED BY <3>1, ElementsJoined
  <2>7. 1 <= Len(u) /\ u[1] \in Unended
    <3> HIDE DEF u
    <3>1. 1 <= Len(u)
      BY <2>4, <2>5, <2>6
    <3>2. CASE Len(x) = 0
      <4>1. 1 \in 1 .. Len(v)
        BY <2>4
      <4>2. u[Len(x) + 1] = v[1]
        BY <2>6, <4>1
      <4>3. Len(x) + 1 = 1
        BY <3>2
      <4> QED BY <2>4, <3>1, <4>2, <4>3 DEF Unended
    <3>3. CASE Len(x) # 0
      <4>1. 1 \in 1 .. Len(x)
        BY <2>5, <3>3
      <4>2. x[1] \in Byte
        BY <4>1
      <4> QED BY <2>6, <3>1, <4>1, <4>2 DEF Unended
    <3> QED BY <3>2, <3>3
  <2> QED BY <1>4, <2>2, <2>7
<1>6. CASE c = <<>>
  <2>1. IsQueue(q2, <<>>, o, e)
    BY <1>1, <1>6
  <2>2. /\ (Eq!SeriesIsLonger(q2) <=> Len(o) > 0) /\ (Eq!NumberOfMessageSeries(q2) > 0 <=> e)
    BY <2>1, OpenQueue DEF Eq!SeriesIsLonger
  <2>3. u = o \o Closing(e) /\ Closing(e) \in Seq(Item)
    BY <1>2, <1>6, NothingEnded, ItemsAre
  <2>4. CASE Len(o) > 0
    <3>1. o \in Seq(Item) /\ Len(o) \in Nat
      BY <1>2 DEF Item
    <3>2. 1 \in 1 .. Len(o)
      BY <2>4, <3>1
    <3>3. o[1] \in Byte
      BY <1>2, <3>2
    <3>4. u[1] = o[1] /\ Len(u) = Len(o) + Len(Closing(e)) /\ Len(Closing(e)) \in Nat
      BY <2>3, <3>1, <3>2, ElementsJoined
    <3> HIDE DEF u
    <3>5. 1 <= Len(u) /\ u[1] \in Unended
      BY <3>1, <3>2, <3>3, <3>4 DEF Unended
    <3> QED BY <1>4, <2>2, <2>4, <3>5
  <2>5. CASE ~(Len(o) > 0)
    <3>1. o = <<>>
      <4>1. Len(o) = 0
        BY <1>2, <2>5
      <4> QED BY <1>2, <4>1
    <3>2. u = Closing(e)
      <4> DEFINE w == Closing(e)
      <4> HIDE DEF w
      <4>1. w \in Seq(Item)
        BY <2>3 DEF w
      <4>2. <<>> \o w = w
        BY <4>1
      <4> QED BY <2>3, <3>1, <4>2 DEF w
    <3> QED BY <1>1, <1>6, <2>2, <2>5, <3>1, <3>2
  <2> QED BY <2>4, <2>5
<1> QED BY <1>5, <1>6

-----------------------------------------------------------------------------
\* The inductive invariant.  Until the verdict one channel leads and its queue
\* holds the lead, or it has gone on with bytes where the other's series is over.

\* One channel leads.
Agreeing ==
  /\ ~m_mismatchDetected /\ output = <<>>
  /\ \E i \in Eq!Channel : Lead(m_q[i], m_q[1 - i], sent[i], sent[1 - i])

\* One has gone on where the series of the other is over, with bytes of a
\* message that it has not ended.
Overrun ==
  /\ ~m_mismatchDetected /\ output = <<>>
  /\ \E i \in Eq!Channel : Unnoticed(m_q[i], m_q[1 - i], sent[i], sent[1 - i])

\* Equality has been told.
FoundEqual ==
  /\ ~m_mismatchDetected /\ output # <<>> /\ sent[0] = sent[1]
  /\ \E k \in 1 .. Len(sent[0]) : sent[0][k] = Eq!SeriesEnd

\* A mismatch has been told.
FoundUnequal ==
  /\ m_mismatchDetected /\ output # <<>> /\ Differ(sent[0], sent[1])

\* The inductive invariant.
VerdictInv ==
  /\ sent \in [Eq!Channel -> Seq(Item)]
  /\ Agreeing \/ Overrun \/ FoundEqual \/ FoundUnequal

\* There are two channels.
LEMMA OtherChannel ==
  ASSUME NEW i \in Eq!Channel
  PROVE  1 - i \in Eq!Channel /\ 1 - (1 - i) = i /\ 1 - i # i /\ \A j \in Eq!Channel : j = i \/ j = 1 - i
BY DEF Eq!Channel

\* Differing does not depend on the order.
LEMMA ChannelsDiffer ==
  ASSUME NEW i \in Eq!Channel, sent \in [Eq!Channel -> Seq(Item)], Differ(sent[i], sent[1 - i])
  PROVE  Differ(sent[0], sent[1])
<1>0. 0 \in Eq!Channel /\ 1 \in Eq!Channel
  BY DEF Eq!Channel
<1>1. CASE i = 0
  BY <1>1
<1>2. CASE i = 1
  <2>1. Differ(sent[1], sent[0])
    BY <1>2
  <2>2. sent[0] \in Seq(Item) /\ sent[1] \in Seq(Item)
    BY <1>0
  <2>3. Differ(sent[0], sent[1])
    <3>1. \A t \in Seq(Item) : Differ(sent[1] \o t, sent[0]) /\ Differ(sent[0], sent[1])
      BY <2>1, <2>2, DifferStays
    <3>2. <<>> \in Seq(Item)
      OBVIOUS
    <3> QED BY <3>1, <3>2
  <2> QED BY <2>3
<1> QED BY <1>1, <1>2 DEF Eq!Channel

\* A channel that has ended its series brings no more of one.
LEMMA SeriesIsOver ==
  ASSUME NEW i \in Eq!Channel, sent[i] \in Seq(Item), NEW k \in 1 .. Len(sent[i]), sent[i][k] = Eq!SeriesEnd
  PROVE  ~(Eq!Series(i) < 1)
<1> DEFINE T == {j \in DOMAIN sent[i] : sent[i][j] = Eq!SeriesEnd}
<1>1. DOMAIN sent[i] = 1 .. Len(sent[i]) /\ Len(sent[i]) \in Nat
  OBVIOUS
<1>2. T \in SUBSET (1 .. Len(sent[i])) /\ T # {}
  BY <1>1
<1>3. Eq!Series(i) = Cardinality(T)
  <2>1. Eq!Cardinality(T) = Cardinality(T)
    BY Zenon DEF Eq!Cardinality, Cardinality
  <2> QED BY <2>1 DEF Eq!Series
<1> HIDE DEF T
<1>4. IsFiniteSet(1 .. Len(sent[i]))
  BY <1>1, FS_Interval
<1>5. IsFiniteSet(T)
  BY <1>2, <1>4, FS_Subset
<1>6. Cardinality(T) \in Nat /\ Cardinality(T) # 0
  BY <1>2, <1>5, FS_CardinalityType, FS_EmptySet
<1> QED BY <1>3, <1>6

\* What ends with the end of a series contains one.
LEMMA ClosedIsOver ==
  ASSUME NEW z \in Seq(Item), NEW s, s = z \o <<Eq!SeriesEnd>>
  PROVE  \E k \in 1 .. Len(s) : s[k] = Eq!SeriesEnd
<1>1. Eq!SeriesEnd \in Item
  BY DEF Item
<1>2. Len(s) = Len(z) + 1 /\ Len(z) \in Nat /\ s[Len(z) + 1] = Eq!SeriesEnd
  BY <1>1, OneMore
<1>3. Len(z) + 1 \in 1 .. Len(s)
  BY <1>2
<1> QED BY <1>2, <1>3

\* The channel that leads and may still bring something has not ended its series.
LEMMA LeaderIsOpen ==
  ASSUME NEW i \in Eq!Channel, sent[i] \in Seq(Item), Eq!Series(i) < 1,
         Lead(m_q[i], m_q[1 - i], sent[i], sent[1 - i])
  PROVE  \E c, o : Leads(m_q[i], m_q[1 - i], sent[i], sent[1 - i], c, o, FALSE)
<1>1. PICK c, o, e : Leads(m_q[i], m_q[1 - i], sent[i], sent[1 - i], c, o, e)
  BY DEF Lead
<1>2. e \in BOOLEAN /\ c \in Seq(Seq(Byte)) /\ sent[1 - i] \in Seq(Item) /\ (e => o = <<>>)
  <2>1. e \in BOOLEAN /\ c \in Seq(Seq(Byte)) /\ sent[1 - i] \in Seq(Unended) /\ (e => o = <<>>)
    BY <1>1 DEF Leads, IsQueue
  <2> QED BY <2>1, UnendedIsItem
<1>3. e = FALSE
  <2> SUFFICES ASSUME e = TRUE PROVE FALSE
    BY <1>2
  <2>1. o = <<>>
    BY <1>2
  <2>2. sent[i] = sent[1 - i] \o ItemsOf(c, <<>>, TRUE)
    BY <1>1, <2>1 DEF Leads
  <2> DEFINE y == ItemsOf(c, <<>>, FALSE)
             z == <<Eq!SeriesEnd>>
             s == sent[1 - i]
  <2>3. sent[i] = s \o (y \o z)
    BY <1>2, <2>2, ItemsClose
  <2>4. y \in Seq(Item) /\ z \in Seq(Item) /\ s \in Seq(Item)
    <3>1. <<>> \in Seq(Byte) /\ z \in Seq(Item)
      BY DEF Item
    <3> QED BY <1>2, <3>1, ItemsAre
  <2> HIDE DEF y, s
  <2>5. s \o y \in Seq(Item) /\ sent[i] = (s \o y) \o z
    <3> HIDE DEF z
    <3>1. (s \o y) \o z = s \o (y \o z) /\ s \o y \in Seq(Item)
      BY <2>4, Rejoined
    <3> QED BY <2>3, <3>1
  <2>6. \E k \in 1 .. Len(sent[i]) : sent[i][k] = Eq!SeriesEnd
    BY <2>5, ClosedIsOver
  <2> QED BY <2>6, SeriesIsOver
<1> QED BY <1>1, <1>3

-----------------------------------------------------------------------------
\* The steps.

\* A step that tells a mismatch where the channels differ.
LEMMA MismatchFound ==
  ASSUME NEW i \in Eq!Channel, sent' \in [Eq!Channel -> Seq(Item)], output = <<>>,
         Eq!HandleMismatchDetected, Differ(sent'[i], sent'[1 - i])
  PROVE  VerdictInv'
<1>1. Differ(sent'[0], sent'[1])
  <2>0. 0 \in Eq!Channel /\ 1 \in Eq!Channel
    BY DEF Eq!Channel
  <2>1. CASE i = 0
    BY <2>1
  <2>2. CASE i = 1
    <3>1. Differ(sent'[1], sent'[0])
      BY <2>2
    <3>2. sent'[0] \in Seq(Item) /\ sent'[1] \in Seq(Item) /\ <<>> \in Seq(Item)
      BY <2>0
    <3>3. Differ(sent'[0], sent'[1])
      BY <3>1, <3>2, DifferStays
    <3> QED BY <3>3
  <2> QED BY <2>1, <2>2 DEF Eq!Channel
<1>2. m_mismatchDetected' /\ output' # <<>>
  <2>1. m_mismatchDetected' /\ output' = Append(output, IF m_throwIfNotEqual THEN "thrown" ELSE "0")
    BY DEF Eq!HandleMismatchDetected
  <2>2. \A a : Append(<<>>, a) # <<>>
    OBVIOUS
  <2> QED BY <2>1, <2>2
<1> QED BY <1>1, <1>2 DEF VerdictInv, FoundUnequal

\* What the history is after a call.
LEMMA SentGrows ==
  ASSUME sent \in [Eq!Channel -> Seq(Item)], NEW i \in Eq!Channel, NEW items \in Seq(Item),
         Eq!Sends(i, items), MaxSeries = 1
  PROVE  /\ sent' \in [Eq!Channel -> Seq(Item)] /\ sent'[i] = sent[i] \o items /\ sent'[1 - i] = sent[1 - i]
         /\ ~m_mismatchDetected /\ Eq!Series(i) < 1
<1>1. sent' = [sent EXCEPT ![i] = sent[i] \o items]
  BY DEF Eq!Sends
<1>2. sent[i] \o items \in Seq(Item)
  OBVIOUS
<1> DEFINE s == sent[i] \o items
<1> HIDE DEF s
<1>3. sent' = [sent EXCEPT ![i] = s] /\ s \in Seq(Item)
  BY <1>1, <1>2 DEF s
<1>4. sent' \in [Eq!Channel -> Seq(Item)] /\ sent'[i] = s /\ sent'[1 - i] = sent[1 - i]
  BY <1>3, OtherChannel
<1> QED BY <1>4 DEF s, Eq!Sends

\* Who may still bring something: not when both were found equal.
LEMMA OpenStates ==
  ASSUME VerdictInv, NEW i \in Eq!Channel, ~m_mismatchDetected, Eq!Series(i) < 1
  PROVE  /\ output = <<>>
         /\ \/ \E c, o : Leads(m_q[i], m_q[1 - i], sent[i], sent[1 - i], c, o, FALSE)
            \/ \E c, o, e : Leads(m_q[1 - i], m_q[i], sent[1 - i], sent[i], c, o, e)
            \/ Unnoticed(m_q[i], m_q[1 - i], sent[i], sent[1 - i])
<1>1. sent[i] \in Seq(Item) /\ sent[1 - i] \in Seq(Item)
  BY OtherChannel DEF VerdictInv
<1>2. CASE Agreeing
  <2>1. PICK j \in Eq!Channel : Lead(m_q[j], m_q[1 - j], sent[j], sent[1 - j])
    BY <1>2 DEF Agreeing
  <2>2. CASE j = i
    BY <1>1, <1>2, <2>1, <2>2, LeaderIsOpen DEF Agreeing
  <2>3. CASE j = 1 - i
    <3>1. 1 - j = i
      BY <2>3, OtherChannel
    <3> QED BY <1>2, <2>1, <2>3, <3>1 DEF Agreeing, Lead
  <2> QED BY <2>2, <2>3, OtherChannel
<1>3. CASE Overrun
  <2>1. PICK j \in Eq!Channel : Unnoticed(m_q[j], m_q[1 - j], sent[j], sent[1 - j])
    BY <1>3 DEF Overrun
  <2>2. CASE j = i
    BY <1>3, <2>1, <2>2 DEF Overrun
  <2>3. CASE j = 1 - i
    <3>1. 1 - j = i
      BY <2>3, OtherChannel
    <3>2. \E z \in Seq(Unended) : sent[i] = z \o <<Eq!SeriesEnd>>
      BY <2>1, <3>1 DEF Unnoticed
    <3>3. \E k \in 1 .. Len(sent[i]) : sent[i][k] = Eq!SeriesEnd
      BY <3>2, UnendedIsItem, ClosedIsOver
    <3> QED BY <1>1, <3>3, SeriesIsOver
  <2> QED BY <2>2, <2>3, OtherChannel
<1>4. CASE FoundEqual
  <2>1. sent[i] = sent[0]
    BY <1>4 DEF FoundEqual, Eq!Channel
  <2>2. \E k \in 1 .. Len(sent[i]) : sent[i][k] = Eq!SeriesEnd
    BY <1>4, <2>1 DEF FoundEqual
  <2> QED BY <1>1, <2>2, SeriesIsOver
<1> QED BY <1>2, <1>3, <1>4 DEF VerdictInv, FoundUnequal

\* A step that tells nothing.
LEMMA LeadIsAgreeing ==
  ASSUME NEW i \in Eq!Channel, sent' \in [Eq!Channel -> Seq(Item)], ~m_mismatchDetected', output' = <<>>,
         \/ Lead(m_q'[i], m_q'[1 - i], sent'[i], sent'[1 - i])
         \/ Lead(m_q'[1 - i], m_q'[i], sent'[1 - i], sent'[i])
         \/ Unnoticed(m_q'[i], m_q'[1 - i], sent'[i], sent'[1 - i])
  PROVE  VerdictInv'
<1>1. 1 - i \in Eq!Channel /\ 1 - (1 - i) = i
  BY OtherChannel
<1>2. CASE Lead(m_q'[i], m_q'[1 - i], sent'[i], sent'[1 - i])
  BY <1>2 DEF VerdictInv, Agreeing
<1>3. CASE Lead(m_q'[1 - i], m_q'[i], sent'[1 - i], sent'[i])
  <2>1. Agreeing'
    <3> DEFINE j == 1 - i
    <3>1. j \in Eq!Channel /\ 1 - j = i
      BY <1>1
    <3>2. Lead(m_q'[j], m_q'[i], sent'[j], sent'[i])
      BY <1>3
    <3> HIDE DEF j
    <3>3. Lead(m_q'[j], m_q'[1 - j], sent'[j], sent'[1 - j])
      BY <3>1, <3>2
    <3> QED BY <3>1, <3>3 DEF Agreeing
  <2> QED BY <2>1 DEF VerdictInv
<1>4. CASE Unnoticed(m_q'[i], m_q'[1 - i], sent'[i], sent'[1 - i])
  BY <1>4 DEF VerdictInv, Overrun
<1> QED BY <1>2, <1>3, <1>4

\* ChannelPut2, for every split of the input and every interleaving.
LEMMA PutKeepsVerdict ==
  ASSUME Told, MaxSeries = 1, VerdictInv,
         NEW i \in Eq!Channel, NEW s \in Seq(Byte), NEW messageEnd \in BOOLEAN,
         Eq!Sends(i, Brought(s, messageEnd)), Eq!ChannelPut2(i, s, messageEnd)
  PROVE  VerdictInv'
<1> DEFINE t == Brought(s, messageEnd)
           q1 == m_q[i]
           q2 == m_q[1 - i]
           s1 == sent[i]
           s2 == sent[1 - i]
<1>1. t \in Seq(Item) /\ sent \in [Eq!Channel -> Seq(Item)] /\ s1 \in Seq(Item) /\ s2 \in Seq(Item)
  BY BroughtIs, OtherChannel DEF VerdictInv
<1>2. /\ sent' \in [Eq!Channel -> Seq(Item)] /\ sent'[i] = s1 \o t /\ sent'[1 - i] = s2
      /\ ~m_mismatchDetected /\ Eq!Series(i) < 1
  BY <1>1, SentGrows
<1>3. /\ output = <<>>
      /\ \/ \E c, o : Leads(q1, q2, s1, s2, c, o, FALSE)
         \/ \E c, o, e : Leads(q2, q1, s2, s1, c, o, e)
         \/ Unnoticed(q1, q2, s1, s2)
  BY <1>2, OpenStates
<1>4. IF Refused(q2, s, messageEnd)
      THEN Eq!HandleMismatchDetected
      ELSE /\ m_q' = [k \in Eq!Channel |-> IF k = i THEN Own(q1, q2, s, messageEnd)
                                                     ELSE Other(q2, s, messageEnd)]
           /\ UNCHANGED <<m_mismatchDetected, m_throwIfNotEqual, output>>
  BY PutMeans
<1> DEFINE own == Own(q1, q2, s, messageEnd)
           other == Other(q2, s, messageEnd)
           refused == Refused(q2, s, messageEnd)
<1>5. IF refused THEN Differ(s1 \o t, s2)
      ELSE Lead(other, own, s2, s1 \o t) \/ Lead(own, other, s1 \o t, s2) \/ Unnoticed(own, other, s1 \o t, s2)
  <2>1. CASE \E c, o : Leads(q1, q2, s1, s2, c, o, FALSE)
    BY <2>1, LeadPut
  <2>2. CASE \E c, o, e : Leads(q2, q1, s2, s1, c, o, e)
    <3>1. PICK c, o, e : Leads(q2, q1, s2, s1, c, o, e)
      BY <2>2
    <3>2. c \in Seq(Seq(Byte))
      BY <3>1 DEF Leads, IsQueue
    <3>3. CASE c = <<>>
      <4>1. Leads(q2, q1, s2, s1, <<>>, o, e)
        BY <3>1, <3>3
      <4> QED BY <4>1, FollowOpen
    <3>4. CASE c # <<>>
      <4>1. PICK x \in Seq(Byte), d \in Seq(Seq(Byte)) : c = <<x>> \o d
        BY <3>2, <3>4, FirstOfMessages
      <4>2. Leads(q2, q1, s2, s1, <<x>> \o d, o, e)
        BY <3>1, <4>1
      <4> QED BY <4>2, FollowFull
    <3> QED BY <3>3, <3>4
  <2>3. CASE Unnoticed(q1, q2, s1, s2)
    BY <1>1, <2>3, UnnoticedPut
  <2> QED BY <1>3, <2>1, <2>2, <2>3
<1> HIDE DEF t, q1, q2, s1, s2, own, other, refused
<1>6. CASE refused
  <2>1. Eq!HandleMismatchDetected
    BY <1>4, <1>6 DEF refused
  <2>2. Differ(sent'[i], sent'[1 - i])
    BY <1>2, <1>5, <1>6
  <2> QED BY <1>2, <1>3, <2>1, <2>2, MismatchFound
<1>7. CASE ~refused
  <2>1. m_q' = [k \in Eq!Channel |-> IF k = i THEN own ELSE other] /\ m_mismatchDetected' = m_mismatchDetected
        /\ output' = output
    BY <1>4, <1>7 DEF refused, own, other
  <2>2. m_q'[i] = own /\ m_q'[1 - i] = other
    BY <2>1, OtherChannel
  <2>3. ~m_mismatchDetected' /\ output' = <<>>
    BY <1>2, <1>3, <2>1
  <2> QED BY <1>2, <1>5, <1>7, <2>2, <2>3, LeadIsAgreeing
<1> QED BY <1>6, <1>7

\* ChannelMessageSeriesEnd, case by case.
LEMMA SeriesEndMeans ==
  ASSUME NEW i \in Eq!Channel, Eq!ChannelMessageSeriesEnd(i)
  PROVE  /\ Eq!SeriesIsLonger(m_q[1 - i]) => Eq!HandleMismatchDetected
         /\ ~Eq!SeriesIsLonger(m_q[1 - i]) =>
              /\ m_mismatchDetected' = m_mismatchDetected
              /\ Eq!NumberOfMessageSeries(m_q[1 - i]) > 0 => output' = Append(output, "1")
              /\ ~(Eq!NumberOfMessageSeries(m_q[1 - i]) > 0) =>
                   output' = output /\ m_q'[i] = Eq!MessageSeriesEnd(m_q[i]) /\ m_q'[1 - i] = m_q[1 - i]
<1>1. 1 - i \in Eq!Channel /\ 1 - i # i
  BY OtherChannel
<1>2. CASE Eq!SeriesIsLonger(m_q[1 - i])
  BY <1>2 DEF Eq!ChannelMessageSeriesEnd
<1>3. CASE ~Eq!SeriesIsLonger(m_q[1 - i]) /\ Eq!NumberOfMessageSeries(m_q[1 - i]) > 0
  BY <1>3 DEF Eq!ChannelMessageSeriesEnd, Eq!Queues
<1>4. CASE ~Eq!SeriesIsLonger(m_q[1 - i]) /\ ~(Eq!NumberOfMessageSeries(m_q[1 - i]) > 0)
  <2>1. Eq!Queues(i, Eq!MessageSeriesEnd(m_q[i]), m_q[1 - i]) /\ output' = output
    BY <1>4 DEF Eq!ChannelMessageSeriesEnd
  <2>2. m_q'[i] = Eq!MessageSeriesEnd(m_q[i]) /\ m_q'[1 - i] = m_q[1 - i] /\ m_mismatchDetected' = m_mismatchDetected
    BY <1>1, <2>1 DEF Eq!Queues
  <2> QED BY <1>4, <2>1, <2>2
<1> QED BY <1>2, <1>3, <1>4

\* ChannelMessageSeriesEnd keeps the invariant.
LEMMA SeriesEndKeepsVerdict ==
  ASSUME Told, MaxSeries = 1, VerdictInv,
         NEW i \in Eq!Channel, Eq!AtMessageEnd(i),
         Eq!Sends(i, <<Eq!SeriesEnd>>), Eq!ChannelMessageSeriesEnd(i)
  PROVE  VerdictInv'
<1> DEFINE z == <<Eq!SeriesEnd>>
           q1 == m_q[i]
           q2 == m_q[1 - i]
           s1 == sent[i]
           s2 == sent[1 - i]
<1>1. z \in Seq(Item) /\ sent \in [Eq!Channel -> Seq(Item)] /\ s1 \in Seq(Item) /\ s2 \in Seq(Item)
  <2>1. Eq!SeriesEnd \in Item
    BY DEF Item
  <2> QED BY <2>1, OtherChannel DEF VerdictInv
<1>2. /\ sent' \in [Eq!Channel -> Seq(Item)] /\ sent'[i] = s1 \o z /\ sent'[1 - i] = s2
      /\ ~m_mismatchDetected /\ Eq!Series(i) < 1
  BY <1>1, SentGrows
<1>3. /\ output = <<>>
      /\ \/ \E c, o : Leads(q1, q2, s1, s2, c, o, FALSE)
         \/ \E c, o, e : Leads(q2, q1, s2, s1, c, o, e)
         \/ Unnoticed(q1, q2, s1, s2)
  BY <1>2, OpenStates
<1>4. s1 # <<>> => Eq!Last(s1) \notin Byte
  BY DEF Eq!AtMessageEnd
<1>5. s1 # <<>> => Last(s1) \notin Byte
  BY <1>4, Zenon DEF Last, Eq!Last
<1>6. ASSUME NEW c, NEW o, Leads(q1, q2, s1, s2, c, o, FALSE) PROVE VerdictInv'
  <2>1. /\ ~Eq!SeriesIsLonger(q2) /\ ~(Eq!NumberOfMessageSeries(q2) > 0)
        /\ Lead(Eq!MessageSeriesEnd(q1), q2, s1 \o z, s2)
    BY <1>5, <1>6, LeadEnds
  <2>2. /\ m_mismatchDetected' = m_mismatchDetected /\ output' = output
        /\ m_q'[i] = Eq!MessageSeriesEnd(q1) /\ m_q'[1 - i] = q2
    BY <2>1, SeriesEndMeans
  <2>3. Lead(m_q'[i], m_q'[1 - i], sent'[i], sent'[1 - i])
    BY <1>2, <2>1, <2>2
  <2> QED BY <1>2, <1>3, <2>2, <2>3, LeadIsAgreeing
<1>7. ASSUME NEW c, NEW o, NEW e, Leads(q2, q1, s2, s1, c, o, e) PROVE VerdictInv'
  <2>1. CASE Eq!SeriesIsLonger(q2)
    <3>1. Differ(s1 \o z, s2)
      BY <1>7, <2>1, FollowEnds
    <3>2. Eq!HandleMismatchDetected
      BY <2>1, SeriesEndMeans
    <3>3. Differ(sent'[i], sent'[1 - i])
      BY <1>2, <3>1
    <3> QED BY <1>2, <1>3, <3>2, <3>3, MismatchFound
  <2>2. CASE ~Eq!SeriesIsLonger(q2)
    <3>1. /\ c = <<>> /\ o = <<>> /\ (Eq!NumberOfMessageSeries(q2) > 0 <=> e)
          /\ s2 = s1 \o Closing(e)
      <4>1. ~Eq!SeriesIsLonger(q2) =>
              /\ c = <<>> /\ o = <<>> /\ (Eq!NumberOfMessageSeries(q2) > 0 <=> e)
              /\ s2 = s1 \o Closing(e)
        <5> HIDE DEF q1, q2, s1, s2
        <5> QED BY <1>7, FollowEnds
      <4> QED BY <2>2, <4>1
    <3>2. IsQueue(q2, <<>>, <<>>, e) /\ IsQueue(q1, <<>>, <<>>, FALSE) /\ e \in BOOLEAN /\ s1 \in Seq(Unended)
      BY <1>7, <3>1 DEF Leads, IsQueue
    <3>3. CASE e
      <4>1. s2 = s1 \o z
        BY <3>1, <3>3 DEF Closing
      <4>2. output' = Append(output, "1") /\ m_mismatchDetected' = m_mismatchDetected
        BY <2>2, <3>1, <3>3, SeriesEndMeans
      <4>3. output' # <<>>
        <5>1. Append(<<>>, "1") # <<>>
          OBVIOUS
        <5> QED BY <1>3, <4>2, <5>1
      <4>4. sent'[i] = sent'[1 - i]
        BY <1>2, <4>1
      <4>5. sent'[0] = sent'[1] /\ sent'[0] = s1 \o z
        BY <1>2, <4>4 DEF Eq!Channel
      <4>6. \E k \in 1 .. Len(sent'[0]) : sent'[0][k] = Eq!SeriesEnd
        BY <1>1, <4>5, ClosedIsOver
      <4> QED BY <1>2, <4>2, <4>3, <4>5, <4>6 DEF VerdictInv, FoundEqual
    <3>4. CASE ~e
      <4>1. e = FALSE
        BY <3>2, <3>4
      <4>2. s2 = s1
        <5>1. Closing(FALSE) = <<>> /\ s1 \o <<>> = s1
          BY <1>1 DEF Closing
        <5> QED BY <3>1, <4>1, <5>1
      <4>3. Leads(q1, q2, s1, s2, <<>>, <<>>, FALSE)
        <5>1. <<>> \in Seq(Byte) /\ Closing(FALSE) = <<>> /\ <<>> \o <<>> = <<>>
          BY DEF Closing
        <5>2. ItemsOf(<<>>, <<>>, FALSE) = <<>>
          BY <5>1, NothingEnded
        <5>3. s1 = s2 \o <<>>
          BY <1>1, <4>2
        <5> QED BY <3>2, <4>1, <4>2, <5>2, <5>3 DEF Leads
      <4> QED BY <1>6, <4>3
    <3> QED BY <3>3, <3>4
  <2> QED BY <2>1, <2>2
<1>8. ASSUME Unnoticed(q1, q2, s1, s2) PROVE FALSE
  <2>1. PICK y \in Seq(Unended), x \in Seq(Byte) : x # <<>> /\ s1 = y \o x
    BY <1>8 DEF Unnoticed
  <2> DEFINE n == Len(x)
  <2>2. n \in Nat /\ n # 0
    BY <2>1
  <2>3. n \in 1 .. n /\ x[n] \in Byte
    BY <2>2
  <2>4. y \in Seq(Item) /\ x \in Seq(Item)
    BY UnendedIsItem DEF Item
  <2>5. Len(s1) = Len(y) + n /\ s1[Len(y) + n] = x[n] /\ Len(y) \in Nat
    <3> HIDE DEF s1
    <3> QED BY <2>1, <2>3, <2>4, ElementsJoined
  <2> HIDE DEF n, s1
  <2>6. Last(s1) = x[n] /\ s1 # <<>>
    <3>1. Last(s1) = x[n]
      BY <2>5 DEF Last
    <3>2. Len(s1) # 0 /\ Len(<<>>) = 0
      BY <2>2, <2>5
    <3> QED BY <3>1, <3>2
  <2> QED BY <1>5, <2>3, <2>6
<1> QED BY <1>3, <1>6, <1>7, <1>8

-----------------------------------------------------------------------------

\* The invariant holds initially.
LEMMA VerdictStarts ==
  ASSUME Eq!Init
  PROVE  VerdictInv
<1>1. /\ m_q = [i \in Eq!Channel |-> Eq!Empty] /\ m_mismatchDetected = FALSE /\ output = <<>>
      /\ sent = [i \in Eq!Channel |-> <<>>]
  BY DEF Eq!Init
<1>2. sent \in [Eq!Channel -> Seq(Item)]
  BY <1>1
<1>3. 0 \in Eq!Channel /\ 1 - 0 = 1 /\ 1 \in Eq!Channel
  BY DEF Eq!Channel
<1>4. m_q[0] = Eq!Empty /\ m_q[1 - 0] = Eq!Empty /\ sent[0] = <<>> /\ sent[1 - 0] = <<>>
  BY <1>1, <1>3
<1>5. <<>> = <<>> \o ItemsOf(<<>>, <<>>, FALSE)
  <2>1. <<>> \in Seq(Byte) /\ Closing(FALSE) = <<>> /\ <<>> \o <<>> = <<>>
    BY DEF Closing
  <2> QED BY <2>1, NothingEnded
<1>6. <<>> \in Seq(Unended)
  OBVIOUS
<1>7. Leads(m_q[0], m_q[1 - 0], sent[0], sent[1 - 0], <<>>, <<>>, FALSE)
  BY <1>4, <1>5, <1>6, EmptyIs DEF Leads
<1> QED BY <1>1, <1>2, <1>3, <1>7 DEF VerdictInv, Agreeing, Lead

\* Every step keeps it.
LEMMA VerdictStays ==
  ASSUME Eq!EqualityAssumption, MaxSeries = 1, VerdictInv, [Eq!Next]_(Eq!vars)
  PROVE  VerdictInv'
<1>1. Told
  BY ItemsAreTold
<1>2. CASE \E i \in Eq!Channel, s \in Eq!BoundedSeq(Byte, MaxPiece), messageEnd \in BOOLEAN :
             /\ Eq!Sends(i, s \o (IF messageEnd THEN <<Eq!End>> ELSE <<>>))
             /\ Eq!ChannelPut2(i, s, messageEnd)
  <2>1. PICK i \in Eq!Channel, s \in Eq!BoundedSeq(Byte, MaxPiece), messageEnd \in BOOLEAN :
             /\ Eq!Sends(i, s \o (IF messageEnd THEN <<Eq!End>> ELSE <<>>))
             /\ Eq!ChannelPut2(i, s, messageEnd)
    BY <1>2
  <2>2. s \in Seq(Byte)
    <3>1. MaxPiece \in Nat
      BY DEF Eq!EqualityAssumption
    <3>2. s \in UNION {[1 .. m -> Byte] : m \in 0 .. MaxPiece}
      BY <2>1 DEF Eq!BoundedSeq, Eq!SeqOf
    <3>3. PICK m \in 0 .. MaxPiece : s \in [1 .. m -> Byte]
      BY <3>2
    <3>4. m \in Nat
      BY <3>1
    <3> QED BY <3>3, <3>4
  <2>3. Eq!Sends(i, Brought(s, messageEnd))
    BY <2>1 DEF Brought
  <2> QED BY <1>1, <2>1, <2>2, <2>3, PutKeepsVerdict
<1>3. CASE \E i \in Eq!Channel :
             /\ Eq!AtMessageEnd(i) /\ Eq!Sends(i, <<Eq!SeriesEnd>>)
             /\ Eq!ChannelMessageSeriesEnd(i)
  BY <1>1, <1>3, SeriesEndKeepsVerdict
<1>4. CASE UNCHANGED Eq!vars
  BY <1>4 DEF Eq!vars, VerdictInv, Agreeing, Overrun, FoundEqual, FoundUnequal
<1> QED BY <1>2, <1>3, <1>4 DEF Eq!Next, Eq!Rests

\* Until a verdict is told, one channel leads and its queue holds the lead, or
\* bytes have gone on unnoticed where the other series is over; the verdict told
\* is that of the two inputs (mqueue.cpp:84-162).
THEOREM VerdictInvHolds ==
  ASSUME Eq!EqualityAssumption, MaxSeries = 1
  PROVE  Eq!Spec => []VerdictInv
<1>1. Eq!Init => VerdictInv
  BY VerdictStarts
<1>2. VerdictInv /\ [Eq!Next]_(Eq!vars) => VerdictInv'
  BY VerdictStays
<1> QED BY <1>1, <1>2, PTL DEF Eq!Spec

-----------------------------------------------------------------------------
\* What it gives.

\* What it means to be a prefix.
LEMMA PrefixIs ==
  \A s, t : Eq!IsPrefix(s, t) <=> Len(s) <= Len(t) /\ SubSeq(s, 1, Len(s)) = SubSeq(t, 1, Len(s))
BY DEF Eq!IsPrefix

\* A sequence is a prefix of what is joined to it.
LEMMA LeadIsPrefix ==
  ASSUME NEW s \in Seq(Item), NEW x \in Seq(Item)
  PROVE  Eq!IsPrefix(s, s \o x)
<1>1. Len(s \o x) = Len(s) + Len(x) /\ Len(s) \in Nat /\ Len(x) \in Nat
  OBVIOUS
<1>2. Len(s) \in 0 .. Len(s)
  BY <1>1
<1>3. SubSeq(s \o x, 1, Len(s)) = SubSeq(s, 1, Len(s))
  BY <1>2, CutJoined
<1>4. Len(s) <= Len(s \o x)
  BY <1>1
<1> QED BY <1>3, <1>4, PrefixIs, Zenon

\* A prefix is the same as far as it goes.
LEMMA PrefixIsSame ==
  ASSUME NEW s \in Seq(Item), NEW t \in Seq(Item), Eq!IsPrefix(s, t)
  PROVE  \A k \in 1 .. Len(s) : s[k] = t[k] /\ k \in 1 .. Len(t)
<1>1. Len(s) <= Len(t) /\ SubSeq(s, 1, Len(s)) = SubSeq(t, 1, Len(s)) /\ Len(s) \in Nat /\ Len(t) \in Nat
  BY PrefixIs
<1>2. ASSUME NEW k \in 1 .. Len(s) PROVE s[k] = t[k] /\ k \in 1 .. Len(t)
  <2>1. k \in 1 .. Len(t)
    BY <1>1
  <2>2. SubSeq(s, 1, Len(s))[k] = s[k] /\ SubSeq(t, 1, Len(s))[k] = t[k]
    BY <1>1, <2>1
  <2> QED BY <1>1, <2>1, <2>2
<1> QED BY <1>2

\* Sequences that differ are no prefixes of each other.
LEMMA DifferAreNoPrefixes ==
  ASSUME NEW s \in Seq(Item), NEW t \in Seq(Item), Differ(s, t)
  PROVE  ~Eq!IsPrefix(s, t) /\ ~Eq!IsPrefix(t, s) /\ s # t
<1>1. PICK k \in 1 .. Len(s) : k \in 1 .. Len(t) /\ s[k] # t[k]
  BY DEF Differ
<1> QED BY <1>1, PrefixIsSame

\* A sequence is a prefix of itself.
LEMMA SameIsPrefix ==
  ASSUME NEW s \in Seq(Item)
  PROVE  Eq!IsPrefix(s, s)
<1>1. Len(s) <= Len(s)
  OBVIOUS
<1> QED BY <1>1, PrefixIs

\* The invariant implies the property.
LEMMA VerdictInvIsRight ==
  ASSUME Told, VerdictInv
  PROVE  Eq!VerdictIsRight
<1>0. 0 \in Eq!Channel /\ 1 \in Eq!Channel /\ 1 - 0 = 1 /\ 1 - 1 = 0
  BY DEF Eq!Channel
<1>1. sent[0] \in Seq(Item) /\ sent[1] \in Seq(Item)
  BY <1>0 DEF VerdictInv
<1>2. CASE Agreeing
  <2>1. PICK i \in Eq!Channel : Lead(m_q[i], m_q[1 - i], sent[i], sent[1 - i])
    BY <1>2 DEF Agreeing
  <2>2. PICK c, o, e : Leads(m_q[i], m_q[1 - i], sent[i], sent[1 - i], c, o, e)
    BY <2>1 DEF Lead
  <2> DEFINE x == ItemsOf(c, o, e)
             s == sent[1 - i]
  <2>3. s \in Seq(Unended) /\ sent[i] = s \o x /\ s \in Seq(Item)
    BY <2>2, UnendedIsItem DEF Leads
  <2>4. x \in Seq(Item)
    <3>1. c \in Seq(Seq(Byte)) /\ o \in Seq(Byte) /\ e \in BOOLEAN
      BY <2>2 DEF Leads, IsQueue
    <3> QED BY <3>1, ItemsAre
  <2> HIDE DEF x
  <2>5. Eq!IsPrefix(s, sent[i])
    BY <2>3, <2>4, LeadIsPrefix
  <2>6. Eq!SameSoFar
    BY <2>5 DEF Eq!SameSoFar, Eq!Channel
  <2>7. sent[0] = sent[1] /\ sent[0] # <<>> => Eq!Last(sent[0]) # Eq!SeriesEnd
    <3> SUFFICES ASSUME sent[0] = sent[1], sent[0] # <<>> PROVE Eq!Last(sent[0]) # Eq!SeriesEnd
      OBVIOUS
    <3>1. sent[0] = s
      BY DEF Eq!Channel
    <3>2. Len(sent[0]) \in Nat /\ Len(sent[0]) # 0
      BY <1>1
    <3>3. Len(sent[0]) \in 1 .. Len(sent[0])
      BY <3>2
    <3>4. sent[0][Len(sent[0])] \in Unended
      BY <2>3, <3>1, <3>3
    <3> QED BY <3>4 DEF Eq!Last, Told, Unended
  <2> QED BY <1>2, <2>6, <2>7 DEF Agreeing, Eq!VerdictIsRight, Eq!MismatchIsReal
<1>3. CASE Overrun
  <2>1. PICK i \in Eq!Channel : Unnoticed(m_q[i], m_q[1 - i], sent[i], sent[1 - i])
    BY <1>3 DEF Overrun
  <2>2. Differ(sent[i], sent[1 - i])
    BY <2>1, UnnoticedDiffer
  <2>3. sent[0] # sent[1]
    <3>1. sent[i] \in Seq(Item) /\ sent[1 - i] \in Seq(Item)
      BY OtherChannel DEF VerdictInv
    <3>2. sent[i] # sent[1 - i]
      BY <2>2, <3>1, DifferAreNoPrefixes
    <3> QED BY <3>2 DEF Eq!Channel
  <2>4. ~Eq!AtMessageEnd(i)
    <3>1. PICK y \in Seq(Unended), x \in Seq(Byte) : x # <<>> /\ sent[i] = y \o x
      BY <2>1 DEF Unnoticed
    <3> DEFINE n == Len(x)
               s == sent[i]
    <3>2. n \in Nat /\ n # 0
      BY <3>1
    <3>3. n \in 1 .. n /\ x[n] \in Byte
      BY <3>2
    <3>4. y \in Seq(Item) /\ x \in Seq(Item)
      BY UnendedIsItem DEF Item
    <3>5. s = y \o x
      BY <3>1
    <3> HIDE DEF s
    <3>6. Len(s) = Len(y) + n /\ s[Len(y) + n] = x[n] /\ Len(y) \in Nat
      BY <3>3, <3>4, <3>5, ElementsJoined
    <3> HIDE DEF n
    <3>7. Eq!Last(s) = x[n] /\ s # <<>>
      <4>1. Eq!Last(s) = x[n]
        BY <3>6 DEF Eq!Last
      <4>2. Len(s) # 0 /\ Len(<<>>) = 0
        BY <3>2, <3>6
      <4> QED BY <4>1, <4>2
    <3> QED BY <3>3, <3>7 DEF Eq!AtMessageEnd, s
  <2> QED BY <1>3, <2>3, <2>4 DEF Overrun, Eq!VerdictIsRight, Eq!MismatchIsReal
<1>4. CASE FoundEqual
  <2>1. Eq!IsPrefix(sent[0], sent[1])
    BY <1>1, <1>4, SameIsPrefix DEF FoundEqual
  <2> QED BY <1>4, <2>1 DEF FoundEqual, Eq!VerdictIsRight, Eq!MismatchIsReal, Eq!SameSoFar
<1>5. CASE FoundUnequal
  <2>1. ~Eq!IsPrefix(sent[0], sent[1]) /\ ~Eq!IsPrefix(sent[1], sent[0]) /\ sent[0] # sent[1]
    BY <1>1, <1>5, DifferAreNoPrefixes DEF FoundUnequal
  <2> QED BY <1>5, <2>1 DEF FoundUnequal, Eq!VerdictIsRight, Eq!MismatchIsReal, Eq!SameSoFar
<1> QED BY <1>2, <1>3, <1>4, <1>5 DEF VerdictInv

\* In a series of messages, whatever their bytes, lengths and pieces and in
\* whatever order the channels bring them, EqualityComparisonFilter tells a
\* mismatch only of inputs that differ, tells it of all that differ by the end of
\* a message, and tells equality exactly of equal series (mqueue.cpp:84-162).
THEOREM TheVerdictIsRight ==
  ASSUME Eq!EqualityAssumption, MaxSeries = 1
  PROVE  Eq!Spec => []Eq!VerdictIsRight
<1>1. Told
  BY ItemsAreTold
<1>2. VerdictInv => Eq!VerdictIsRight
  BY <1>1, VerdictInvIsRight
<1> QED BY <1>2, VerdictInvHolds, PTL

-----------------------------------------------------------------------------
\* The items that are read from a queue.

\* f tells where each message of the lengths l starts.
StartsOf(f, l) == f = [k \in 0 .. Len(l) |-> IF k = 0 THEN 0 ELSE f[k - 1] + l[k]]

\* The items of q, when f tells where its messages start.
ItemsBy(q, f) ==
  Eq!FlattenSeq([k \in DOMAIN q.lengths |-> SubSeq(q.bytes, f[k - 1] + 1, f[k])
                                           \o (IF k < Len(q.lengths) THEN <<Eq!End>> ELSE <<>>)])
  \o (IF Eq!NumberOfMessageSeries(q) > 0 THEN <<Eq!SeriesEnd>> ELSE <<>>)

\* There is such an f.
LEMMA StartsExist ==
  ASSUME NEW l \in Seq(Nat)
  PROVE  \E f : StartsOf(f, l)
<1> DEFINE w == [k \in Nat |-> IF k + 1 \in 1 .. Len(l) THEN l[k + 1] ELSE 0]
           g == [p \in Nat \X Nat |-> p[2] + w[p[1]]]
<1>1. Len(l) \in Nat /\ \A k \in 1 .. Len(l) : l[k] \in Nat
  OBVIOUS
<1>2. w \in [Nat -> Nat]
  BY <1>1
<1>3. PICK h \in [Nat -> Nat] : h[0] = 0 /\ \A n \in Nat : h[n + 1] = g[<<n, h[n]>>]
  <2> DEFINE S == Nat
             a == 0
  <2>1. Defines(S, a, g)
    <3> HIDE DEF w
    <3>1. \A p \in Nat \X Nat : p[1] \in Nat /\ p[2] \in Nat
      OBVIOUS
    <3>2. \A p \in Nat \X Nat : p[2] + w[p[1]] \in Nat
      <4>1. \A i, j \in Nat : j + w[i] \in Nat
        BY <1>2
      <4> QED BY <3>1, <4>1, Zenon
    <3> QED BY <3>2 DEF Defines
  <2> HIDE DEF g, S, a
  <2>2. \E f : DefinedBy(f, S, a, g)
    BY <2>1, Recursion
  <2> QED BY <2>2 DEF S, a, DefinedBy
<1>4. \A n \in Nat : h[n + 1] = h[n] + w[n]
  <2>1. \A n \in Nat : <<n, h[n]>> \in Nat \X Nat
    BY <1>3
  <2> HIDE DEF w
  <2>2. \A n \in Nat : g[<<n, h[n]>>] = h[n] + w[n]
    BY <2>1
  <2> HIDE DEF g
  <2> QED BY <1>3, <2>2
<1> DEFINE f == [k \in 0 .. Len(l) |-> h[k]]
<1>5. ASSUME NEW k \in 0 .. Len(l)
      PROVE  f[k] = IF k = 0 THEN 0 ELSE f[k - 1] + l[k]
  <2>1. CASE k = 0
    BY <2>1, <1>3
  <2>2. CASE k # 0
    <3>1. k - 1 \in Nat /\ k - 1 \in 0 .. Len(l) /\ (k - 1) + 1 = k /\ k \in 1 .. Len(l)
      BY <1>1, <2>2
    <3>2. w[k - 1] = l[k]
      BY <3>1
    <3>3. f[k] = h[k] /\ f[k - 1] = h[k - 1]
      BY <3>1
    <3> HIDE DEF w, f
    <3>4. h[(k - 1) + 1] = h[k - 1] + w[k - 1]
      BY <3>1, <1>4
    <3> QED BY <2>2, <3>1, <3>2, <3>3, <3>4
  <2> QED BY <2>1, <2>2
<1>6. f = [k \in 0 .. Len(l) |-> IF k = 0 THEN 0 ELSE f[k - 1] + l[k]]
  BY <1>5
<1> HIDE DEF f
<1>7. StartsOf(f, l)
  BY <1>6 DEF StartsOf
<1> QED BY <1>7

\* The items the property reads from a queue are read so.
LEMMA ItemsAreBy ==
  ASSUME NEW q, q.lengths \in Seq(Nat)
  PROVE  \E f : StartsOf(f, q.lengths) /\ Eq!Items(q) = ItemsBy(q, f)
<1>1. \E f : StartsOf(f, q.lengths)
  BY StartsExist
<1> DEFINE m == CHOOSE h : StartsOf(h, q.lengths)
<1>2. StartsOf(m, q.lengths)
  BY <1>1, Zenon
<1>3. Eq!Items(q) = ItemsBy(q, m)
  BY Zenon DEF Eq!Items, ItemsBy, StartsOf
<1> HIDE DEF m
<1> QED BY <1>2, <1>3

\* A sequence of messages, one more of them, and the others.
LEMMA UpTo ==
  ASSUME NEW S, NEW c \in Seq(S), NEW k \in 0 .. Len(c) - 1
  PROVE  /\ SubSeq(c, 1, k) \in Seq(S) /\ SubSeq(c, 1, k + 1) \in Seq(S) /\ c[k + 1] \in S
         /\ SubSeq(c, 1, k + 1) = Append(SubSeq(c, 1, k), c[k + 1])
<1> DEFINE a == SubSeq(c, 1, k)
           b == SubSeq(c, 1, k + 1)
           x == c[k + 1]
           d == Append(a, x)
<1>1. Len(c) \in Nat /\ k \in Nat /\ k + 1 \in 1 .. Len(c) /\ x \in S
  OBVIOUS
<1>2. a \in Seq(S) /\ Len(a) = k /\ \A i \in 1 .. k : a[i] = c[i]
  BY <1>1
<1>3. b \in Seq(S) /\ Len(b) = k + 1 /\ \A i \in 1 .. k + 1 : b[i] = c[i]
  BY <1>1
<1> HIDE DEF a, b, x
<1>4. d \in Seq(S) /\ Len(d) = k + 1 /\ d[k + 1] = x /\ \A i \in 1 .. k : d[i] = a[i]
  BY <1>1, <1>2, AppendProperties
<1> HIDE DEF d
<1>5. ASSUME NEW i \in 1 .. k + 1 PROVE b[i] = d[i]
  <2>1. CASE i = k + 1
    BY <2>1, <1>1, <1>3, <1>4 DEF x
  <2>2. CASE i # k + 1
    <3>1. i \in 1 .. k
      BY <1>1, <2>2
    <3> QED BY <3>1, <1>2, <1>3, <1>4
  <2> QED BY <2>1, <2>2
<1>6. b = d
  BY <1>3, <1>4, <1>5, SeqEqual
<1> QED BY <1>1, <1>2, <1>3, <1>6 DEF a, b, x, d

\* The middle one of three sequences joined.
LEMMA CutMiddle ==
  ASSUME NEW S, NEW a \in Seq(S), NEW x \in Seq(S), NEW r \in Seq(S)
  PROVE  SubSeq((a \o x) \o r, Len(a) + 1, Len(a) + Len(x)) = x
<1> DEFINE u == a \o x
           v == u \o r
           m == Len(a)
           n == Len(x)
           w == SubSeq(v, m + 1, m + n)
<1>1. /\ u \in Seq(S) /\ Len(u) = m + n /\ m \in Nat /\ n \in Nat
      /\ \A k \in 1 .. n : u[m + k] = x[k]
  BY ElementsJoined
<1> HIDE DEF u
<1>2. v \in Seq(S) /\ Len(v) = Len(u) + Len(r) /\ Len(r) \in Nat
      /\ \A k \in 1 .. Len(u) : v[k] = u[k]
  <2>1. u \in Seq(S)
    BY <1>1
  <2> QED BY <2>1, ElementsJoined
<1> HIDE DEF v, m, n
<1>3. w \in Seq(S) /\ Len(w) = n /\ \A k \in 1 .. n : w[k] = v[m + k]
  BY <1>1, <1>2
<1> HIDE DEF w
<1>4. ASSUME NEW k \in 1 .. n PROVE w[k] = x[k]
  <2>1. m + k \in 1 .. Len(u)
    BY <1>1
  <2> QED BY <2>1, <1>1, <1>2, <1>3
<1>5. w = x
  BY <1>3, <1>4, SeqEqual DEF n
<1> QED BY <1>5 DEF w, v, u, m, n

\* Where the messages start in their bytes.
LEMMA StartsAre ==
  ASSUME NEW c \in Seq(Seq(Byte)), NEW o \in Seq(Byte), NEW f, StartsOf(f, Append(Lengths(c), Len(o)))
  PROVE  /\ \A k \in 0 .. Len(c) : f[k] = Len(FlattenSeq(SubSeq(c, 1, k)))
         /\ f[Len(c) + 1] = Len(FlattenSeq(c)) + Len(o)
<1> DEFINE n == Len(c)
           l == Append(Lengths(c), Len(o))
           F(k) == FlattenSeq(SubSeq(c, 1, k))
           T == {k \in Nat : k <= n => f[k] = Len(F(k))}
<1>1. /\ n \in Nat /\ Len(o) \in Nat /\ Lengths(c) \in Seq(Nat) /\ Len(Lengths(c)) = n
      /\ \A k \in 1 .. n : Lengths(c)[k] = Len(c[k])
  BY EndedIs
<1>2. /\ Len(l) = n + 1 /\ l[n + 1] = Len(o)
      /\ \A k \in 1 .. n : l[k] = Len(c[k])
  BY <1>1, AppendProperties
<1> HIDE DEF l
<1>3. f = [k \in 0 .. Len(l) |-> IF k = 0 THEN 0 ELSE f[k - 1] + l[k]]
  BY DEF StartsOf, l
<1> HIDE DEF n
<1>4. f[0] = 0 /\ \A k \in 0 .. n : f[k + 1] = f[k] + l[k + 1]
  <2>1. 0 \in 0 .. Len(l)
    BY <1>1, <1>2
  <2>2. f[0] = 0
    BY <1>3, <2>1
  <2>3. ASSUME NEW k \in 0 .. n PROVE f[k + 1] = f[k] + l[k + 1]
    <3>1. k + 1 \in 0 .. Len(l) /\ k + 1 # 0 /\ (k + 1) - 1 = k
      BY <1>1, <1>2
    <3> QED BY <3>1, <1>3
  <2> QED BY <2>2, <2>3
<1>5. 0 \in T
  <2>1. SubSeq(c, 1, 0) = <<>> /\ Len(<<>>) = 0
    OBVIOUS
  <2>2. F(0) = <<>>
    BY <2>1, FlattenNone
  <2> QED BY <1>4, <2>1, <2>2
<1>6. ASSUME NEW k \in Nat, k \in T PROVE k + 1 \in T
  <2> SUFFICES ASSUME k + 1 <= n PROVE f[k + 1] = Len(F(k + 1))
    OBVIOUS
  <2> DEFINE a == SubSeq(c, 1, k)
             x == c[k + 1]
  <2>1. k \in 0 .. Len(c) - 1 /\ k \in 0 .. n /\ k + 1 \in 1 .. n
    BY <1>1 DEF n
  <2>2. a \in Seq(Seq(Byte)) /\ x \in Seq(Byte) /\ SubSeq(c, 1, k + 1) = Append(a, x)
    BY <2>1, UpTo
  <2> HIDE DEF a, x
  <2>3. F(k + 1) = FlattenSeq(a) \o x /\ FlattenSeq(a) \in Seq(Byte)
    BY <2>2, FlattenGrows, FlattenIsSequence
  <2>4. Len(F(k + 1)) = Len(FlattenSeq(a)) + Len(x)
    <3> DEFINE b == FlattenSeq(a)
    <3>1. b \in Seq(Byte) /\ x \in Seq(Byte)
      BY <2>2, <2>3
    <3> HIDE DEF b
    <3>2. Len(b \o x) = Len(b) + Len(x)
      BY <3>1
    <3> QED BY <2>3, <3>2 DEF b
  <2>5. f[k] = Len(FlattenSeq(a))
    BY <1>1, <1>6, <2>1 DEF a
  <2>6. f[k + 1] = f[k] + Len(x)
    BY <1>2, <1>4, <2>1 DEF x
  <2> QED BY <2>4, <2>5, <2>6
<1> HIDE DEF T
<1>7. Nat \subseteq T
  BY <1>5, <1>6, AllNaturals
<1>8. \A k \in 0 .. n : f[k] = Len(F(k))
  BY <1>1, <1>7 DEF T
<1>9. f[n + 1] = Len(FlattenSeq(c)) + Len(o)
  <2>1. SubSeq(c, 1, n) = c
    BY DEF n
  <2>2. n \in 0 .. n
    BY <1>1
  <2>3. f[n] = Len(FlattenSeq(c))
    BY <1>8, <2>1, <2>2
  <2> QED BY <1>2, <1>4, <2>2, <2>3
<1> QED BY <1>8, <1>9 DEF n

\* Read so, every message is what it was.
LEMMA MessagesRead ==
  ASSUME NEW c \in Seq(Seq(Byte)), NEW o \in Seq(Byte), NEW f, StartsOf(f, Append(Lengths(c), Len(o)))
  PROVE  /\ \A k \in 1 .. Len(c) : SubSeq(FlattenSeq(c) \o o, f[k - 1] + 1, f[k]) = c[k]
         /\ SubSeq(FlattenSeq(c) \o o, f[Len(c)] + 1, f[Len(c) + 1]) = o
<1> DEFINE n == Len(c)
           b == FlattenSeq(c) \o o
<1>1. n \in Nat /\ FlattenSeq(c) \in Seq(Byte)
  BY FlattenIsSequence
<1>2. \A k \in 0 .. n : f[k] = Len(FlattenSeq(SubSeq(c, 1, k)))
  BY StartsAre
<1>3. f[n + 1] = Len(FlattenSeq(c)) + Len(o)
  BY StartsAre
<1>4. ASSUME NEW k \in 1 .. n PROVE SubSeq(b, f[k - 1] + 1, f[k]) = c[k]
  <2> DEFINE j == k - 1
             x == c[k]
             p == SubSeq(c, 1, j)
             r == SubSeq(c, k + 1, n)
             a == FlattenSeq(p)
             d == FlattenSeq(r)
  <2>1. j \in 0 .. Len(c) - 1 /\ j + 1 = k /\ j \in 0 .. n /\ k \in 0 .. n /\ k \in 0 .. Len(c)
    BY <1>1
  <2> HIDE DEF j
  <2>2. p \in Seq(Seq(Byte)) /\ x \in Seq(Byte) /\ SubSeq(c, 1, k) = Append(p, x)
        /\ Append(p, x) \in Seq(Seq(Byte))
    BY <2>1, UpTo
  <2>3. r \in Seq(Seq(Byte)) /\ c = SubSeq(c, 1, k) \o r
    BY <2>1, Part
  <2> HIDE DEF p, x, r
  <2>4. /\ FlattenSeq(Append(p, x)) = a \o x /\ a \in Seq(Byte) /\ d \in Seq(Byte)
        /\ FlattenSeq(c) = FlattenSeq(Append(p, x)) \o d
    <3>1. FlattenSeq(Append(p, x)) = FlattenSeq(p) \o x
      BY <2>2, FlattenGrows
    <3>2. a \in Seq(Byte) /\ d \in Seq(Byte)
      BY <2>2, <2>3, FlattenIsSequence
    <3> DEFINE u == Append(p, x)
    <3>3. u \in Seq(Seq(Byte)) /\ c = u \o r
      BY <2>2, <2>3
    <3> HIDE DEF u
    <3>4. FlattenSeq(u \o r) = FlattenSeq(u) \o FlattenSeq(r)
      BY <2>3, <3>3, FlattenJoin
    <3> QED BY <3>1, <3>2, <3>3, <3>4 DEF u
  <2>5. f[j] = Len(a) /\ f[k] = Len(a \o x)
    <3>1. f[j] = Len(FlattenSeq(SubSeq(c, 1, j)))
      BY <1>2, <2>1
    <3>2. f[k] = Len(FlattenSeq(SubSeq(c, 1, k)))
      BY <1>2, <2>1
    <3> QED BY <2>2, <2>4, <3>1, <3>2 DEF p
  <2> HIDE DEF a, d
  <2>6. f[k] = Len(a) + Len(x)
    <3>1. Len(a \o x) = Len(a) + Len(x)
      BY <2>2, <2>4
    <3> QED BY <2>5, <3>1
  <2>7. b = (a \o x) \o (d \o o) /\ d \o o \in Seq(Byte)
    <3>1. a \o x \in Seq(Byte)
      BY <2>2, <2>4
    <3> DEFINE y == a \o x
    <3>2. y \in Seq(Byte) /\ d \in Seq(Byte)
      BY <2>4, <3>1
    <3> HIDE DEF y
    <3>3. (y \o d) \o o = y \o (d \o o) /\ d \o o \in Seq(Byte)
      <4>1. \A u, v, w \in Seq(Byte) : (u \o v) \o w = u \o (v \o w) /\ v \o w \in Seq(Byte)
        BY Rejoined
      <4>2. o \in Seq(Byte)
        OBVIOUS
      <4> QED BY <3>2, <4>1, <4>2, Zenon
    <3> QED BY <2>4, <3>3 DEF y
  <2>8. SubSeq((a \o x) \o (d \o o), Len(a) + 1, Len(a) + Len(x)) = x
    <3> DEFINE w == d \o o
    <3>1. w \in Seq(Byte)
      BY <2>7
    <3> HIDE DEF w
    <3>2. a \in Seq(Byte) /\ x \in Seq(Byte)
      BY <2>2, <2>4
    <3>3. SubSeq((a \o x) \o w, Len(a) + 1, Len(a) + Len(x)) = x
      BY <3>1, <3>2, CutMiddle
    <3> QED BY <3>3 DEF w
  <2> QED BY <2>5, <2>6, <2>7, <2>8 DEF j, x
<1>5. SubSeq(b, f[n] + 1, f[n + 1]) = o
  <2>1. SubSeq(c, 1, n) = c /\ n \in 0 .. n
    BY <1>1
  <2>2. f[n] = Len(FlattenSeq(c))
    BY <1>2, <2>1
  <2> DEFINE a == FlattenSeq(c)
  <2>3. a \in Seq(Byte)
    BY <1>1
  <2> HIDE DEF a
  <2>4. SubSeq(a \o o, Len(a) + 1, Len(a \o o)) = o /\ Len(a \o o) = Len(a) + Len(o)
    BY <2>3, CutJoined, ElementsJoined
  <2> QED BY <1>3, <2>2, <2>4 DEF a
<1> QED BY <1>4, <1>5

\* The items read from a queue are those it holds.
LEMMA ItemsOfQueue ==
  ASSUME NEW q, NEW c, NEW o, NEW e, IsQueue(q, c, o, e)
  PROVE  Eq!Items(q) = ItemsOf(c, o, e)
<1> DEFINE l == q.lengths
           n == Len(c)
<1>1. /\ c \in Seq(Seq(Byte)) /\ o \in Seq(Byte) /\ e \in BOOLEAN
      /\ q.bytes = FlattenSeq(c) \o o
      /\ l = Append(Lengths(c), Len(o))
      /\ Len(q.counts) = IF e THEN 2 ELSE 1
      /\ l \in Seq(Nat)
  BY QueueFields DEF IsQueue
<1>2. PICK f : StartsOf(f, l) /\ Eq!Items(q) = ItemsBy(q, f)
  BY <1>1, ItemsAreBy
<1>3. Len(l) = n + 1 /\ n \in Nat /\ DOMAIN l = 1 .. n + 1
  <2>1. Lengths(c) \in Seq(Nat) /\ Len(Lengths(c)) = n /\ n \in Nat
    BY <1>1, EndedIs
  <2>2. Len(l) = n + 1
    <3> DEFINE a == Len(o)
    <3> HIDE DEF a
    <3>1. a \in Nat
      BY <1>1 DEF a
    <3>2. Len(Append(Lengths(c), a)) = n + 1
      BY <2>1, <3>1
    <3> QED BY <1>1, <3>2 DEF a
  <2> QED BY <1>1, <2>1, <2>2
<1>r. /\ \A k \in 1 .. n : SubSeq(q.bytes, f[k - 1] + 1, f[k]) = c[k]
      /\ SubSeq(q.bytes, f[n] + 1, f[n + 1]) = o
  <2>1. StartsOf(f, Append(Lengths(c), Len(o)))
    BY <1>1, <1>2
  <2>2. c \in Seq(Seq(Byte)) /\ o \in Seq(Byte)
    BY <1>1
  <2>3. /\ \A k \in 1 .. Len(c) : SubSeq(FlattenSeq(c) \o o, f[k - 1] + 1, f[k]) = c[k]
        /\ SubSeq(FlattenSeq(c) \o o, f[Len(c)] + 1, f[Len(c) + 1]) = o
    BY <2>1, <2>2, MessagesRead
  <2>4. q.bytes = FlattenSeq(c) \o o
    BY <1>1
  <2> QED BY <2>3, <2>4
<1> DEFINE g == [k \in DOMAIN l |-> SubSeq(q.bytes, f[k - 1] + 1, f[k])
                                   \o (IF k < Len(l) THEN <<Eq!End>> ELSE <<>>)]
           h == Append(Ended(c), o)
<1>4. g = h
  <2>1. /\ Ended(c) \in Seq(Seq(Item)) /\ Len(Ended(c)) = n
        /\ \A k \in 1 .. n : Ended(c)[k] = Append(c[k], Eq!End)
    BY <1>1, EndedIs
  <2>2. o \in Seq(Item)
    BY <1>1 DEF Item
  <2>3. h \in Seq(Seq(Item)) /\ Len(h) = n + 1 /\ h[n + 1] = o /\ \A k \in 1 .. n : h[k] = Ended(c)[k]
    BY <2>1, <2>2, AppendProperties
  <2> HIDE DEF h
  <2>4. ASSUME NEW k \in 1 .. n + 1 PROVE g[k] = h[k]
    <3>1. CASE k = n + 1
      <4>1. SubSeq(q.bytes, f[k - 1] + 1, f[k]) = o
        <5>1. k - 1 = n
          BY <1>3, <3>1
        <5> QED BY <1>r, <3>1, <5>1
      <4>2. ~(k < Len(l)) /\ k \in DOMAIN l
        BY <1>3, <3>1
      <4>3. o \o <<>> = o
        BY <1>1
      <4> QED BY <2>3, <3>1, <4>1, <4>2, <4>3
    <3>2. CASE k # n + 1
      <4>1. k \in 1 .. n /\ k < Len(l) /\ k \in DOMAIN l
        BY <1>3, <3>2
      <4>2. SubSeq(q.bytes, f[k - 1] + 1, f[k]) = c[k]
        BY <1>r, <4>1
      <4>3. c[k] \o <<Eq!End>> = Append(c[k], Eq!End)
        <5>1. c[k] \in Seq(Item) /\ Eq!End \in Item
          <6>1. c[k] \in Seq(Byte)
            BY <1>1, <4>1
          <6> QED BY <6>1 DEF Item
        <5> QED BY <5>1
      <4> QED BY <2>1, <2>3, <4>1, <4>2, <4>3
    <3> QED BY <3>1, <3>2
  <2>5. DOMAIN h = 1 .. n + 1 /\ h = [k \in 1 .. n + 1 |-> h[k]]
    BY <1>3, <2>3
  <2>6. g = [k \in 1 .. n + 1 |-> g[k]]
    BY <1>3
  <2> HIDE DEF g
  <2> QED BY <2>4, <2>5, <2>6
<1>5. FlattenSeq(h) = FlattenSeq(Ended(c)) \o o
  <2>1. Ended(c) \in Seq(Seq(Item)) /\ o \in Seq(Item)
    BY <1>1, EndedIs, ItemsAre
  <2> QED BY <2>1, FlattenGrows
<1>6. (IF Eq!NumberOfMessageSeries(q) > 0 THEN <<Eq!SeriesEnd>> ELSE <<>>) = Closing(e)
  <2>1. Eq!NumberOfMessageSeries(q) > 0 <=> e
    BY <1>1 DEF Eq!NumberOfMessageSeries
  <2> QED BY <2>1 DEF Closing
<1>7. ItemsBy(q, f) = Eq!FlattenSeq(g) \o Closing(e)
  BY <1>6, Zenon DEF ItemsBy
<1>8. Eq!FlattenSeq(h) = FlattenSeq(h)
  BY Zenon DEF Eq!FlattenSeq, FlattenSeq
<1>9. (FlattenSeq(Ended(c)) \o o) \o Closing(e) = FlattenSeq(Ended(c)) \o (o \o Closing(e))
  <2> DEFINE x == FlattenSeq(Ended(c))
             z == Closing(e)
  <2>1. x \in Seq(Item) /\ o \in Seq(Item) /\ z \in Seq(Item)
    BY <1>1, ItemsAre
  <2> HIDE DEF x, z
  <2>2. (x \o o) \o z = x \o (o \o z)
    BY <2>1, Rejoined
  <2> QED BY <2>2 DEF x, z
<1> HIDE DEF g, h
<1> QED BY <1>2, <1>4, <1>5, <1>7, <1>8, <1>9 DEF ItemsOf

\* The invariant implies the property.
LEMMA VerdictInvLeads ==
  ASSUME Told, VerdictInv
  PROVE  Eq!QueueIsTheLead
<1> SUFFICES ASSUME Eq!SameSoFar, output = <<>>, NEW i \in Eq!Channel
    PROVE  Eq!Items(m_q[i]) = SubSeq(sent[i], Len(sent[1 - i]) + 1, Len(sent[i]))
  BY DEF Eq!QueueIsTheLead
<1>1. sent[0] \in Seq(Item) /\ sent[1] \in Seq(Item) /\ sent[i] \in Seq(Item) /\ sent[1 - i] \in Seq(Item)
  BY OtherChannel DEF VerdictInv, Eq!Channel
<1>2. ~Overrun /\ ~FoundEqual /\ ~FoundUnequal
  <2>1. ASSUME Overrun PROVE FALSE
    <3>1. PICK j \in Eq!Channel : Unnoticed(m_q[j], m_q[1 - j], sent[j], sent[1 - j])
      BY <2>1 DEF Overrun
    <3>2. Differ(sent[j], sent[1 - j])
      BY <3>1, UnnoticedDiffer
    <3>3. Differ(sent[0], sent[1])
      BY <3>2, ChannelsDiffer DEF VerdictInv
    <3> QED BY <1>1, <3>3, DifferAreNoPrefixes DEF Eq!SameSoFar
  <2> QED BY <2>1 DEF FoundEqual, FoundUnequal
<1>3. PICK j \in Eq!Channel : Lead(m_q[j], m_q[1 - j], sent[j], sent[1 - j])
  BY <1>2 DEF VerdictInv, Agreeing
<1>4. PICK c, o, e : Leads(m_q[j], m_q[1 - j], sent[j], sent[1 - j], c, o, e)
  BY <1>3 DEF Lead
<1> DEFINE x == ItemsOf(c, o, e)
           s == sent[1 - j]
<1>5. /\ IsQueue(m_q[j], c, o, e) /\ IsQueue(m_q[1 - j], <<>>, <<>>, FALSE)
      /\ s \in Seq(Item) /\ sent[j] = s \o x
  BY <1>4, UnendedIsItem DEF Leads
<1>6. x \in Seq(Item)
  <2>1. c \in Seq(Seq(Byte)) /\ o \in Seq(Byte) /\ e \in BOOLEAN
    BY <1>5 DEF IsQueue
  <2> QED BY <2>1, ItemsAre
<1>7. CASE i = j
  <2>1. Eq!Items(m_q[i]) = x
    BY <1>5, <1>7, ItemsOfQueue
  <2> HIDE DEF x
  <2>2. SubSeq(s \o x, Len(s) + 1, Len(s \o x)) = x
    <3> HIDE DEF s
    <3> QED BY <1>5, <1>6, CutJoined
  <2> QED BY <1>5, <1>7, <2>1, <2>2
<1>8. CASE i = 1 - j
  <2>1. 1 - i = j
    BY <1>8, OtherChannel
  <2>2. Eq!Items(m_q[i]) = <<>>
    <3>1. ItemsOf(<<>>, <<>>, FALSE) = <<>>
      <4>1. <<>> \in Seq(Byte) /\ Closing(FALSE) = <<>> /\ <<>> \o <<>> = <<>>
        BY DEF Closing
      <4> QED BY <4>1, NothingEnded
    <3>2. Eq!Items(m_q[1 - j]) = ItemsOf(<<>>, <<>>, FALSE)
      <4> DEFINE q == m_q[1 - j]
      <4>1. IsQueue(q, <<>>, <<>>, FALSE)
        BY <1>5
      <4> HIDE DEF q
      <4>2. Eq!Items(q) = ItemsOf(<<>>, <<>>, FALSE)
        BY <4>1, ItemsOfQueue, Zenon
      <4> QED BY <4>2 DEF q
    <3> QED BY <1>8, <3>1, <3>2
  <2> HIDE DEF x
  <2>3. Len(sent[j]) = Len(s) + Len(x) /\ Len(s) \in Nat /\ Len(x) \in Nat
    <3> HIDE DEF s
    <3> QED BY <1>5, <1>6, ElementsJoined
  <2>4. SubSeq(s, Len(sent[j]) + 1, Len(s)) = <<>>
    <3> HIDE DEF s
    <3> DEFINE m == Len(sent[j])
    <3>1. m \in Nat /\ m >= Len(s)
      BY <2>3
    <3> HIDE DEF m
    <3>2. SubSeq(s, m + 1, Len(s)) = <<>>
      BY <1>5, <3>1
    <3> QED BY <3>2 DEF m
  <2> QED BY <1>8, <2>1, <2>2, <2>4
<1> QED BY <1>7, <1>8, OtherChannel

\* As long as the channels agree and nothing has been told, the queue of the one
\* that is ahead holds exactly what it is ahead by, message ends included, and the
\* other queue is empty (mqueue.cpp:84-162).
THEOREM TheQueueIsTheLead ==
  ASSUME Eq!EqualityAssumption, MaxSeries = 1
  PROVE  Eq!Spec => []Eq!QueueIsTheLead
<1>1. Told
  BY ItemsAreTold
<1>2. VerdictInv => Eq!QueueIsTheLead
  BY <1>1, VerdictInvLeads
<1> QED BY <1>2, VerdictInvHolds, PTL
=============================================================================
