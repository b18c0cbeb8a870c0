------------------- MODULE FilterWithBufferedInput_proofs -------------------
(***************************************************************************)
(* FilterWithBufferedInput with any sizes and messages of any length: the  *)
(* ring that keeps a part of the input back loses, repeats and reorders    *)
(* nothing, and what is handed on has the lengths promised.                *)
(***************************************************************************)
EXTENDS FilterWithBufferedInput, CommonLemmas

-----------------------------------------------------------------------------
(* The ring.                                                               *)

\* A place in the ring, at most once around.
LEMMA Wraps ==
  ASSUME NEW m \in Nat \ {0}, NEW a \in 0 .. m + m - 1
  PROVE  a % m = IF a < m THEN a ELSE a - m
<1>1. CASE a < m
  <2>1. 0 \in Nat /\ a \in 0 .. m - 1 /\ 0 * m + a = a
    BY <1>1
  <2>2. (0 * m + a) % m = a
    BY <2>1, DivisionIsUnique
  <2> QED BY <1>1, <2>1, <2>2
<1>2. CASE ~(a < m)
  <2>1. 1 \in Nat /\ a - m \in 0 .. m - 1 /\ 1 * m + (a - m) = a
    BY <1>2
  <2>2. (1 * m + (a - m)) % m = a - m
    BY <2>1, DivisionIsUnique
  <2> QED BY <1>2, <2>1, <2>2
<1> QED BY <1>1, <1>2

\* The bytes of a message behind number a, up to number b.
Run(a, b) == [i \in 1 .. b - a |-> a + i]

LEMMA RunIs ==
  ASSUME NEW a \in Nat, NEW b \in Nat, a <= b
  PROVE  /\ Run(a, b) \in Seq(Nat) /\ Len(Run(a, b)) = b - a
         /\ \A i \in 1 .. b - a : Run(a, b)[i] = a + i
BY DEF Run

LEMMA RunsJoin ==
  ASSUME NEW a \in Nat, NEW b \in Nat, NEW c \in Nat, a <= b, b <= c
  PROVE  Run(a, b) \o Run(b, c) = Run(a, c)
<1> DEFINE r == Run(a, b)
           s == Run(b, c)
           t == Run(a, c)
           u == r \o s
<1>1. r \in Seq(Nat) /\ Len(r) = b - a /\ \A i \in 1 .. b - a : r[i] = a + i
  BY RunIs
<1>5. s \in Seq(Nat) /\ Len(s) = c - b /\ \A i \in 1 .. c - b : s[i] = b + i
  BY RunIs
<1>6. t \in Seq(Nat) /\ Len(t) = c - a /\ \A i \in 1 .. c - a : t[i] = a + i
  <2>1. a <= c
    OBVIOUS
  <2> QED BY <2>1, RunIs
<1> HIDE DEF r, s, t
<1>2. /\ u \in Seq(Nat) /\ Len(u) = Len(r) + Len(s)
      /\ \A i \in 1 .. Len(r) + Len(s) : u[i] = IF i <= Len(r) THEN r[i] ELSE s[i - Len(r)]
  BY <1>1, <1>5, ConcatProperties
<1> HIDE DEF u
<1>7. Len(u) = c - a /\ Len(r) + Len(s) = c - a
  BY <1>1, <1>2, <1>5
<1>3. ASSUME NEW i \in 1 .. c - a PROVE u[i] = t[i]
  <2>1. t[i] = a + i /\ u[i] = IF i <= b - a THEN r[i] ELSE s[i - (b - a)]
    BY <1>1, <1>2, <1>6, <1>7
  <2>2. CASE i <= b - a
    BY <2>1, <2>2, <1>1
  <2>3. CASE ~(i <= b - a)
    <3>1. i - (b - a) \in 1 .. c - b /\ b + (i - (b - a)) = a + i
      BY <2>3
    <3> QED BY <2>1, <2>3, <3>1, <1>5
  <2> QED BY <2>2, <2>3
<1>4. u = t
  BY <1>2, <1>3, <1>6, <1>7, SeqEqual
<1> QED BY <1>4 DEF r, s, t, u

\* A part of a run.
LEMMA RunCut ==
  ASSUME NEW a \in Nat, NEW b \in Nat, a <= b, NEW k \in Nat, NEW n \in Nat, k <= n, n <= b - a
  PROVE  SubSeq(Run(a, b), k + 1, n) = Run(a + k, a + n)
<1> DEFINE r == Run(a, b)
           s == SubSeq(r, k + 1, n)
           t == Run(a + k, a + n)
<1>1. r \in Seq(Nat) /\ Len(r) = b - a /\ \A i \in 1 .. b - a : r[i] = a + i
  BY RunIs
<1>2. t \in Seq(Nat) /\ Len(t) = n - k /\ \A i \in 1 .. n - k : t[i] = (a + k) + i
  <2>1. a + k \in Nat /\ a + n \in Nat /\ a + k <= a + n /\ (a + n) - (a + k) = n - k
    OBVIOUS
  <2> QED BY <2>1, RunIs
<1> HIDE DEF r, t
<1>3. s \in Seq(Nat) /\ Len(s) = n - k /\ \A i \in 1 .. n - k : s[i] = r[k + i]
  BY <1>1
<1>4. \A i \in 1 .. n - k : s[i] = t[i]
  BY <1>1, <1>2, <1>3
<1> HIDE DEF s
<1>5. s = t
  BY <1>2, <1>3, <1>4, SeqEqual
<1> QED BY <1>5 DEF r, s, t

\* The same with the positions of the part named.
PartIs(a, b, k, n, i, j, m) ==
  /\ a \in Nat /\ b \in Nat /\ k \in Nat /\ n \in Nat
  /\ a <= b /\ k <= n /\ n <= b - a
  /\ i = k + 1 /\ j = a + k /\ m = a + n

LEMMA RunCutAt ==
  ASSUME NEW a, NEW b, NEW k, NEW n, NEW i, NEW j, NEW m, PartIs(a, b, k, n, i, j, m)
  PROVE  SubSeq(Run(a, b), i, n) = Run(j, m)
<1>1. /\ a \in Nat /\ b \in Nat /\ k \in Nat /\ n \in Nat
      /\ a <= b /\ k <= n /\ n <= b - a
  BY DEF PartIs
<1>2. SubSeq(Run(a, b), k + 1, n) = Run(a + k, a + n)
  BY <1>1, RunCut
<1>3. i = k + 1 /\ j = a + k /\ m = a + n
  BY DEF PartIs
<1> QED BY <1>2, <1>3

LEMMA RunHead ==
  ASSUME NEW a \in Nat, NEW b \in Nat, a <= b, NEW n \in Nat, n <= b - a
  PROVE  SubSeq(Run(a, b), 1, n) = Run(a, a + n)
<1> DEFINE k == 0
<1>1. k \in Nat /\ k <= n /\ k + 1 = 1 /\ a + k = a
  OBVIOUS
<1> HIDE DEF k
<1>2. SubSeq(Run(a, b), k + 1, n) = Run(a + k, a + n)
  BY <1>1, RunCut, ZenonT(40)
<1> QED BY <1>1, <1>2

\* A ring: its blocks fill it, and it is taken from at the start of one.
Cells == Nat \cup {Garbage}
QueueRec == [buffer : Seq(Cells), blockSize : Nat \ {0}, begin : Nat, size : Nat]

InPlace(q) ==
  /\ q \in QueueRec
  /\ q.size <= MaxSize(q)
  /\ q.begin < MaxSize(q) \/ q.begin = 0
  /\ \E k, m \in Nat : q.begin = k * q.blockSize /\ MaxSize(q) = m * q.blockSize

\* It holds the bytes of the message behind number c.
Holds(q, c) ==
  /\ InPlace(q)
  /\ \A i \in 1 .. q.size : q.buffer[((q.begin + i - 1) % MaxSize(q)) + 1] = c + i

LEMMA RingTypes ==
  ASSUME NEW q, InPlace(q)
  PROVE  /\ q.buffer \in Seq(Cells) /\ MaxSize(q) \in Nat /\ q.blockSize \in Nat \ {0}
         /\ q.begin \in Nat /\ q.size \in Nat /\ q.size <= MaxSize(q)
         /\ q.begin < MaxSize(q) \/ q.begin = 0
         /\ DOMAIN q.buffer = 1 .. MaxSize(q)
BY DEF InPlace, QueueRec, MaxSize

\* The bytes that are taken next.
LEMMA WindowIs ==
  ASSUME NEW q, NEW c \in Nat, Holds(q, c), NEW n \in Nat, n <= q.size
  PROVE  Window(q, q.begin, n) = Run(c, c + n)
<1>1. q.size \in Nat
  BY RingTypes DEF Holds
<1>2. ASSUME NEW i \in 1 .. n PROVE q.buffer[((q.begin + i - 1) % MaxSize(q)) + 1] = c + i
  <2>1. i \in 1 .. q.size
    BY <1>1
  <2> QED BY <2>1 DEF Holds
<1>3. (c + n) - c = n
  OBVIOUS
<1> QED BY <1>2, <1>3 DEF Window, Run

LEMMA QueuedIs ==
  ASSUME NEW q, NEW c \in Nat, Holds(q, c)
  PROVE  Queued(q) = Run(c, c + q.size)
<1>1. q.size \in Nat /\ q.size <= q.size
  BY RingTypes DEF Holds
<1> QED BY <1>1, WindowIs DEF Queued
\* The place of byte i behind the p bytes before it, for a ring of m bytes.
LEMMA PlaceIs ==
  ASSUME NEW m \in Nat \ {0}, NEW p \in 0 .. m - 1, NEW i \in 1 .. m
  PROVE  (p + i - 1) % m = IF p + i - 1 < m THEN p + i - 1 ELSE p + i - 1 - m
<1> DEFINE a == p + i - 1
<1>1. a \in 0 .. m + m - 1
  OBVIOUS
<1> HIDE DEF a
<1>2. a % m = IF a < m THEN a ELSE a - m
  BY <1>1, Wraps
<1> QED BY <1>2 DEF a

\* Where a byte stands that is put from place p on: the byte at place j is k
\* bytes behind it, once around.
LEMMA BehindIs ==
  ASSUME NEW m \in Nat \ {0}, NEW p \in 0 .. m - 1, NEW j \in 0 .. m - 1
  PROVE  (j - p + m) % m = IF j < p THEN j - p + m ELSE j - p
<1> DEFINE a == j - p + m
<1>1. a \in 0 .. m + m - 1
  OBVIOUS
<1>2. (a < m <=> j < p) /\ a - m = j - p
  OBVIOUS
<1> HIDE DEF a
<1>3. a % m = IF a < m THEN a ELSE a - m
  BY <1>1, Wraps
<1> QED BY <1>2, <1>3 DEF a

\* A byte that is there stands before the place put from.
LEMMA EarlierPlace ==
  ASSUME NEW m \in Nat, NEW begin \in Nat, NEW size \in Nat, begin < m, size <= m,
         NEW at, at = IF begin + size < m THEN begin + size ELSE (begin + size) - m,
         NEW i \in 1 .. size,
         NEW j, j = IF begin + i - 1 < m THEN begin + i - 1 ELSE begin + i - 1 - m,
         NEW x, x = IF j < at THEN j - at + m ELSE j - at
  PROVE  x = i - 1 - size + m
OBVIOUS

\* A byte that is put stands at that place or behind it.
LEMMA LaterPlace ==
  ASSUME NEW m \in Nat, NEW begin \in Nat, NEW size \in Nat, begin < m, size <= m,
         NEW at, at = IF begin + size < m THEN begin + size ELSE (begin + size) - m,
         NEW i \in size + 1 .. m,
         NEW j, j = IF begin + i - 1 < m THEN begin + i - 1 ELSE begin + i - 1 - m,
         NEW x, x = IF j < at THEN j - at + m ELSE j - at
  PROVE  x = i - 1 - size
OBVIOUS

\* Places from the new start are those from the old one.
LEMMA SamePlace ==
  ASSUME NEW m \in Nat, NEW old \in Nat, NEW k \in Nat, old + k <= m,
         NEW begin, begin = IF old + k = m THEN 0 ELSE old + k,
         NEW i \in Nat \ {0}, k + i <= m,
         NEW x, x = IF begin + i - 1 < m THEN begin + i - 1 ELSE begin + i - 1 - m,
         NEW y, y = IF old + (i + k) - 1 < m THEN old + (i + k) - 1 ELSE old + (i + k) - 1 - m
  PROVE  x = y
OBVIOUS

\* The next k bytes of the message go behind those that are there.
LEMMA QueuePutIs ==
  ASSUME NEW q, NEW c \in Nat, Holds(q, c), NEW b \in Nat, c + q.size <= b, b - c <= MaxSize(q)
  PROVE  LET p == QueuePut(q, Run(c + q.size, b))
         IN  /\ Holds(p, c) /\ p.size = b - c
             /\ p.blockSize = q.blockSize /\ MaxSize(p) = MaxSize(q)
<1> DEFINE e == c + q.size
           s == Run(e, b)
           m == MaxSize(q)
           behind(i) == (i - 1 - PutAt(q) + m) % m
           buffer == [i \in DOMAIN q.buffer |-> IF behind(i) < Len(s) THEN s[behind(i) + 1] ELSE q.buffer[i]]
           p == [q EXCEPT !.buffer = buffer, !.size = @ + Len(s)]
<1>1. /\ q.buffer \in Seq(Cells) /\ m \in Nat /\ q.blockSize \in Nat \ {0}
      /\ q.begin \in Nat /\ q.size \in Nat /\ q.size <= m /\ (q.begin < m \/ q.begin = 0)
      /\ DOMAIN q.buffer = 1 .. m /\ q \in QueueRec
  BY RingTypes DEF Holds, InPlace
<1>2. s \in Seq(Nat) /\ Len(s) = b - e /\ \A i \in 1 .. b - e : s[i] = e + i
  <2>1. e \in Nat
    BY <1>1
  <2> QED BY <2>1, RunIs
<1>9. e \in Nat /\ Len(s) = b - e /\ b - c = q.size + (b - e)
  BY <1>1, <1>2
<1>3. CASE e = b
  <2>1. s = <<>>
    BY <1>1, <1>2, <1>3
  <2>2. QueuePut(q, s) = q
    BY <2>1 DEF QueuePut
  <2>3. q.size = b - c
    BY <1>3, <1>1
  <2> QED BY <2>2, <2>3
<1>4. CASE e # b
  <2> HIDE DEF s
  <2>1. e < b /\ s # <<>> /\ m # 0 /\ q.begin < m
    <3> HIDE DEF e
    <3>1. e < b /\ b - e # 0
      BY <1>9, <1>4 DEF e
    <3>2. s # <<>>
      BY <3>1, <1>9
    <3>3. m # 0
      BY <3>1, <1>1, <1>9
    <3> QED BY <3>1, <3>2, <3>3, <1>1
  <2>2. QueuePut(q, s) = p
    BY <2>1 DEF QueuePut
  <2> DEFINE at == IF q.begin + q.size < m THEN q.begin + q.size ELSE (q.begin + q.size) - m
  <2>3. PutAt(q) = at /\ at \in 0 .. m - 1
    <3>1. m \in Nat \ {0} /\ q.begin + q.size \in 0 .. m + m - 1
      BY <1>1, <2>1
    <3> DEFINE a == q.begin + q.size
    <3>2. a % m = at
      <4> HIDE DEF m, a
      <4>1. a % m = IF a < m THEN a ELSE a - m
        BY <3>1, Wraps DEF a
      <4> QED BY <4>1 DEF a, at
    <3> HIDE DEF m
    <3>3. at \in 0 .. m - 1
      BY <3>1, <1>1, <2>1
    <3> QED BY <3>2, <3>3 DEF PutAt, m
  <2> HIDE DEF m
  <2>4. \A j \in 0 .. m - 1 : behind(j + 1) = IF j < at THEN j - at + m ELSE j - at
    <3> TAKE j \in 0 .. m - 1
    <3> HIDE DEF at
    <3>1. (j - at + m) % m = IF j < at THEN j - at + m ELSE j - at
      BY <1>1, <2>1, <2>3, BehindIs
    <3>2. (j + 1) - 1 - PutAt(q) + m = j - at + m
      BY <1>1, <2>3
    <3> QED BY <3>1, <3>2
  <2> HIDE DEF at
  <2>5. \A i \in 1 .. m : behind(i) \in Nat
    <3> TAKE i \in 1 .. m
    <3>1. i - 1 \in 0 .. m - 1 /\ (i - 1) + 1 = i
      BY <1>1
    <3>2. behind(i) = IF i - 1 < at THEN i - 1 - at + m ELSE i - 1 - at
      BY <3>1, <2>4
    <3> HIDE DEF behind
    <3> QED BY <3>1, <3>2, <2>3, <1>1
  <2> HIDE DEF behind
  <2>6. buffer \in Seq(Cells) /\ Len(buffer) = m
    <3>1. \A i \in 1 .. m : (IF behind(i) < Len(s) THEN s[behind(i) + 1] ELSE q.buffer[i]) \in Cells
      <4> TAKE i \in 1 .. m
      <4>1. CASE behind(i) < Len(s)
        <5>1. behind(i) + 1 \in 1 .. Len(s)
          BY <4>1, <2>5, <1>2
        <5>2. s[behind(i) + 1] \in Nat
          BY <5>1, <1>2
        <5> QED BY <4>1, <5>2 DEF Cells
      <4>2. CASE ~(behind(i) < Len(s))
        BY <4>2, <1>1
      <4> QED BY <4>1, <4>2
    <3>2. buffer = [i \in 1 .. m |-> IF behind(i) < Len(s) THEN s[behind(i) + 1] ELSE q.buffer[i]]
      BY <1>1
    <3> QED BY <3>1, <3>2, <1>1
  <2>7. \A i \in 1 .. m : buffer[i] = IF behind(i) < Len(s) THEN s[behind(i) + 1] ELSE q.buffer[i]
    BY <1>1
  <2> HIDE DEF buffer
  <2>8. q.size + Len(s) \in Nat /\ q.size + Len(s) = b - c
    BY <1>1, <1>9
  <2>9. /\ p \in QueueRec /\ p.buffer = buffer /\ p.size = b - c
        /\ p.begin = q.begin /\ p.blockSize = q.blockSize
    BY <1>1, <2>6, <2>8 DEF QueueRec
  <2> HIDE DEF p
  <2>10. MaxSize(p) = m
    BY <2>6, <2>9 DEF MaxSize
  <2>11. InPlace(p)
    BY <2>9, <2>10, <1>1 DEF Holds, InPlace, m
  <2>12. ASSUME NEW i \in 1 .. b - c PROVE buffer[((q.begin + i - 1) % m) + 1] = c + i
    <3> DEFINE j == (q.begin + i - 1) % m
    <3>1. i \in 1 .. m
      BY <1>1 DEF m
    <3>2. j = IF q.begin + i - 1 < m THEN q.begin + i - 1 ELSE q.begin + i - 1 - m
      <4>1. m \in Nat \ {0} /\ q.begin \in 0 .. m - 1
        BY <1>1, <2>1
      <4> QED BY <4>1, <3>1, PlaceIs
    <3> HIDE DEF j
    <3>3. j \in 0 .. m - 1 /\ j + 1 \in 1 .. m
      BY <1>1, <2>1, <3>1, <3>2, SMTT(30)
    <3>4. behind(j + 1) = IF j < at THEN j - at + m ELSE j - at
      BY <2>4, <3>3
    <3>5. b - e = Len(s) /\ Len(s) \in Nat /\ Len(s) + q.size <= m
      BY <1>1, <1>2, <2>8 DEF m
    <3>6. CASE i <= q.size
      <4>1. behind(j + 1) = i - 1 - q.size + m
        <5> DEFINE begin == q.begin
                   size == q.size
                   x == behind(j + 1)
        <5>1. /\ i \in 1 .. size /\ m \in Nat /\ begin \in Nat /\ size \in Nat
              /\ begin < m /\ size <= m
          BY <3>6, <1>1, <2>1
        <5>2. /\ at = IF begin + size < m THEN begin + size ELSE (begin + size) - m
              /\ j = IF begin + i - 1 < m THEN begin + i - 1 ELSE begin + i - 1 - m
              /\ x = IF j < at THEN j - at + m ELSE j - at
          BY <3>2, <3>4, Zenon DEF at
        <5> HIDE DEF begin, size, x
        <5>3. x = i - 1 - size + m
          BY <5>1, <5>2, EarlierPlace
        <5> QED BY <5>3 DEF x, size
      <4>2. ~(behind(j + 1) < Len(s))
        BY <4>1, <3>1, <3>5, <1>1, SMTT(30)
      <4>3. i \in 1 .. q.size
        BY <3>6, <1>1
      <4>4. q.buffer[j + 1] = c + i
        BY <4>3 DEF Holds, j, m
      <4> QED BY <4>2, <4>4, <2>7, <3>3 DEF j
    <3>7. CASE ~(i <= q.size)
      <4>1. behind(j + 1) = i - 1 - q.size
        <5> DEFINE begin == q.begin
                   size == q.size
                   x == behind(j + 1)
        <5>1. /\ i \in size + 1 .. m /\ m \in Nat /\ begin \in Nat /\ size \in Nat
              /\ begin < m /\ size <= m
          BY <3>1, <3>7, <1>1, <2>1
        <5>2. /\ at = IF begin + size < m THEN begin + size ELSE (begin + size) - m
              /\ j = IF begin + i - 1 < m THEN begin + i - 1 ELSE begin + i - 1 - m
              /\ x = IF j < at THEN j - at + m ELSE j - at
          BY <3>2, <3>4, Zenon DEF at
        <5> HIDE DEF begin, size, x
        <5>3. x = i - 1 - size
          BY <5>1, <5>2, LaterPlace
        <5> QED BY <5>3 DEF x, size
      <4>2. behind(j + 1) + 1 = i - q.size /\ i - q.size \in 1 .. b - e /\ behind(j + 1) < Len(s)
        BY <4>1, <3>5, <3>7, <1>1, SMTT(30)
      <4>3. s[i - q.size] = e + (i - q.size)
        BY <4>2, <1>2
      <4>4. e + (i - q.size) = c + i
        BY <1>1
      <4> QED BY <4>2, <4>3, <4>4, <2>7, <3>3 DEF j
    <3> QED BY <3>6, <3>7, <1>1
  <2>13. Holds(p, c)
    BY <2>9, <2>10, <2>11, <2>12 DEF Holds
  <2> QED BY <2>2, <2>9, <2>10, <2>13 DEF m, e, s
<1> QED BY <1>3, <1>4

\* The ring without its first k bytes.
Taken(q, begin, k) == [q EXCEPT !.begin = begin, !.size = q.size - k]

\* k bytes are taken at the front: up to the end of the ring at most.
LEMMA Advanced ==
  ASSUME NEW q, NEW c \in Nat, Holds(q, c), NEW k \in Nat, k <= q.size, q.begin + k <= MaxSize(q),
         \E a \in Nat : k = a * q.blockSize,
         NEW begin, begin = IF q.begin + k = MaxSize(q) THEN 0 ELSE q.begin + k
  PROVE  LET p == Taken(q, begin, k)
         IN  /\ Holds(p, c + k) /\ p.size = q.size - k
             /\ p.blockSize = q.blockSize /\ MaxSize(p) = MaxSize(q)
<1> DEFINE m == MaxSize(q)
           p == Taken(q, begin, k)
<1>1. /\ q.buffer \in Seq(Cells) /\ m \in Nat /\ q.blockSize \in Nat \ {0}
      /\ q.begin \in Nat /\ q.size \in Nat /\ q.size <= m /\ (q.begin < m \/ q.begin = 0)
      /\ DOMAIN q.buffer = 1 .. m /\ q \in QueueRec
  BY RingTypes DEF Holds, InPlace
<1>2. begin \in Nat /\ q.size - k \in Nat /\ (begin < m \/ begin = 0)
  <2>1. q.begin + k <= m /\ begin = (IF q.begin + k = m THEN 0 ELSE q.begin + k)
    OBVIOUS
  <2>2. m \in Nat /\ q.begin \in Nat /\ q.size \in Nat
    BY <1>1
  <2> HIDE DEF m
  <2> QED BY <2>1, <2>2
<1>3. /\ p \in QueueRec /\ p.buffer = q.buffer /\ p.size = q.size - k
      /\ p.begin = begin /\ p.blockSize = q.blockSize
  BY <1>1, <1>2 DEF QueueRec, Taken
<1> HIDE DEF p
<1>4. MaxSize(p) = m
  BY <1>3 DEF MaxSize
<1>5. \E x, y \in Nat : begin = x * q.blockSize /\ m = y * q.blockSize
  <2>1. PICK x, y \in Nat : q.begin = x * q.blockSize /\ m = y * q.blockSize
    BY DEF Holds, InPlace
  <2>2. PICK a \in Nat : k = a * q.blockSize
    OBVIOUS
  <2>3. CASE q.begin + k = m
    <3>1. begin = 0 * q.blockSize
      BY <2>3, <1>1
    <3> QED BY <3>1, <2>1
  <2>4. CASE q.begin + k # m
    <3>1. (x + a) * q.blockSize = x * q.blockSize + a * q.blockSize /\ x + a \in Nat
      BY <1>1
    <3>2. begin = (x + a) * q.blockSize
      BY <3>1, <2>1, <2>2, <2>4
    <3> QED BY <3>1, <3>2, <2>1
  <2> QED BY <2>3, <2>4
<1>6. InPlace(p)
  <2>1. q.size - k <= m
    BY <1>1
  <2> QED BY <1>2, <1>3, <1>4, <1>5, <2>1 DEF InPlace
<1> HIDE DEF m
<1>7. ASSUME NEW i \in 1 .. q.size - k PROVE q.buffer[((begin + i - 1) % m) + 1] = (c + k) + i
  <2>1. i + k \in 1 .. q.size /\ m # 0 /\ i + k \in 1 .. m /\ i \in 1 .. m /\ q.begin \in 0 .. m - 1
    <3>1. m \in Nat /\ q.begin \in Nat /\ q.size \in Nat /\ q.size <= m /\ (q.begin < m \/ q.begin = 0)
      BY <1>1
    <3> QED BY <3>1
  <2>2. q.buffer[((q.begin + (i + k) - 1) % m) + 1] = c + (i + k)
    BY <2>1 DEF Holds, m
  <2>3. (q.begin + (i + k) - 1) % m
          = IF q.begin + (i + k) - 1 < m THEN q.begin + (i + k) - 1 ELSE q.begin + (i + k) - 1 - m
    BY <1>1, <2>1, PlaceIs
  <2>4. begin \in 0 .. m - 1
    BY <1>1, <1>2, <2>1
  <2>5. (begin + i - 1) % m = IF begin + i - 1 < m THEN begin + i - 1 ELSE begin + i - 1 - m
    BY <1>1, <2>1, <2>4, PlaceIs
  <2>6. (begin + i - 1) % m = (q.begin + (i + k) - 1) % m
    <3>1. begin = (IF q.begin + k = m THEN 0 ELSE q.begin + k) /\ q.begin + k <= m
      BY DEF m
    <3>2. i \in Nat \ {0} /\ k + i <= m
      BY <2>1, <1>1, SMTT(30)
    <3> DEFINE old == q.begin
               x == (begin + i - 1) % m
               y == (old + (i + k) - 1) % m
    <3>3. /\ m \in Nat /\ old \in Nat /\ old + k <= m
          /\ begin = IF old + k = m THEN 0 ELSE old + k
      BY <3>1, <1>1
    <3>4. /\ x = IF begin + i - 1 < m THEN begin + i - 1 ELSE begin + i - 1 - m
          /\ y = IF old + (i + k) - 1 < m THEN old + (i + k) - 1 ELSE old + (i + k) - 1 - m
      BY <2>3, <2>5, Zenon
    <3> HIDE DEF old, x, y
    <3>5. x = y
      BY <3>2, <3>3, <3>4, SamePlace
    <3> QED BY <3>5 DEF x, y, old
  <2>7. c + (i + k) = (c + k) + i
    BY <1>1
  <2> QED BY <2>2, <2>6, <2>7
<1>8. Holds(p, c + k)
  BY <1>3, <1>4, <1>6, <1>7 DEF Holds
<1> QED BY <1>3, <1>4, <1>8 DEF m, p
\* One block taken.
LEMMA BlockGotIs ==
  ASSUME NEW q, NEW c \in Nat, Holds(q, c), q.blockSize <= q.size
  PROVE  LET p == BlockGot(q)
         IN  /\ Holds(p, c + q.blockSize) /\ p.size = q.size - q.blockSize
             /\ p.blockSize = q.blockSize /\ MaxSize(p) = MaxSize(q)
<1> DEFINE k == q.blockSize
           m == MaxSize(q)
           begin == IF q.begin + k = m THEN 0 ELSE q.begin + k
           p == Taken(q, begin, k)
<1>1. /\ m \in Nat /\ k \in Nat \ {0} /\ q.begin \in Nat /\ q.size \in Nat /\ q.size <= m
      /\ q.begin < m \/ q.begin = 0
  BY RingTypes DEF Holds
<1>2. BlockGot(q) = p
  BY DEF BlockGot, Taken
<1>3. q.begin + k <= m
  <2>1. PICK x, y \in Nat : q.begin = x * k /\ m = y * k
    BY DEF Holds, InPlace
  <2>2. q.begin < m
    BY <1>1
  <2> HIDE DEF m, k
  <2>3. x < y
    <3>1. SUFFICES ASSUME y <= x PROVE FALSE
      OBVIOUS
    <3>2. (x - y) * k \in Nat /\ x * k = y * k + (x - y) * k
      BY <3>1, <1>1
    <3> QED BY <3>2, <2>1, <2>2
  <2>4. y - x - 1 \in Nat
    BY <2>3
  <2>5. (y - x - 1) * k \in Nat /\ y * k = x * k + k + (y - x - 1) * k
    BY <2>4, <1>1
  <2> QED BY <2>1, <2>5, <1>1
<1>4. k = 1 * q.blockSize
  BY <1>1
<1>5. k \in Nat /\ k <= q.size /\ q.begin + k <= MaxSize(q) /\ (\E a \in Nat : k = a * q.blockSize)
      /\ begin = IF q.begin + k = MaxSize(q) THEN 0 ELSE q.begin + k
  BY <1>1, <1>3, <1>4
<1> HIDE DEF k, begin, m
<1>6. LET r == Taken(q, begin, k)
      IN  /\ Holds(r, c + k) /\ r.size = q.size - k
          /\ r.blockSize = q.blockSize /\ MaxSize(r) = MaxSize(q)
  BY <1>5, Advanced
<1> QED BY <1>2, <1>6 DEF k

\* As many bytes as wanted, up to the end of the ring or to the last one.
LEMMA ContiguousGotIs ==
  ASSUME NEW q, NEW c \in Nat, Holds(q, c), q.blockSize = 1, NEW n \in Nat
  PROVE  LET p == ContiguousGot(q, n)
             k == Contiguous(q, n)
         IN  /\ Holds(p, c + k) /\ k \in Nat /\ k <= n /\ p.size = q.size - k /\ k <= q.size
             /\ p.blockSize = 1 /\ MaxSize(p) = MaxSize(q)
             /\ k = n \/ k = q.size \/ (p.begin = 0 /\ k < q.size)
<1> DEFINE k == Contiguous(q, n)
           m == MaxSize(q)
           begin == IF q.size = k \/ q.begin + k = m THEN 0 ELSE q.begin + k
           begin0 == IF q.begin + k = m THEN 0 ELSE q.begin + k
           p == Taken(q, begin, k)
           p0 == Taken(q, begin0, k)
<1>1. /\ m \in Nat /\ q.begin \in Nat /\ q.size \in Nat /\ q.size <= m
      /\ q.begin < m \/ q.begin = 0
      /\ q.buffer \in Seq(Cells) /\ q \in QueueRec
  BY RingTypes DEF Holds, InPlace
<1>2. ContiguousGot(q, n) = p
  BY DEF ContiguousGot, Taken
<1>3. /\ k \in Nat /\ k <= n /\ k <= q.size /\ q.begin + k <= m
      /\ k = n \/ k = q.size \/ q.begin + k = m
  <2>1. k = Lower(n, Lower(m - q.begin, q.size))
    BY DEF Contiguous
  <2> HIDE DEF k, m
  <2> QED BY <2>1, <1>1 DEF Lower
<1> HIDE DEF k
<1>4. k \in Nat /\ k <= q.size /\ q.begin + k <= MaxSize(q) /\ (\E a \in Nat : k = a * q.blockSize)
  <2>1. k = k * q.blockSize
    BY <1>3
  <2> QED BY <2>1, <1>3
<1>5. Holds(p0, c + k) /\ p0.size = q.size - k /\ p0.blockSize = q.blockSize /\ MaxSize(p0) = m
  <2>1. begin0 = IF q.begin + k = MaxSize(q) THEN 0 ELSE q.begin + k
    OBVIOUS
  <2> HIDE DEF begin0, m
  <2>2. LET r == Taken(q, begin0, k)
        IN  /\ Holds(r, c + k) /\ r.size = q.size - k
            /\ r.blockSize = q.blockSize /\ MaxSize(r) = MaxSize(q)
    BY <1>4, <2>1, Advanced
  <2> QED BY <2>2 DEF m
<1>6. CASE q.size # k \/ q.begin + k = m
  <2>1. begin = begin0
    BY <1>6
  <2>2. p = p0
    BY <2>1
  <2>3. p.begin = begin
    BY <1>1 DEF QueueRec, Taken
  <2> HIDE DEF p, p0, m
  <2>4. k = n \/ k = q.size \/ (begin = 0 /\ k < q.size)
    BY <1>3, <1>1
  <2> QED BY <2>2, <2>3, <2>4, <1>2, <1>3, <1>5 DEF k, m
<1>7. CASE q.size = k
  <2>1. begin = 0 /\ q.size - k = 0
    BY <1>1, <1>7
  <2> HIDE DEF begin
  <2>6. begin \in Nat /\ q.size - k \in Nat
    BY <2>1
  <2>7. /\ p \in QueueRec /\ p.buffer = q.buffer /\ p.size = q.size - k
        /\ p.begin = begin /\ p.blockSize = q.blockSize
    BY <1>1, <2>6 DEF QueueRec, Taken
  <2>5. /\ p \in QueueRec /\ p.buffer = q.buffer /\ p.size = 0 /\ p.begin = 0 /\ p.blockSize = 1
    BY <2>1, <2>7
  <2> HIDE DEF p
  <2>2. MaxSize(p) = m
    BY <2>5 DEF MaxSize
  <2>3. InPlace(p)
    <3>1. 0 = 0 * p.blockSize /\ m = m * p.blockSize
      BY <2>5, <1>1
    <3> QED BY <2>5, <2>2, <3>1, <1>1 DEF InPlace
  <2>4. Holds(p, c + k)
    BY <2>5, <2>3 DEF Holds
  <2> QED BY <2>5, <2>2, <2>4, <1>2, <1>3, <1>7 DEF k, m
<1> QED BY <1>6, <1>7

\* A ring with nothing in it holds nothing of anything.
LEMMA HoldsNothing ==
  ASSUME NEW q, NEW c, Holds(q, c), q.size = 0, NEW d
  PROVE  Holds(q, d)
BY DEF Holds

-----------------------------------------------------------------------------
(* Strings handed over.                                                    *)

\* Strings that are the bytes of the message behind a, up to b, in whole blocks.
Handed(ss, a, b, bs) ==
  /\ a \in Nat /\ b \in Nat /\ a <= b
  /\ ss \in Seq(Seq(Nat)) /\ FlattenSeq(ss) = Run(a, b)
  /\ \A i \in 1 .. Len(ss) : Len(ss[i]) % bs = 0

LEMMA HandedNone ==
  ASSUME NEW a \in Nat, NEW bs
  PROVE  Handed(<<>>, a, a, bs)
<1>1. Run(a, a) = <<>>
  BY DEF Run
<1> QED BY <1>1, FlattenNone DEF Handed

LEMMA HandedOne ==
  ASSUME NEW a \in Nat, NEW b \in Nat, a <= b, NEW bs, (b - a) % bs = 0
  PROVE  Handed(<<Run(a, b)>>, a, b, bs)
<1> DEFINE r == Run(a, b)
<1>1. r \in Seq(Nat) /\ Len(r) = b - a
  BY RunIs
<1> HIDE DEF r
<1>2. FlattenSeq(<<r>>) = r
  BY <1>1, FlattenOne
<1>3. <<r>> \in Seq(Seq(Nat)) /\ Len(<<r>>) = 1 /\ \A i \in 1 .. 1 : Len(<<r>>[i]) % bs = 0
  BY <1>1
<1>4. Handed(<<r>>, a, b, bs)
  BY <1>2, <1>3 DEF Handed, r
<1> QED BY <1>4 DEF r

LEMMA HandedJoin ==
  ASSUME NEW ss, NEW ts, NEW a, NEW b, NEW c, NEW bs, Handed(ss, a, b, bs), Handed(ts, b, c, bs)
  PROVE  Handed(ss \o ts, a, c, bs)
<1> DEFINE us == ss \o ts
<1>1. a \in Nat /\ b \in Nat /\ c \in Nat /\ a <= b /\ b <= c /\ a <= c
  BY DEF Handed
<1>2. ss \in Seq(Seq(Nat)) /\ ts \in Seq(Seq(Nat))
  BY DEF Handed
<1>3. FlattenSeq(us) = FlattenSeq(ss) \o FlattenSeq(ts)
  BY <1>2, FlattenJoin
<1>4. FlattenSeq(us) = Run(a, c)
  BY <1>1, <1>3, RunsJoin DEF Handed
<1>5. /\ us \in Seq(Seq(Nat)) /\ Len(us) = Len(ss) + Len(ts)
      /\ \A i \in 1 .. Len(ss) + Len(ts) : us[i] = IF i <= Len(ss) THEN ss[i] ELSE ts[i - Len(ss)]
  BY <1>2, ConcatProperties
<1> HIDE DEF us
<1>6. ASSUME NEW i \in 1 .. Len(us) PROVE Len(us[i]) % bs = 0
  <2>1. us[i] = IF i <= Len(ss) THEN ss[i] ELSE ts[i - Len(ss)]
    BY <1>5
  <2>2. CASE i <= Len(ss)
    <3>1. i \in 1 .. Len(ss)
      BY <2>2, <1>2
    <3> QED BY <3>1, <2>1, <2>2 DEF Handed
  <2>3. CASE ~(i <= Len(ss))
    <3>1. i - Len(ss) \in 1 .. Len(ts)
      BY <2>3, <1>2, <1>5
    <3> QED BY <3>1, <2>1, <2>3 DEF Handed
  <2> QED BY <2>2, <2>3
<1>7. Handed(us, a, c, bs)
  BY <1>1, <1>4, <1>5, <1>6 DEF Handed
<1> QED BY <1>7 DEF us
\* Both pieces that Drained takes, as many bytes as there are.
LEMMA DrainedIs ==
  ASSUME NEW q, NEW c \in Nat, Holds(q, c), q.blockSize = 1, NEW n \in Nat
  PROVE  LET d == Drained(q, n)
         IN  /\ d.n = Lower(n, q.size)
             /\ Holds(d.queue, c + d.n) /\ d.queue.size = q.size - d.n
             /\ d.queue.blockSize = 1 /\ MaxSize(d.queue) = MaxSize(q)
             /\ Handed(d.given, c, c + d.n, 1)
<1> DEFINE k1 == Contiguous(q, n)
           q1 == ContiguousGot(q, n)
           n2 == n - k1
           k2 == Contiguous(q1, n2)
           q2 == ContiguousGot(q1, n2)
           w1 == Window(q, q.begin, k1)
           w2 == Window(q1, q1.begin, k2)
           d == Drained(q, n)
<1>1. d.n = k1 + k2 /\ d.queue = q2 /\ d.given = <<w1, w2>>
  BY DEF Drained
<1>2. /\ Holds(q1, c + k1) /\ k1 \in Nat /\ k1 <= n /\ q1.size = q.size - k1 /\ k1 <= q.size
      /\ q1.blockSize = 1 /\ MaxSize(q1) = MaxSize(q)
      /\ k1 = n \/ k1 = q.size \/ (q1.begin = 0 /\ k1 < q.size)
  BY ContiguousGotIs
<1>3. w1 = Run(c, c + k1)
  BY <1>2, WindowIs
<1>4. q.size \in Nat /\ MaxSize(q) \in Nat /\ q.size <= MaxSize(q)
  BY RingTypes DEF Holds
<1> HIDE DEF k1, q1, w1, w2, d
<1>5. n2 \in Nat /\ c + k1 \in Nat
  BY <1>2
<1>6. k2 = Lower(n2, q1.size)
  <2>1. k2 = Lower(n2, Lower(MaxSize(q1) - q1.begin, q1.size))
    BY DEF Contiguous
  <2> HIDE DEF k2
  <2>2. n2 = n - k1
    OBVIOUS
  <2> HIDE DEF n2
  <2>3. q1.size \in Nat
    BY <1>2, <1>4
  <2>4. CASE k1 = n
    <3>1. n2 = 0 /\ Lower(0, q1.size) = 0
      BY <2>2, <2>3, <2>4, <1>2 DEF Lower
    <3>2. q1.begin \in Nat /\ MaxSize(q1) \in Nat /\ (q1.begin < MaxSize(q1) \/ q1.begin = 0)
      BY <1>2, RingTypes DEF Holds
    <3>3. Lower(0, Lower(MaxSize(q1) - q1.begin, q1.size)) = 0
      BY <3>2, <2>3 DEF Lower
    <3> QED BY <2>1, <3>1, <3>3
  <2>5. CASE k1 = q.size
    <3>1. q1.size = 0
      BY <2>5, <1>2, <1>4
    <3>2. q1.begin \in Nat /\ MaxSize(q1) \in Nat /\ (q1.begin < MaxSize(q1) \/ q1.begin = 0)
      BY <1>2, RingTypes DEF Holds
    <3>3. Lower(MaxSize(q1) - q1.begin, 0) = 0
      BY <3>2 DEF Lower
    <3> QED BY <2>1, <3>1, <3>3
  <2>6. CASE q1.begin = 0 /\ k1 < q.size
    <3>1. Lower(MaxSize(q1) - q1.begin, q1.size) = q1.size
      BY <2>6, <2>3, <1>2, <1>4 DEF Lower
    <3> QED BY <2>1, <3>1
  <2> QED BY <2>4, <2>5, <2>6, <1>2
<1>7. /\ Holds(q2, (c + k1) + k2) /\ k2 \in Nat /\ k2 <= n2 /\ q2.size = q1.size - k2 /\ k2 <= q1.size
      /\ q2.blockSize = 1 /\ MaxSize(q2) = MaxSize(q1)
  <2> HIDE DEF n2
  <2> QED BY <1>2, <1>5, ContiguousGotIs
<1>8. w2 = Run(c + k1, (c + k1) + k2)
  <2> HIDE DEF k2, n2
  <2> QED BY <1>2, <1>5, <1>7, WindowIs DEF w2
<1> HIDE DEF k2, q2
<1>9. k1 + k2 = Lower(n, q.size)
  <2>1. k2 = IF n - k1 < q.size - k1 THEN n - k1 ELSE q.size - k1
    BY <1>2, <1>6 DEF Lower
  <2> QED BY <2>1, <1>2, <1>4 DEF Lower
<1>10. (c + k1) + k2 = c + (k1 + k2) /\ q2.size = q.size - (k1 + k2)
  BY <1>2, <1>4, <1>7
<1>11. Handed(<<w1, w2>>, c, (c + k1) + k2, 1)
  <2>1. \A x \in Nat : x % 1 = 0
    OBVIOUS
  <2> DEFINE e == c + k1
             g == e + k2
  <2>2. e \in Nat /\ c <= e /\ e - c \in Nat
    BY <1>2
  <2>6. g \in Nat /\ e <= g /\ g - e \in Nat
    BY <1>7, <2>2
  <2>3. w1 = Run(c, e) /\ w2 = Run(e, g)
    BY <1>3, <1>8
  <2> HIDE DEF e, g
  <2>4. Handed(<<w1>>, c, e, 1) /\ Handed(<<w2>>, e, g, 1)
    BY <2>1, <2>2, <2>6, <2>3, HandedOne
  <2>5. Handed(<<w1>> \o <<w2>>, c, g, 1)
    BY <2>4, HandedJoin
  <2>7. <<w1>> \o <<w2>> = <<w1, w2>>
    <3>1. w1 \in Seq(Nat) /\ w2 \in Seq(Nat)
      BY <2>2, <2>6, <2>3, RunIs
    <3> DEFINE u == <<w1>> \o <<w2>>
               v == <<w1, w2>>
    <3>2. u \in Seq(Seq(Nat)) /\ Len(u) = 2 /\ u[1] = w1 /\ u[2] = w2
      BY <3>1
    <3>3. v \in Seq(Seq(Nat)) /\ Len(v) = 2 /\ v[1] = w1 /\ v[2] = w2
      BY <3>1
    <3> HIDE DEF u, v
    <3>4. \A i \in 1 .. Len(u) : u[i] = v[i]
      BY <3>2, <3>3
    <3>5. u = v
      BY <3>2, <3>3, <3>4, SeqEqual
    <3> QED BY <3>5 DEF u, v
  <2> QED BY <2>5, <2>7 DEF g, e
<1> QED BY <1>1, <1>2, <1>7, <1>9, <1>10, <1>11 DEF d

\* g is the ring after each block that GotBlocks takes.
After(g, q, k) == g = [i \in 0 .. k |-> IF i = 0 THEN q ELSE BlockGot(g[i - 1])]

\* There is one.
LEMMA AfterExists ==
  ASSUME NEW q, NEW k \in Nat
  PROVE  \E g : After(g, q, k)
<1> DEFINE T == {n \in Nat : \E g : After(g, q, n)}
<1>1. 0 \in T
  <2> DEFINE g == [i \in 0 .. 0 |-> q]
  <2>1. \A i \in 0 .. 0 : q = IF i = 0 THEN q ELSE BlockGot(g[i - 1])
    OBVIOUS
  <2>2. After(g, q, 0)
    BY <2>1, Zenon DEF After
  <2> QED BY <2>2
<1>2. ASSUME NEW n \in Nat, n \in T PROVE n + 1 \in T
  <2>1. PICK h : After(h, q, n)
    BY <1>2
  <2> DEFINE g == [i \in 0 .. n + 1 |-> IF i = 0 THEN q ELSE BlockGot(h[i - 1])]
  <2>2. \A i \in 0 .. n : h[i] = IF i = 0 THEN q ELSE BlockGot(h[i - 1])
    BY <2>1, Zenon DEF After
  <2>3. \A i \in 0 .. n : h[i] = g[i]
    BY <2>2
  <2>4. \A i \in 0 .. n + 1 : i # 0 => h[i - 1] = g[i - 1]
    <3> HIDE DEF g
    <3>1. \A i \in 0 .. n + 1 : i # 0 => i - 1 \in 0 .. n
      OBVIOUS
    <3> QED BY <2>3, <3>1
  <2>5. \A i \in 0 .. n + 1 :
          (IF i = 0 THEN q ELSE BlockGot(h[i - 1])) = (IF i = 0 THEN q ELSE BlockGot(g[i - 1]))
    <3> HIDE DEF g
    <3> QED BY <2>4
  <2>6. After(g, q, n + 1)
    BY <2>5, Zenon DEF After
  <2> QED BY <2>6
<1> HIDE DEF T
<1>3. k \in T
  BY <1>1, <1>2, AllNaturals
<1> QED BY <1>3 DEF T

\* GotBlocks in terms of it.
LEMMA GotBlocksUnfolds ==
  ASSUME NEW q, NEW k \in Nat
  PROVE  \E g : /\ After(g, q, k)
                /\ GotBlocks(q, k).queue = g[k]
                /\ GotBlocks(q, k).given
                     = [i \in 1 .. k |-> Window(g[i - 1], g[i - 1].begin, q.blockSize)]
<1> DEFINE g == CHOOSE g : g = [i \in 0 .. k |-> IF i = 0 THEN q ELSE BlockGot(g[i - 1])]
<1>1. \E h : h = [i \in 0 .. k |-> IF i = 0 THEN q ELSE BlockGot(h[i - 1])]
  BY AfterExists DEF After
<1>2. g = [i \in 0 .. k |-> IF i = 0 THEN q ELSE BlockGot(g[i - 1])]
  BY <1>1, Zenon
<1>3. GotBlocks(q, k)
        = [queue |-> g[k],
           given |-> [i \in 1 .. k |-> Window(g[i - 1], g[i - 1].begin, q.blockSize)]]
  BY Zenon DEF GotBlocks
<1> HIDE DEF g
<1>4. /\ GotBlocks(q, k).queue = g[k]
      /\ GotBlocks(q, k).given
           = [i \in 1 .. k |-> Window(g[i - 1], g[i - 1].begin, q.blockSize)]
  <2> DEFINE x == g[k]
             y == [i \in 1 .. k |-> Window(g[i - 1], g[i - 1].begin, q.blockSize)]
  <2>1. GotBlocks(q, k) = [queue |-> x, given |-> y]
    BY <1>3, Zenon
  <2> HIDE DEF x, y
  <2>2. GotBlocks(q, k).queue = x /\ GotBlocks(q, k).given = y
    BY <2>1
  <2> QED BY <2>2 DEF x, y
<1> QED BY <1>2, <1>4, Zenon DEF After
\* k blocks taken one after the other.
LEMMA GotBlocksIs ==
  ASSUME NEW q, NEW c \in Nat, Holds(q, c), NEW k \in Nat, k * q.blockSize <= q.size
  PROVE  LET b == GotBlocks(q, k)
             d == c + k * q.blockSize
         IN  /\ Holds(b.queue, d) /\ b.queue.size = q.size - k * q.blockSize
             /\ b.queue.blockSize = q.blockSize /\ MaxSize(b.queue) = MaxSize(q)
             /\ Handed(b.given, c, d, q.blockSize)
             /\ Len(b.given) = k
<1> DEFINE bs == q.blockSize
           b == GotBlocks(q, k)
<1>1. bs \in Nat \ {0} /\ q.size \in Nat
  BY RingTypes DEF Holds
<1>2. PICK g : /\ After(g, q, k)
               /\ b.queue = g[k]
               /\ b.given = [i \in 1 .. k |-> Window(g[i - 1], g[i - 1].begin, q.blockSize)]
  BY GotBlocksUnfolds
<1>3. \A i \in 0 .. k : g[i] = IF i = 0 THEN q ELSE BlockGot(g[i - 1])
  BY <1>2, Zenon DEF After
<1> HIDE DEF b
<1> DEFINE Good(i) == /\ Holds(g[i], c + i * bs) /\ g[i].size = q.size - i * bs
                      /\ g[i].blockSize = bs /\ MaxSize(g[i]) = MaxSize(q)
           T == {i \in Nat : i <= k => Good(i)}
<1>4. ASSUME NEW i \in Nat, i < k
      PROVE  /\ i * bs \in Nat /\ (i + 1) * bs = i * bs + bs /\ bs <= q.size - i * bs
             /\ c + i * bs \in Nat
  <2> HIDE DEF bs
  <2>1. i * bs \in Nat /\ (i + 1) * bs = i * bs + bs
    BY <1>1
  <2>2. k - i - 1 \in Nat
    BY <1>4
  <2>3. (k - i - 1) * bs \in Nat /\ k * bs = (i + 1) * bs + (k - i - 1) * bs
    BY <2>2, <1>1
  <2>4. k * bs <= q.size
    BY DEF bs
  <2> QED BY <2>1, <2>3, <2>4, <1>1
<1>5. 0 \in T
  <2>1. g[0] = q
    BY <1>3
  <2>2. 0 * bs = 0 /\ c + 0 = c /\ q.size - 0 = q.size
    BY <1>1
  <2> QED BY <2>1, <2>2
<1>6. ASSUME NEW i \in Nat, i \in T PROVE i + 1 \in T
  <2>1. SUFFICES ASSUME i + 1 <= k PROVE Good(i + 1)
    OBVIOUS
  <2>2. i < k /\ i <= k /\ i + 1 \in 0 .. k /\ i + 1 # 0 /\ (i + 1) - 1 = i
    BY <2>1
  <2>3. Good(i)
    BY <1>6, <2>2
  <2>4. g[i + 1] = BlockGot(g[i])
    BY <1>3, <2>2
  <2> DEFINE r == g[i]
             p == g[i + 1]
             e == c + i * bs
  <2>5. Holds(r, e) /\ e \in Nat /\ r.blockSize <= r.size /\ p = BlockGot(r) /\ r.blockSize = bs
    BY <2>2, <2>3, <2>4, <1>4
  <2> HIDE DEF r, p, e
  <2>6. /\ Holds(p, e + bs) /\ p.size = r.size - bs
        /\ p.blockSize = bs /\ MaxSize(p) = MaxSize(r)
    BY <2>5, BlockGotIs
  <2>7. e + bs = c + (i + 1) * bs /\ r.size - bs = q.size - (i + 1) * bs
    <3>1. r.size = q.size - i * bs
      BY <2>3 DEF r
    <3>2. /\ i * bs \in Nat /\ (i + 1) * bs = i * bs + bs
      BY <2>2, <1>4
    <3> DEFINE x == i * bs
               y == (i + 1) * bs
    <3>3. r.size = q.size - x /\ x \in Nat /\ y = x + bs /\ e = c + x
      BY <3>1, <3>2 DEF e
    <3> HIDE DEF x, y
    <3>4. e + bs = c + y /\ r.size - bs = q.size - y
      BY <3>3, <1>1
    <3> QED BY <3>4 DEF y
  <2>8. MaxSize(r) = MaxSize(q)
    BY <2>3 DEF r
  <2> QED BY <2>6, <2>7, <2>8 DEF p
<1> HIDE DEF T
<1>7. \A i \in 0 .. k : Good(i)
  <2>1. Nat \subseteq T
    BY <1>5, <1>6, AllNaturals
  <2> QED BY <2>1 DEF T
<1> DEFINE R(i) == Run(c + (i - 1) * bs, c + i * bs)
           G(n) == [i \in 1 .. n |-> R(i)]
<1>8. b.given = G(k)
  <2>1. ASSUME NEW i \in 1 .. k PROVE Window(g[i - 1], g[i - 1].begin, q.blockSize) = R(i)
    <3>1. i - 1 \in 0 .. k /\ i - 1 \in Nat /\ i - 1 < k /\ (i - 1) + 1 = i
      OBVIOUS
    <3> DEFINE r == g[i - 1]
               e == c + (i - 1) * bs
    <3>2. Holds(r, e) /\ r.size = q.size - (i - 1) * bs
      BY <3>1, <1>7
    <3>3. e \in Nat /\ bs <= r.size /\ e + bs = c + i * bs
      <4> DEFINE x == (i - 1) * bs
                 y == ((i - 1) + 1) * bs
      <4>1. x \in Nat /\ y = x + bs /\ bs <= q.size - x
        BY <3>1, <1>4
      <4>2. y = i * bs
        BY <3>1
      <4>3. e = c + x /\ r.size = q.size - x
        BY <3>2
      <4> HIDE DEF x, y
      <4> QED BY <4>1, <4>2, <4>3, <1>1
    <3> HIDE DEF r, e
    <3>4. Window(r, r.begin, bs) = Run(e, e + bs)
      BY <3>2, <3>3, <1>1, WindowIs
    <3> QED BY <3>3, <3>4 DEF r, e
  <2> HIDE DEF R
  <2> QED BY <2>1, <1>2
<1> DEFINE U == {n \in Nat : n <= k => Handed(G(n), c, c + n * bs, bs) /\ Len(G(n)) = n}
<1>9. 0 \in U
  <2>1. G(0) = <<>>
    OBVIOUS
  <2>2. 0 * bs = 0 /\ c + 0 = c
    BY <1>1
  <2> QED BY <2>1, <2>2, HandedNone
<1>10. ASSUME NEW n \in Nat, n \in U PROVE n + 1 \in U
  <2>1. SUFFICES ASSUME n + 1 <= k
                 PROVE  Handed(G(n + 1), c, c + (n + 1) * bs, bs) /\ Len(G(n + 1)) = n + 1
    OBVIOUS
  <2> DEFINE e == c + n * bs
             h == c + (n + 1) * bs
             w == R(n + 1)
             gn == G(n)
  <2>2. Handed(gn, c, e, bs) /\ Len(gn) = n
    BY <1>10, <2>1
  <2>3. e \in Nat /\ h \in Nat /\ h = e + bs /\ e <= h /\ h - e = bs /\ bs % bs = 0
    <3> DEFINE x == n * bs
               y == (n + 1) * bs
    <3>1. x \in Nat /\ y = x + bs /\ n < k
      BY <2>1, <1>4
    <3>2. bs % bs = 0
      <4>1. 1 \in Nat /\ 0 \in 0 .. bs - 1 /\ 1 * bs + 0 = bs
        BY <1>1
      <4>2. (1 * bs + 0) % bs = 0
        BY <4>1, <1>1, DivisionIsUnique
      <4> QED BY <4>1, <4>2
    <3>3. e = c + x /\ h = c + y
      OBVIOUS
    <3> HIDE DEF x, y, e, h
    <3> QED BY <3>1, <3>2, <3>3, <1>1
  <2>4. w = Run(e, h)
    <3>1. (n + 1) - 1 = n
      OBVIOUS
    <3> QED BY <3>1
  <2> HIDE DEF e, h, w
  <2>5. Handed(<<w>>, e, h, bs)
    BY <2>3, <2>4, HandedOne
  <2> HIDE DEF gn
  <2>6. Handed(gn \o <<w>>, c, h, bs)
    BY <2>2, <2>5, HandedJoin
  <2>7. G(n + 1) = gn \o <<w>>
    <3>1. gn \in Seq(Seq(Nat)) /\ w \in Seq(Nat)
      BY <2>2, <2>3, <2>4, RunIs DEF Handed
    <3>2. /\ gn \o <<w>> \in Seq(Seq(Nat)) /\ Len(gn \o <<w>>) = n + 1
          /\ \A i \in 1 .. n + 1 : (gn \o <<w>>)[i] = IF i <= n THEN gn[i] ELSE w
      BY <3>1, <2>2
    <3>3. gn = G(n)
      BY DEF gn
    <3> HIDE DEF R
    <3>4. \A i \in 1 .. n : gn[i] = R(i)
      BY <3>3
    <3>5. \A i \in 1 .. n + 1 : (gn \o <<w>>)[i] = R(i)
      <4>1. w = R(n + 1)
        BY DEF w
      <4> QED BY <3>2, <3>4, <4>1
    <3>6. gn \o <<w>> = [i \in 1 .. n + 1 |-> (gn \o <<w>>)[i]]
      BY <3>2
    <3> QED BY <3>5, <3>6
  <2>8. Len(gn \o <<w>>) = n + 1
    <3>1. gn \in Seq(Seq(Nat)) /\ w \in Seq(Nat)
      BY <2>2, <2>3, <2>4, RunIs DEF Handed
    <3> QED BY <3>1, <2>2
  <2> QED BY <2>6, <2>7, <2>8 DEF h
<1> HIDE DEF U
<1>11. k \in U
  BY <1>9, <1>10, AllNaturals
<1>12. Handed(G(k), c, c + k * bs, bs) /\ Len(G(k)) = k
  BY <1>11 DEF U
<1>13. Good(k)
  BY <1>7
<1> QED BY <1>2, <1>8, <1>12, <1>13 DEF b
-----------------------------------------------------------------------------
(* The filter.                                                             *)

FilterRec ==
  [firstSize : Nat, blockSize : Nat \ {0}, lastSize : Nat, firstInputDone : BOOLEAN,
   queue : QueueRec]

\* The filter with another queue.
WithQueue(e, q) == [e EXCEPT !.queue = q]

LEMMA WithQueueIs ==
  ASSUME NEW e \in FilterRec, NEW q \in QueueRec
  PROVE  LET g == WithQueue(e, q)
         IN  /\ g \in FilterRec /\ g.queue = q
             /\ g.firstSize = e.firstSize /\ g.blockSize = e.blockSize /\ g.lastSize = e.lastSize
             /\ g.firstInputDone = e.firstInputDone
BY DEF WithQueue, FilterRec

LEMMA FilterTypes ==
  ASSUME NEW e \in FilterRec
  PROVE  /\ e.firstSize \in Nat /\ e.blockSize \in Nat \ {0} /\ e.lastSize \in Nat
         /\ e.firstInputDone \in BOOLEAN /\ e.queue \in QueueRec
BY DEF FilterRec

\* The first bytes have come, and the ring is that of the blocks.
Started(e) ==
  /\ e \in FilterRec /\ e.firstInputDone
  /\ e.queue.blockSize = e.blockSize
  /\ MaxSize(e.queue) = e.blockSize * MaxBlocks(e)

\* What is kept back of all that has come since then.
KeptBack(e, size, all) ==
  IF all < e.lastSize THEN size = all
  ELSE size \in Nat /\ e.lastSize <= size /\ size < e.lastSize + e.blockSize

\* The ring has room for that.
LEMMA RingHasRoom ==
  ASSUME NEW e \in FilterRec
  PROVE  /\ MaxBlocks(e) \in Nat /\ e.blockSize * MaxBlocks(e) \in Nat
         /\ e.lastSize + e.blockSize <= e.blockSize * MaxBlocks(e) + 1
<1> DEFINE bs == e.blockSize
           ls == e.lastSize
           n == 2 * bs + ls - 2
           m == n \div bs
<1>1. bs \in Nat \ {0} /\ ls \in Nat
  BY FilterTypes
<1>2. MaxBlocks(e) = m
  BY DEF MaxBlocks
<1> HIDE DEF bs, ls
<1>3. n \in Nat
  BY <1>1
<1> HIDE DEF n
<1>4. m \in Nat /\ n % bs \in 0 .. bs - 1 /\ n = m * bs + (n % bs)
  BY <1>1, <1>3, Division
<1> HIDE DEF m
<1>5. bs * m = m * bs /\ bs * m \in Nat
  BY <1>1, <1>4
<1>6. ls + bs <= bs * m + 1
  <2> DEFINE x == bs * m
             r == n % bs
  <2>1. r \in 0 .. bs - 1 /\ n = x + r /\ x \in Nat /\ n = 2 * bs + ls - 2
    BY <1>4, <1>5 DEF n
  <2> HIDE DEF x, r
  <2>2. ls + bs <= x + 1
    BY <2>1, <1>1
  <2> QED BY <2>2 DEF x
<1> QED BY <1>2, <1>4, <1>5, <1>6 DEF bs, ls

\* The blocks to be handed on leave what is kept back.
LEMMA ReadyIs ==
  ASSUME NEW e \in FilterRec, NEW all \in Nat
  PROVE  LET r == Ready(e, all)
         IN  /\ r \in Nat /\ r * e.blockSize \in Nat /\ r * e.blockSize <= all
             /\ KeptBack(e, all - r * e.blockSize, all)
<1> DEFINE bs == e.blockSize
           ls == e.lastSize
           r == Ready(e, all)
<1>1. bs \in Nat \ {0} /\ ls \in Nat
  BY FilterTypes
<1>2. CASE all < ls
  <2>1. r = 0
    BY <1>2 DEF Ready
  <2>2. r * bs = 0
    <3>1. 0 * bs = 0
      BY <1>1
    <3> QED BY <2>1, <3>1
  <2>3. all - 0 = all
    OBVIOUS
  <2>4. KeptBack(e, all, all)
    BY <1>2 DEF KeptBack
  <2> HIDE DEF r
  <2> DEFINE x == r * bs
  <2>5. x = 0 /\ r \in Nat
    BY <2>1, <2>2
  <2> HIDE DEF x
  <2>6. x \in Nat /\ x <= all /\ KeptBack(e, all - x, all)
    BY <2>3, <2>4, <2>5
  <2> QED BY <2>5, <2>6 DEF x, r
<1>3. CASE ~(all < ls)
  <2> DEFINE n == all - ls
  <2>1. r = n \div bs
    BY <1>3 DEF Ready
  <2>2. n \in Nat
    BY <1>1, <1>3
  <2> HIDE DEF n, r, bs
  <2>3. n \div bs \in Nat /\ n % bs \in 0 .. bs - 1 /\ n = (n \div bs) * bs + (n % bs)
    BY <1>1, <2>2, Division
  <2> DEFINE x == r * bs
             y == n % bs
  <2>4. r \in Nat /\ y \in 0 .. bs - 1 /\ n = x + y /\ x \in Nat
    BY <2>1, <2>3, <1>1
  <2> HIDE DEF x, y
  <2>5. x <= all /\ all - x \in Nat /\ ls <= all - x /\ all - x < ls + bs
    BY <2>4, <1>1, <2>2 DEF n
  <2>6. KeptBack(e, all - x, all)
    BY <2>5, <1>3 DEF KeptBack, bs
  <2> QED BY <2>4, <2>5, <2>6 DEF x, bs, r
<1> QED BY <1>2, <1>3

\* The answer of a filter with the bytes behind c to those up to b: it hands on
\* whole blocks of them and keeps back the right number.
Passes(a, e, c, b) ==
  /\ a.f = WithQueue(e, a.f.queue)
  /\ a.f.queue.blockSize = e.queue.blockSize /\ MaxSize(a.f.queue) = MaxSize(e.queue)
  /\ \E d \in Nat : /\ Handed(a.given, c, d, e.blockSize)
                    /\ Holds(a.f.queue, d) /\ d + a.f.queue.size = b
  /\ KeptBack(e, a.f.queue.size, b - c)

\* After the strings that came out of the ring, `direct` bytes go straight on,
\* and the rest into the ring.
LEMMA GoesOn ==
  ASSUME NEW e \in FilterRec, NEW c \in Nat, NEW b \in Nat, NEW q, NEW g \in Nat, Holds(q, g),
         q.blockSize = e.queue.blockSize, MaxSize(q) = MaxSize(e.queue),
         NEW strings, Handed(strings, c, g, e.blockSize),
         NEW h \in Nat, g + q.size = h,
         NEW direct \in Nat, direct % e.blockSize = 0, h + direct <= b,
         direct = 0 \/ q.size = 0,
         b - (g + direct) <= MaxSize(q), KeptBack(e, b - (g + direct), b - c),
         NEW a, a.f = WithQueue(e, QueuePut(q, Run(h + direct, b))),
         a.given = strings \o <<Run(h, h + direct)>>
  PROVE  Passes(a, e, c, b)
<1> DEFINE x == g + direct
           j == h + direct
           p == QueuePut(q, Run(j, b))
           w == Run(h, j)
<1>1. q.size \in Nat
  BY RingTypes DEF Holds
<1>2. x \in Nat /\ j \in Nat /\ g <= x /\ h <= j /\ j <= b /\ x + q.size = j /\ x - g = direct
  <2> DEFINE z == q.size
  <2>1. z \in Nat /\ g + z = h /\ h + direct <= b
    BY <1>1
  <2> HIDE DEF z
  <2>2. (g + direct) + z = h + direct /\ (g + direct) - g = direct
    BY <2>1
  <2> QED BY <2>1, <2>2 DEF z
<1>3. w = Run(g, x)
  <2>1. CASE direct = 0
    <3>1. j = h /\ x = g
      BY <2>1
    <3>2. Run(h, h) = <<>> /\ Run(g, g) = <<>>
      BY DEF Run
    <3> QED BY <3>1, <3>2
  <2>2. CASE q.size = 0
    <3>1. h = g /\ j = x
      BY <2>2, <1>1
    <3> QED BY <3>1
  <2> QED BY <2>1, <2>2
<1>4. Holds(q, x)
  <2>1. CASE direct = 0
    <3>1. x = g
      BY <2>1
    <3> QED BY <3>1
  <2>2. CASE q.size = 0
    BY <2>2, HoldsNothing
  <2> QED BY <2>1, <2>2
<1>5. a.f = WithQueue(e, p) /\ a.given = strings \o <<w>>
  OBVIOUS
<1>6. b - x <= MaxSize(q) /\ KeptBack(e, b - x, b - c)
  OBVIOUS
<1> HIDE DEF x, w
<1>7. /\ Holds(p, x) /\ p.size = b - x
      /\ p.blockSize = q.blockSize /\ MaxSize(p) = MaxSize(q)
  <2> HIDE DEF j
  <2>1. x + q.size <= b
    BY <1>2
  <2>2. LET v == QueuePut(q, Run(x + q.size, b))
        IN  /\ Holds(v, x) /\ v.size = b - x
            /\ v.blockSize = q.blockSize /\ MaxSize(v) = MaxSize(q)
    BY <2>1, <1>2, <1>4, <1>6, QueuePutIs
  <2> QED BY <2>2, <1>2
<1>8. Handed(strings \o <<w>>, c, x, e.blockSize)
  <2>1. Handed(<<w>>, g, x, e.blockSize)
    BY <1>2, <1>3, HandedOne
  <2> QED BY <2>1, HandedJoin
<1> HIDE DEF p
<1>9. a.f.queue = p
  BY <1>5, <1>7, WithQueueIs DEF Holds, InPlace
<1>10. x + p.size = b
  BY <1>2, <1>7
<1>11. \E y \in Nat : /\ Handed(a.given, c, y, e.blockSize)
                      /\ Holds(a.f.queue, y) /\ y + a.f.queue.size = b
  BY <1>2, <1>5, <1>7, <1>8, <1>9, <1>10
<1> QED BY <1>5, <1>6, <1>7, <1>9, <1>11 DEF Passes

\* Blocks of one byte.
LEMMA NextBytesIs ==
  ASSUME NEW e, Started(e), e.blockSize = 1, NEW c \in Nat, Holds(e.queue, c),
         NEW b \in Nat, c + e.queue.size <= b
  PROVE  Passes(NextBytes(e, Run(c + e.queue.size, b)), e, c, b)
<1> DEFINE q == e.queue
           h == c + q.size
           s == Run(h, b)
           all == q.size + Len(s)
           n == Ready(e, all)
           d == Drained(q, n)
           direct == n - d.n
           a == NextBytes(e, s)
<1>1. e \in FilterRec /\ q.blockSize = 1 /\ MaxSize(q) = e.blockSize * MaxBlocks(e)
  BY DEF Started
<1>2. q.size \in Nat /\ MaxSize(q) \in Nat /\ q.size <= MaxSize(q) /\ e.lastSize \in Nat
  BY <1>1, RingTypes, FilterTypes DEF Holds
<1>3. s \in Seq(Nat) /\ Len(s) = b - h /\ h \in Nat
  <2>1. h \in Nat
    BY <1>2
  <2> QED BY <2>1, RunIs
<1>4. all = b - c /\ all \in Nat
  <2> HIDE DEF s, q
  <2>1. Len(s) = b - (c + q.size) /\ c + q.size <= b
    BY <1>3 DEF q
  <2> QED BY <2>1, <1>2
<1>5. MaxSize(q) >= e.lastSize
  <2>1. e.lastSize + 1 <= e.blockSize * MaxBlocks(e) + 1 /\ e.blockSize * MaxBlocks(e) \in Nat
    BY <1>1, RingHasRoom
  <2> HIDE DEF q
  <2> QED BY <2>1, <1>1, <1>2
<1> HIDE DEF all
<1>6. n \in Nat /\ n <= all /\ KeptBack(e, all - n, all)
  <2>1. /\ n \in Nat /\ n * 1 \in Nat /\ n * 1 <= all /\ KeptBack(e, all - n * 1, all)
    BY <1>1, <1>4, ReadyIs
  <2> HIDE DEF n
  <2>2. n * 1 = n
    BY <2>1
  <2> QED BY <2>1, <2>2
<1>7. all - n <= MaxSize(q) /\ all - n \in Nat
  <2> HIDE DEF n, q
  <2> QED BY <1>2, <1>4, <1>5, <1>6 DEF KeptBack
<1>8. CASE n = 0
  <2> DEFINE p == QueuePut(q, s)
  <2>1. a = Answer(WithQueue(e, p), <<>>)
    <3> HIDE DEF s
    <3> QED BY <1>8 DEF NextBytes, WithQueue, all
  <2>2. /\ Holds(p, c) /\ p.size = b - c
        /\ p.blockSize = q.blockSize /\ MaxSize(p) = MaxSize(q)
    <3>1. b - c <= MaxSize(q)
      BY <1>4, <1>7, <1>8
    <3> HIDE DEF q
    <3> QED BY <3>1, QueuePutIs DEF q
  <2> HIDE DEF p, a, n
  <2>3. a.f = WithQueue(e, p) /\ a.given = <<>>
    BY <2>1 DEF Answer
  <2>4. a.f.queue = p
    BY <2>2, <2>3, <1>1, WithQueueIs DEF Holds, InPlace
  <2>5. Handed(<<>>, c, c, e.blockSize) /\ c + p.size = b /\ b - c = all /\ all - n = all
    BY <2>2, <1>4, <1>8, HandedNone
  <2>6. KeptBack(e, p.size, b - c)
    BY <2>2, <2>5, <1>4, <1>6
  <2>7. \E x \in Nat : /\ Handed(a.given, c, x, e.blockSize)
                       /\ Holds(a.f.queue, x) /\ x + a.f.queue.size = b
    BY <2>2, <2>3, <2>4, <2>5
  <2>8. Passes(a, e, c, b)
    BY <2>2, <2>3, <2>4, <2>6, <2>7 DEF Passes
  <2> QED BY <2>8 DEF a
<1>9. CASE n # 0
  <2> DEFINE t == SubSeq(s, direct + 1, Len(s))
             w == SubSeq(s, 1, direct)
             p == QueuePut(d.queue, t)
             k == d.n
             g == c + k
             x == c + n
             j == h + direct
  <2>1. a = Answer(WithQueue(e, p), d.given \o <<w>>)
    <3> HIDE DEF s
    <3> QED BY <1>9 DEF NextBytes, WithQueue, all
  <2>2. /\ k = Lower(n, q.size)
        /\ Holds(d.queue, g) /\ d.queue.size = q.size - k
        /\ d.queue.blockSize = 1 /\ MaxSize(d.queue) = MaxSize(q)
        /\ Handed(d.given, c, g, 1)
    <3> HIDE DEF n
    <3> QED BY <1>1, <1>6, DrainedIs
  <2>3. k \in Nat /\ k <= n /\ k <= q.size /\ (k = n \/ k = q.size)
    <3> HIDE DEF n, d
    <3> QED BY <2>2, <1>2, <1>6 DEF Lower
  <2>4. direct \in Nat /\ direct <= b - h
    <3>1. direct = n - k /\ all = q.size + (b - h) /\ h <= b
      BY <1>3 DEF all
    <3> HIDE DEF n, d, direct, h, k
    <3> QED BY <3>1, <2>3, <1>2, <1>3, <1>6
  <2>5. /\ g \in Nat /\ x \in Nat /\ g <= x /\ x + d.queue.size = j
        /\ j \in Nat /\ h <= j /\ j <= b
        /\ (direct = 0 /\ x = g) \/ (d.queue.size = 0 /\ h = g /\ j = x)
    <3>1. direct = n - k /\ h = c + q.size /\ h <= b
      OBVIOUS
    <3>2. d.queue.size = q.size - k
      BY <2>2
    <3> DEFINE z == d.queue.size
               y == q.size
    <3>3. z = y - k /\ h = c + y /\ y \in Nat
      BY <3>1, <3>2, <1>2
    <3>4. g = c + k /\ x = c + n /\ j = h + direct
      OBVIOUS
    <3> HIDE DEF n, d, direct, k, h, z, y, g, x, j
    <3>5. /\ g \in Nat /\ x \in Nat /\ g <= x /\ j \in Nat /\ h <= j /\ j <= b
      BY <3>1, <3>3, <3>4, <2>3, <2>4, <1>3, <1>6
    <3>6. CASE k = n
      <4>1. direct = 0 /\ x = g /\ x + z = j
        BY <3>1, <3>3, <3>4, <3>6, <2>3, <1>6
      <4> QED BY <4>1, <3>5 DEF z
    <3>7. CASE k = y
      <4>1. z = 0 /\ h = g /\ j = x /\ x + z = j
        BY <3>1, <3>3, <3>4, <3>7, <2>3, <1>6
      <4> QED BY <4>1, <3>5 DEF z
    <3> QED BY <3>6, <3>7, <2>3 DEF y
  <2>6. w = Run(h, j) /\ t = Run(j, b)
    <3>1. Len(s) = b - h /\ h + (b - h) = b /\ b - h \in Nat
      BY <1>3
    <3>2. h \in Nat /\ h <= b /\ direct \in Nat /\ direct <= b - h /\ b - h <= b - h
      BY <1>3, <2>4
    <3> HIDE DEF direct, h
    <3>3. SubSeq(Run(h, b), 1, direct) = Run(h, h + direct)
      BY <3>2, RunHead
    <3>4. SubSeq(Run(h, b), direct + 1, b - h) = Run(h + direct, h + (b - h))
      <4> DEFINE m == b - h
                 i1 == direct + 1
                 j1 == h + direct
                 m1 == h + m
      <4>1. /\ h \in Nat /\ b \in Nat /\ h <= b /\ direct \in Nat /\ m \in Nat
            /\ direct <= m /\ m <= b - h
        BY <3>1, <3>2
      <4>2. i1 = direct + 1 /\ j1 = h + direct /\ m1 = h + m
        OBVIOUS
      <4> HIDE DEF m, i1, j1, m1
      <4>3. PartIs(h, b, direct, m, i1, j1, m1)
        BY <4>1, <4>2 DEF PartIs
      <4>4. SubSeq(Run(h, b), i1, m) = Run(j1, m1)
        BY <4>3, RunCutAt
      <4> QED BY <4>4 DEF m, i1, j1, m1
    <3> QED BY <3>1, <3>3, <3>4
  <2>7. g + direct = x /\ g + d.queue.size = h
    <3> DEFINE z == d.queue.size
               y == q.size
    <3>1. z = y - k /\ k \in Nat /\ k <= y /\ y \in Nat /\ n \in Nat /\ k <= n
      BY <2>2, <2>3, <1>2, <1>6
    <3> HIDE DEF d, z, y, n, k
    <3>2. (c + k) + (n - k) = c + n /\ (c + k) + z = c + y
      BY <3>1
    <3> QED BY <3>2 DEF z, y, k
  <2>8. b - x <= MaxSize(d.queue) /\ KeptBack(e, b - x, b - c)
    <3>1. b - x = all - n
      BY <1>4, <1>6
    <3> QED BY <3>1, <2>2, <1>4, <1>6, <1>7
  <2>9. direct = 0 \/ d.queue.size = 0
    BY <2>5
  <2>10. direct % e.blockSize = 0
    BY <2>4
  <2> HIDE DEF d, w, t, direct, a, n, g, h, x
  <2>11. a.f = WithQueue(e, p) /\ a.given = d.given \o <<w>>
    BY <2>1 DEF Answer
  <2>12. a.f = WithQueue(e, QueuePut(d.queue, Run(h + direct, b)))
         /\ a.given = d.given \o <<Run(h, h + direct)>>
    BY <2>6, <2>11
  <2> DEFINE r == d.queue
             gs == d.given
  <2>13. /\ Holds(r, g) /\ r.blockSize = e.queue.blockSize /\ MaxSize(r) = MaxSize(e.queue)
         /\ Handed(gs, c, g, e.blockSize)
    BY <2>2, <1>1
  <2>14. /\ g \in Nat /\ h \in Nat /\ direct \in Nat /\ g + r.size = h /\ direct % e.blockSize = 0
         /\ h + direct <= b /\ (direct = 0 \/ r.size = 0)
         /\ b - (g + direct) <= MaxSize(r) /\ KeptBack(e, b - (g + direct), b - c)
    BY <2>4, <2>5, <2>7, <2>8, <2>9, <2>10, <1>3
  <2>15. a.f = WithQueue(e, QueuePut(r, Run(h + direct, b)))
         /\ a.given = gs \o <<Run(h, h + direct)>>
    BY <2>12
  <2> HIDE DEF r, gs, q
  <2>16. Passes(a, e, c, b)
    BY <2>13, <2>14, <2>15, <1>1, GoesOn
  <2> QED BY <2>16 DEF a, h, q
<1> QED BY <1>8, <1>9 DEF q
\* Of the blocks that are ready, `whole` are in the queue.
LEMMA WholeBlocks ==
  ASSUME NEW bs \in Nat \ {0}, NEW size \in Nat, NEW ready \in Nat,
         NEW whole, whole = Lower(ready, size \div bs)
  PROVE  /\ whole \in Nat /\ whole <= ready /\ whole * bs \in Nat /\ whole * bs <= size
         /\ whole < ready => size - whole * bs < bs
<1> DEFINE q == size \div bs
           r == size % bs
<1>1. q \in Nat /\ r \in 0 .. bs - 1 /\ size = q * bs + r
  BY Division
<1>2. whole = IF ready < q THEN ready ELSE q
  BY DEF Lower
<1> HIDE DEF q, r
<1>3. whole \in Nat /\ whole <= ready /\ whole <= q /\ (whole < ready => whole = q)
  BY <1>1, <1>2
<1>4. q - whole \in Nat
  BY <1>1, <1>3
<1>5. (q - whole) * bs \in Nat /\ q * bs = whole * bs + (q - whole) * bs /\ whole * bs \in Nat
  BY <1>4, <1>1, <1>3
<1>6. whole * bs <= size
  <2> DEFINE x == (q - whole) * bs
             y == q * bs
             w == whole * bs
  <2>1. x \in Nat /\ y = w + x /\ w \in Nat /\ size = y + r
    BY <1>1, <1>5
  <2> HIDE DEF x, y, w
  <2>2. w <= size
    BY <2>1, <1>1
  <2> QED BY <2>2 DEF w
<1>7. ASSUME whole < ready PROVE size - whole * bs < bs
  <2> DEFINE y == q * bs
             w == whole * bs
  <2>1. whole = q
    BY <1>3, <1>7
  <2>2. w = y /\ size = y + r /\ y \in Nat
    BY <2>1, <1>1, <1>5
  <2> HIDE DEF y, w
  <2>3. size - w < bs
    BY <2>2, <1>1
  <2> QED BY <2>3 DEF w
<1> QED BY <1>3, <1>5, <1>6, <1>7

\* The bytes of the blocks that are neither of those nor, with k = 1, the next.
LEMMA DirectBlocks ==
  ASSUME NEW bs \in Nat \ {0}, NEW ready \in Nat, NEW whole \in Nat, NEW k \in Nat,
         whole + k <= ready
  PROVE  LET direct == (ready - whole - k) * bs
         IN  /\ direct \in Nat /\ direct % bs = 0
             /\ ready * bs = (whole * bs + k * bs) + direct
<1> DEFINE m == ready - whole - k
<1>1. m \in Nat /\ ready = whole + k + m
  OBVIOUS
<1> HIDE DEF m
<1>2. m * bs \in Nat /\ ready * bs = (whole * bs + k * bs) + m * bs
  BY <1>1
<1>3. 0 \in 0 .. bs - 1 /\ m * bs = m * bs + 0
  BY <1>2
<1>4. (m * bs) % bs = 0
  BY <1>1, <1>3, DivisionIsUnique
<1> QED BY <1>2, <1>4 DEF m

\* The numbers of bytes that NextBlocks works with: w of them are whole blocks in
\* the queue, z are left there, len of the n that come complete a block, in
\* blocks of k bytes, and `direct` go straight on.
LEMMA BytesCount ==
  ASSUME NEW bs \in Nat \ {0}, NEW size \in Nat, NEW n \in Nat, NEW w \in Nat, w <= size,
         NEW R \in Nat, R <= size + n,
         NEW z, z = size - w,
         NEW fills \in BOOLEAN, fills => z < bs,
         NEW len, len = IF fills THEN bs - z ELSE 0,
         NEW k, k = IF fills THEN bs ELSE 0,
         NEW direct \in Nat, R = (w + k) + direct,
         ~fills => direct = 0 \/ z = 0
  PROVE  /\ z \in Nat /\ len \in Nat /\ k \in Nat /\ k <= z + len
         /\ len + direct <= n
         /\ direct = 0 \/ (z + len) - k = 0
<1>1. CASE fills
  BY <1>1 DEF Lower
<1>2. CASE ~fills
  BY <1>2 DEF Lower
<1> QED BY <1>1, <1>2
\* Whole blocks out of the ring, one that is completed, and the others straight on.
LEMMA NextBlocksIs ==
  ASSUME NEW e, Started(e), NEW c \in Nat, Holds(e.queue, c),
         NEW b \in Nat, c + e.queue.size <= b
  PROVE  Passes(NextBlocks(e, Run(c + e.queue.size, b)), e, c, b)
<1> DEFINE q == e.queue
           bs == e.blockSize
           h == c + q.size
           s == Run(h, b)
           n == Len(s)
           all == q.size + n
           ready == Ready(e, all)
           whole == Lower(ready, q.size \div bs)
           b1 == GotBlocks(q, whole)
           w == whole * bs
           z == q.size - w
           fills == ready > whole /\ b1.queue.size > 0
           len == IF fills THEN bs - b1.queue.size ELSE 0
           one == IF fills THEN 1 ELSE 0
           k == IF fills THEN bs ELSE 0
           p1 == QueuePut(b1.queue, SubSeq(s, 1, len))
           b2 == GotBlocks(p1, one)
           direct == (ready - whole - Len(b2.given)) * bs
           p2 == QueuePut(b2.queue, SubSeq(s, len + direct + 1, n))
           a == NextBlocks(e, s)
<1>1. /\ e \in FilterRec /\ q.blockSize = bs /\ MaxSize(q) = bs * MaxBlocks(e)
      /\ bs \in Nat \ {0} /\ e.lastSize \in Nat
  BY FilterTypes DEF Started
<1>2. q.size \in Nat /\ MaxSize(q) \in Nat /\ q.size <= MaxSize(q)
  BY RingTypes DEF Holds
<1>3. h \in Nat /\ h <= b /\ s \in Seq(Nat) /\ n = b - h /\ n \in Nat
  <2>1. h \in Nat /\ h <= b
    BY <1>2
  <2> HIDE DEF h
  <2>2. s \in Seq(Nat) /\ n = b - h
    BY <2>1, RunIs
  <2> QED BY <2>1, <2>2
<1>4. all = b - c /\ all \in Nat
  BY <1>2, <1>3
<1>5. a = Answer(WithQueue(e, p2),
                 (b1.given \o b2.given) \o <<SubSeq(s, len + 1, len + direct)>>)
  <2> HIDE DEF s
  <2> QED BY DEF NextBlocks, WithQueue
<1> HIDE DEF a, s
<1>6. /\ ready \in Nat /\ ready * bs \in Nat /\ ready * bs <= all
      /\ KeptBack(e, all - ready * bs, all)
  BY <1>1, <1>4, ReadyIs
<1> HIDE DEF ready, n
<1>7. /\ whole \in Nat /\ whole <= ready /\ w \in Nat /\ w <= q.size
      /\ whole < ready => q.size - w < bs
  BY <1>1, <1>2, <1>6, WholeBlocks
<1> HIDE DEF whole
<1>8. /\ Holds(b1.queue, c + w) /\ b1.queue.size = z
      /\ b1.queue.blockSize = bs /\ MaxSize(b1.queue) = MaxSize(q)
      /\ Handed(b1.given, c, c + w, bs)
  BY <1>1, <1>7, GotBlocksIs
<1> HIDE DEF b1
<1>9. z \in Nat /\ w + z = q.size
  BY <1>2, <1>7
<1>10. fills => ready > whole /\ z > 0 /\ z < bs
  BY <1>7, <1>8
<1>11. ~fills => ready = whole \/ z = 0
  BY <1>6, <1>7, <1>8, <1>9
<1>12. len = IF fills THEN bs - z ELSE 0
  BY <1>8
<1>13. fills \in BOOLEAN
  OBVIOUS
<1> HIDE DEF fills, len, w, z
<1>14. len \in Nat /\ k \in Nat /\ len <= n /\ one * bs = k /\ one \in Nat /\ one <= 1
  <2>1. 0 * bs = 0 /\ 1 * bs = bs
    BY <1>1
  <2>2. CASE fills
    <3>1. len = bs - z /\ k = bs /\ one = 1
      BY <2>2, <1>12
    <3>2. (whole + 1) * bs = w + bs /\ (whole + 1) * bs <= ready * bs
      <4>1. ready - (whole + 1) \in Nat
        BY <2>2, <1>6, <1>7, <1>10
      <4>2. (ready - (whole + 1)) * bs \in Nat
            /\ ready * bs = (whole + 1) * bs + (ready - (whole + 1)) * bs
            /\ (whole + 1) * bs \in Nat
        BY <4>1, <1>1, <1>6, <1>7
      <4>3. (whole + 1) * bs = w + bs
        BY <1>1, <1>7 DEF w
      <4> DEFINE x == (whole + 1) * bs
                 y == ready * bs
                 v == (ready - (whole + 1)) * bs
      <4>4. v \in Nat /\ x \in Nat /\ y = x + v
        BY <4>2
      <4> HIDE DEF x, y, v
      <4>5. x <= y
        BY <4>4
      <4> QED BY <4>3, <4>5 DEF x, y
    <3> DEFINE y == ready * bs
    <3>3. w + bs <= y /\ y <= all /\ y \in Nat
      BY <3>2, <1>6
    <3> DEFINE x == q.size
    <3>5. /\ w + bs <= y /\ y <= x + n /\ y \in Nat /\ w \in Nat /\ x \in Nat /\ n \in Nat
          /\ bs \in Nat /\ z \in Nat /\ w + z = x
      BY <3>3, <1>1, <1>2, <1>3, <1>7, <1>9
    <3> HIDE DEF y, x, bs
    <3>4. bs - z <= n
      BY <3>5
    <3> QED BY <3>1, <3>4, <2>1, <1>1, <1>9, <1>10, <2>2
  <2>3. CASE ~fills
    BY <2>1, <2>3, <1>12, <1>3
  <2> QED BY <2>2, <2>3
<1>15. bs <= MaxSize(q) \/ ~fills
  <2>1. SUFFICES ASSUME fills PROVE bs <= MaxSize(q)
    OBVIOUS
  <2> DEFINE m == MaxBlocks(e)
             x == bs * m
  <2>2. m \in Nat /\ x \in Nat /\ e.lastSize + bs <= x + 1
    BY <1>1, RingHasRoom
  <2>3. MaxSize(q) = x /\ bs \in Nat /\ bs > 1
    BY <1>1, <1>9, <1>10, <2>1
  <2> HIDE DEF m
  <2>4. m # 0
    <3>1. bs * 0 = 0
      BY <2>3
    <3>2. x # 0
      <4> HIDE DEF x
      <4> QED BY <2>2, <2>3, <1>1
    <3> QED BY <3>1, <3>2
  <2>5. m - 1 \in Nat /\ bs * (m - 1) \in Nat /\ x = bs + bs * (m - 1)
    BY <2>2, <2>3, <2>4
  <2> DEFINE y == bs * (m - 1)
  <2>6. y \in Nat /\ x = bs + y
    BY <2>5
  <2> HIDE DEF x, y
  <2> QED BY <2>3, <2>6
<1>16. SubSeq(s, 1, len) = Run(h, h + len)
  <2> HIDE DEF h, k
  <2>1. h \in Nat /\ b \in Nat /\ h <= b /\ len \in Nat /\ len <= b - h
    BY <1>3, <1>14
  <2>2. SubSeq(Run(h, b), 1, len) = Run(h, h + len)
    BY <2>1, RunHead
  <2> QED BY <2>2 DEF s
<1> DEFINE v == b1.queue
           g1 == c + w
           j == h + len
<1>17. g1 \in Nat /\ g1 + z = h /\ j \in Nat /\ j - g1 = z + len /\ h <= j /\ j <= b
  <2> HIDE DEF k, one
  <2> DEFINE y == q.size
  <2>1. y \in Nat /\ w \in Nat /\ z \in Nat /\ w + z = y /\ h = c + y /\ len \in Nat /\ len <= b - h
    BY <1>2, <1>3, <1>7, <1>9, <1>14
  <2> HIDE DEF y, h
  <2> QED BY <2>1
<1>18. z + len <= MaxSize(q)
  <2> DEFINE y == q.size
             m == MaxSize(q)
  <2>1. /\ y \in Nat /\ w \in Nat /\ z \in Nat /\ w + z = y /\ y <= m /\ m \in Nat
        /\ len = IF fills THEN bs - z ELSE 0
        /\ bs <= m \/ ~fills
        /\ bs \in Nat
    BY <1>1, <1>2, <1>7, <1>9, <1>12, <1>15
  <2> HIDE DEF y, m, bs
  <2> QED BY <2>1 DEF y, m
<1>19. /\ Holds(p1, g1) /\ p1.size = z + len
       /\ p1.blockSize = bs /\ MaxSize(p1) = MaxSize(q)
  <2>1. /\ Holds(v, g1) /\ v.size = z /\ MaxSize(v) = MaxSize(q) /\ v.blockSize = bs
    BY <1>8
  <2>2. p1 = QueuePut(v, Run(g1 + v.size, j))
    BY <1>16, <1>17, <2>1
  <2>3. g1 \in Nat /\ j \in Nat /\ g1 + v.size <= j /\ j - g1 <= MaxSize(v)
    <3> HIDE DEF v, g1, j, h, q
    <3> QED BY <1>17, <1>18, <2>1
  <2> HIDE DEF v, g1, j, p1, q, bs, h
  <2>4. LET p == QueuePut(v, Run(g1 + v.size, j))
        IN  /\ Holds(p, g1) /\ p.size = j - g1
            /\ p.blockSize = v.blockSize /\ MaxSize(p) = MaxSize(v)
    BY <2>1, <2>3, QueuePutIs
  <2> QED BY <2>1, <2>2, <2>4, <1>17
<1> DEFINE g == g1 + k
           r == b2.queue
<1>20. k <= z + len
  BY <1>1, <1>9, <1>12, <1>14
<1>21. /\ Holds(r, g) /\ r.size = (z + len) - k
       /\ r.blockSize = bs /\ MaxSize(r) = MaxSize(q)
       /\ Handed(b2.given, g1, g, bs) /\ Len(b2.given) = one
  <2> HIDE DEF p1, g1, bs, q, k, one
  <2>1. one * p1.blockSize = k /\ k <= p1.size
    BY <1>14, <1>19, <1>20
  <2>2. LET x == GotBlocks(p1, one)
            d == g1 + one * p1.blockSize
        IN  /\ Holds(x.queue, d) /\ x.queue.size = p1.size - one * p1.blockSize
            /\ x.queue.blockSize = p1.blockSize /\ MaxSize(x.queue) = MaxSize(p1)
            /\ Handed(x.given, g1, d, p1.blockSize)
            /\ Len(x.given) = one
    BY <2>1, <1>14, <1>17, <1>19, GotBlocksIs
  <2> QED BY <2>1, <2>2, <1>19
<1>22. whole + one <= ready
  BY <1>6, <1>7, <1>10, <1>14
<1> DEFINE R == ready * bs
<1>23. direct \in Nat /\ direct % bs = 0 /\ R = (w + k) + direct
  <2> DEFINE x == (ready - whole - one) * bs
  <2>1. x \in Nat /\ x % bs = 0 /\ R = (whole * bs + one * bs) + x
    <3> HIDE DEF bs, one
    <3> QED BY <1>1, <1>6, <1>7, <1>14, <1>22, DirectBlocks
  <2>2. direct = x
    BY <1>21
  <2> HIDE DEF x, direct, one, k
  <2> QED BY <2>1, <2>2, <1>14 DEF w
<1>24. ~fills => direct = 0 \/ z = 0
  <2>1. ASSUME ready = whole, ~fills PROVE direct = 0
    <3>3. one = 0
      BY <2>1
    <3>1. ready - whole - one = 0
      <4> HIDE DEF one
      <4>1. ready \in Nat
        BY <1>6
      <4>2. \A x \in Nat : x - x - 0 = 0
        OBVIOUS
      <4> QED BY <2>1, <3>3, <4>1, <4>2
    <3>2. 0 * bs = 0
      BY <1>1
    <3> QED BY <3>1, <3>2, <1>21
  <2> QED BY <2>1, <1>11
<1> HIDE DEF b2, direct
<1>25. len + direct <= n /\ (direct = 0 \/ (z + len) - k = 0)
  <2> DEFINE size == q.size
  <2>1. /\ size \in Nat /\ w \in Nat /\ w <= size /\ R \in Nat /\ R <= size + n
        /\ z = size - w /\ fills \in BOOLEAN /\ (fills => z < bs)
        /\ len = (IF fills THEN bs - z ELSE 0) /\ k = (IF fills THEN bs ELSE 0)
        /\ direct \in Nat /\ R = (w + k) + direct /\ (~fills => direct = 0 \/ z = 0)
    BY <1>2, <1>6, <1>7, <1>10, <1>12, <1>13, <1>23, <1>24 DEF z
  <2> HIDE DEF size, R, k, bs
  <2> QED BY <2>1, <1>1, <1>3, BytesCount
<1>26. h + len = j /\ j + direct <= b /\ len + direct <= n
  <2> HIDE DEF h, R, k, g1
  <2>1. h + len = j
    OBVIOUS
  <2>2. h \in Nat /\ n = b - h /\ len \in Nat /\ direct \in Nat /\ len + direct <= n
    BY <1>3, <1>14, <1>23, <1>25
  <2> QED BY <2>2
<1>27. /\ SubSeq(s, len + 1, len + direct) = Run(j, j + direct)
       /\ SubSeq(s, len + direct + 1, n) = Run(j + direct, b)
  <2> HIDE DEF h, R, k, g1
  <2> DEFINE m == len + direct
  <2>1. /\ h \in Nat /\ h <= b /\ n = b - h /\ len \in Nat /\ m \in Nat /\ len <= m /\ m <= n /\ n \in Nat
        /\ h + m = (h + len) + direct /\ h + n = b /\ m <= b - h /\ n <= b - h
    BY <1>3, <1>14, <1>23, <1>26
  <2> HIDE DEF m
  <2>2. SubSeq(Run(h, b), len + 1, m) = Run(h + len, h + m)
    <3>1. h \in Nat /\ h <= b /\ len \in Nat /\ m \in Nat /\ len <= m /\ m <= b - h
      BY <2>1
    <3> DEFINE i1 == len + 1
               j1 == h + len
               m1 == h + m
    <3>2. i1 = len + 1 /\ j1 = h + len /\ m1 = h + m
      OBVIOUS
    <3> HIDE DEF i1, j1, m1
    <3>3. PartIs(h, b, len, m, i1, j1, m1)
      BY <3>1, <3>2 DEF PartIs
    <3>4. SubSeq(Run(h, b), i1, m) = Run(j1, m1)
      BY <3>3, RunCutAt
    <3> QED BY <3>4 DEF i1, j1, m1
  <2>3. SubSeq(Run(h, b), m + 1, n) = Run(h + m, h + n)
    <3>1. h \in Nat /\ h <= b /\ m \in Nat /\ n \in Nat /\ m <= n /\ n <= b - h
      BY <2>1
    <3> DEFINE i1 == m + 1
               j1 == h + m
               m1 == h + n
    <3>2. i1 = m + 1 /\ j1 = h + m /\ m1 = h + n
      OBVIOUS
    <3> HIDE DEF i1, j1, m1
    <3>3. PartIs(h, b, m, n, i1, j1, m1)
      BY <3>1, <3>2 DEF PartIs
    <3>4. SubSeq(Run(h, b), i1, n) = Run(j1, m1)
      BY <3>3, RunCutAt
    <3> QED BY <3>4 DEF i1, j1, m1
  <2>4. s = Run(h, b)
    BY DEF s
  <2> HIDE DEF s
  <2> QED BY <2>1, <2>2, <2>3, <2>4 DEF m
<1>28. Handed(b1.given \o b2.given, c, g, bs)
  BY <1>8, <1>21, HandedJoin
<1>29. /\ g \in Nat /\ g + r.size = j /\ (direct = 0 \/ r.size = 0)
       /\ b - (g + direct) = all - R
  <2> DEFINE y == q.size
             x == r.size
  <2>1. /\ w \in Nat /\ k \in Nat /\ z \in Nat /\ len \in Nat /\ x = (z + len) - k /\ y = w + z
        /\ direct = 0 \/ (z + len) - k = 0
        /\ R = (w + k) + direct /\ direct \in Nat /\ y \in Nat
        /\ all = b - c
    BY <1>2, <1>4, <1>7, <1>9, <1>14, <1>21, <1>23, <1>25
  <2>2. g = (c + w) + k /\ j = (c + y) + len
    OBVIOUS
  <2> HIDE DEF x, y, all, R, k, g, j
  <2>3. g \in Nat /\ g + x = j /\ (direct = 0 \/ x = 0)
    BY <2>1, <2>2
  <2>4. b - (g + direct) = all - R
    BY <2>1, <2>2
  <2> QED BY <2>3, <2>4 DEF x
<1>30. all - R <= MaxSize(r) /\ KeptBack(e, all - R, b - c)
  <2> DEFINE m == MaxSize(r)
             x == MaxBlocks(e)
             y == bs * x
             left == all - R
             ls == e.lastSize
  <2>1. y \in Nat /\ ls + bs <= y + 1 /\ m = y
    BY <1>1, <1>21, RingHasRoom
  <2>2. KeptBack(e, left, all) /\ R \in Nat /\ R <= all /\ all \in Nat
    BY <1>4, <1>6
  <2>3. bs \in Nat \ {0} /\ ls \in Nat
    BY <1>1
  <2> HIDE DEF y, m, R, all
  <2>4. left \in Nat
    BY <2>2
  <2> HIDE DEF left
  <2>5. left < ls \/ left < ls + bs
    BY <2>2, <2>3, <2>4 DEF KeptBack, ls, bs
  <2> HIDE DEF ls, bs
  <2>6. left <= m
    BY <2>1, <2>3, <2>4, <2>5
  <2> QED BY <2>2, <2>6, <1>4 DEF left, m
<1>31. /\ a.f = WithQueue(e, QueuePut(r, Run(j + direct, b)))
       /\ a.given = (b1.given \o b2.given) \o <<Run(j, j + direct)>>
  <2> DEFINE gs == b1.given \o b2.given
  <2>1. a = Answer(WithQueue(e, p2), gs \o <<SubSeq(s, len + 1, len + direct)>>)
    BY <1>5
  <2> HIDE DEF gs, j
  <2>2. a.f = WithQueue(e, p2) /\ a.given = gs \o <<SubSeq(s, len + 1, len + direct)>>
    BY <2>1 DEF Answer
  <2>3. p2 = QueuePut(r, Run(j + direct, b))
    BY <1>27
  <2> HIDE DEF p2
  <2> QED BY <1>27, <2>2, <2>3 DEF gs
<1> DEFINE gs == b1.given \o b2.given
<1>32. /\ Holds(r, g) /\ r.blockSize = e.queue.blockSize /\ MaxSize(r) = MaxSize(e.queue)
       /\ Handed(gs, c, g, e.blockSize) /\ e \in FilterRec
  BY <1>1, <1>21, <1>28
<1>33. /\ g \in Nat /\ j \in Nat /\ direct \in Nat /\ g + r.size = j /\ direct % e.blockSize = 0
       /\ j + direct <= b /\ (direct = 0 \/ r.size = 0)
       /\ b - (g + direct) <= MaxSize(r) /\ KeptBack(e, b - (g + direct), b - c)
  BY <1>17, <1>23, <1>26, <1>29, <1>30
<1>34. /\ a.f = WithQueue(e, QueuePut(r, Run(j + direct, b)))
       /\ a.given = gs \o <<Run(j, j + direct)>>
  BY <1>31
<1> HIDE DEF gs, r, g, j
<1>35. Passes(a, e, c, b)
  BY <1>32, <1>33, <1>34, GoesOn
<1> QED BY <1>35 DEF a, s, h, q
LEMMA NextPutIs ==
  ASSUME NEW e, Started(e), NEW c \in Nat, Holds(e.queue, c),
         NEW b \in Nat, c + e.queue.size <= b
  PROVE  Passes(NextPut(e, Run(c + e.queue.size, b)), e, c, b)
<1>1. CASE e.blockSize = 1
  BY <1>1, NextBytesIs DEF NextPut
<1>2. CASE e.blockSize # 1
  BY <1>2, NextBlocksIs DEF NextPut
<1> QED BY <1>1, <1>2

\* A ring that has been reset.
LEMMA NewQueue ==
  ASSUME NEW bs \in Nat \ {0}, NEW m \in Nat, NEW c \in Nat
  PROVE  LET q == Queue(bs, m)
         IN  /\ Holds(q, c) /\ q.size = 0 /\ q.blockSize = bs
             /\ MaxSize(q) = bs * m /\ bs * m \in Nat
<1> DEFINE q == Queue(bs, m)
           n == bs * m
           buffer == [i \in 1 .. n |-> Garbage]
<1>1. n \in Nat /\ n = m * bs /\ 0 * bs = 0
  OBVIOUS
<1>2. q = [buffer |-> buffer, blockSize |-> bs, begin |-> 0, size |-> 0]
  BY DEF Queue
<1> HIDE DEF n, q
<1>3. buffer \in Seq(Cells) /\ Len(buffer) = n
  BY <1>1 DEF Cells
<1> HIDE DEF buffer
<1>4. q \in QueueRec /\ q.size = 0 /\ q.blockSize = bs /\ q.begin = 0 /\ MaxSize(q) = n
  BY <1>2, <1>3 DEF QueueRec, MaxSize
<1>5. \E i, j \in Nat : q.begin = i * q.blockSize /\ MaxSize(q) = j * q.blockSize
  <2>1. q.begin = 0 * q.blockSize /\ MaxSize(q) = m * q.blockSize
    BY <1>1, <1>4
  <2> QED BY <2>1
<1>6. InPlace(q)
  <2>1. n \in Nat /\ q.size = 0 /\ MaxSize(q) = n
    BY <1>1, <1>4
  <2>2. q.size <= MaxSize(q)
    BY <2>1
  <2> QED BY <1>4, <1>5, <2>2, Zenon DEF InPlace
<1>7. 1 .. q.size = {}
  BY <1>4
<1>8. Holds(q, c)
  BY <1>6, <1>7 DEF Holds
<1> QED BY <1>1, <1>4, <1>8 DEF q, n

-----------------------------------------------------------------------------
(* Strings that are not empty.                                             *)

\* For each string, the sequence of it if it is not empty.
One(x) == IF x = <<>> THEN <<>> ELSE <<x>>
Ones(ss) == [i \in DOMAIN ss |-> One(ss[i])]

LEMMA OnesIs ==
  ASSUME NEW S, NEW ss \in Seq(S)
  PROVE  /\ Ones(ss) \in Seq(Seq(S)) /\ Len(Ones(ss)) = Len(ss)
         /\ \A i \in 1 .. Len(ss) : Ones(ss)[i] = One(ss[i])
         /\ NotEmpty(ss) = FlattenSeq(Ones(ss))
<1>1. \A x \in S : One(x) \in Seq(S)
  BY DEF One
<1> DEFINE n == Len(ss)
<1>2. n \in Nat /\ DOMAIN ss = 1 .. n /\ \A i \in 1 .. n : ss[i] \in S
  OBVIOUS
<1>3. NotEmpty(ss) = FlattenSeq(Ones(ss))
  BY Zenon DEF NotEmpty, Ones, One
<1> DEFINE t == Ones(ss)
<1>4. t = [i \in 1 .. n |-> One(ss[i])]
  BY <1>2 DEF Ones
<1> HIDE DEF n, t
<1>5. \A i \in 1 .. n : One(ss[i]) \in Seq(S)
  BY <1>1, <1>2
<1>6. t \in Seq(Seq(S)) /\ Len(t) = n /\ \A i \in 1 .. n : t[i] = One(ss[i])
  BY <1>2, <1>4, <1>5
<1> QED BY <1>3, <1>6 DEF t, n

LEMMA NotEmptyTypes ==
  ASSUME NEW S, NEW L, L \subseteq Seq(S), NEW ss \in Seq(L)
  PROVE  NotEmpty(ss) \in Seq(L)
<1>1. Ones(ss) \in Seq(Seq(L)) /\ NotEmpty(ss) = FlattenSeq(Ones(ss))
  BY OnesIs
<1>2. FlattenSeq(Ones(ss)) \in Seq(L)
  BY <1>1, FlattenIsSequence
<1> QED BY <1>1, <1>2

LEMMA NotEmptyNone == NotEmpty(<<>>) = <<>>
<1>1. [i \in DOMAIN <<>> |-> IF <<>>[i] = <<>> THEN <<>> ELSE <<<<>>[i]>>] = <<>>
  OBVIOUS
<1> QED BY <1>1, FlattenNone DEF NotEmpty

LEMMA NotEmptyOne ==
  ASSUME NEW S, NEW x \in Seq(S)
  PROVE  NotEmpty(<<x>>) = IF x = <<>> THEN <<>> ELSE <<x>>
<1> DEFINE y == IF x = <<>> THEN <<>> ELSE <<x>>
           t == [i \in DOMAIN <<x>> |-> IF <<x>>[i] = <<>> THEN <<>> ELSE <<<<x>>[i]>>]
<1>1. t = <<y>>
  OBVIOUS
<1>2. y \in Seq(Seq(S))
  OBVIOUS
<1> HIDE DEF t, y
<1>3. FlattenSeq(<<y>>) = y
  BY <1>2, FlattenOne
<1> QED BY <1>1, <1>3 DEF NotEmpty, t, y

LEMMA NotEmptyJoin ==
  ASSUME NEW S, NEW ss \in Seq(Seq(S)), NEW ts \in Seq(Seq(S))
  PROVE  NotEmpty(ss \o ts) = NotEmpty(ss) \o NotEmpty(ts)
<1> DEFINE u == ss \o ts
           x == Ones(ss)
           y == Ones(ts)
           z == Ones(u)
<1>1. /\ u \in Seq(Seq(S)) /\ Len(u) = Len(ss) + Len(ts)
      /\ \A i \in 1 .. Len(ss) + Len(ts) : u[i] = IF i <= Len(ss) THEN ss[i] ELSE ts[i - Len(ss)]
  BY ConcatProperties
<1> HIDE DEF u
<1>2. /\ x \in Seq(Seq(Seq(S))) /\ Len(x) = Len(ss)
      /\ \A i \in 1 .. Len(ss) : x[i] = One(ss[i])
      /\ NotEmpty(ss) = FlattenSeq(x)
  BY OnesIs
<1>3. /\ y \in Seq(Seq(Seq(S))) /\ Len(y) = Len(ts)
      /\ \A i \in 1 .. Len(ts) : y[i] = One(ts[i])
      /\ NotEmpty(ts) = FlattenSeq(y)
  BY OnesIs
<1>4. /\ z \in Seq(Seq(Seq(S))) /\ Len(z) = Len(ss) + Len(ts)
      /\ \A i \in 1 .. Len(ss) + Len(ts) : z[i] = One(u[i])
      /\ NotEmpty(u) = FlattenSeq(z)
  BY <1>1, OnesIs
<1> HIDE DEF x, y, z
<1> DEFINE v == x \o y
<1>6. /\ v \in Seq(Seq(Seq(S))) /\ Len(v) = Len(x) + Len(y)
      /\ \A i \in 1 .. Len(x) + Len(y) : v[i] = IF i <= Len(x) THEN x[i] ELSE y[i - Len(x)]
  <2>1. x \in Seq(Seq(Seq(S))) /\ y \in Seq(Seq(Seq(S)))
    BY <1>2, <1>3
  <2> QED BY <2>1, ConcatProperties
<1> HIDE DEF v
<1>7. ASSUME NEW i \in 1 .. Len(ss) + Len(ts) PROVE z[i] = v[i]
  <2>1. z[i] = One(u[i])
        /\ v[i] = IF i <= Len(ss) THEN x[i] ELSE y[i - Len(ss)]
    BY <1>2, <1>3, <1>4, <1>6
  <2>2. CASE i <= Len(ss)
    <3>1. i \in 1 .. Len(ss) /\ u[i] = ss[i]
      BY <2>2, <1>1
    <3> QED BY <3>1, <2>1, <2>2, <1>2
  <2>3. CASE ~(i <= Len(ss))
    <3> DEFINE j == i - Len(ss)
    <3>1. j \in 1 .. Len(ts)
      <4>1. Len(ss) \in Nat /\ Len(ts) \in Nat
        OBVIOUS
      <4> QED BY <4>1, <2>3
    <3>2. u[i] = ts[j] /\ v[i] = y[j]
      BY <1>1, <2>1, <2>3
    <3> HIDE DEF j
    <3>3. y[j] = One(ts[j])
      BY <3>1, <1>3
    <3> QED BY <3>2, <3>3, <2>1
  <2> QED BY <2>2, <2>3
<1>8. z = v
  BY <1>2, <1>3, <1>4, <1>6, <1>7, SeqEqual
<1>9. FlattenSeq(v) = FlattenSeq(x) \o FlattenSeq(y)
  BY <1>2, <1>3, FlattenJoin DEF v
<1> QED BY <1>2, <1>3, <1>4, <1>8, <1>9 DEF u

\* To leave out the empty ones does not change the bytes.
LEMMA NotEmptyFlattens ==
  ASSUME NEW S, NEW ss \in Seq(Seq(S))
  PROVE  FlattenSeq(NotEmpty(ss)) = FlattenSeq(ss)
<1> DEFINE T == {n \in Nat : \A r \in Seq(Seq(S)) :
                   Len(r) = n => FlattenSeq(NotEmpty(r)) = FlattenSeq(r)}
<1>1. 0 \in T
  <2>1. \A r \in Seq(Seq(S)) : Len(r) = 0 => r = <<>>
    OBVIOUS
  <2> QED BY <2>1, NotEmptyNone
<1>2. ASSUME NEW n \in Nat, n \in T PROVE n + 1 \in T
  <2>1. SUFFICES ASSUME NEW r \in Seq(Seq(S)), Len(r) = n + 1
                 PROVE  FlattenSeq(NotEmpty(r)) = FlattenSeq(r)
    OBVIOUS
  <2> DEFINE q == SubSeq(r, 1, n)
             x == r[n + 1]
             y == NotEmpty(<<x>>)
             w == NotEmpty(q)
  <2>2. q \in Seq(Seq(S)) /\ Len(q) = n /\ x \in Seq(S) /\ r = Append(q, x)
    BY <2>1
  <2>3. FlattenSeq(w) = FlattenSeq(q)
    BY <2>2, <1>2
  <2> HIDE DEF q, x
  <2>4. r = q \o <<x>> /\ <<x>> \in Seq(Seq(S))
    BY <2>2
  <2>5. NotEmpty(r) = w \o y
    BY <2>2, <2>4, NotEmptyJoin
  <2>6. y = IF x = <<>> THEN <<>> ELSE <<x>>
    BY <2>2, NotEmptyOne
  <2>7. w \in Seq(Seq(S))
    BY <2>2, NotEmptyTypes
  <2> HIDE DEF w, y
  <2>8. y \in Seq(Seq(S)) /\ FlattenSeq(y) = x
    BY <2>2, <2>6, FlattenNone, FlattenOne
  <2>9. FlattenSeq(w \o y) = FlattenSeq(w) \o FlattenSeq(y)
    BY <2>7, <2>8, FlattenJoin
  <2>10. FlattenSeq(r) = FlattenSeq(q) \o x
    BY <2>2, FlattenGrows
  <2> QED BY <2>3, <2>5, <2>8, <2>9, <2>10
<1> HIDE DEF T
<1>3. Len(ss) \in T
  BY <1>1, <1>2, AllNaturals
<1> QED BY <1>3 DEF T

LEMMA NotEmptyHanded ==
  ASSUME NEW ss, NEW a, NEW b, NEW bs, Handed(ss, a, b, bs)
  PROVE  Handed(NotEmpty(ss), a, b, bs)
<1> DEFINE L == {x \in Seq(Nat) : Len(x) % bs = 0}
           t == NotEmpty(ss)
<1>1. ss \in Seq(Seq(Nat)) /\ \A i \in 1 .. Len(ss) : Len(ss[i]) % bs = 0
  BY DEF Handed
<1>2. ss \in Seq(L) /\ L \subseteq Seq(Nat)
  BY <1>1
<1>3. t \in Seq(L)
  <2> HIDE DEF L
  <2> QED BY <1>2, NotEmptyTypes
<1>4. FlattenSeq(t) = FlattenSeq(ss)
  BY <1>1, NotEmptyFlattens
<1> HIDE DEF t
<1>5. t \in Seq(Seq(Nat)) /\ \A i \in 1 .. Len(t) : Len(t[i]) % bs = 0
  BY <1>3
<1>6. Handed(t, a, b, bs)
  BY <1>4, <1>5 DEF Handed
<1> QED BY <1>6 DEF t
-----------------------------------------------------------------------------
(* The operations of the filter.                                           *)

\* The first bytes have not all come; those that have, n of them, are in the ring.
Waiting(e, n) ==
  /\ e \in FilterRec /\ e.firstInputDone = FALSE
  /\ e.queue.blockSize = 1 /\ MaxSize(e.queue) = e.firstSize
  /\ Holds(e.queue, 0) /\ e.queue.size = n
  /\ n < e.firstSize \/ n = 0

\* They have, and of n bytes those behind c are in the ring.
Working(e, c, n) ==
  /\ Started(e)
  /\ c \in Nat /\ Holds(e.queue, c) /\ c + e.queue.size = n

\* What the derived class has been given of the first c bytes.
HandedOver(e, strings, c) ==
  \E ss : /\ Handed(ss, e.firstSize, c, e.blockSize)
          /\ strings = IF e.firstSize = 0 THEN ss ELSE <<Run(0, e.firstSize)>> \o ss

\* The arguments of the constructor stay.
SameSizes(e, g) ==
  g.firstSize = e.firstSize /\ g.blockSize = e.blockSize /\ g.lastSize = e.lastSize

LEMMA NewFilter ==
  ASSUME NEW firstSize \in Nat, NEW blockSize \in Nat \ {0}, NEW lastSize \in Nat
  PROVE  LET e == Filter(firstSize, blockSize, lastSize)
         IN  /\ Waiting(e, 0) /\ e.firstSize = firstSize
             /\ e.blockSize = blockSize /\ e.lastSize = lastSize
<1> DEFINE e == Filter(firstSize, blockSize, lastSize)
           q == Queue(1, firstSize)
<1>1. /\ Holds(q, 0) /\ q.size = 0 /\ q.blockSize = 1
      /\ MaxSize(q) = 1 * firstSize
  BY NewQueue
<1>2. 1 * firstSize = firstSize
  OBVIOUS
<1>3. q \in QueueRec
  BY <1>1 DEF Holds, InPlace
<1>4. e = [firstSize |-> firstSize, blockSize |-> blockSize, lastSize |-> lastSize,
           firstInputDone |-> FALSE, queue |-> q]
  BY DEF Filter
<1> HIDE DEF e, q
<1>5. /\ e \in FilterRec /\ e.firstInputDone = FALSE /\ e.queue = q
      /\ e.firstSize = firstSize /\ e.blockSize = blockSize /\ e.lastSize = lastSize
  BY <1>3, <1>4 DEF FilterRec
<1>6. Waiting(e, 0)
  BY <1>1, <1>2, <1>5 DEF Waiting
<1> QED BY <1>5, <1>6 DEF e

\* FirstPut: what there is and what it takes of s are the first bytes, and the
\* ring is made anew.
LEMMA FirstPutIs ==
  ASSUME NEW e, NEW n \in Nat, Waiting(e, n), NEW b \in Nat, e.firstSize <= b, n <= b
  PROVE  LET p == FirstPut(e, Run(n, b))
         IN  /\ Working(p.f, e.firstSize, e.firstSize) /\ p.f.queue.size = 0
             /\ SameSizes(e, p.f)
             /\ p.first = Run(0, e.firstSize) /\ p.rest = Run(e.firstSize, b)
<1> DEFINE q == e.queue
           first == e.firstSize
           s == Run(n, b)
           len == first - q.size
           m == MaxBlocks(e)
           r == Queue(e.blockSize, m)
           g == [e EXCEPT !.firstInputDone = TRUE, !.queue = r]
           p == FirstPut(e, s)
<1>1. /\ e \in FilterRec /\ first \in Nat /\ e.blockSize \in Nat \ {0} /\ m \in Nat
      /\ Holds(q, 0) /\ q.size = n /\ n <= first
  <2>1. e \in FilterRec /\ Holds(q, 0) /\ q.size = n /\ (n < first \/ n = 0)
    BY DEF Waiting
  <2>2. first \in Nat /\ e.blockSize \in Nat \ {0} /\ m \in Nat
    BY <2>1, FilterTypes, RingHasRoom
  <2> HIDE DEF first, m, q
  <2> QED BY <2>1, <2>2
<1>2. /\ Holds(r, first) /\ r.size = 0 /\ r.blockSize = e.blockSize
      /\ MaxSize(r) = e.blockSize * m
  <2> HIDE DEF m
  <2> QED BY <1>1, NewQueue
<1>3. r \in QueueRec
  BY <1>2 DEF Holds, InPlace
<1>4. s \in Seq(Nat) /\ Len(s) = b - n /\ len \in Nat /\ len <= b - n /\ n + len = first
      /\ n + (b - n) = b /\ b - n \in Nat
  <2>1. s \in Seq(Nat) /\ Len(s) = b - n
    BY RunIs
  <2>2. first \in Nat /\ n <= first /\ first <= b /\ len = first - n
    BY <1>1
  <2> HIDE DEF s, q, first, len
  <2> QED BY <2>1, <2>2
<1>5. p = [f |-> g, first |-> Queued(q) \o SubSeq(s, 1, len), rest |-> SubSeq(s, len + 1, Len(s))]
  BY DEF FirstPut
<1>6. Queued(q) = Run(0, n)
  <2>1. Queued(q) = Run(0, 0 + q.size)
    BY <1>1, QueuedIs
  <2>2. 0 + q.size = n
    BY <1>1
  <2> QED BY <2>1, <2>2
<1>7. SubSeq(s, 1, len) = Run(n, first)
  <2> HIDE DEF len, first
  <2>1. SubSeq(s, 1, len) = Run(n, n + len)
    BY <1>4, RunHead
  <2> QED BY <2>1, <1>4
<1>8. SubSeq(s, len + 1, Len(s)) = Run(first, b)
  <2> DEFINE w == b - n
  <2>1. n \in Nat /\ b \in Nat /\ n <= b /\ len \in Nat /\ w \in Nat /\ len <= w /\ w <= b - n
        /\ n + len = first /\ n + w = b /\ Len(s) = w
    BY <1>4
  <2> HIDE DEF len, first, w, s
  <2>2. SubSeq(Run(n, b), len + 1, w) = Run(n + len, n + w)
    <3>1. n \in Nat /\ b \in Nat /\ n <= b /\ len \in Nat /\ w \in Nat /\ len <= w /\ w <= b - n
      BY <2>1
    <3> DEFINE i1 == len + 1
               j1 == n + len
               m1 == n + w
    <3>2. i1 = len + 1 /\ j1 = n + len /\ m1 = n + w
      OBVIOUS
    <3> HIDE DEF i1, j1, m1
    <3>3. PartIs(n, b, len, w, i1, j1, m1)
      BY <3>1, <3>2 DEF PartIs
    <3>4. SubSeq(Run(n, b), i1, w) = Run(j1, m1)
      BY <3>3, RunCutAt
    <3> QED BY <3>4 DEF i1, j1, m1
  <2>3. s = Run(n, b)
    BY DEF s
  <2> QED BY <2>1, <2>2, <2>3
<1>9. Run(0, n) \o Run(n, first) = Run(0, first)
  <2> DEFINE a == 0
  <2>1. a \in Nat /\ n \in Nat /\ first \in Nat /\ a <= n /\ n <= first
    BY <1>1
  <2> HIDE DEF first, a
  <2>2. Run(a, n) \o Run(n, first) = Run(a, first)
    BY <2>1, RunsJoin
  <2> QED BY <2>2 DEF a
<1> HIDE DEF r, m, s, q
<1>10. /\ g \in FilterRec /\ g.firstInputDone /\ g.queue = r /\ SameSizes(e, g)
  BY <1>1, <1>3 DEF FilterRec, SameSizes
<1> HIDE DEF g, p, len
<1>11. p.f = g /\ p.first = Run(0, first) /\ p.rest = Run(first, b)
  BY <1>5, <1>6, <1>7, <1>8, <1>9
<1>12. MaxBlocks(g) = m
  BY <1>10 DEF SameSizes, MaxBlocks, m
<1>13. Started(g)
  BY <1>2, <1>10, <1>12 DEF Started, SameSizes
<1>14. first + r.size = first
  <2> HIDE DEF first
  <2> QED BY <1>1, <1>2
<1>15. Working(g, first, first)
  BY <1>1, <1>2, <1>10, <1>13, <1>14 DEF Working
<1> QED BY <1>2, <1>10, <1>11, <1>15 DEF p, s
\* What has been handed over grows by the strings that are not empty.
LEMMA HandedOverGrows ==
  ASSUME NEW e, e \in FilterRec, NEW strings, NEW c, HandedOver(e, strings, c),
         NEW ts, NEW d, Handed(ts, c, d, e.blockSize)
  PROVE  HandedOver(e, strings \o NotEmpty(ts), d)
<1> DEFINE first == e.firstSize
           us == NotEmpty(ts)
<1>1. PICK ss : /\ Handed(ss, first, c, e.blockSize)
                /\ strings = IF first = 0 THEN ss ELSE <<Run(0, first)>> \o ss
  BY DEF HandedOver
<1>2. Handed(us, c, d, e.blockSize)
  BY NotEmptyHanded
<1>3. Handed(ss \o us, first, d, e.blockSize)
  BY <1>1, <1>2, HandedJoin
<1>4. first \in Nat /\ ss \in Seq(Seq(Nat)) /\ us \in Seq(Seq(Nat))
  BY <1>1, <1>2, FilterTypes DEF Handed
<1>5. CASE first = 0
  <2>1. strings \o us = ss \o us
    BY <1>1, <1>5
  <2> QED BY <2>1, <1>3, <1>5 DEF HandedOver
<1>6. CASE first # 0
  <2> DEFINE x == <<Run(0, first)>>
  <2>1. x \in Seq(Seq(Nat))
    <3>1. Run(0, first) \in Seq(Nat)
      <4> HIDE DEF first
      <4>1. 0 \in Nat /\ 0 <= first
        BY <1>4
      <4> QED BY <1>4, <4>1, RunIs
    <3> QED BY <3>1
  <2> HIDE DEF x, us
  <2>2. (x \o ss) \o us = x \o (ss \o us)
    BY <2>1, <1>4
  <2>3. strings \o us = x \o (ss \o us)
    BY <2>2, <1>1, <1>6 DEF x
  <2> QED BY <2>3, <1>3, <1>6 DEF x, HandedOver, us
<1> QED BY <1>5, <1>6

LEMMA SameSizesHanded ==
  ASSUME NEW e, NEW g, SameSizes(e, g), NEW strings, NEW c, HandedOver(e, strings, c)
  PROVE  HandedOver(g, strings, c)
BY DEF HandedOver, SameSizes

\* The queue that is left holds what is not handed on.
LEMMA WorksOn ==
  ASSUME NEW e, NEW c, NEW n, Working(e, c, n), NEW q, NEW d \in Nat, Holds(q, d),
         NEW b, d + q.size = b,
         q.blockSize = e.queue.blockSize, MaxSize(q) = MaxSize(e.queue)
  PROVE  LET g == WithQueue(e, q)
         IN  Working(g, d, b) /\ SameSizes(e, g) /\ g.queue = q
<1> DEFINE g == WithQueue(e, q)
<1>1. e \in FilterRec /\ q \in QueueRec /\ e.firstInputDone
  BY DEF Working, Started, Holds, InPlace
<1>2. /\ g \in FilterRec /\ g.queue = q
      /\ g.firstSize = e.firstSize /\ g.blockSize = e.blockSize /\ g.lastSize = e.lastSize
      /\ g.firstInputDone = e.firstInputDone
  BY <1>1, WithQueueIs
<1> HIDE DEF g
<1>3. MaxBlocks(g) = MaxBlocks(e)
  BY <1>2 DEF MaxBlocks
<1>4. Started(g)
  BY <1>1, <1>2, <1>3 DEF Working, Started
<1>5. Working(g, d, b) /\ SameSizes(e, g) /\ g.queue = q
  BY <1>2, <1>4 DEF Working, SameSizes
<1> QED BY <1>5 DEF g

\* An answer that passes on bytes.
LEMMA PassesOn ==
  ASSUME NEW e, NEW c, NEW n, Working(e, c, n), NEW a, NEW b, Passes(a, e, c, b)
  PROVE  \E d \in Nat : /\ Working(a.f, d, b) /\ SameSizes(e, a.f)
                        /\ Handed(a.given, c, d, e.blockSize)
                        /\ KeptBack(a.f, a.f.queue.size, b - c)
<1>1. PICK d \in Nat : /\ Handed(a.given, c, d, e.blockSize)
                       /\ Holds(a.f.queue, d) /\ d + a.f.queue.size = b
  BY DEF Passes
<1> DEFINE q == a.f.queue
           g == WithQueue(e, q)
<1>2. /\ a.f = g /\ q.blockSize = e.queue.blockSize /\ MaxSize(q) = MaxSize(e.queue)
      /\ KeptBack(e, q.size, b - c)
  BY DEF Passes
<1>3. Working(g, d, b) /\ SameSizes(e, g)
  <2> HIDE DEF q
  <2> QED BY <1>1, <1>2, WorksOn DEF q
<1> HIDE DEF g
<1>4. KeptBack(g, q.size, b - c)
  <2> HIDE DEF q
  <2> QED BY <1>2, <1>3 DEF SameSizes, KeptBack
<1> QED BY <1>1, <1>2, <1>3, <1>4

LEMMA PutsNext ==
  ASSUME NEW e, NEW c, NEW n, Working(e, c, n), NEW b \in Nat, n \in Nat, n < b
  PROVE  LET a == PutMaybeModifiable(e, Run(n, b))
         IN  \E d \in Nat : /\ Working(a.f, d, b) /\ SameSizes(e, a.f)
                            /\ Handed(a.given, c, d, e.blockSize)
                            /\ KeptBack(a.f, a.f.queue.size, b - c)
<1> DEFINE s == Run(n, b)
           a == PutMaybeModifiable(e, s)
<1>1. s # <<>>
  <2>1. s \in Seq(Nat) /\ Len(s) = b - n
    <3>1. n <= b
      OBVIOUS
    <3> QED BY <3>1, RunIs
  <2> HIDE DEF s
  <2>2. Len(s) # 0
    BY <2>1
  <2> QED BY <2>2
<1>2. /\ Started(e) /\ e.firstInputDone /\ c \in Nat /\ Holds(e.queue, c) /\ c + e.queue.size = n
  BY DEF Working, Started
<1>3. a = NextPut(e, s)
  BY <1>1, <1>2 DEF PutMaybeModifiable
<1>4. c + e.queue.size <= b
  BY <1>2
<1>5. Passes(NextPut(e, Run(c + e.queue.size, b)), e, c, b)
  BY <1>2, <1>4, NextPutIs
<1>6. Passes(a, e, c, b)
  BY <1>2, <1>3, <1>5
<1> HIDE DEF a
<1> QED BY <1>6, PassesOn DEF a

LEMMA PutsFirst ==
  ASSUME NEW e, NEW n \in Nat, Waiting(e, n), NEW b \in Nat, n < b
  PROVE  LET a == PutMaybeModifiable(e, Run(n, b))
         IN  /\ SameSizes(e, a.f)
             /\ IF b < e.firstSize THEN Waiting(a.f, b) /\ a.given = <<>>
                ELSE \E d \in Nat : \E ss :
                       /\ Working(a.f, d, b)
                       /\ a.given = <<Run(0, e.firstSize)>> \o ss
                       /\ Handed(ss, e.firstSize, d, e.blockSize)
                       /\ KeptBack(a.f, a.f.queue.size, b - e.firstSize)
<1> DEFINE s == Run(n, b)
           q == e.queue
           first == e.firstSize
           a == PutMaybeModifiable(e, s)
<1>1. s \in Seq(Nat) /\ Len(s) = b - n /\ s # <<>>
  <2>1. s \in Seq(Nat) /\ Len(s) = b - n
    <3>1. n <= b
      OBVIOUS
    <3> QED BY <3>1, RunIs
  <2> HIDE DEF s
  <2>2. Len(s) # 0
    BY <2>1
  <2> QED BY <2>1, <2>2
<1>2. /\ e \in FilterRec /\ first \in Nat /\ e.firstInputDone = FALSE
      /\ Holds(q, 0) /\ q.size = n /\ q.blockSize = 1 /\ MaxSize(q) = first
  <2>1. e \in FilterRec /\ e.firstInputDone = FALSE /\ Holds(q, 0) /\ q.size = n
        /\ q.blockSize = 1 /\ MaxSize(q) = first
    BY DEF Waiting
  <2> QED BY <2>1, FilterTypes
<1>3. q.size + Len(s) = b
  <2> HIDE DEF s, q
  <2> QED BY <1>1, <1>2
<1>4. CASE b < first
  <2> DEFINE p == QueuePut(q, s)
             g == WithQueue(e, p)
  <2>1. a = Answer(g, <<>>)
    <3> HIDE DEF s, q, first
    <3> QED BY <1>1, <1>2, <1>3, <1>4 DEF PutMaybeModifiable, WithQueue, q, first
  <2>2. /\ Holds(p, 0) /\ p.size = b - 0 /\ p.blockSize = 1 /\ MaxSize(p) = first
    <3> DEFINE k == 0
    <3>1. k \in Nat /\ k + q.size = n /\ n <= b /\ b - k <= MaxSize(q) /\ Holds(q, k)
      BY <1>2, <1>4
    <3> HIDE DEF k, q
    <3>2. LET x == QueuePut(q, Run(k + q.size, b))
          IN  /\ Holds(x, k) /\ x.size = b - k
              /\ x.blockSize = q.blockSize /\ MaxSize(x) = MaxSize(q)
      BY <3>1, QueuePutIs
    <3> QED BY <3>1, <3>2, <1>2 DEF k
  <2>3. p \in QueueRec /\ b - 0 = b
    BY <2>2 DEF Holds, InPlace
  <2> HIDE DEF p
  <2>4. /\ g \in FilterRec /\ g.queue = p /\ SameSizes(e, g) /\ g.firstInputDone = FALSE
    BY <2>3, <1>2, WithQueueIs DEF SameSizes
  <2>5. g.firstSize = first
    BY <2>4 DEF SameSizes
  <2> HIDE DEF g
  <2>6. Waiting(g, b)
    BY <2>2, <2>3, <2>4, <2>5, <1>4 DEF Waiting
  <2> HIDE DEF a
  <2>7. a.f = g /\ a.given = <<>>
    BY <2>1 DEF Answer
  <2> QED BY <2>4, <2>6, <2>7, <1>4 DEF a
<1>5. CASE ~(b < first)
  <2> DEFINE p == FirstPut(e, s)
             x == NextPut(p.f, p.rest)
  <2>1. a = Answer(x.f, <<p.first>> \o x.given)
    <3> HIDE DEF s, q, first
    <3> QED BY <1>1, <1>2, <1>3, <1>5 DEF PutMaybeModifiable, q, first
  <2>2. first <= b /\ n <= b
    BY <1>2, <1>5
  <2>3. /\ Working(p.f, first, first) /\ p.f.queue.size = 0
        /\ SameSizes(e, p.f)
        /\ p.first = Run(0, first) /\ p.rest = Run(first, b)
    BY <2>2, FirstPutIs
  <2> HIDE DEF p, first, q, s
  <2> DEFINE g == p.f
  <2>4. /\ Started(g) /\ Holds(g.queue, first) /\ first + g.queue.size = first
    BY <2>3 DEF Working
  <2> HIDE DEF g
  <2>5. Passes(NextPut(g, Run(first + g.queue.size, b)), g, first, b)
    BY <2>2, <2>4, <1>2, NextPutIs
  <2>6. Passes(x, g, first, b)
    BY <2>3, <2>4, <2>5 DEF g
  <2> HIDE DEF x, a
  <2>7. PICK d \in Nat : /\ Working(x.f, d, b) /\ SameSizes(g, x.f)
                         /\ Handed(x.given, first, d, g.blockSize)
                         /\ KeptBack(x.f, x.f.queue.size, b - first)
    BY <2>3, <2>6, PassesOn DEF g
  <2>8. a.f = x.f /\ a.given = <<Run(0, first)>> \o x.given
    BY <2>1, <2>3 DEF Answer
  <2>9. SameSizes(e, x.f) /\ g.blockSize = e.blockSize
    BY <2>3, <2>7 DEF SameSizes, g
  <2> QED BY <2>7, <2>8, <2>9, <1>5 DEF a, s, first
<1> QED BY <1>4, <1>5
\* A hard flush.
LEMMA ForcesOn ==
  ASSUME NEW e, NEW c, NEW n, Working(e, c, n)
  PROVE  LET a == ForceNextPut(e, FALSE)
         IN  \E d \in Nat : /\ Working(a.f, d, n) /\ SameSizes(e, a.f)
                            /\ Handed(a.given, c, d, e.blockSize)
<1> DEFINE q == e.queue
           bs == e.blockSize
           k == q.size \div bs
           x == IF bs > 1 THEN GotBlocks(q, k) ELSE Drained(q, q.size)
           a == ForceNextPut(e, FALSE)
<1>1. /\ e.firstInputDone /\ bs \in Nat \ {0} /\ q.blockSize = bs
      /\ c \in Nat /\ Holds(q, c) /\ c + q.size = n /\ q.size \in Nat
  <2>1. /\ e \in FilterRec /\ e.firstInputDone /\ q.blockSize = bs
        /\ c \in Nat /\ Holds(q, c) /\ c + q.size = n
    BY DEF Working, Started
  <2> QED BY <2>1, FilterTypes, RingTypes DEF Holds
<1>2. a = Answer([e EXCEPT !.queue = x.queue], x.given)
  BY <1>1 DEF ForceNextPut
<1>3. \E d \in Nat : /\ Holds(x.queue, d) /\ d + x.queue.size = n
                     /\ x.queue.blockSize = bs /\ MaxSize(x.queue) = MaxSize(q)
                     /\ Handed(x.given, c, d, bs)
  <2>1. CASE bs > 1
    <3> DEFINE y == GotBlocks(q, k)
               w == k * bs
    <3>1. x = y
      BY <2>1
    <3>2. k \in Nat /\ w \in Nat /\ w <= q.size
      <4> HIDE DEF q, k, bs
      <4>1. q.size \div bs \in Nat /\ q.size % bs \in 0 .. bs - 1
            /\ q.size = (q.size \div bs) * bs + (q.size % bs)
        BY <1>1, Division
      <4> DEFINE r == q.size % bs
                 z == q.size
      <4>2. k \in Nat /\ w \in Nat /\ r \in Nat /\ z = w + r
        BY <4>1, <1>1 DEF k
      <4> HIDE DEF r, w, z
      <4>3. w <= z
        BY <4>2
      <4> QED BY <4>2, <4>3 DEF z
    <3> HIDE DEF k
    <3>3. /\ Holds(y.queue, c + w) /\ y.queue.size = q.size - w
          /\ y.queue.blockSize = bs /\ MaxSize(y.queue) = MaxSize(q)
          /\ Handed(y.given, c, c + w, bs)
      <4>1. k * q.blockSize <= q.size
        BY <3>2, <1>1
      <4> HIDE DEF q
      <4> QED BY <4>1, <3>2, <1>1, GotBlocksIs
    <3> HIDE DEF y, w, x
    <3> DEFINE z == q.size
               u == y.queue.size
    <3>4. c + w \in Nat /\ (c + w) + u = n
      <4>1. u = z - w /\ z \in Nat /\ c + z = n
        BY <3>3, <1>1
      <4> HIDE DEF u, z
      <4> QED BY <4>1, <3>2, <1>1
    <3> QED BY <3>1, <3>3, <3>4
  <2>2. CASE ~(bs > 1)
    <3> DEFINE z == q.size
               y == Drained(q, z)
    <3>1. x = y /\ bs = 1
      BY <2>2, <1>1
    <3>2. /\ y.n = Lower(z, z)
          /\ Holds(y.queue, c + y.n) /\ y.queue.size = z - y.n
          /\ y.queue.blockSize = 1 /\ MaxSize(y.queue) = MaxSize(q)
          /\ Handed(y.given, c, c + y.n, 1)
      <4> HIDE DEF q
      <4> QED BY <3>1, <1>1, DrainedIs
    <3> HIDE DEF y, x, z
    <3>3. y.n = z /\ z \in Nat /\ c + z = n
      BY <3>2, <1>1 DEF Lower, z
    <3>4. y.queue.size = 0 /\ (c + z) + 0 = n
      BY <3>2, <3>3, <1>1
    <3>5. Holds(y.queue, n) /\ n + y.queue.size = n /\ Handed(y.given, c, n, 1) /\ n \in Nat
      BY <3>2, <3>3, <3>4, <1>1
    <3> QED BY <3>1, <3>2, <3>5
  <2> QED BY <2>1, <2>2
<1> DEFINE r == x.queue
           g == WithQueue(e, r)
<1>4. a = Answer(g, x.given)
  BY <1>2 DEF WithQueue
<1> HIDE DEF x, a
<1>5. PICK d \in Nat : /\ Holds(r, d) /\ d + r.size = n
                       /\ r.blockSize = bs /\ MaxSize(r) = MaxSize(q)
                       /\ Handed(x.given, c, d, bs)
  BY <1>3
<1>6. Working(g, d, n) /\ SameSizes(e, g)
  <2>1. r.blockSize = e.queue.blockSize
    BY <1>1, <1>5
  <2> HIDE DEF r
  <2> QED BY <2>1, <1>5, WorksOn
<1> HIDE DEF g
<1>7. a.f = g /\ a.given = x.given
  BY <1>4 DEF Answer
<1> QED BY <1>5, <1>6, <1>7 DEF a

\* What is kept back is right for all that has come since the first bytes.
LEMMA KeptOn ==
  ASSUME NEW e \in FilterRec, NEW c \in Nat, NEW n \in Nat, NEW b \in Nat, NEW first \in Nat,
         first <= c, c <= n, n <= b, NEW size,
         KeptBack(e, n - c, n - first), KeptBack(e, size, b - c)
  PROVE  KeptBack(e, size, b - first)
<1> DEFINE ls == e.lastSize
           bs == e.blockSize
<1>1. ls \in Nat /\ bs \in Nat \ {0}
  BY FilterTypes
<1>2. IF n - first < ls THEN n - c = n - first
      ELSE n - c \in Nat /\ ls <= n - c /\ n - c < ls + bs
  BY DEF KeptBack
<1>3. IF b - c < ls THEN size = b - c ELSE size \in Nat /\ ls <= size /\ size < ls + bs
  BY DEF KeptBack
<1> HIDE DEF ls, bs
<1>4. IF b - first < ls THEN size = b - first ELSE size \in Nat /\ ls <= size /\ size < ls + bs
  BY <1>1, <1>2, <1>3
<1> QED BY <1>4 DEF KeptBack, ls, bs
-----------------------------------------------------------------------------
(* The invariant.                                                          *)

\* In a message: n bytes have been put, `hard` says whether it has been flushed,
\* and the derived class has been given the strings.
Unfinished(e, strings, n, hard) ==
  \/ Waiting(e, n) /\ strings = <<>>
  \/ \E c \in Nat : /\ Working(e, c, n) /\ HandedOver(e, strings, c)
                    /\ hard \/ KeptBack(e, n - c, n - e.firstSize)

\* Behind it, with l for LastPut.
Finished(e, strings, n, hard, l) ==
  /\ Waiting(e, 0)
  /\ \/ l = Run(0, n) /\ strings = <<>> /\ (n < e.firstSize \/ n = 0)
     \/ \E c \in Nat : /\ c <= n /\ l = Run(c, n) /\ HandedOver(e, strings, c)
                       /\ hard \/ KeptBack(e, n - c, n - e.firstSize)

\* `longer` are the strings with what was read past the end of the ring, which is
\* never behind the first of them.
Lengthened(e, strings, longer, over) ==
  IF over
    THEN /\ e.blockSize = 1 /\ longer \in Seq(Seq(Cells))
         /\ e.firstSize > 0 => strings # <<>> /\ longer # <<>> /\ longer[1] = strings[1]
    ELSE longer = strings

\* The strings of this message that come from the ring.
RingInv ==
  /\ put \in Nat /\ flushed \in BOOLEAN /\ overread \in BOOLEAN
  /\ overread => flushed
  /\ \E strings \in Seq(Seq(Nat)) :
       /\ Lengthened(f, strings, given, overread)
       /\ last = NoLast => Unfinished(f, strings, put, flushed)
       /\ last # NoLast => Finished(f, strings, put, flushed, last)

\* More strings keep that.
LEMMA LengthenedGrows ==
  ASSUME NEW e, NEW g, SameSizes(e, g), NEW strings \in Seq(Seq(Nat)), NEW longer, NEW over \in BOOLEAN,
         Lengthened(e, strings, longer, over), NEW ss \in Seq(Seq(Nat))
  PROVE  Lengthened(g, strings \o ss, longer \o ss, over)
<1>1. CASE over
  <2>1. /\ e.blockSize = 1 /\ longer \in Seq(Seq(Cells)) /\ ss \in Seq(Seq(Cells))
        /\ e.firstSize > 0 => strings # <<>> /\ longer # <<>> /\ longer[1] = strings[1]
    <3>1. Seq(Nat) \subseteq Seq(Cells)
      BY DEF Cells
    <3>2. ss \in Seq(Seq(Cells))
      BY <3>1
    <3> QED BY <1>1, <3>2 DEF Lengthened
  <2>2. longer \o ss \in Seq(Seq(Cells))
    BY <2>1
  <2>3. ASSUME e.firstSize > 0
        PROVE  /\ strings \o ss # <<>> /\ longer \o ss # <<>>
               /\ (longer \o ss)[1] = (strings \o ss)[1]
    <3> DEFINE L == Seq(Cells)
    <3>1. strings \in Seq(Seq(Nat)) /\ ss \in Seq(Seq(Nat)) /\ strings # <<>>
      BY <2>1, <2>3
    <3>2. strings \o ss # <<>> /\ (strings \o ss)[1] = strings[1]
      BY <3>1
    <3>3. longer \in Seq(L) /\ ss \in Seq(L) /\ longer # <<>>
      BY <2>1, <2>3
    <3> HIDE DEF L
    <3>4. longer \o ss # <<>> /\ (longer \o ss)[1] = longer[1]
      BY <3>3
    <3> QED BY <2>1, <2>3, <3>2, <3>4
  <2>4. g.blockSize = 1 /\ g.firstSize = e.firstSize
    BY <2>1 DEF SameSizes
  <2> QED BY <1>1, <2>2, <2>3, <2>4 DEF Lengthened
<1>2. CASE ~over
  BY <1>2 DEF Lengthened
<1> QED BY <1>1, <1>2

LEMMA RunIsNotNoLast ==
  ASSUME NEW c \in Nat, NEW n \in Nat, c <= n
  PROVE  Run(c, n) # NoLast
<1> SUFFICES ASSUME Run(c, n) = NoLast PROVE FALSE
  OBVIOUS
<1> DEFINE r == Run(c, n)
<1>1. Len(r) = n - c /\ \A i \in 1 .. n - c : r[i] = c + i
  BY RunIs
<1>2. r = <<0>>
  BY DEF NoLast
<1> HIDE DEF r
<1>3. Len(r) = 1 /\ r[1] = 0
  BY <1>2
<1>4. 1 \in 1 .. n - c /\ r[1] = c + 1
  BY <1>1, <1>3
<1> QED BY <1>3, <1>4

LEMMA RingStarts ==
  ASSUME FilterAssumption, Init
  PROVE  RingInv
<1>1. PICK firstSize \in FirstSizes, blockSize \in BlockSizes, lastSize \in LastSizes :
        f = Filter(firstSize, blockSize, lastSize)
  BY DEF Init
<1>2. firstSize \in Nat /\ blockSize \in Nat \ {0} /\ lastSize \in Nat
  BY DEF FilterAssumption
<1>3. Waiting(f, 0)
  BY <1>1, <1>2, NewFilter
<1>4. put = 0 /\ given = <<>> /\ last = NoLast /\ flushed = FALSE /\ overread = FALSE
  BY DEF Init
<1>5. <<>> \in Seq(Seq(Nat)) /\ Lengthened(f, <<>>, given, overread) /\ Unfinished(f, <<>>, put, flushed)
  BY <1>3, <1>4 DEF Lengthened, Unfinished
<1> QED BY <1>4, <1>5 DEF RingInv

\* A piece of the message.
LEMMA RingPuts ==
  ASSUME FilterAssumption, RingInv, NEW n \in 1 .. MaxMessage, Put2(n)
  PROVE  RingInv'
<1> DEFINE b == put + n
           s == [i \in 1 .. n |-> put + i]
           a == PutMaybeModifiable(f, s)
           gs == NotEmpty(a.given)
<1>1. /\ last = NoLast /\ put' = b /\ f' = a.f /\ given' = given \o gs
      /\ last' = NoLast /\ flushed' = flushed /\ overread' = overread
  BY DEF Put2, Becomes
<1>0. PICK strings \in Seq(Seq(Nat)) :
        Lengthened(f, strings, given, overread) /\ Unfinished(f, strings, put, flushed)
  BY <1>1 DEF RingInv
<1>2. /\ put \in Nat /\ flushed \in BOOLEAN /\ Unfinished(f, strings, put, flushed)
      /\ b \in Nat /\ put < b
  <2>1. n \in Nat /\ n > 0
    BY DEF FilterAssumption
  <2> QED BY <1>0, <1>1, <2>1 DEF RingInv
<1>3. s = Run(put, b)
  <2>1. b - put = n
    BY <1>2
  <2> QED BY <2>1 DEF Run
<1> HIDE DEF s, b
<1>4. Unfinished(a.f, strings \o gs, b, flushed) /\ SameSizes(f, a.f) /\ gs \in Seq(Seq(Nat))
  <2>1. CASE Waiting(f, put) /\ strings = <<>>
    <3> DEFINE first == f.firstSize
    <3>1. /\ SameSizes(f, a.f)
          /\ IF b < first THEN Waiting(a.f, b) /\ a.given = <<>>
             ELSE \E d \in Nat : \E ss :
                    /\ Working(a.f, d, b)
                    /\ a.given = <<Run(0, first)>> \o ss
                    /\ Handed(ss, first, d, f.blockSize)
                    /\ KeptBack(a.f, a.f.queue.size, b - first)
      BY <1>2, <1>3, <2>1, PutsFirst
    <3>2. first \in Nat
      BY <2>1, FilterTypes DEF Waiting
    <3> HIDE DEF a, first
    <3>3. CASE b < first
      <4>1. Waiting(a.f, b) /\ gs = <<>>
        BY <3>1, <3>3, NotEmptyNone
      <4>2. strings \o gs = <<>>
        BY <2>1, <4>1
      <4> QED BY <3>1, <4>1, <4>2 DEF Unfinished
    <3>4. CASE ~(b < first)
      <4>0. PICK d \in Nat : \E ss :
                    /\ Working(a.f, d, b)
                    /\ a.given = <<Run(0, first)>> \o ss
                    /\ Handed(ss, first, d, f.blockSize)
                    /\ KeptBack(a.f, a.f.queue.size, b - first)
        BY <3>1, <3>4
      <4>1. PICK ss :
                    /\ Working(a.f, d, b)
                    /\ a.given = <<Run(0, first)>> \o ss
                    /\ Handed(ss, first, d, f.blockSize)
                    /\ KeptBack(a.f, a.f.queue.size, b - first)
        BY <4>0
      <4> DEFINE x == Run(0, first)
                 ts == NotEmpty(ss)
      <4>2. x \in Seq(Nat) /\ Len(x) = first
        <5>1. 0 \in Nat /\ 0 <= first /\ first - 0 = first
          BY <3>2
        <5> QED BY <3>2, <5>1, RunIs
      <4> HIDE DEF x
      <4>3. gs = NotEmpty(<<x>>) \o ts
        <5>1. <<x>> \in Seq(Seq(Nat)) /\ ss \in Seq(Seq(Nat))
          BY <4>1, <4>2 DEF Handed
        <5>2. NotEmpty(<<x>> \o ss) = NotEmpty(<<x>>) \o NotEmpty(ss)
          BY <5>1, NotEmptyJoin
        <5> QED BY <4>1, <5>2 DEF x
      <4>4. Handed(ts, first, d, f.blockSize)
        BY <4>1, NotEmptyHanded
      <4>5. strings \o gs = IF first = 0 THEN ts ELSE <<x>> \o ts
        <5> HIDE DEF gs
        <5>1. ts \in Seq(Seq(Nat))
          BY <4>4 DEF Handed
        <5>2. NotEmpty(<<x>>) = IF x = <<>> THEN <<>> ELSE <<x>>
          BY <4>2, NotEmptyOne
        <5> HIDE DEF ts
        <5>3. x = <<>> <=> first = 0
          BY <4>2
        <5>4. gs = IF first = 0 THEN ts ELSE <<x>> \o ts
          <6>1. <<>> \o ts = ts
            BY <5>1
          <6> QED BY <6>1, <4>3, <5>2, <5>3
        <5>5. gs \in Seq(Seq(Nat))
          BY <5>1, <5>4, <4>2
        <5>6. <<>> \o gs = gs
          BY <5>5
        <5> QED BY <5>4, <5>6, <2>1
      <4> HIDE DEF ts
      <4>8. gs \in Seq(Seq(Nat))
        <5> HIDE DEF gs
        <5>1. ts \in Seq(Seq(Nat)) /\ <<x>> \in Seq(Seq(Nat)) /\ <<>> \in Seq(Seq(Nat))
          BY <4>2, <4>4 DEF Handed
        <5>2. NotEmpty(<<x>>) \in Seq(Seq(Nat))
          BY <4>2, <5>1, NotEmptyOne
        <5> HIDE DEF ts
        <5> QED BY <4>3, <5>1, <5>2
      <4>6. HandedOver(a.f, strings \o gs, d)
        <5>1. HandedOver(f, strings \o gs, d)
          <6> HIDE DEF gs
          <6> QED BY <4>4, <4>5 DEF HandedOver, x, first
        <5> HIDE DEF gs
        <5> QED BY <5>1, <3>1, SameSizesHanded
      <4>7. KeptBack(a.f, b - d, b - a.f.firstSize)
        <5>1. a.f.queue.size = b - d
          <6> DEFINE z == a.f.queue.size
          <6>1. d + z = b /\ z \in Nat
            BY <4>1, RingTypes DEF Working, Holds
          <6> HIDE DEF z
          <6>2. z = b - d
            BY <6>1
          <6> QED BY <6>2 DEF z
        <5> QED BY <5>1, <4>1, <3>1 DEF SameSizes, first
      <4> QED BY <3>1, <4>1, <4>6, <4>7, <4>8 DEF Unfinished
    <3> QED BY <3>3, <3>4
  <2>2. ASSUME NEW c \in Nat, Working(f, c, put), HandedOver(f, strings, c),
               flushed \/ KeptBack(f, put - c, put - f.firstSize)
        PROVE  Unfinished(a.f, strings \o gs, b, flushed) /\ SameSizes(f, a.f) /\ gs \in Seq(Seq(Nat))
    <3>1. PICK d \in Nat : /\ Working(a.f, d, b) /\ SameSizes(f, a.f)
                           /\ Handed(a.given, c, d, f.blockSize)
                           /\ KeptBack(a.f, a.f.queue.size, b - c)
      BY <1>2, <1>3, <2>2, PutsNext
    <3> HIDE DEF a
    <3> DEFINE first == f.firstSize
               g == a.f
    <3>2. f \in FilterRec /\ g \in FilterRec /\ first \in Nat
      BY <2>2, <3>1, FilterTypes DEF Working, Started
    <3>7. gs \in Seq(Seq(Nat))
      BY <3>1, NotEmptyHanded DEF Handed
    <3>3. HandedOver(f, strings \o gs, d)
      BY <2>2, <3>1, <3>2, HandedOverGrows
    <3> HIDE DEF gs
    <3>4. HandedOver(g, strings \o gs, d)
      BY <3>1, <3>3, SameSizesHanded
    <3>5. g.queue.size = b - d
      <4> DEFINE z == g.queue.size
      <4>1. d + z = b /\ z \in Nat
        BY <3>1, RingTypes DEF Working, Holds
      <4> HIDE DEF z
      <4>2. z = b - d
        BY <4>1
      <4> QED BY <4>2 DEF z
    <3>6. flushed \/ KeptBack(g, b - d, b - g.firstSize)
      <4>1. SUFFICES ASSUME ~flushed PROVE KeptBack(g, b - d, b - g.firstSize)
        OBVIOUS
      <4>2. KeptBack(g, put - c, put - first)
        BY <2>2, <4>1, <3>1 DEF SameSizes, KeptBack
      <4>3. first <= c /\ c <= put
        <5>1. first <= c
          BY <2>2 DEF HandedOver, Handed
        <5> DEFINE z == f.queue.size
        <5>2. c + z = put /\ z \in Nat
          BY <2>2, RingTypes DEF Working, Holds
        <5> HIDE DEF z, first
        <5> QED BY <5>1, <5>2
      <4>4. KeptBack(g, b - d, b - c)
        BY <3>1, <3>5
      <4> DEFINE m == b - d
      <4>5. put <= b
        BY <1>2
      <4>6. KeptBack(g, m, b - first)
        <5> HIDE DEF m, g, first
        <5> QED BY <1>2, <3>2, <4>2, <4>3, <4>4, <4>5, KeptOn DEF m
      <4> QED BY <4>6, <3>1 DEF SameSizes
    <3> QED BY <3>1, <3>4, <3>6, <3>7 DEF Unfinished
  <2> QED BY <1>2, <2>1, <2>2 DEF Unfinished
<1> HIDE DEF a, gs
<1>5. overread \in BOOLEAN /\ (overread => flushed)
  BY DEF RingInv
<1>6. Lengthened(a.f, strings \o gs, given \o gs, overread)
  BY <1>0, <1>4, <1>5, LengthenedGrows
<1>7. strings \o gs \in Seq(Seq(Nat))
  BY <1>4
<1> QED BY <1>1, <1>2, <1>4, <1>5, <1>6, <1>7 DEF RingInv

\* The end of a message: what is in the ring is for LastPut, and the filter is
\* as it was made.
LEMMA RingEnds ==
  ASSUME FilterAssumption, RingInv, PutMessageEnd
  PROVE  RingInv'
<1> DEFINE g == Filter(f.firstSize, f.blockSize, f.lastSize)
           l == Queued(f.queue)
<1>1. /\ last = NoLast /\ f' = g /\ last' = l
      /\ put' = put /\ given' = given /\ flushed' = flushed /\ overread' = overread
  <2> DEFINE a == MessageEnd(f)
  <2>1. a = Answer(g, <<l>>)
    BY DEF MessageEnd
  <2> HIDE DEF g, l
  <2>2. a.f = g /\ a.given[1] = l
    BY <2>1 DEF Answer
  <2> HIDE DEF a
  <2> QED BY <2>2 DEF PutMessageEnd, a
<1>0. PICK strings \in Seq(Seq(Nat)) :
        Lengthened(f, strings, given, overread) /\ Unfinished(f, strings, put, flushed)
  BY <1>1 DEF RingInv
<1>2. put \in Nat /\ flushed \in BOOLEAN /\ Unfinished(f, strings, put, flushed)
  BY <1>0, <1>1 DEF RingInv
<1>3. f \in FilterRec
  BY <1>2 DEF Unfinished, Waiting, Working, Started
<1>4. /\ Waiting(g, 0) /\ SameSizes(f, g)
  <2>1. f.firstSize \in Nat /\ f.blockSize \in Nat \ {0} /\ f.lastSize \in Nat
    BY <1>3, FilterTypes
  <2> QED BY <2>1, NewFilter DEF SameSizes
<1> HIDE DEF g
<1>5. l # NoLast /\ Finished(g, strings, put, flushed, l)
  <2>1. CASE Waiting(f, put) /\ strings = <<>>
    <3>1. l = Run(0, 0 + put)
      BY <2>1, QueuedIs DEF Waiting
    <3>2. l = Run(0, put)
      BY <3>1, <1>2
    <3>3. l # NoLast
      <4>1. 0 \in Nat /\ 0 <= put
        BY <1>2
      <4> QED BY <4>1, <3>2, <1>2, RunIsNotNoLast
    <3>4. put < g.firstSize \/ put = 0
      BY <2>1, <1>4 DEF SameSizes, Waiting
    <3> HIDE DEF l
    <3> QED BY <3>2, <3>3, <3>4, <2>1, <1>4 DEF Finished
  <2>2. ASSUME NEW c \in Nat, Working(f, c, put), HandedOver(f, strings, c),
               flushed \/ KeptBack(f, put - c, put - f.firstSize)
        PROVE  l # NoLast /\ Finished(g, strings, put, flushed, l)
    <3>1. l = Run(c, put)
      BY <2>2, QueuedIs DEF Working
    <3>2. c <= put
      <4> DEFINE z == f.queue.size
      <4>1. c + z = put /\ z \in Nat
        BY <2>2, RingTypes DEF Working, Holds
      <4> HIDE DEF z
      <4> QED BY <4>1
    <3>3. l # NoLast
      BY <3>1, <3>2, <1>2, RunIsNotNoLast
    <3>4. HandedOver(g, strings, c)
      BY <2>2, <1>4, SameSizesHanded
    <3>5. flushed \/ KeptBack(g, put - c, put - g.firstSize)
      BY <2>2, <1>4 DEF SameSizes, KeptBack
    <3> HIDE DEF l
    <3> QED BY <3>1, <3>2, <3>3, <3>4, <3>5, <1>4 DEF Finished
  <2> QED BY <1>2, <2>1, <2>2 DEF Unfinished
<1> HIDE DEF l
<1>6. Lengthened(g, strings, given, overread)
  BY <1>0, <1>4 DEF Lengthened, SameSizes
<1>7. overread \in BOOLEAN /\ (overread => flushed)
  BY DEF RingInv
<1> QED BY <1>1, <1>2, <1>5, <1>6, <1>7 DEF RingInv

LEMMA RingFlushes ==
  ASSUME FilterAssumption, RingInv, IsolatedFlush
  PROVE  RingInv'
<1>0. PICK lengthFirst \in BOOLEAN :
        /\ Becomes(ForceNextPut(f, lengthFirst))
        /\ overread' = (overread \/ (lengthFirst /\ Overreads(f)))
  BY DEF IsolatedFlush
<1> DEFINE a == ForceNextPut(f, FALSE)
           b == ForceNextPut(f, lengthFirst)
           gs == NotEmpty(a.given)
           hs == NotEmpty(b.given)
<1>1. /\ last = NoLast /\ put' = put /\ f' = b.f /\ given' = given \o hs
      /\ last' = NoLast /\ flushed' = TRUE
  BY <1>0 DEF IsolatedFlush, Becomes
<1>2. PICK strings \in Seq(Seq(Nat)) :
        Lengthened(f, strings, given, overread) /\ Unfinished(f, strings, put, flushed)
  BY <1>1 DEF RingInv
<1>3. put \in Nat /\ overread \in BOOLEAN
  BY DEF RingInv
<1>4. Unfinished(a.f, strings \o gs, put, TRUE) /\ SameSizes(f, a.f) /\ gs \in Seq(Seq(Nat))
  <2>1. CASE Waiting(f, put) /\ strings = <<>>
    <3>1. a = Answer(f, <<>>)
      BY <2>1 DEF ForceNextPut, Waiting
    <3> HIDE DEF a
    <3>2. a.f = f /\ a.given = <<>>
      BY <3>1 DEF Answer
    <3>3. gs = <<>>
      BY <3>2, NotEmptyNone
    <3> HIDE DEF gs
    <3>4. strings \o gs = <<>>
      BY <2>1, <3>3
    <3> QED BY <2>1, <3>2, <3>3, <3>4 DEF Unfinished, SameSizes
  <2>2. ASSUME NEW c \in Nat, Working(f, c, put), HandedOver(f, strings, c)
        PROVE  Unfinished(a.f, strings \o gs, put, TRUE) /\ SameSizes(f, a.f) /\ gs \in Seq(Seq(Nat))
    <3>1. PICK d \in Nat : /\ Working(a.f, d, put) /\ SameSizes(f, a.f)
                           /\ Handed(a.given, c, d, f.blockSize)
      BY <2>2, ForcesOn
    <3> HIDE DEF a
    <3>2. f \in FilterRec
      BY <2>2 DEF Working, Started
    <3>3. HandedOver(f, strings \o gs, d) /\ gs \in Seq(Seq(Nat))
      <4>1. HandedOver(f, strings \o gs, d)
        BY <2>2, <3>1, <3>2, HandedOverGrows
      <4> QED BY <3>1, <4>1, NotEmptyHanded DEF Handed
    <3> HIDE DEF gs
    <3>4. HandedOver(a.f, strings \o gs, d)
      BY <3>1, <3>3, SameSizesHanded
    <3> QED BY <3>1, <3>3, <3>4 DEF Unfinished
  <2> QED BY <1>2, <2>1, <2>2 DEF Unfinished
<1>5. b.f = a.f /\ Lengthened(a.f, strings \o gs, given \o hs, overread')
  <2>1. CASE ~(lengthFirst /\ Overreads(f))
    <3>1. b = a
      BY <2>1 DEF ForceNextPut
    <3>2. hs = gs /\ overread' = overread
      <4>1. hs = gs
        BY <3>1
      <4> HIDE DEF a, b, gs, hs
      <4>2. (overread \/ (lengthFirst /\ Overreads(f))) = overread
        <5> DEFINE over == Overreads(f)
        <5>1. ~(lengthFirst /\ over)
          BY <2>1
        <5> HIDE DEF over
        <5>2. overread \in BOOLEAN
          BY <1>3
        <5>3. (overread \/ (lengthFirst /\ over)) = overread
          BY <5>1, <5>2, Zenon
        <5> QED BY <5>3 DEF over
      <4> QED BY <1>0, <4>1, <4>2
    <3> HIDE DEF a, b, gs, hs
    <3> QED BY <1>2, <1>3, <1>4, <3>1, <3>2, LengthenedGrows
  <2>2. CASE lengthFirst /\ Overreads(f)
    <3> DEFINE d == Drained(f.queue, f.queue.size)
               w == Wrapped(f.queue)
               behind == [i \in 1 .. w |-> Garbage]
               longer == [d.given EXCEPT ![1] = @ \o behind]
    <3>1. f.blockSize = 1 /\ f.firstInputDone /\ ~(f.blockSize > 1)
      BY <2>2 DEF Overreads
    <3>2. a = Answer([f EXCEPT !.queue = d.queue], d.given) /\ b = Answer([f EXCEPT !.queue = d.queue], longer)
      BY <2>2, <3>1 DEF ForceNextPut
    <3>3. a.f = b.f /\ a.given = d.given /\ b.given = longer
      <4> HIDE DEF a, b, d, longer
      <4> QED BY <3>2 DEF Answer
    <3>4. PICK c \in Nat : Working(f, c, put) /\ HandedOver(f, strings, c)
      BY <1>2, <3>1 DEF Unfinished, Waiting
    <3>5. d.given \in Seq(Seq(Nat))
      <4>1. PICK e \in Nat : Handed(a.given, c, e, f.blockSize)
        BY <3>4, ForcesOn
      <4> QED BY <3>3, <4>1 DEF Handed
    <3>6. behind \in Seq(Cells)
      <4>1. w \in Nat
        <5>1. /\ f.queue.size \in Nat /\ MaxSize(f.queue) \in Nat /\ f.queue.begin \in Nat
              /\ f.queue.begin < MaxSize(f.queue) \/ f.queue.begin = 0
          BY <3>4, RingTypes DEF Working, Holds
        <5>2. w > 0
          BY <2>2 DEF Overreads
        <5>3. w \in Int
          BY <5>1 DEF Wrapped, Contiguous, Lower
        <5> QED BY <5>2, <5>3
      <4> HIDE DEF w
      <4> QED BY <4>1 DEF Cells
    <3>7. longer \in Seq(Seq(Cells))
      <4> DEFINE L == Seq(Cells)
                 x == d.given
      <4>1. Seq(Nat) \subseteq L
        BY DEF Cells
      <4>2. x \in Seq(L)
        BY <3>5, <4>1
      <4>3. \A y \in L : y \o behind \in L
        BY <3>6
      <4> HIDE DEF L, x, behind
      <4>4. [x EXCEPT ![1] = @ \o behind] \in Seq(L)
        <5> DEFINE y == [x EXCEPT ![1] = @ \o behind]
        <5>1. DOMAIN x = 1 .. Len(x) /\ Len(x) \in Nat /\ \A i \in 1 .. Len(x) : x[i] \in L
          BY <4>2
        <5>2. y = [i \in 1 .. Len(x) |-> IF i = 1 THEN x[1] \o behind ELSE x[i]]
          BY <5>1
        <5>3. \A i \in 1 .. Len(x) : (IF i = 1 THEN x[1] \o behind ELSE x[i]) \in L
          BY <4>3, <5>1
        <5> HIDE DEF y
        <5>4. y \in [1 .. Len(x) -> L]
          BY <5>2, <5>3
        <5>5. y \in Seq(L)
          BY <5>1, <5>4
        <5> QED BY <5>5 DEF y
      <4> QED BY <4>4 DEF L, x
    <3> HIDE DEF longer, behind, w, d
    <3>8. hs \in Seq(Seq(Cells))
      BY <3>3, <3>7, NotEmptyTypes
    <3> HIDE DEF a, b, gs, hs
    <3> DEFINE L == Seq(Cells)
    <3>9. given \in Seq(L)
      <4>1. Seq(Nat) \subseteq L
        BY DEF Cells
      <4>2. strings \in Seq(L)
        BY <4>1
      <4> QED BY <1>2, <4>2 DEF Lengthened
    <3>10. f.firstSize > 0 => strings # <<>> /\ given # <<>> /\ given[1] = strings[1]
      <4>1. f.firstSize > 0 => strings # <<>>
        <5>1. PICK ss : /\ Handed(ss, f.firstSize, c, f.blockSize)
                        /\ strings = IF f.firstSize = 0 THEN ss ELSE <<Run(0, f.firstSize)>> \o ss
          BY <3>4 DEF HandedOver
        <5>2. ss \in Seq(Seq(Nat)) /\ f.firstSize \in Nat
          BY <5>1 DEF Handed
        <5> DEFINE x == Run(0, f.firstSize)
        <5>3. x \in Seq(Nat)
          <6>1. 0 \in Nat /\ 0 <= f.firstSize
            BY <5>2
          <6> QED BY <5>2, <6>1, RunIs
        <5> HIDE DEF x
        <5>4. <<x>> \o ss # <<>>
          BY <5>2, <5>3
        <5> QED BY <5>1, <5>2, <5>4 DEF x
      <4> QED BY <1>2, <4>1 DEF Lengthened
    <3>11. a.f.blockSize = 1 /\ a.f.firstSize = f.firstSize
      BY <1>4, <3>1 DEF SameSizes
    <3> DEFINE ss == strings \o gs
               ts == given \o hs
    <3>12. ts \in Seq(L)
      BY <3>8, <3>9
    <3>13. f.firstSize > 0 => ss # <<>> /\ ts # <<>> /\ ts[1] = ss[1]
      <4>1. strings # <<>> => ss # <<>> /\ ss[1] = strings[1]
        BY <1>4
      <4>2. given # <<>> => ts # <<>> /\ ts[1] = given[1]
        <5> HIDE DEF L
        <5> QED BY <3>8, <3>9 DEF L
      <4> HIDE DEF ss, ts
      <4> QED BY <3>10, <4>1, <4>2
    <3> HIDE DEF ss, ts
    <3>14. overread' = TRUE
      BY <1>0, <2>2
    <3> QED BY <3>3, <3>11, <3>12, <3>13, <3>14 DEF Lengthened, ss, ts
  <2> QED BY <2>1, <2>2
<1>6. overread' \in BOOLEAN
  BY <1>0
<1> HIDE DEF a, b, gs, hs
<1>7. strings \o gs \in Seq(Seq(Nat))
  BY <1>4
<1> QED BY <1>1, <1>3, <1>4, <1>5, <1>6, <1>7 DEF RingInv

LEMMA RingGoesOn ==
  ASSUME FilterAssumption, RingInv, [Next]_vars
  PROVE  RingInv'
<1>1. ASSUME NEW n \in 1 .. MaxMessage, Put2(n) PROVE RingInv'
  BY <1>1, RingPuts
<1>2. CASE PutMessageEnd
  BY <1>2, RingEnds
<1>3. CASE IsolatedFlush
  BY <1>3, RingFlushes
<1>4. CASE Again
  <2>1. /\ last # NoLast /\ put' = 0 /\ given' = <<>> /\ last' = NoLast
        /\ flushed' = FALSE /\ overread' = FALSE /\ f' = f
    BY <1>4 DEF Again
  <2>2. Waiting(f, 0)
    BY <2>1 DEF RingInv, Finished
  <2>3. <<>> \in Seq(Seq(Nat)) /\ Lengthened(f', <<>>, given', overread') /\ Unfinished(f', <<>>, 0, FALSE)
    BY <2>1, <2>2 DEF Lengthened, Unfinished
  <2> QED BY <2>1, <2>3 DEF RingInv
<1>5. CASE UNCHANGED vars
  <2>1. /\ put' = put /\ given' = given /\ last' = last /\ flushed' = flushed
        /\ overread' = overread /\ f' = f
    BY <1>5 DEF vars
  <2> QED BY <2>1 DEF RingInv
<1> QED BY <1>1, <1>2, <1>3, <1>4, <1>5 DEF Next

LEMMA RingInvHolds == ASSUME FilterAssumption PROVE Spec => []RingInv
<1>1. Init => RingInv
  BY RingStarts
<1>2. RingInv /\ [Next]_vars => RingInv'
  BY RingGoesOn
<1> QED BY <1>1, <1>2, PTL DEF Spec

\* What has been handed over, one string behind the other.
LEMMA HandedOverIs ==
  ASSUME NEW e \in FilterRec, NEW strings, NEW c \in Nat, HandedOver(e, strings, c)
  PROVE  FlattenSeq(strings) = Run(0, c)
<1> DEFINE first == e.firstSize
<1>1. PICK ss : /\ Handed(ss, first, c, e.blockSize)
                /\ strings = IF first = 0 THEN ss ELSE <<Run(0, first)>> \o ss
  BY DEF HandedOver
<1>2. /\ first \in Nat /\ c \in Nat /\ first <= c /\ ss \in Seq(Seq(Nat))
      /\ FlattenSeq(ss) = Run(first, c)
  BY <1>1 DEF Handed
<1> DEFINE x == Run(0, first)
<1>3. x \in Seq(Nat) /\ x \o Run(first, c) = Run(0, c)
  <2> HIDE DEF first
  <2> DEFINE k == 0
  <2>1. k \in Nat /\ k <= first
    BY <1>2
  <2> HIDE DEF k
  <2>2. Run(k, first) \in Seq(Nat) /\ Run(k, first) \o Run(first, c) = Run(k, c)
    BY <2>1, <1>2, RunIs, RunsJoin
  <2> QED BY <2>2 DEF k
<1>4. CASE first = 0
  BY <1>1, <1>2, <1>4
<1>5. CASE first # 0
  <2> HIDE DEF x
  <2>1. <<x>> \in Seq(Seq(Nat)) /\ strings = <<x>> \o ss
    BY <1>1, <1>3, <1>5 DEF x
  <2>2. FlattenSeq(<<x>> \o ss) = FlattenSeq(<<x>>) \o FlattenSeq(ss)
    BY <2>1, <1>2, FlattenJoin
  <2>3. FlattenSeq(<<x>>) = x
    BY <1>3, FlattenOne
  <2> QED BY <2>1, <2>2, <2>3, <1>2, <1>3
<1> QED BY <1>4, <1>5

\* The derived class is given the message, whole and in order, and the ring
\* never holds more than it has room for, for any firstSize, blockSize and
\* lastSize, however a message is cut, flushed and ended and however many there
\* were before it (filters.cpp:236-290,328-434).  The bytes are claimed of a message
\* of which no hard flush has read past the end of the ring: not where a wrapped
\* ring of single bytes is flushed and the length is evaluated before the string
\* (filters.cpp:432).
THEOREM RingKeeps ==
  ASSUME FilterAssumption
  PROVE  Spec => []RingKeepsTheMessage
<1>1. RingInv => RingKeepsTheMessage
  <2> SUFFICES ASSUME RingInv PROVE RingKeepsTheMessage
    OBVIOUS
  <2>0. PICK strings \in Seq(Seq(Nat)) :
          /\ Lengthened(f, strings, given, overread)
          /\ last = NoLast => Unfinished(f, strings, put, flushed)
          /\ last # NoLast => Finished(f, strings, put, flushed, last)
    BY DEF RingInv
  <2>1. put \in Nat /\ flushed \in BOOLEAN
    BY DEF RingInv
  <2>7. ASSUME FlattenSeq(strings) \o Kept = Run(0, put), f.queue.size <= MaxSize(f.queue)
        PROVE  RingKeepsTheMessage
    <3>1. Run(0, put) = [i \in 1 .. put |-> i]
      BY <2>1 DEF Run
    <3>2. ~overread => given = strings
      BY <2>0 DEF Lengthened
    <3> QED BY <2>7, <3>1, <3>2 DEF RingKeepsTheMessage, BlocksAreTheInput
  <2>2. ASSUME NEW c \in Nat, c <= put, f \in FilterRec, HandedOver(f, strings, c), Kept = Run(c, put)
        PROVE  FlattenSeq(strings) \o Kept = Run(0, put)
    <3>1. FlattenSeq(strings) = Run(0, c)
      BY <2>2, HandedOverIs
    <3> DEFINE k == 0
    <3>2. k \in Nat /\ k <= c
      BY <2>2
    <3> HIDE DEF k
    <3>3. Run(k, c) \o Run(c, put) = Run(k, put)
      BY <3>2, <2>1, <2>2, RunsJoin
    <3> QED BY <3>1, <3>3, <2>2 DEF k
  <2>3. ASSUME strings = <<>>, Kept = Run(0, put) PROVE FlattenSeq(strings) \o Kept = Run(0, put)
    <3>1. Run(0, put) \in Seq(Nat)
      <4>1. 0 \in Nat /\ 0 <= put
        BY <2>1
      <4> QED BY <4>1, <2>1, RunIs
    <3> DEFINE r == Run(0, put)
    <3> HIDE DEF r
    <3>2. <<>> \o r = r
      BY <3>1 DEF r
    <3> QED BY <3>2, <2>3, FlattenNone DEF r
  <2>5. CASE last = NoLast
    <3>1. Kept = Queued(f.queue)
      BY <2>5 DEF Kept
    <3>2. CASE Waiting(f, put) /\ strings = <<>>
      <4>1. Kept = Run(0, 0 + put) /\ InPlace(f.queue)
        BY <3>1, <3>2, QueuedIs DEF Waiting, Holds
      <4>2. Kept = Run(0, put)
        BY <4>1, <2>1
      <4>3. FlattenSeq(strings) \o Kept = Run(0, put)
        BY <4>2, <3>2, <2>3
      <4>4. f.queue.size <= MaxSize(f.queue)
        BY <4>1, RingTypes
      <4> QED BY <4>3, <4>4, <2>7
    <3>3. ASSUME NEW c \in Nat, Working(f, c, put), HandedOver(f, strings, c)
          PROVE  RingKeepsTheMessage
      <4>1. Kept = Run(c, put) /\ InPlace(f.queue) /\ f \in FilterRec
        BY <3>1, <3>3, QueuedIs DEF Working, Holds, Started
      <4>2. c <= put
        <5> DEFINE z == f.queue.size
        <5>1. c + z = put /\ z \in Nat
          BY <3>3, <4>1, RingTypes DEF Working
        <5> HIDE DEF z
        <5> QED BY <5>1
      <4>3. FlattenSeq(strings) \o Kept = Run(0, put)
        BY <4>1, <4>2, <3>3, <2>2
      <4>4. f.queue.size <= MaxSize(f.queue)
        BY <4>1, RingTypes
      <4> QED BY <4>3, <4>4, <2>7
    <3> QED BY <2>5, <3>2, <3>3, <2>0 DEF Unfinished
  <2>6. CASE last # NoLast
    <3>1. Kept = last /\ Finished(f, strings, put, flushed, last)
      BY <2>0, <2>6 DEF Kept
    <3>2. f \in FilterRec /\ f.queue.size <= MaxSize(f.queue)
      <4>1. f \in FilterRec /\ InPlace(f.queue)
        BY <3>1 DEF Finished, Waiting, Holds
      <4> QED BY <4>1, RingTypes
    <3>3. FlattenSeq(strings) \o Kept = Run(0, put)
      BY <3>1, <3>2, <2>2, <2>3 DEF Finished
    <3> QED BY <3>2, <3>3, <2>7
  <2> QED BY <2>5, <2>6
<1> QED BY <1>1, RingInvHolds, PTL

\* The derived class is given what filters.h promises it: firstSize bytes, then
\* whole blocks, and at the end of a message that has not been flushed between
\* lastSize bytes and a block more (filters.h:177-191, filters.cpp:328-434).
THEOREM LengthsHold ==
  ASSUME FilterAssumption
  PROVE  Spec => []LengthsArePromised
<1>1. RingInv => LengthsArePromised
  <2> SUFFICES ASSUME RingInv PROVE LengthsArePromised
    OBVIOUS
  <2> DEFINE first == f.firstSize
             bs == f.blockSize
             ls == f.lastSize
             next == IF first > 0 THEN Tail(given) ELSE given
             l == Len(last)
             A == put < first
             B == put >= first /\ put <= first + ls
             C == put > first + ls
  <2>0. PICK strings \in Seq(Seq(Nat)) :
          /\ Lengthened(f, strings, given, overread)
          /\ last = NoLast => Unfinished(f, strings, put, flushed)
          /\ last # NoLast => Finished(f, strings, put, flushed, last)
    BY DEF RingInv
  <2>1. put \in Nat /\ flushed \in BOOLEAN /\ f \in FilterRec
    BY <2>0 DEF RingInv, Unfinished, Finished, Waiting, Working, Started
  <2>2. first \in Nat /\ bs \in Nat \ {0} /\ ls \in Nat
    BY <2>1, FilterTypes
  <2>3. ASSUME NEW c \in Nat, HandedOver(f, strings, c)
        PROVE  LET tail == IF first > 0 THEN Tail(strings) ELSE strings
               IN  /\ first > 0 => Len(strings[1]) = first
                   /\ \A i \in DOMAIN tail : Len(tail[i]) % bs = 0
    <3>1. PICK ss : /\ Handed(ss, first, c, bs)
                    /\ strings = IF first = 0 THEN ss ELSE <<Run(0, first)>> \o ss
      BY <2>3 DEF HandedOver
    <3>2. ss \in Seq(Seq(Nat)) /\ \A i \in DOMAIN ss : Len(ss[i]) % bs = 0
      <4>1. ss \in Seq(Seq(Nat)) /\ \A i \in 1 .. Len(ss) : Len(ss[i]) % bs = 0
        BY <3>1 DEF Handed
      <4>2. DOMAIN ss = 1 .. Len(ss)
        BY <4>1
      <4> QED BY <4>1, <4>2
    <3> HIDE DEF first, bs
    <3>3. CASE first = 0
      BY <3>1, <3>2, <3>3
    <3>4. CASE first # 0
      <4> DEFINE x == Run(0, first)
      <4>1. x \in Seq(Nat) /\ Len(x) = first
        <5>1. 0 \in Nat /\ 0 <= first /\ first - 0 = first
          BY <2>2
        <5> QED BY <2>2, <5>1, RunIs
      <4> HIDE DEF x
      <4>2. strings = <<x>> \o ss
        BY <3>1, <3>4 DEF x
      <4>3. strings[1] = x /\ Tail(strings) = ss
        BY <4>1, <4>2, <3>2
      <4>4. first > 0
        BY <2>2, <3>4
      <4> QED BY <3>2, <4>1, <4>3, <4>4
    <3> QED BY <3>3, <3>4
  <2>4. given # <<>> => (first > 0 => Len(given[1]) = first) /\ \A i \in DOMAIN next : Len(next[i]) % bs = 0
    <3> SUFFICES ASSUME given # <<>>
                 PROVE  (first > 0 => Len(given[1]) = first) /\ \A i \in DOMAIN next : Len(next[i]) % bs = 0
      OBVIOUS
    <3>1. strings # <<>> => \E c \in Nat : HandedOver(f, strings, c)
      BY <2>0 DEF Unfinished, Finished
    <3>2. CASE ~overread
      <4>1. given = strings
        BY <2>0, <3>2 DEF Lengthened
      <4> QED BY <2>3, <3>1, <4>1
    <3>3. CASE overread
      <4> DEFINE L == Seq(Cells)
      <4>1. /\ bs = 1 /\ given \in Seq(L)
            /\ first > 0 => strings # <<>> /\ given[1] = strings[1]
        BY <2>0, <3>3 DEF Lengthened
      <4>2. first > 0 => Len(given[1]) = first
        BY <2>3, <3>1, <4>1
      <4> HIDE DEF L, first, bs
      <4>3. next \in Seq(L)
        BY <4>1
      <4>4. \A i \in DOMAIN next : next[i] \in L
        <5> HIDE DEF next
        <5> QED BY <4>3
      <4>5. \A y \in L : Len(y) % 1 = 0
        BY DEF L
      <4> HIDE DEF next
      <4> QED BY <4>1, <4>2, <4>4, <4>5
    <3> QED BY <3>2, <3>3
  <2>5. ASSUME last # NoLast, ~flushed
        PROVE  (A => l = put) /\ (B => l = put - first) /\ (C => l \in ls .. ls + bs - 1)
    <3>1. Finished(f, strings, put, flushed, last)
      BY <2>0, <2>5
    <3>2. CASE last = Run(0, put) /\ (put < first \/ put = 0)
      <4>1. l = put
        <5>1. 0 \in Nat /\ 0 <= put /\ put - 0 = put
          BY <2>1
        <5> QED BY <2>1, <3>2, <5>1, RunIs
      <4> HIDE DEF first, bs, ls, l
      <4> QED BY <2>1, <2>2, <3>2, <4>1
    <3>3. ASSUME NEW c \in Nat, c <= put, last = Run(c, put), HandedOver(f, strings, c),
                 KeptBack(f, put - c, put - first)
          PROVE  (A => l = put) /\ (B => l = put - first) /\ (C => l \in ls .. ls + bs - 1)
      <4>1. l = put - c
        BY <2>1, <3>3, RunIs
      <4>2. first <= c
        BY <3>3 DEF HandedOver, Handed
      <4>3. IF put - first < ls THEN put - c = put - first
            ELSE put - c \in Nat /\ ls <= put - c /\ put - c < ls + bs
        BY <3>3 DEF KeptBack
      <4> HIDE DEF first, bs, ls, l
      <4> QED BY <2>1, <2>2, <3>3, <4>1, <4>2, <4>3
    <3> QED BY <2>5, <3>1, <3>2, <3>3 DEF Finished
  <2>6. /\ A \in BOOLEAN /\ B \in BOOLEAN /\ C \in BOOLEAN /\ (A \/ B \/ C)
        /\ ~(A /\ B) /\ ~(A /\ C) /\ ~(B /\ C)
    <3> HIDE DEF first, ls
    <3> QED BY <2>1, <2>2
  <2>7. first > 0 /\ given # <<>> => Len(given[1]) = first
    BY <2>4
  <2>8. given # <<>> => \A i \in DOMAIN next : Len(next[i]) % bs = 0
    BY <2>4
  <2>9. ASSUME last # NoLast, ~flushed
        PROVE  CASE A -> l = put [] B -> l = put - first [] C -> l \in ls .. ls + bs - 1
    <3> HIDE DEF A, B, C, first, bs, ls, l
    <3> QED BY <2>5, <2>6, <2>9, Zenon
  <2> QED BY <2>7, <2>8, <2>9, Zenon DEF LengthsArePromised
<1> QED BY <1>1, RingInvHolds, PTL
=============================================================================
