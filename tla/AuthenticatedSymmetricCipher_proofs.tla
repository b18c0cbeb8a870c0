---------------- MODULE AuthenticatedSymmetricCipher_proofs -----------------
(***************************************************************************)
(* The authenticated modes for blocks of any size, headers and messages of *)
(* any length cut in any way, and whatever calls come in between: no byte  *)
(* of keystream is used twice, and a tag that is given out is the one the  *)
(* scheme defines for IV, header and message.                              *)
(***************************************************************************)
EXTENDS AuthenticatedSymmetricCipher, CommonLemmas

State == {"Start", "KeySet", "IVSet", "AuthUntransformed", "AuthTransformed", "AuthFooter"}
Message == {"AuthUntransformed", "AuthTransformed"}
Running == m_state \in State \ {"Start", "KeySet"}

Counts == [header : Nat, message : Nat, footer : Nat]

TypeOK ==
  /\ scheme \in {"CCM", "GCM", "EAX"} /\ forward \in BOOLEAN
  /\ m_state \in State
  /\ total \in Counts /\ promised \in Counts
  /\ m_ctr = [iv |-> m_ctr.iv, position |-> m_ctr.position] /\ m_ctr.position \in Nat
  /\ header \in Nat /\ message \in Nat

\* While a message is under way, the counter mode stands behind the bytes of
\* keystream used for it.
CounterInPlace ==
  "abandoned" \notin trouble /\ Running =>
    m_ctr.iv = CounterIV(iv) /\ m_ctr.position = FirstPosition + message

-----------------------------------------------------------------------------
\* The whole blocks of s, and what is left behind them.
Whole(s, d) == [k \in 1 .. Len(s) \div d |-> SubSeq(s, (k - 1) * d + 1, k * d)]
Left(s, d) == SubSeq(s, (Len(s) \div d) * d + 1, Len(s))

BS == AuthenticationBlockSize

\* What the MAC has absorbed before the header, and the bytes it then takes.
B0 == <<<<"B0", iv, promised.header, promised.message>>>>
HeaderPrefix ==
  CASE scheme = "CCM" -> B0 [] scheme = "GCM" -> <<>> [] scheme = "EAX" -> <<<<"1">>>>
LengthBytes == IF scheme = "CCM" /\ promised.header > 0 THEN <<<<"length">>>> ELSE <<>>
HeaderStream == LengthBytes \o HeaderBytes

\* The same for the message.
MessagePrefix == IF scheme = "EAX" THEN <<<<"2">>>> ELSE HeaderPrefix \o InBlocks(HeaderStream)
MessageStream == IF scheme = "CCM" THEN PlainBytes ELSE CipherBytes

\* In CCM a TruncatedFinal that is refused has completed the header; what a
\* client adds to it then makes it too long for ever.
HeaderAbsorbed ==
  \/ auth = HeaderPrefix \o Whole(HeaderStream, BS) /\ m_buffer = Left(HeaderStream, BS)
  \/ /\ scheme = "CCM" /\ header = promised.header
     /\ auth = HeaderPrefix \o InBlocks(HeaderStream) /\ m_buffer = <<>>
  \/ scheme = "CCM" /\ header > promised.header

MessageAbsorbed ==
  /\ m_state = IF AuthenticatesInput THEN "AuthUntransformed" ELSE "AuthTransformed"
  /\ auth = MessagePrefix \o Whole(MessageStream, BS) /\ m_buffer = Left(MessageStream, BS)
  /\ scheme = "EAX" => m_tags = {CounterIV(iv), <<<<"1">>>> \o InBlocks(HeaderBytes)}
  /\ scheme = "CCM" => header = promised.header

\* What the object holds is what its client has given.
Absorbed ==
  trouble = {} /\ Running =>
    /\ total.header = header /\ total.message = message
    /\ m_state = "AuthFooter" => total.footer > 0
    /\ m_state = "IVSet" =>
         /\ message = 0 /\ (scheme = "EAX" => m_tags = {CounterIV(iv)})
         /\ (scheme = "CCM" => promised.footer = 1) => HeaderAbsorbed
    /\ m_state \in Message => MessageAbsorbed

Inv ==
  /\ TypeOK
  /\ CounterInPlace
  /\ KeystreamUsedOnce
  /\ Absorbed
  /\ TagIsDefined

-----------------------------------------------------------------------------
(* Sequences of whatever elements.                                         *)

Sequence(s) == Len(s) \in Nat /\ s = [i \in 1 .. Len(s) |-> s[i]]

LEMMA SequenceIs ==
  ASSUME NEW s
  PROVE  /\ Sequence(s) => s \in Seq({s[i] : i \in 1 .. Len(s)})
         /\ \A T : s \in Seq(T) => Sequence(s)
<1>1. ASSUME Sequence(s) PROVE s \in Seq({s[i] : i \in 1 .. Len(s)})
  <2> DEFINE n == Len(s)
             T == {s[i] : i \in 1 .. n}
  <2>1. n \in Nat /\ s = [i \in 1 .. n |-> s[i]] /\ \A i \in 1 .. n : s[i] \in T
    BY <1>1 DEF Sequence
  <2> HIDE DEF n, T
  <2>2. s \in Seq(T)
    BY <2>1
  <2> QED BY <2>2 DEF T, n
<1>2. ASSUME NEW T, s \in Seq(T) PROVE Sequence(s)
  BY <1>2 DEF Sequence
<1> QED BY <1>1, <1>2

LEMMA OneType ==
  ASSUME NEW s, NEW t, NEW u, Sequence(s), Sequence(t), Sequence(u)
  PROVE  \E T : s \in Seq(T) /\ t \in Seq(T) /\ u \in Seq(T)
<1> DEFINE A1 == {s[i] : i \in 1 .. Len(s)}
           A2 == {t[i] : i \in 1 .. Len(t)}
           A3 == {u[i] : i \in 1 .. Len(u)}
<1>1. s \in Seq(A1) /\ t \in Seq(A2) /\ u \in Seq(A3)
  BY SequenceIs
<1> HIDE DEF A1, A2, A3
<1>2. s \in Seq(A1 \cup A2 \cup A3) /\ t \in Seq(A1 \cup A2 \cup A3)
      /\ u \in Seq(A1 \cup A2 \cup A3)
  BY <1>1
<1> QED BY <1>2

LEMMA Concatenation ==
  ASSUME NEW s, NEW t, Sequence(s), Sequence(t)
  PROVE  /\ Sequence(s \o t) /\ Len(s \o t) = Len(s) + Len(t)
         /\ \A i \in 1 .. Len(s) : (s \o t)[i] = s[i]
         /\ \A i \in 1 .. Len(t) : (s \o t)[Len(s) + i] = t[i]
         /\ s \o <<>> = s /\ <<>> \o s = s
<1>1. PICK T : s \in Seq(T) /\ t \in Seq(T)
  BY OneType
<1>2. s \o t \in Seq(T) /\ Len(s \o t) = Len(s) + Len(t)
  BY <1>1
<1>3. /\ \A i \in 1 .. Len(s) : (s \o t)[i] = s[i]
      /\ \A i \in 1 .. Len(t) : (s \o t)[Len(s) + i] = t[i]
  BY <1>1
<1>4. s \o <<>> = s /\ <<>> \o s = s
  BY <1>1
<1> QED BY <1>2, <1>3, <1>4, SequenceIs

LEMMA Associative ==
  ASSUME NEW s, NEW t, NEW u, Sequence(s), Sequence(t), Sequence(u)
  PROVE  (s \o t) \o u = s \o (t \o u)
<1>1. PICK T : s \in Seq(T) /\ t \in Seq(T) /\ u \in Seq(T)
  BY OneType
<1> QED BY <1>1

LEMMA SameSequence ==
  ASSUME NEW s, NEW t, Sequence(s), Sequence(t), Len(s) = Len(t),
         \A i \in 1 .. Len(s) : s[i] = t[i]
  PROVE  s = t
BY DEF Sequence

LEMMA Part ==
  ASSUME NEW s, Sequence(s), NEW a \in Int, NEW b \in Int, 1 <= a, b <= Len(s)
  PROVE  /\ Sequence(SubSeq(s, a, b))
         /\ Len(SubSeq(s, a, b)) = IF a <= b THEN b - a + 1 ELSE 0
         /\ \A i \in 1 .. b - a + 1 : SubSeq(s, a, b)[i] = s[a + i - 1]
<1>1. PICK T : s \in Seq(T)
  BY SequenceIs
<1>2. /\ SubSeq(s, a, b) \in Seq(T)
      /\ Len(SubSeq(s, a, b)) = IF a <= b THEN b - a + 1 ELSE 0
      /\ \A i \in 1 .. b - a + 1 : SubSeq(s, a, b)[i] = s[a + i - 1]
  BY <1>1
<1> QED BY <1>2, SequenceIs

LEMMA Listed ==
  ASSUME NEW n \in Nat, NEW s, s = [i \in 1 .. n |-> s[i]]
  PROVE  Sequence(s) /\ Len(s) = n
<1>1. s \in Seq({s[i] : i \in 1 .. n}) /\ Len(s) = n
  OBVIOUS
<1> QED BY <1>1, SequenceIs

LEMMA Few ==
  ASSUME NEW x
  PROVE  Sequence(<<>>) /\ Len(<<>>) = 0 /\ Sequence(<<x>>) /\ Len(<<x>>) = 1 /\ <<x>>[1] = x
<1>1. <<>> \in Seq({x}) /\ <<x>> \in Seq({x})
  OBVIOUS
<1> QED BY <1>1, SequenceIs

-----------------------------------------------------------------------------
(* Blocks.                                                                 *)

\* The places of a block among n bytes.
LEMMA BlockInside ==
  ASSUME NEW d \in Nat \ {0}, NEW q \in Nat, NEW k \in 1 .. q
  PROVE  /\ (k - 1) * d + 1 \in Nat /\ k * d \in Nat
         /\ 1 <= (k - 1) * d + 1 /\ (k - 1) * d + 1 <= k * d /\ k * d <= q * d
         /\ k * d - ((k - 1) * d + 1) + 1 = d
<1>1. (k - 1) * d >= 0 /\ k * d = (k - 1) * d + d /\ (q - k) * d >= 0
  <2>1. k - 1 \in Nat /\ q - k \in Nat
    OBVIOUS
  <2> QED BY <2>1
<1>2. q * d = k * d + (q - k) * d
  OBVIOUS
<1>3. (k - 1) * d \in Int /\ k * d \in Int /\ q * d \in Int /\ (q - k) * d \in Int
  OBVIOUS
<1> QED BY <1>1, <1>2, <1>3

\* The bytes of a sequence: Len(Whole) blocks of d, and fewer than d behind.
LEMMA Cut ==
  ASSUME NEW s, Sequence(s), NEW d \in Nat \ {0}
  PROVE  LET q == Len(s) \div d
         IN  /\ q \in Nat /\ q * d \in Nat /\ q * d <= Len(s) /\ Len(s) - q * d \in 0 .. d - 1
             /\ Sequence(Whole(s, d)) /\ Len(Whole(s, d)) = q
             /\ Sequence(Left(s, d)) /\ Len(Left(s, d)) = Len(s) - q * d
             /\ \A i \in 1 .. Len(s) - q * d : Left(s, d)[i] = s[q * d + i]
<1> DEFINE q == Len(s) \div d
<1>1. Len(s) \in Nat
  BY DEF Sequence
<1>2. q \in Nat /\ Len(s) % d \in 0 .. d - 1 /\ Len(s) = q * d + (Len(s) % d)
  BY <1>1, Division
<1>3. Whole(s, d) = [k \in 1 .. q |-> Whole(s, d)[k]]
  BY DEF Whole
<1>4. Sequence(Whole(s, d)) /\ Len(Whole(s, d)) = q
  <2> HIDE DEF q
  <2> QED BY <1>2, <1>3, Listed
<1> DEFINE c == q * d
<1>5. Left(s, d) = SubSeq(s, c + 1, Len(s))
  BY DEF Left
<1> HIDE DEF q
<1>6. c \in Nat /\ c <= Len(s) /\ Len(s) - c \in 0 .. d - 1
  BY <1>1, <1>2
<1> HIDE DEF c
<1>7. /\ Sequence(Left(s, d)) /\ Len(Left(s, d)) = Len(s) - c
      /\ \A i \in 1 .. Len(s) - c : Left(s, d)[i] = s[c + i]
  <2>1. c + 1 \in Int /\ Len(s) \in Int /\ 1 <= c + 1
    BY <1>1, <1>6
  <2>2. /\ Sequence(SubSeq(s, c + 1, Len(s)))
        /\ Len(SubSeq(s, c + 1, Len(s))) = IF c + 1 <= Len(s) THEN Len(s) - (c + 1) + 1 ELSE 0
        /\ \A i \in 1 .. Len(s) - (c + 1) + 1 : SubSeq(s, c + 1, Len(s))[i] = s[(c + 1) + i - 1]
    BY <2>1, Part
  <2>3. (Len(s) - (c + 1)) + 1 = Len(s) - c
    BY <1>1, <1>6
  <2>4. \A i \in 1 .. Len(s) - c : (c + 1) + i - 1 = c + i
    BY <1>6
  <2>5. (IF c + 1 <= Len(s) THEN Len(s) - (c + 1) + 1 ELSE 0) = Len(s) - c
    BY <1>1, <1>6
  <2> QED BY <1>5, <2>2, <2>3, <2>4, <2>5
<1> QED BY <1>2, <1>4, <1>6, <1>7 DEF q, c

\* Equal bytes at shifted places.
LEMMA ShiftedPart ==
  ASSUME NEW s, NEW t, Sequence(s), Sequence(t), NEW c \in Nat,
         NEW a \in Nat, NEW b \in Nat, 1 <= a, b <= Len(t), c + b <= Len(s),
         \A i \in 1 .. Len(t) : c + i <= Len(s) => s[c + i] = t[i]
  PROVE  SubSeq(s, c + a, c + b) = SubSeq(t, a, b)
<1> DEFINE x == SubSeq(s, c + a, c + b)
           y == SubSeq(t, a, b)
<1>1. Len(s) \in Nat /\ Len(t) \in Nat
  BY DEF Sequence
<1>2. /\ Sequence(y) /\ Len(y) = (IF a <= b THEN b - a + 1 ELSE 0)
      /\ \A i \in 1 .. b - a + 1 : y[i] = t[a + i - 1]
  BY Part
<1>3. /\ Sequence(x) /\ Len(x) = (IF c + a <= c + b THEN (c + b) - (c + a) + 1 ELSE 0)
      /\ \A i \in 1 .. (c + b) - (c + a) + 1 : x[i] = s[(c + a) + i - 1]
  <2>1. c + a \in Int /\ c + b \in Int /\ 1 <= c + a
    OBVIOUS
  <2> QED BY <2>1, Part
<1> HIDE DEF x, y
<1>4. Len(x) = Len(y)
  BY <1>2, <1>3
<1>5. ASSUME NEW i \in 1 .. Len(x) PROVE x[i] = y[i]
  <2>1. i \in 1 .. b - a + 1 /\ i \in 1 .. (c + b) - (c + a) + 1
    BY <1>3, <1>2, <1>4
  <2>2. a + i - 1 \in 1 .. Len(t) /\ (c + a) + i - 1 = c + (a + i - 1) /\ c + (a + i - 1) <= Len(s)
    BY <2>1, <1>1
  <2> QED BY <2>1, <2>2, <1>2, <1>3
<1>6. x = y
  BY <1>2, <1>3, <1>4, <1>5, SameSequence
<1> QED BY <1>6 DEF x, y

\* Bytes that are absorbed in two pieces are cut as if they came at once.
LEMMA WholeGoesOn ==
  ASSUME NEW t, NEW s, Sequence(t), Sequence(s), NEW d \in Nat \ {0}
  PROVE  /\ Whole(t \o s, d) = Whole(t, d) \o Whole(Left(t, d) \o s, d)
         /\ Left(t \o s, d) = Left(Left(t, d) \o s, d)
<1> DEFINE ts == t \o s
           q == Len(t) \div d
           c == q * d
           left == Left(t, d)
           all == left \o s
           n == Len(all) \div d
           r == Len(all) % d
<1>1. Len(t) \in Nat /\ Len(s) \in Nat
  BY DEF Sequence
<1>2. /\ q \in Nat /\ c \in Nat /\ c <= Len(t) /\ Sequence(Whole(t, d)) /\ Len(Whole(t, d)) = q
      /\ Sequence(left) /\ Len(left) = Len(t) - c /\ \A i \in 1 .. Len(t) - c : left[i] = t[c + i]
  BY Cut
<1>3. /\ Sequence(ts) /\ Len(ts) = Len(t) + Len(s)
      /\ \A i \in 1 .. Len(t) : ts[i] = t[i]
      /\ \A i \in 1 .. Len(s) : ts[Len(t) + i] = s[i]
  BY Concatenation
<1> HIDE DEF left
<1>4. /\ Sequence(all) /\ Len(all) = Len(left) + Len(s)
      /\ \A i \in 1 .. Len(left) : all[i] = left[i]
      /\ \A i \in 1 .. Len(s) : all[Len(left) + i] = s[i]
  <2>1. Sequence(left) /\ Sequence(s)
    BY <1>2
  <2> QED BY <2>1, Concatenation
<1> HIDE DEF ts, all
<1>5. Len(ts) = c + Len(all) /\ Len(all) \in Nat
  <2> HIDE DEF c
  <2> QED BY <1>1, <1>2, <1>3, <1>4
<1>6. ASSUME NEW i \in 1 .. Len(all) PROVE ts[c + i] = all[i]
  <2> HIDE DEF c, q, n, r
  <2>1. CASE i <= Len(left)
    <3>1. i \in 1 .. Len(left) /\ i \in 1 .. Len(t) - c /\ c + i \in 1 .. Len(t)
      BY <2>1, <1>1, <1>2, <1>5
    <3> QED BY <3>1, <1>2, <1>3, <1>4
  <2>2. CASE i > Len(left)
    <3>1. i - Len(left) \in 1 .. Len(s) /\ Len(t) + (i - Len(left)) = c + i
          /\ Len(left) + (i - Len(left)) = i
      BY <2>2, <1>1, <1>2, <1>4, <1>5
    <3> QED BY <3>1, <1>3, <1>4, ZenonT(60)
  <2> QED BY <2>1, <2>2, <1>1, <1>2, <1>5
<1>7. n \in Nat /\ r \in 0 .. d - 1 /\ Len(all) = n * d + r /\ n * d <= Len(all) /\ n * d \in Nat
  <2>1. n \in Nat /\ r \in 0 .. d - 1 /\ Len(all) = n * d + r
    BY <1>5, Division
  <2> QED BY <2>1
<1>8. /\ Sequence(Whole(all, d)) /\ Len(Whole(all, d)) = n
      /\ Sequence(Left(all, d)) /\ Len(Left(all, d)) = Len(all) - n * d
  BY <1>4, Cut
<1>9. Len(ts) \div d = q + n /\ (q + n) * d = c + n * d
  <2> HIDE DEF q, n, r
  <2>1. (q + n) * d = c + n * d /\ Len(ts) = (q + n) * d + r
    BY <1>2, <1>5, <1>7
  <2>2. q + n \in Nat
    BY <1>2, <1>7
  <2> QED BY <2>1, <2>2, <1>7, DivisionIsUnique
<1> HIDE DEF q, n, r
<1>10. Left(ts, d) = Left(all, d)
  <2>1. Left(ts, d) = SubSeq(ts, c + (n * d + 1), c + Len(all))
    <3>1. Left(ts, d) = SubSeq(ts, (q + n) * d + 1, Len(ts))
      BY <1>9 DEF Left
    <3>2. (q + n) * d + 1 = c + (n * d + 1)
      BY <1>2, <1>7, <1>9
    <3> QED BY <3>1, <3>2, <1>5
  <2>2. Left(all, d) = SubSeq(all, n * d + 1, Len(all))
    BY DEF Left, n
  <2>3. n * d + 1 \in Nat /\ 1 <= n * d + 1
    BY <1>7
  <2> DEFINE nd == n * d + 1
  <2> HIDE DEF c, nd
  <2>4. SubSeq(ts, c + nd, c + Len(all)) = SubSeq(all, nd, Len(all))
    <3>1. nd \in Nat /\ 1 <= nd
      BY <2>3 DEF nd
    <3> QED BY <3>1, <1>2, <1>3, <1>4, <1>5, <1>6, ShiftedPart
  <2> QED BY <2>1, <2>2, <2>4 DEF nd
<1> DEFINE ww == Whole(t, d) \o Whole(all, d)
<1>11. /\ Sequence(ww) /\ Len(ww) = q + n
       /\ \A k \in 1 .. q : ww[k] = Whole(t, d)[k]
       /\ \A k \in 1 .. n : ww[q + k] = Whole(all, d)[k]
  <2>1. /\ Sequence(Whole(t, d)) /\ Len(Whole(t, d)) = q
        /\ Sequence(Whole(all, d)) /\ Len(Whole(all, d)) = n
    BY <1>2, <1>8
  <2> QED BY <2>1, Concatenation
<1>12. Sequence(Whole(ts, d)) /\ Len(Whole(ts, d)) = q + n
  BY <1>3, <1>9, Cut
<1>13. ASSUME NEW k \in 1 .. q PROVE Whole(ts, d)[k] = Whole(t, d)[k]
  <2> DEFINE a == (k - 1) * d + 1
             b == k * d
  <2>1. a \in Nat /\ b \in Nat /\ 1 <= a /\ b <= c
    BY <1>2, BlockInside
  <2>2. Whole(ts, d)[k] = SubSeq(ts, a, b) /\ Whole(t, d)[k] = SubSeq(t, a, b)
    BY <1>2, <1>7, <1>9 DEF Whole, q
  <2> HIDE DEF a, b, c
  <2>3. SubSeq(ts, 0 + a, 0 + b) = SubSeq(t, a, b)
    <3>1. b <= Len(t) /\ 0 + b <= Len(ts) /\ 0 \in Nat
      BY <2>1, <1>1, <1>2, <1>3
    <3>2. \A i \in 1 .. Len(t) : 0 + i <= Len(ts) => ts[0 + i] = t[i]
      BY <1>1, <1>3
    <3> QED BY <3>1, <3>2, <2>1, <1>3, ShiftedPart
  <2>4. 0 + a = a /\ 0 + b = b
    BY <2>1
  <2> QED BY <2>2, <2>3, <2>4
<1>14. ASSUME NEW k \in 1 .. n PROVE Whole(ts, d)[q + k] = Whole(all, d)[k]
  <2> DEFINE a == (k - 1) * d + 1
             b == k * d
  <2>1. a \in Nat /\ b \in Nat /\ 1 <= a /\ b <= n * d
    BY <1>7, BlockInside
  <2>2. Whole(all, d)[k] = SubSeq(all, a, b)
    BY DEF Whole, n
  <2>3. Whole(ts, d)[q + k] = SubSeq(ts, ((q + k) - 1) * d + 1, (q + k) * d)
    BY <1>2, <1>7, <1>9 DEF Whole
  <2>4. ((q + k) - 1) * d + 1 = c + a /\ (q + k) * d = c + b
    BY <1>2, <1>7
  <2> HIDE DEF a, b, c
  <2>5. b <= Len(all) /\ c + b <= Len(ts)
    BY <2>1, <1>2, <1>5, <1>7
  <2>6. SubSeq(ts, c + a, c + b) = SubSeq(all, a, b)
    <3>1. c \in Nat /\ a \in Nat /\ b \in Nat /\ 1 <= a /\ Sequence(ts) /\ Sequence(all)
      BY <2>1, <1>2, <1>3, <1>4
    <3> QED BY <3>1, <2>5, <1>6, ShiftedPart
  <2> QED BY <2>2, <2>3, <2>4, <2>6
<1>15. ASSUME NEW k \in 1 .. q + n PROVE Whole(ts, d)[k] = ww[k]
  <2> HIDE DEF ww
  <2>1. CASE k <= q
    BY <2>1, <1>2, <1>7, <1>11, <1>13
  <2>2. CASE k > q
    <3>1. k - q \in 1 .. n /\ q + (k - q) = k
      BY <2>2, <1>2, <1>7
    <3> QED BY <3>1, <1>11, <1>14
  <2> QED BY <2>1, <2>2, <1>2, <1>7
<1>16. Whole(ts, d) = ww
  <2> HIDE DEF ww
  <2> QED BY <1>11, <1>12, <1>15, SameSequence
<1> QED BY <1>10, <1>16 DEF ts, all, left

\* What is left behind the whole blocks makes a block of its own.
LastBlock(s) == IF s = <<>> THEN <<>> ELSE <<s>>

LEMMA BlocksAre ==
  ASSUME NEW t, Sequence(t), BS \in Nat \ {0}
  PROVE  InBlocks(t) = Whole(t, BS) \o LastBlock(Left(t, BS)) /\ Sequence(InBlocks(t))
<1> DEFINE d == BS
           q == Len(t) \div d
           c == q * d
           left == Left(t, d)
           N == (Len(t) + d - 1) \div d
           f(k) == SubSeq(t, (k - 1) * d + 1, IF k * d < Len(t) THEN k * d ELSE Len(t))
           W == Whole(t, d)
           ww == W \o LastBlock(left)
<1>1. Len(t) \in Nat /\ d \in Nat \ {0}
  BY DEF Sequence
<1>2. InBlocks(t) = [k \in 1 .. N |-> f(k)]
  BY DEF InBlocks, BS
<1>3. /\ q \in Nat /\ c \in Nat /\ c <= Len(t) /\ Len(t) - c \in 0 .. d - 1
      /\ Sequence(W) /\ Len(W) = q
      /\ Sequence(left) /\ Len(left) = Len(t) - c
  BY <1>1, Cut
<1>4. W = [k \in 1 .. q |-> SubSeq(t, (k - 1) * d + 1, k * d)]
  BY DEF Whole
<1>5. left = SubSeq(t, c + 1, Len(t))
  BY DEF Left
<1>6. left = <<>> <=> Len(t) = c
  <2>1. left = <<>> => Len(left) = 0
    BY Few
  <2>2. Len(left) = 0 => left = <<>>
    <3> HIDE DEF left
    <3> QED BY <1>3, SequenceIs
  <2> HIDE DEF left, c
  <2> QED BY <1>1, <1>3, <2>1, <2>2
<1> HIDE DEF left, W
<1>7. ASSUME NEW k \in 1 .. q PROVE f(k) = W[k]
  <2>1. k * d <= c /\ k * d \in Nat /\ (k - 1) * d + 1 \in Nat
    BY <1>1, <1>3, BlockInside
  <2>2. (IF k * d < Len(t) THEN k * d ELSE Len(t)) = k * d
    <3> DEFINE b == k * d
    <3> HIDE DEF b, c
    <3> QED BY <2>1, <1>1, <1>3 DEF b
  <2>3. W[k] = SubSeq(t, (k - 1) * d + 1, k * d)
    BY <1>4
  <2> QED BY <2>2, <2>3
<1>8. CASE Len(t) = c
  <2>1. N = q
    <3>1. N = (q * d + (d - 1)) \div d
      <4>1. Len(t) + d - 1 = q * d + (d - 1)
        BY <1>8, <1>1, <1>3
      <4> QED BY <4>1
    <3>2. d - 1 \in 0 .. d - 1
      BY <1>1
    <3> HIDE DEF q, d, N
    <3> QED BY <3>1, <3>2, <1>1, <1>3, DivisionIsUnique
  <2>2. InBlocks(t) = W
    <3>1. InBlocks(t) = [k \in 1 .. q |-> W[k]]
      BY <1>2, <2>1, <1>7
    <3> QED BY <3>1, <1>3 DEF Sequence
  <2>3. LastBlock(left) = <<>>
    BY <1>6, <1>8 DEF LastBlock
  <2>4. W \o <<>> = W
    <3>1. Sequence(<<>>)
      BY Few
    <3> QED BY <3>1, <1>3, Concatenation
  <2>5. InBlocks(t) = ww /\ Sequence(InBlocks(t))
    BY <2>2, <2>3, <2>4, <1>3
  <2> QED BY <2>5 DEF left, W
<1>9. CASE Len(t) # c
  <2>1. Len(t) - c \in 1 .. d - 1
    <3> HIDE DEF c
    <3> QED BY <1>9, <1>1, <1>3
  <2>2. N = q + 1
    <3>1. Len(t) + d - 1 = (q + 1) * d + ((Len(t) - c) - 1)
      BY <1>1, <1>3
    <3>2. (Len(t) - c) - 1 \in 0 .. d - 1 /\ q + 1 \in Nat
      <4> HIDE DEF c, q
      <4> QED BY <2>1, <1>1, <1>3
    <3> DEFINE r == (Len(t) - c) - 1
    <3> HIDE DEF r, q
    <3>3. ((q + 1) * d + r) \div d = q + 1
      <4> HIDE DEF d
      <4> QED BY <3>2, <1>1, DivisionIsUnique DEF r
    <3> QED BY <3>1, <3>3 DEF r
  <2>3. LastBlock(left) = <<left>>
    BY <1>6, <1>9 DEF LastBlock
  <2>4. f(q + 1) = left
    <3>1. ((q + 1) - 1) * d + 1 = c + 1 /\ (q + 1) * d = c + d
      BY <1>1, <1>3
    <3>2. ~((q + 1) * d < Len(t))
      <4>1. ~(c + d < Len(t))
        <5> HIDE DEF c
        <5> QED BY <1>1, <1>3
      <4> QED BY <4>1, <3>1
    <3> QED BY <3>1, <3>2, <1>5
  <2>5. /\ Sequence(ww) /\ Len(ww) = q + 1
        /\ \A k \in 1 .. q : ww[k] = W[k]
        /\ ww[q + 1] = left
    <3>1. Sequence(<<left>>) /\ Len(<<left>>) = 1 /\ <<left>>[1] = left
      BY Few
    <3>2. /\ Sequence(W \o <<left>>) /\ Len(W \o <<left>>) = Len(W) + Len(<<left>>)
          /\ \A k \in 1 .. Len(W) : (W \o <<left>>)[k] = W[k]
          /\ \A k \in 1 .. Len(<<left>>) : (W \o <<left>>)[Len(W) + k] = <<left>>[k]
      BY <3>1, <1>3, Concatenation
    <3> QED BY <3>1, <3>2, <2>3, <1>3
  <2>6. Sequence(InBlocks(t)) /\ Len(InBlocks(t)) = q + 1
    <3>1. InBlocks(t) = [k \in 1 .. q + 1 |-> InBlocks(t)[k]] /\ q + 1 \in Nat
      <4>1. InBlocks(t) = [k \in 1 .. q + 1 |-> f(k)]
        BY <1>2, <2>2
      <4> HIDE DEF f, q
      <4> QED BY <4>1, <1>3
    <3> HIDE DEF q
    <3> QED BY <3>1, Listed
  <2>7. ASSUME NEW k \in 1 .. q + 1 PROVE InBlocks(t)[k] = ww[k]
    <3>1. InBlocks(t)[k] = f(k)
      BY <1>2, <2>2
    <3> HIDE DEF f, ww, q
    <3> QED BY <3>1, <1>3, <1>7, <2>4, <2>5
  <2>8. InBlocks(t) = ww
    <3> HIDE DEF ww, q
    <3> QED BY <2>5, <2>6, <2>7, SameSequence
  <2> QED BY <2>6, <2>8 DEF left, W
<1> QED BY <1>8, <1>9

-----------------------------------------------------------------------------
(* The parts of the MAC.                                                   *)

\* An authenticator.
Authenticator(b, c, x) == [buffer |-> b, auth |-> c, tags |-> x]

\* An authenticator that has absorbed the bytes t behind `before`.
Holding(before, t, x) ==
  Authenticator(Left(t, BS), before \o Whole(t, BS), x)

Finished(before, t, x) == Authenticator(<<>>, before \o InBlocks(t), x)

LEMMA Fields ==
  ASSUME NEW p, NEW o, NEW x
  PROVE  /\ Authenticator(p, o, x).buffer = p /\ Authenticator(p, o, x).auth = o
         /\ Authenticator(p, o, x).tags = x
BY DEF Authenticator

LEMMA AuthChanged ==
  ASSUME NEW p, NEW o, NEW x, NEW c
  PROVE  [Authenticator(p, o, x) EXCEPT !.auth = c] = Authenticator(p, c, x)
<1> DEFINE a == Authenticator(p, o, x)
<1>1. a \in [buffer : {p}, auth : {o, c}, tags : {x}]
  BY DEF Authenticator
<1> HIDE DEF a
<1>2. [a EXCEPT !.auth = c] = Authenticator(p, c, x)
  BY <1>1 DEF Authenticator
<1> QED BY <1>2 DEF a

LEMMA BufferChanged ==
  ASSUME NEW p, NEW o, NEW x, NEW b
  PROVE  [Authenticator(p, o, x) EXCEPT !.buffer = b] = Authenticator(b, o, x)
<1> DEFINE a == Authenticator(p, o, x)
<1>1. a \in [buffer : {p, b}, auth : {o}, tags : {x}]
  BY DEF Authenticator
<1> HIDE DEF a
<1>2. [a EXCEPT !.buffer = b] = Authenticator(b, o, x)
  BY <1>1 DEF Authenticator
<1> QED BY <1>2 DEF a

LEMMA TagsChanged ==
  ASSUME NEW p, NEW o, NEW x, NEW g
  PROVE  [Authenticator(p, o, x) EXCEPT !.tags = g] = Authenticator(p, o, g)
<1> DEFINE a == Authenticator(p, o, x)
<1>1. a \in [buffer : {p}, auth : {o}, tags : {x, g}]
  BY DEF Authenticator
<1> HIDE DEF a
<1>2. [a EXCEPT !.tags = g] = Authenticator(p, o, g)
  BY <1>1 DEF Authenticator
<1> QED BY <1>2 DEF a

LEMMA AuthenticateDataIs ==
  ASSUME NEW p, NEW o, NEW x, NEW s
  PROVE  AuthenticateData(Authenticator(p, o, x), s) =
           Authenticator(Left(p \o s, BS), o \o Whole(p \o s, BS), x)
<1> DEFINE a == Authenticator(p, o, x)
           b == Left(p \o s, BS)
           c == o \o Whole(p \o s, BS)
<1>1. a.buffer = p /\ a.auth = o
  BY Fields
<1>2. AuthenticateData(a, s) = [[a EXCEPT !.auth = c] EXCEPT !.buffer = b]
  BY <1>1 DEF AuthenticateData, Left, Whole, BS
<1> HIDE DEF b, c
<1>3. [a EXCEPT !.auth = c] = Authenticator(p, c, x)
  BY AuthChanged, ZenonT(40)
<1>4. [Authenticator(p, c, x) EXCEPT !.buffer = b] = Authenticator(b, c, x)
  BY BufferChanged
<1> QED BY <1>2, <1>3, <1>4, Zenon DEF b, c

LEMMA PartialBlockIs ==
  ASSUME NEW p, NEW o, NEW x
  PROVE  PartialBlock(Authenticator(p, o, x)) =
           Authenticator(<<>>, IF p = <<>> THEN o ELSE Append(o, p), x)
<1> DEFINE a == Authenticator(p, o, x)
           c == IF p = <<>> THEN o ELSE Append(o, p)
           e == <<>>
<1>1. a.buffer = p /\ a.auth = o
  BY Fields
<1>2. PartialBlock(a) = [[a EXCEPT !.auth = c] EXCEPT !.buffer = e]
  BY <1>1 DEF PartialBlock
<1> HIDE DEF c, e
<1>3. [a EXCEPT !.auth = c] = Authenticator(p, c, x)
  BY AuthChanged, ZenonT(40)
<1>4. [Authenticator(p, c, x) EXCEPT !.buffer = e] = Authenticator(e, c, x)
  BY BufferChanged
<1> QED BY <1>2, <1>3, <1>4, Zenon DEF c, e

LEMMA DataAbsorbed ==
  ASSUME NEW before, NEW t, NEW s, NEW x, Sequence(before), Sequence(t), Sequence(s),
         BS \in Nat \ {0}
  PROVE  AuthenticateData(Holding(before, t, x), s) = Holding(before, t \o s, x)
<1> DEFINE all == Left(t, BS) \o s
           a == Holding(before, t, x)
<1>1. AuthenticateData(a, s) =
        Authenticator(Left(all, BS), (before \o Whole(t, BS)) \o Whole(all, BS), x)
  BY AuthenticateDataIs DEF Holding
<1>2. Sequence(Whole(t, BS)) /\ Sequence(Left(t, BS))
  BY Cut
<1>3. Sequence(all)
  BY <1>2, Concatenation
<1>4. Sequence(Whole(all, BS))
  BY <1>3, Cut
<1>5. (before \o Whole(t, BS)) \o Whole(all, BS) = before \o (Whole(t, BS) \o Whole(all, BS))
  <2> DEFINE w == Whole(t, BS)
             v == Whole(all, BS)
  <2>1. Sequence(before) /\ Sequence(w) /\ Sequence(v)
    BY <1>2, <1>4
  <2> HIDE DEF w, v
  <2>2. (before \o w) \o v = before \o (w \o v)
    BY <2>1, Associative
  <2> QED BY <2>2 DEF w, v
<1>6. Whole(t \o s, BS) = Whole(t, BS) \o Whole(all, BS) /\ Left(t \o s, BS) = Left(all, BS)
  BY WholeGoesOn
<1> QED BY <1>1, <1>5, <1>6 DEF Holding

LEMMA PartCompleted ==
  ASSUME NEW before, NEW t, NEW x, Sequence(before), Sequence(t), BS \in Nat \ {0}
  PROVE  /\ PartialBlock(Holding(before, t, x)) = Finished(before, t, x)
         /\ PartialBlock(Finished(before, t, x)) = Finished(before, t, x)
<1>1. PartialBlock(Finished(before, t, x)) = Finished(before, t, x)
  BY PartialBlockIs DEF Finished
<1> DEFINE left == Left(t, BS)
           auth0 == before \o Whole(t, BS)
<1>2. PartialBlock(Holding(before, t, x)) =
        Authenticator(<<>>, IF left = <<>> THEN auth0 ELSE Append(auth0, left), x)
  BY PartialBlockIs DEF Holding
<1>3. Sequence(Whole(t, BS)) /\ Sequence(left)
  BY Cut
<1>4. Sequence(auth0)
  BY <1>3, Concatenation
<1>5. InBlocks(t) = Whole(t, BS) \o LastBlock(left)
  BY BlocksAre
<1>6. Sequence(LastBlock(left)) /\ Sequence(<<left>>) /\ Sequence(<<>>)
  BY Few DEF LastBlock
<1>7. auth0 \o LastBlock(left) = before \o InBlocks(t)
  <2> DEFINE w == Whole(t, BS)
             v == LastBlock(left)
  <2>1. Sequence(before) /\ Sequence(w) /\ Sequence(v)
    BY <1>3, <1>6
  <2> HIDE DEF w, v
  <2>2. (before \o w) \o v = before \o (w \o v)
    BY <2>1, Associative
  <2> QED BY <2>2, <1>5 DEF w, v
<1>8. Append(auth0, left) = auth0 \o <<left>>
  <2>1. PICK T : auth0 \in Seq(T) /\ <<left>> \in Seq(T)
    BY <1>4, <1>6, OneType
  <2> HIDE DEF auth0, left
  <2>2. left \in T
    <3>1. Len(<<left>>) = 1 /\ <<left>>[1] = left
      BY Few
    <3> QED BY <2>1, <3>1
  <2> QED BY <2>1, <2>2
<1>9. auth0 \o <<>> = auth0
  BY <1>4, <1>6, Concatenation
<1>10. (IF left = <<>> THEN auth0 ELSE Append(auth0, left)) = auth0 \o LastBlock(left)
  BY <1>8, <1>9 DEF LastBlock
<1> QED BY <1>1, <1>2, <1>7, <1>10 DEF Finished

\* Nothing makes no block.
LEMMA NothingHeld ==
  ASSUME NEW before, NEW x, Sequence(before), BS \in Nat \ {0}
  PROVE  /\ Holding(before, <<>>, x) = Authenticator(<<>>, before, x)
         /\ InBlocks(<<>>) = <<>> /\ Whole(<<>>, BS) = <<>> /\ Left(<<>>, BS) = <<>>
<1>1. Sequence(<<>>) /\ Len(<<>>) = 0
  BY Few
<1>2. 0 \div BS = 0
  <2>1. (0 * BS + 0) \div BS = 0
    BY DivisionIsUnique
  <2> QED BY <2>1
<1>3. Len(Whole(<<>>, BS)) = 0 /\ Sequence(Whole(<<>>, BS)) /\ Sequence(Left(<<>>, BS))
      /\ Len(Left(<<>>, BS)) = 0
  BY <1>1, <1>2, Cut
<1>4. Whole(<<>>, BS) = <<>> /\ Left(<<>>, BS) = <<>>
  BY <1>1, <1>3, SameSequence
<1>5. InBlocks(<<>>) = <<>>
  <2>1. InBlocks(<<>>) = <<>> \o <<>>
    BY <1>1, <1>4, BlocksAre DEF LastBlock
  <2> QED BY <2>1, <1>1, Concatenation
<1>6. before \o <<>> = before
  BY <1>1, Concatenation
<1> QED BY <1>4, <1>5, <1>6 DEF Holding

-----------------------------------------------------------------------------
(* The state.                                                              *)

LEMMA StatesInOrder ==
  ASSUME m_state \in State
  PROVE  (AtLeast("KeySet") <=> m_state # "Start") /\ (AtLeast("IVSet") <=> Running)
<1>1. /\ DOMAIN Order = 1 .. 6
      /\ Order[1] = "Start" /\ Order[2] = "KeySet" /\ Order[3] = "IVSet"
      /\ Order[4] = "AuthUntransformed" /\ Order[5] = "AuthTransformed"
      /\ Order[6] = "AuthFooter"
  BY DEF Order
<1>2. \A i \in DOMAIN Order : i = 1 \/ i = 2 \/ i = 3 \/ i = 4 \/ i = 5 \/ i = 6
  BY <1>1
<1>3. AtLeast("KeySet") <=> m_state # "Start"
  BY <1>1, <1>2 DEF AtLeast, State
<1>4. AtLeast("IVSet") <=> Running
  BY <1>1, <1>2 DEF AtLeast, State, Running
<1> QED BY <1>3, <1>4

LEMMA Sizes ==
  ASSUME AuthenticatedSymmetricCipherAssumption, TypeOK
  PROVE  /\ BS \in Nat \ {0} /\ FirstPosition \in Nat
         /\ scheme = "EAX" => BS = 1
         /\ scheme # "EAX" => 1 < BS
BY DEF AuthenticatedSymmetricCipherAssumption, TypeOK, BS, AuthenticationBlockSize, FirstPosition

\* u is v with w behind it.
IsJoined(u, v, w) ==
  /\ Len(u) = Len(v) + Len(w)
  /\ \A i \in 1 .. Len(v) : u[i] = v[i]
  /\ \A i \in 1 .. Len(w) : u[Len(v) + i] = w[i]

LEMMA Grown ==
  ASSUME NEW u, NEW v, NEW w, Sequence(u), Sequence(v), Sequence(w), IsJoined(u, v, w)
  PROVE  u = v \o w
<1> DEFINE x == v \o w
           m == Len(v)
           n == Len(w)
<1>1. m \in Nat /\ n \in Nat
  BY DEF Sequence
<1>2. /\ Sequence(x) /\ Len(x) = m + n
      /\ \A i \in 1 .. m : x[i] = v[i]
      /\ \A i \in 1 .. n : x[m + i] = w[i]
  BY Concatenation
<1>3. /\ Len(u) = m + n
      /\ \A i \in 1 .. m : u[i] = v[i]
      /\ \A i \in 1 .. n : u[m + i] = w[i]
  BY DEF IsJoined
<1> HIDE DEF x, m, n
<1>4. ASSUME NEW i \in 1 .. m + n PROVE u[i] = x[i]
  <2>1. CASE i <= m
    BY <2>1, <1>1, <1>2, <1>3
  <2>2. CASE i > m
    <3>1. i - m \in 1 .. n /\ m + (i - m) = i
      BY <2>2, <1>1
    <3> QED BY <3>1, <1>2, <1>3
  <2> QED BY <2>1, <2>2, <1>1
<1>5. u = x
  BY <1>2, <1>4, <1>3, SameSequence
<1> QED BY <1>5 DEF x

LEMMA Streams ==
  ASSUME TypeOK
  PROVE  /\ Sequence(HeaderBytes) /\ Len(HeaderBytes) = header
         /\ Sequence(PlainBytes) /\ Len(PlainBytes) = message
         /\ Sequence(CipherBytes) /\ Len(CipherBytes) = message
         /\ Sequence(LengthBytes) /\ Sequence(HeaderPrefix)
         /\ Sequence(HeaderStream) /\ Sequence(MessageStream)
         /\ Len(MessageStream) = message
<1>1. header \in Nat /\ message \in Nat /\ scheme \in {"CCM", "GCM", "EAX"}
  BY DEF TypeOK
<1>2. Sequence(HeaderBytes) /\ Len(HeaderBytes) = header
  <2>1. HeaderBytes = [i \in 1 .. header |-> HeaderBytes[i]]
    BY DEF HeaderBytes
  <2> QED BY <1>1, <2>1, Listed
<1>3. Sequence(PlainBytes) /\ Len(PlainBytes) = message
  <2>1. PlainBytes = [i \in 1 .. message |-> PlainBytes[i]]
    BY DEF PlainBytes
  <2> QED BY <1>1, <2>1, Listed
<1>4. Sequence(CipherBytes) /\ Len(CipherBytes) = message
  <2>1. CipherBytes = [i \in 1 .. message |-> CipherBytes[i]]
    BY DEF CipherBytes
  <2> QED BY <1>1, <2>1, Listed
<1>5. Sequence(LengthBytes)
  BY Few DEF LengthBytes
<1>6. Sequence(HeaderPrefix)
  BY <1>1, Few DEF HeaderPrefix, B0
<1>7. Sequence(HeaderStream)
  BY <1>2, <1>5, Concatenation DEF HeaderStream
<1>8. Sequence(MessageStream) /\ Len(MessageStream) = message
  BY <1>3, <1>4 DEF MessageStream
<1> QED BY <1>2, <1>3, <1>4, <1>5, <1>6, <1>7, <1>8

LEMMA MessagePrefixIs ==
  ASSUME AuthenticatedSymmetricCipherAssumption, TypeOK
  PROVE  Sequence(MessagePrefix)
<1>1. Sequence(InBlocks(HeaderStream)) /\ Sequence(HeaderPrefix)
  BY Sizes, Streams, BlocksAre
<1>2. Sequence(HeaderPrefix \o InBlocks(HeaderStream))
  BY <1>1, Concatenation
<1>3. Sequence(<<<<"2">>>>)
  BY Few
<1> QED BY <1>2, <1>3 DEF MessagePrefix

\* In EAX, whose blocks are bytes, nothing waits.
LEMMA BytesAreBlocks ==
  ASSUME NEW s, Sequence(s), BS = 1
  PROVE  Left(s, BS) = <<>> /\ InBlocks(s) = Whole(s, BS) /\ Sequence(Whole(s, BS))
<1>1. BS \in Nat \ {0}
  OBVIOUS
<1>2. Sequence(Left(s, BS)) /\ Len(Left(s, BS)) \in 0 .. BS - 1 /\ Sequence(Whole(s, BS))
  BY <1>1, Cut
<1>3. Sequence(<<>>) /\ Len(<<>>) = 0
  BY Few
<1>4. Left(s, BS) = <<>>
  <2> DEFINE l == Left(s, BS)
  <2>1. Sequence(l) /\ Len(l) = 0
    BY <1>2
  <2> HIDE DEF l
  <2>2. l = <<>>
    BY <2>1, <1>3, SameSequence
  <2> QED BY <2>2 DEF l
<1>5. InBlocks(s) = Whole(s, BS) \o <<>>
  BY <1>1, <1>4, BlocksAre DEF LastBlock
<1>6. Whole(s, BS) \o <<>> = Whole(s, BS)
  BY <1>2, <1>3, Concatenation
<1> QED BY <1>2, <1>4, <1>5, <1>6

\* Less than a block waits.
LEMMA ShortHeld ==
  ASSUME NEW s, Sequence(s), BS \in Nat \ {0}, Len(s) < BS
  PROVE  Whole(s, BS) = <<>> /\ Left(s, BS) = s
<1>1. Len(s) \in Nat /\ Sequence(<<>>) /\ Len(<<>>) = 0
  BY Few DEF Sequence
<1>2. Len(s) \div BS = 0
  <2> DEFINE n == Len(s)
             d == BS
  <2>1. n \in 0 .. d - 1 /\ d \in Nat \ {0} /\ 0 * d + n = n
    BY <1>1
  <2> HIDE DEF n, d
  <2>2. (0 * d + n) \div d = 0
    BY <2>1, DivisionIsUnique
  <2> QED BY <2>1, <2>2 DEF n, d
<1>3. /\ Sequence(Whole(s, BS)) /\ Len(Whole(s, BS)) = 0
      /\ Sequence(Left(s, BS)) /\ Len(Left(s, BS)) = Len(s)
      /\ \A i \in 1 .. Len(s) : Left(s, BS)[i] = s[i]
  <2> DEFINE q == Len(s) \div BS
             c == q * BS
  <2>1. /\ Sequence(Whole(s, BS)) /\ Len(Whole(s, BS)) = q
        /\ Sequence(Left(s, BS)) /\ Len(Left(s, BS)) = Len(s) - c
        /\ \A i \in 1 .. Len(s) - c : Left(s, BS)[i] = s[c + i]
    BY Cut
  <2>2. q = 0 /\ c = 0
    BY <1>2
  <2>3. Len(s) - 0 = Len(s) /\ \A i \in 1 .. Len(s) : 0 + i = i
    BY <1>1
  <2> HIDE DEF q, c
  <2> QED BY <2>1, <2>2, <2>3
<1>4. Whole(s, BS) = <<>>
  BY <1>1, <1>3, SameSequence
<1>5. Left(s, BS) = s
  BY <1>3, SameSequence
<1> QED BY <1>4, <1>5

LEMMA AIs == A = Authenticator(m_buffer, auth, m_tags)
BY DEF A, Authenticator

\* The digest of the header with its prefix is not the one of the nonce.
EaxTags == {CounterIV(iv), <<<<"1">>>> \o InBlocks(HeaderBytes)}

LEMMA DigestsDiffer ==
  ASSUME NEW s, NEW u, Sequence(s), Sequence(u), scheme = "EAX"
  PROVE  /\ <<<<"1">>>> \o s # CounterIV(iv) /\ <<<<"2">>>> \o s # CounterIV(iv)
         /\ <<<<"1">>>> \o s # <<<<"2">>>> \o u
<1> DEFINE x == <<"1">>
           y == <<"2">>
           z == <<"0", iv>>
<1>1. x # y /\ x # z /\ y # z
  <2>1. Len(x) = 1 /\ Len(y) = 1 /\ Len(z) = 2 /\ x[1] = "1" /\ y[1] = "2"
    OBVIOUS
  <2>2. "1" # "2"
    OBVIOUS
  <2> HIDE DEF x, y, z
  <2> QED BY <2>1, <2>2
<1>2. CounterIV(iv) = <<z>>
  BY DEF CounterIV
<1> HIDE DEF x, y, z
<1>3. <<z>>[1] = z
  BY Few
<1>4. (<<x>> \o s)[1] = x /\ (<<y>> \o s)[1] = y /\ (<<y>> \o u)[1] = y
  <2>1. /\ Sequence(<<x>>) /\ Len(<<x>>) = 1 /\ <<x>>[1] = x
        /\ Sequence(<<y>>) /\ Len(<<y>>) = 1 /\ <<y>>[1] = y
    BY Few
  <2>2. 1 \in 1 .. 1
    OBVIOUS
  <2>3. \A i \in 1 .. Len(<<x>>) : (<<x>> \o s)[i] = <<x>>[i]
    BY <2>1, Concatenation
  <2>4. \A i \in 1 .. Len(<<y>>) : (<<y>> \o s)[i] = <<y>>[i]
    BY <2>1, Concatenation
  <2>5. \A i \in 1 .. Len(<<y>>) : (<<y>> \o u)[i] = <<y>>[i]
    BY <2>1, Concatenation
  <2> QED BY <2>1, <2>2, <2>3, <2>4, <2>5
<1>5. /\ <<x>> \o s # <<z>> /\ <<y>> \o s # <<z>>
      /\ <<x>> \o s # <<y>> \o u
  BY <1>1, <1>3, <1>4
<1> QED BY <1>2, <1>5 DEF x, y

\* The object as it is when the header is complete.
AfterHeader == [AuthenticateLastHeaderBlock(A) EXCEPT !.buffer = <<>>]

TagsOfHeader == IF scheme = "EAX" THEN EaxTags ELSE m_tags

LEMMA HeaderDone ==
  ASSUME AuthenticatedSymmetricCipherAssumption, TypeOK, HeaderAbsorbed, ~HeaderRefused,
         scheme = "EAX" => m_tags = {CounterIV(iv)}, total.header = header
  PROVE  AfterHeader = Holding(MessagePrefix, <<>>, TagsOfHeader)
<1>1. BS \in Nat \ {0} /\ (scheme = "EAX" => BS = 1)
  BY Sizes
<1>2. Sequence(HeaderPrefix) /\ Sequence(HeaderStream) /\ Sequence(MessagePrefix)
      /\ Sequence(HeaderBytes)
  BY Streams, MessagePrefixIs
<1>3. Holding(MessagePrefix, <<>>, TagsOfHeader) = Authenticator(<<>>, MessagePrefix, TagsOfHeader)
  BY <1>1, <1>2, NothingHeld
<1>4. CASE scheme # "EAX"
  <2>1. \/ A = Holding(HeaderPrefix, HeaderStream, m_tags)
        \/ A = Finished(HeaderPrefix, HeaderStream, m_tags)
    <3>1. \/ auth = HeaderPrefix \o Whole(HeaderStream, BS) /\ m_buffer = Left(HeaderStream, BS)
          \/ auth = HeaderPrefix \o InBlocks(HeaderStream) /\ m_buffer = <<>>
      BY DEF HeaderAbsorbed, HeaderRefused, TypeOK, Counts
    <3> QED BY <3>1, AIs DEF Holding, Finished
  <2>2. PartialBlock(A) = Finished(HeaderPrefix, HeaderStream, m_tags)
    BY <2>1, <1>1, <1>2, PartCompleted
  <2>3. AfterHeader = [PartialBlock(A) EXCEPT !.buffer = <<>>]
    BY <1>4 DEF AfterHeader, AuthenticateLastHeaderBlock
  <2>4. PartialBlock(A) = Authenticator(<<>>, MessagePrefix, m_tags)
    BY <1>4, <2>2 DEF Finished, MessagePrefix
  <2>5. [Authenticator(<<>>, MessagePrefix, m_tags) EXCEPT !.buffer = <<>>]
          = Authenticator(<<>>, MessagePrefix, m_tags)
    BY BufferChanged
  <2>6. TagsOfHeader = m_tags
    BY <1>4 DEF TagsOfHeader
  <2> QED BY <1>3, <2>3, <2>4, <2>5, <2>6
<1>5. CASE scheme = "EAX"
  <2>1. HeaderStream = HeaderBytes /\ HeaderPrefix = <<<<"1">>>>
    <3>1. LengthBytes = <<>>
      BY <1>5 DEF LengthBytes
    <3>2. <<>> \o HeaderBytes = HeaderBytes
      BY <1>2, Few, Concatenation
    <3> QED BY <3>1, <3>2, <1>5 DEF HeaderStream, HeaderPrefix
  <2>2. auth = <<<<"1">>>> \o InBlocks(HeaderBytes)
    <3>1. auth = HeaderPrefix \o Whole(HeaderStream, BS)
      BY <1>5 DEF HeaderAbsorbed
    <3>2. InBlocks(HeaderBytes) = Whole(HeaderBytes, BS)
      BY <1>1, <1>2, <1>5, BytesAreBlocks
    <3> QED BY <2>1, <3>1, <3>2
  <2> DEFINE x == m_buffer
             y == auth
             z == m_tags
             g == Toggled(m_tags, auth)
             o == <<<<"2">>>>
             e == <<>>
             a == Authenticator(x, y, z)
  <2>3. g = TagsOfHeader
    <3>1. auth # CounterIV(iv)
      <4>1. Sequence(InBlocks(HeaderBytes))
        BY <1>1, <1>2, BlocksAre
      <4> QED BY <4>1, <1>5, <2>2, DigestsDiffer, Few
    <3>2. Toggled({CounterIV(iv)}, auth) = {CounterIV(iv), auth}
      BY <3>1 DEF Toggled
    <3> QED BY <3>2, <1>5, <2>2 DEF TagsOfHeader, EaxTags
  <2>4. MessagePrefix = o
    BY <1>5 DEF MessagePrefix
  <2>5. a.auth = y /\ a.tags = z /\ A = a
    BY Fields, AIs
  <2>6. AfterHeader = [[[a EXCEPT !.tags = g] EXCEPT !.auth = o] EXCEPT !.buffer = e]
    BY <1>5, <2>5 DEF AfterHeader, AuthenticateLastHeaderBlock
  <2> HIDE DEF x, y, z, g, o, e
  <2>7. [a EXCEPT !.tags = g] = Authenticator(x, y, g)
    BY TagsChanged
  <2>8. [Authenticator(x, y, g) EXCEPT !.auth = o] = Authenticator(x, o, g)
    BY AuthChanged
  <2>9. [Authenticator(x, o, g) EXCEPT !.buffer = e] = Authenticator(e, o, g)
    BY BufferChanged
  <2>10. AfterHeader = Authenticator(e, o, g)
    <3> HIDE DEF a
    <3> QED BY <2>6, <2>7, <2>8, <2>9
  <2> QED BY <1>3, <2>3, <2>4, <2>10 DEF e
<1> QED BY <1>4, <1>5

\* The object as it is when the message is complete, and its tag.
AfterMessage(h) == [AuthenticateLastConfidentialBlock(h) EXCEPT !.buffer = <<>>]

LEMMA AppendIs ==
  ASSUME NEW s, NEW x, Sequence(s)
  PROVE  Append(s, x) = s \o <<x>>
<1>1. Sequence(<<x>>) /\ Len(<<x>>) = 1 /\ <<x>>[1] = x
  BY Few
<1>2. PICK T : s \in Seq(T) /\ <<x>> \in Seq(T)
  BY <1>1, OneType
<1>3. x \in T
  BY <1>1, <1>2
<1> QED BY <1>2, <1>3

LEMMA TagOfCCM ==
  ASSUME AuthenticatedSymmetricCipherAssumption, TypeOK, scheme = "CCM",
         promised.header = header, promised.message = message, m_ctr.iv = CounterIV(iv)
  PROVE  Tag(AfterMessage(Holding(MessagePrefix, MessageStream, TagsOfHeader))) = DefinedTag
<1> DEFINE x == TagsOfHeader
           h == Holding(MessagePrefix, MessageStream, x)
           o == MessagePrefix \o InBlocks(MessageStream)
<1>1. PartialBlock(h) = Finished(MessagePrefix, MessageStream, x)
  BY Sizes, Streams, MessagePrefixIs, PartCompleted
<1>2. PartialBlock(h) = Authenticator(<<>>, o, x)
  BY <1>1 DEF Finished
<1>3. AfterMessage(h) = [Authenticator(<<>>, o, x) EXCEPT !.buffer = <<>>]
  BY <1>2 DEF AfterMessage, AuthenticateLastConfidentialBlock
<1> HIDE DEF o, x
<1>4. AfterMessage(h) = Authenticator(<<>>, o, x)
  <2>1. [Authenticator(<<>>, o, x) EXCEPT !.buffer = <<>>] = Authenticator(<<>>, o, x)
    BY BufferChanged
  <2> QED BY <2>1, <1>3
<1>5. Authenticator(<<>>, o, x).auth = o
  BY Fields
<1>6. Tag(AfterMessage(h)) = [auth |-> {o}, iv |-> CounterIV(iv)]
  <2> HIDE DEF h
  <2> QED BY <1>4, <1>5 DEF Tag
<1>7. o = (<<<<"B0", iv, header, message>>>>
            \o InBlocks((IF header > 0 THEN <<<<"length">>>> ELSE <<>>) \o HeaderBytes))
           \o InBlocks(PlainBytes)
  BY DEF o, MessagePrefix, HeaderPrefix, B0, HeaderStream, LengthBytes, MessageStream
<1>8. DefinedTag = [iv |-> CounterIV(iv), auth |-> {o}]
  BY <1>7 DEF DefinedTag
<1> QED BY <1>6, <1>8 DEF x

LEMMA TagOfGCM ==
  ASSUME AuthenticatedSymmetricCipherAssumption, TypeOK, scheme = "GCM",
         total.header = header, total.message = message, m_ctr.iv = CounterIV(iv)
  PROVE  Tag(AfterMessage(Holding(MessagePrefix, MessageStream, TagsOfHeader))) = DefinedTag
<1> DEFINE x == TagsOfHeader
           h == Holding(MessagePrefix, MessageStream, x)
           o == MessagePrefix \o InBlocks(MessageStream)
           l == Append(o, LengthBlock)
           b == PartialBlock(h)
<1>1. b = Finished(MessagePrefix, MessageStream, x)
  BY Sizes, Streams, MessagePrefixIs, PartCompleted
<1>2. b = Authenticator(<<>>, o, x) /\ b.auth = o
  <2>1. b = Authenticator(<<>>, o, x)
    BY <1>1 DEF Finished
  <2> HIDE DEF b, o, x
  <2>2. Authenticator(<<>>, o, x).auth = o
    BY Fields
  <2> QED BY <2>1, <2>2
<1>3. AfterMessage(h) = [[b EXCEPT !.auth = l] EXCEPT !.buffer = <<>>]
  <2>1. AuthenticateLastConfidentialBlock(h) = [b EXCEPT !.auth = Append(b.auth, LengthBlock)]
    BY DEF AuthenticateLastConfidentialBlock
  <2> HIDE DEF b
  <2> QED BY <2>1, <1>2 DEF AfterMessage
<1>4. l = o \o <<LengthBlock>>
  <2>1. Sequence(InBlocks(MessageStream)) /\ Sequence(MessagePrefix)
    BY Sizes, Streams, MessagePrefixIs, BlocksAre
  <2>2. Sequence(o)
    BY <2>1, Concatenation
  <2> HIDE DEF o
  <2> QED BY <2>2, AppendIs
<1>5. o = InBlocks(HeaderBytes) \o InBlocks(CipherBytes)
  <2>1. Sequence(HeaderBytes) /\ Sequence(InBlocks(HeaderBytes))
    BY Sizes, Streams, BlocksAre
  <2>2. <<>> \o HeaderBytes = HeaderBytes
    BY <2>1, Few, Concatenation
  <2>3. <<>> \o InBlocks(HeaderBytes) = InBlocks(HeaderBytes)
    BY <2>1, Few, Concatenation
  <2>4. HeaderStream = HeaderBytes /\ HeaderPrefix = <<>> /\ MessageStream = CipherBytes
    BY <2>2 DEF HeaderStream, LengthBytes, HeaderPrefix, MessageStream
  <2>5. MessagePrefix = InBlocks(HeaderBytes)
    BY <2>3, <2>4 DEF MessagePrefix
  <2> QED BY <2>4, <2>5
<1> HIDE DEF o, x, l, b
<1>6. AfterMessage(h) = Authenticator(<<>>, l, x)
  <2>1. [Authenticator(<<>>, o, x) EXCEPT !.auth = l] = Authenticator(<<>>, l, x)
    BY AuthChanged
  <2>2. [Authenticator(<<>>, l, x) EXCEPT !.buffer = <<>>] = Authenticator(<<>>, l, x)
    BY BufferChanged
  <2> QED BY <1>2, <1>3, <2>1, <2>2
<1>7. Authenticator(<<>>, l, x).auth = l
  BY Fields
<1>8. Tag(AfterMessage(h)) = [auth |-> {l}, iv |-> CounterIV(iv)]
  <2> HIDE DEF h
  <2> QED BY <1>6, <1>7 DEF Tag
<1>9. LengthBlock = <<<<"lengths", header, message>>>>
  BY DEF LengthBlock
<1>10. DefinedTag = [iv |-> CounterIV(iv), auth |-> {l}]
  BY <1>5, <1>9, <1>4 DEF DefinedTag
<1> QED BY <1>8, <1>10 DEF x

LEMMA TagOfEAX ==
  ASSUME AuthenticatedSymmetricCipherAssumption, TypeOK, scheme = "EAX",
         m_ctr.iv = CounterIV(iv)
  PROVE  Tag(AfterMessage(Holding(MessagePrefix, MessageStream, TagsOfHeader))) = DefinedTag
<1> DEFINE x == TagsOfHeader
           h == Holding(MessagePrefix, MessageStream, x)
           p == Left(MessageStream, BS)
           o == MessagePrefix \o Whole(MessageStream, BS)
<1>1. h = Authenticator(p, o, x)
  BY DEF Holding
<1>2. AfterMessage(h) = [h EXCEPT !.buffer = <<>>]
  BY DEF AfterMessage, AuthenticateLastConfidentialBlock
<1>3. o = <<<<"2">>>> \o InBlocks(CipherBytes)
  <2>1. InBlocks(CipherBytes) = Whole(CipherBytes, BS)
    BY Sizes, Streams, BytesAreBlocks
  <2> QED BY <2>1 DEF MessagePrefix, MessageStream
<1>4. x = {CounterIV(iv), <<<<"1">>>> \o InBlocks(HeaderBytes)}
  BY DEF TagsOfHeader, EaxTags
<1>5. o # CounterIV(iv) /\ o # <<<<"1">>>> \o InBlocks(HeaderBytes)
  <2>1. Sequence(InBlocks(CipherBytes)) /\ Sequence(InBlocks(HeaderBytes))
    BY Sizes, Streams, BlocksAre
  <2> QED BY <2>1, <1>3, DigestsDiffer
<1> HIDE DEF o, x, p
<1>6. AfterMessage(h) = Authenticator(<<>>, o, x)
  <2>1. [Authenticator(p, o, x) EXCEPT !.buffer = <<>>] = Authenticator(<<>>, o, x)
    BY BufferChanged
  <2> QED BY <2>1, <1>1, <1>2
<1>7. Authenticator(<<>>, o, x).auth = o /\ Authenticator(<<>>, o, x).tags = x
  BY Fields
<1>8. Tag(AfterMessage(h)) = [auth |-> Toggled(x, o), iv |-> CounterIV(iv)]
  <2> HIDE DEF h
  <2> QED BY <1>6, <1>7 DEF Tag
<1>9. Toggled(x, o) = {CounterIV(iv), <<<<"1">>>> \o InBlocks(HeaderBytes), o}
  BY <1>4, <1>5 DEF Toggled
<1>10. DefinedTag = [iv |-> CounterIV(iv), auth |-> Toggled(x, o)]
  BY <1>3, <1>9 DEF DefinedTag
<1> QED BY <1>8, <1>10 DEF x

-----------------------------------------------------------------------------
(* The bytes that a call takes.                                            *)

LEMMA HeaderGrows ==
  ASSUME TypeOK, TypeOK', NEW n \in Nat, header' = header + n,
         UNCHANGED <<scheme, promised>>
  PROVE  /\ Sequence([i \in 1 .. n |-> H(header + i)])
         /\ HeaderStream' = HeaderStream \o [i \in 1 .. n |-> H(header + i)]
<1> DEFINE w == [i \in 1 .. n |-> H(header + i)]
<1>1. header \in Nat
  BY DEF TypeOK
<1>2. Sequence(w) /\ Len(w) = n
  <2>1. w = [i \in 1 .. n |-> w[i]]
    OBVIOUS
  <2> HIDE DEF w
  <2> QED BY <2>1, Listed
<1>3. Sequence(HeaderBytes) /\ Len(HeaderBytes) = header /\ Sequence(LengthBytes)
  BY Streams
<1>4. Sequence(HeaderBytes') /\ Len(HeaderBytes') = header + n
  <2>1. HeaderBytes' = [i \in 1 .. header + n |-> HeaderBytes'[i]] /\ header + n \in Nat
    BY <1>1 DEF HeaderBytes
  <2> QED BY <2>1, Listed
<1>5. /\ \A i \in 1 .. header : HeaderBytes'[i] = HeaderBytes[i]
      /\ \A i \in 1 .. n : HeaderBytes'[header + i] = w[i]
  BY <1>1 DEF HeaderBytes
<1>6. HeaderBytes' = HeaderBytes \o w
  <2> DEFINE u == HeaderBytes'
             v == HeaderBytes
  <2>1. Sequence(u) /\ Sequence(v) /\ Sequence(w)
    BY <1>2, <1>3, <1>4
  <2>2. IsJoined(u, v, w)
    BY <1>2, <1>3, <1>4, <1>5 DEF IsJoined
  <2> HIDE DEF u, v, w
  <2>3. u = v \o w
    BY <2>1, <2>2, Grown
  <2> QED BY <2>3 DEF u, v
<1>7. LengthBytes' = LengthBytes
  BY DEF LengthBytes
<1> HIDE DEF w
<1>8. LengthBytes \o (HeaderBytes \o w) = (LengthBytes \o HeaderBytes) \o w
  BY <1>2, <1>3, Associative, SMTT(30)
<1>9. HeaderStream' = HeaderStream \o w
  BY <1>6, <1>7, <1>8 DEF HeaderStream
<1> QED BY <1>2, <1>9 DEF w

\* What goes into the MAC for n bytes of the message.
MessageBytes(n) ==
  IF scheme = "CCM" THEN [i \in 1 .. n |-> P(message + i)]
  ELSE [i \in 1 .. n |-> C(message + i, RightKey(message + i))]

LEMMA MessageGrows ==
  ASSUME TypeOK, TypeOK', NEW n \in Nat, message' = message + n,
         UNCHANGED <<scheme, iv>>
  PROVE  Sequence(MessageBytes(n)) /\ MessageStream' = MessageStream \o MessageBytes(n)
<1> DEFINE w == MessageBytes(n)
<1>1. message \in Nat
  BY DEF TypeOK
<1>2. Sequence(w) /\ Len(w) = n
  <2>1. w = [i \in 1 .. n |-> w[i]]
    BY DEF MessageBytes
  <2> HIDE DEF w
  <2> QED BY <2>1, Listed
<1>3. Sequence(MessageStream) /\ Len(MessageStream) = message
  BY Streams
<1>4. Sequence(MessageStream') /\ Len(MessageStream') = message + n
  <2>1. MessageStream' = [i \in 1 .. message + n |-> MessageStream'[i]] /\ message + n \in Nat
    BY <1>1 DEF MessageStream, PlainBytes, CipherBytes
  <2> QED BY <2>1, Listed
<1>5. \A i \in Int : RightKey(i)' = RightKey(i)
  BY DEF RightKey, CounterIV, FirstPosition
<1>6. /\ \A i \in 1 .. message : MessageStream'[i] = MessageStream[i]
      /\ \A i \in 1 .. n : MessageStream'[message + i] = w[i]
  <2>1. CASE scheme = "CCM"
    BY <2>1, <1>1 DEF MessageStream, PlainBytes, MessageBytes
  <2>2. CASE scheme # "CCM"
    <3>1. /\ MessageStream = [i \in 1 .. message |-> C(i, RightKey(i))]
          /\ MessageStream' = [i \in 1 .. message + n |-> C(i, RightKey(i))]
          /\ w = [i \in 1 .. n |-> C(message + i, RightKey(message + i))]
      BY <2>2, <1>1, <1>5 DEF MessageStream, CipherBytes, MessageBytes
    <3> HIDE DEF w
    <3> QED BY <3>1, <1>1
  <2> QED BY <2>1, <2>2
<1> HIDE DEF w
<1>7. MessageStream' = MessageStream \o w
  <2> DEFINE u == MessageStream'
             v == MessageStream
  <2>1. Sequence(u) /\ Sequence(v) /\ Sequence(w)
    BY <1>2, <1>3, <1>4
  <2>2. IsJoined(u, v, w)
    BY <1>2, <1>3, <1>4, <1>6 DEF IsJoined
  <2> HIDE DEF u, v
  <2>3. u = v \o w
    BY <2>1, <2>2, Grown
  <2> QED BY <2>3 DEF u, v
<1> QED BY <1>2, <1>7 DEF w

\* With the counter in its place the right bytes of keystream are used.
LEMMA KeysAreRight ==
  ASSUME TypeOK, FirstPosition \in Nat, NEW n \in Nat, m_ctr.iv = CounterIV(iv),
         m_ctr.position = FirstPosition + message
  PROVE  /\ Keys(n) = [i \in 1 .. n |-> RightKey(message + i)]
         /\ Plain(n) = [i \in 1 .. n |-> P(message + i)]
         /\ Cipher(n) = [i \in 1 .. n |-> C(message + i, RightKey(message + i))]
<1>1. Keys(n) = [i \in 1 .. n |-> RightKey(message + i)]
  <2>1. message \in Nat
    BY DEF TypeOK
  <2>2. \A i \in 1 .. n : (FirstPosition + message) + i - 1 = FirstPosition + (message + i) - 1
    BY <2>1
  <2>3. \A i \in 1 .. n : m_ctr.position + i - 1 = FirstPosition + (message + i) - 1
    BY <2>2
  <2>4. \A i \in 1 .. n : <<m_ctr.iv, m_ctr.position + i - 1>> = RightKey(message + i)
    BY <2>3 DEF RightKey
  <2> QED BY <2>4 DEF Keys
<1>2. \A i \in 1 .. n : Keys(n)[i] = RightKey(message + i)
  BY <1>1
<1>3. Plain(n) = [i \in 1 .. n |-> P(message + i)]
  BY <1>2 DEF Plain
<1>4. Cipher(n) = [i \in 1 .. n |-> C(message + i, RightKey(message + i))]
  BY <1>2 DEF Cipher
<1> QED BY <1>1, <1>3, <1>4

-----------------------------------------------------------------------------
(* The calls.                                                              *)

\* A call that gives out no tag and either leaves the object as it was or ends
\* its message.
Quiet ==
  /\ tag' = NoTag \/ UNCHANGED <<tag, trouble>>
  /\ UNCHANGED <<class, m_ctr, iv, header, message, keystream>>
  /\ "abandoned" \notin trouble' => "abandoned" \notin trouble
  /\ \/ m_state' \in {"Start", "KeySet"}
     \/ trouble' # {} /\ UNCHANGED m_state
     \/ UNCHANGED <<m_state, m_buffer, total, promised, auth, m_tags, trouble>>

LEMMA QuietKeepsInv ==
  ASSUME Inv, TypeOK', Quiet
  PROVE  Inv'
<1>1. /\ UNCHANGED <<scheme, forward, m_ctr, iv, header, message, keystream>>
      /\ tag' = NoTag \/ UNCHANGED <<tag, trouble>>
  BY DEF Quiet, class
<1>2. "abandoned" \notin trouble' => "abandoned" \notin trouble
  BY DEF Quiet
<1>3. Running' => Running /\ (trouble' = {} => UNCHANGED <<m_state, m_buffer, total, promised, auth, m_tags, trouble>>)
  BY DEF Quiet, Running
<1>4. CounterInPlace'
  <2>1. CounterInPlace
    BY DEF Inv
  <2> QED BY <2>1, <1>1, <1>2, <1>3 DEF CounterInPlace, CounterIV, FirstPosition
<1>5. KeystreamUsedOnce'
  <2>1. KeystreamUsedOnce
    BY DEF Inv
  <2> QED BY <2>1, <1>1, <1>2 DEF KeystreamUsedOnce, RightKey, CounterIV, FirstPosition
<1>6. Absorbed'
  <2>1. SUFFICES ASSUME trouble' = {}, Running' PROVE Absorbed'
    BY DEF Absorbed
  <2>2. UNCHANGED <<m_state, m_buffer, total, promised, auth, m_tags, trouble>> /\ Running
    BY <1>3, <2>1
  <2>3. Absorbed
    BY DEF Inv
  <2>4. HeaderAbsorbed' = HeaderAbsorbed
    BY <1>1, <2>2 DEF HeaderAbsorbed, HeaderPrefix, HeaderStream, LengthBytes, HeaderBytes, B0, BS,
      AuthenticationBlockSize, Whole, Left, InBlocks
  <2>5. MessageAbsorbed' = MessageAbsorbed
    BY <1>1, <2>2 DEF MessageAbsorbed, MessagePrefix, MessageStream, HeaderPrefix, HeaderStream,
      LengthBytes, HeaderBytes, PlainBytes, CipherBytes, RightKey, CounterIV, FirstPosition,
      B0, BS, AuthenticationBlockSize, Whole, Left, InBlocks, AuthenticatesInput
  <2>6. CounterIV(iv)' = CounterIV(iv)
    BY <1>1 DEF CounterIV
  <2> QED BY <1>1, <2>2, <2>3, <2>4, <2>5, <2>6, Zenon DEF Absorbed, Running
<1>7. TagIsDefined'
  <2>1. CASE tag' = NoTag
    BY <2>1 DEF TagIsDefined, NoTag
  <2>2. CASE UNCHANGED <<tag, trouble>>
    <3>1. TagIsDefined
      BY DEF Inv
    <3>2. DefinedTag' = DefinedTag
      BY <1>1 DEF DefinedTag, CounterIV, HeaderBytes, PlainBytes, CipherBytes, RightKey,
        FirstPosition, InBlocks, AuthenticationBlockSize
    <3> QED BY <2>2, <3>1, <3>2, Zenon DEF TagIsDefined, NoTag
  <2> QED BY <1>1, <2>1, <2>2
<1> QED BY <1>4, <1>5, <1>6, <1>7 DEF Inv

LEMMA BadStateKeepsInv ==
  ASSUME Inv, BadState
  PROVE  Inv'
<1>1. TypeOK'
  BY DEF Inv, TypeOK, BadState, class, sofar
<1>2. Quiet
  BY DEF BadState, Quiet, sofar
<1> QED BY <1>1, <1>2, QuietKeepsInv

LEMMA ResynchronizedKeepsInv ==
  ASSUME AuthenticatedSymmetricCipherAssumption, Inv, NEW v, NEW before,
         Resynchronized(v, before)
  PROVE  Inv'
<1>1. /\ m_state' = "IVSet" /\ m_buffer' = <<>> /\ total' = Count(0, 0, 0)
      /\ promised' = Count(0, 0, 0) /\ m_tags' = {m_ctr'.iv} /\ tag' = NoTag
      /\ iv' = v /\ header' = 0 /\ message' = 0 /\ keystream' = <<>>
      /\ scheme' = scheme /\ forward' = forward
  BY DEF Resynchronized, class
<1>2. /\ m_ctr' = [iv |-> m_ctr'.iv, position |-> m_ctr'.position]
      /\ m_ctr'.position = FirstPosition
      /\ scheme # "EAX" => m_ctr'.iv = CounterIV(v)
      /\ scheme = "EAX" => m_ctr'.iv = before \o CounterIV(v)
  BY DEF Resynchronized
<1>3. "abandoned" \notin trouble' => m_ctr'.iv = CounterIV(v)
  <2>1. CASE scheme # "EAX"
    BY <2>1, <1>2
  <2>2. CASE scheme = "EAX"
    <3>1. ASSUME "abandoned" \notin trouble' PROVE before = <<>>
      BY <2>2, <3>1 DEF Resynchronized
    <3>2. <<>> \o CounterIV(v) = CounterIV(v)
      BY Few, Concatenation DEF CounterIV
    <3> QED BY <2>2, <3>1, <3>2, <1>2
  <2> QED BY <2>1, <2>2
<1>4. CounterIV(v)' = CounterIV(v) /\ FirstPosition' = FirstPosition /\ CounterIV(iv)' = CounterIV(v)
  BY <1>1 DEF CounterIV, FirstPosition
<1>5. TypeOK
  BY DEF Inv
<1>6. TypeOK'
  <2>1. FirstPosition \in Nat
    BY <1>5, Sizes
  <2> QED BY <1>1, <1>2, <1>5, <2>1 DEF TypeOK, State, Counts, Count
<1>7. CounterInPlace'
  <2>1. FirstPosition + 0 = FirstPosition
    BY <1>5, Sizes
  <2> QED BY <1>1, <1>2, <1>3, <1>4, <2>1 DEF CounterInPlace
<1>8. KeystreamUsedOnce'
  BY <1>1 DEF KeystreamUsedOnce
<1>9. Absorbed'
  <2>1. SUFFICES ASSUME trouble' = {} PROVE Absorbed'
    BY DEF Absorbed
  <2>2. m_tags' = {CounterIV(iv)'}
    BY <2>1, <1>1, <1>3, <1>4
  <2>3. ASSUME scheme # "CCM" PROVE HeaderAbsorbed'
    <3>1. auth' = HeaderPrefix'
      BY <2>3, <1>1, <1>5 DEF Resynchronized, HeaderPrefix, TypeOK
    <3>2. HeaderStream' = <<>>
      <4>1. LengthBytes' = <<>>
        BY <1>1, <2>3 DEF LengthBytes
      <4>2. HeaderBytes' = <<>>
        BY <1>1 DEF HeaderBytes
      <4>3. <<>> \o <<>> = <<>>
        BY Few, Concatenation
      <4> QED BY <4>1, <4>2, <4>3 DEF HeaderStream
    <3>3. /\ Sequence(HeaderPrefix')
          /\ BS' \in Nat \ {0}
      <4>1. BS' = BS /\ BS \in Nat \ {0}
        BY <1>1, <1>5, Sizes DEF BS, AuthenticationBlockSize
      <4>2. Sequence(HeaderPrefix')
        BY <1>1, <2>3, <1>5, Few DEF HeaderPrefix, TypeOK
      <4> QED BY <4>1, <4>2
    <3>4. Whole(<<>>, BS') = <<>> /\ Left(<<>>, BS') = <<>>
      <4>1. BS' = BS
        BY <1>1 DEF BS, AuthenticationBlockSize
      <4>2. BS \in Nat \ {0}
        BY <1>5, Sizes
      <4>3. Sequence(<<>>) /\ Len(<<>>) = 0
        BY Few
      <4>4. Len(<<>>) < BS
        BY <4>2, <4>3
      <4> QED BY <4>1, <4>2, <4>3, <4>4, ShortHeld
    <3>5. HeaderPrefix' \o <<>> = HeaderPrefix'
      BY <3>3, Few, Concatenation
    <3> QED BY <1>1, <3>1, <3>2, <3>4, <3>5 DEF HeaderAbsorbed
  <2>4. (scheme = "CCM" => promised.footer = 1)' => scheme # "CCM"
    BY <1>1 DEF Count
  <2>5. total.header' = 0 /\ total.message' = 0 /\ m_state' \notin Message
    BY <1>1 DEF Count, Message
  <2> QED BY <1>1, <2>2, <2>3, <2>4, <2>5 DEF Absorbed
<1>10. TagIsDefined'
  BY <1>1 DEF TagIsDefined, NoTag
<1> QED BY <1>6, <1>7, <1>8, <1>9, <1>10 DEF Inv

LEMMA SetKeyKeepsInv ==
  ASSUME AuthenticatedSymmetricCipherAssumption, Inv, SetKey
  PROVE  Inv'
<1> DEFINE free == IF scheme = "EAX" THEN <<>> ELSE auth
<1>1. CASE \E v \in IVs : Resynchronized(v, free)
  BY <1>1, ResynchronizedKeepsInv
<1>2. CASE /\ m_state' = "KeySet" /\ m_buffer' = <<>> /\ auth' = free
           /\ tag' = NoTag
           /\ UNCHANGED <<class, total, promised, m_tags, m_ctr, sofar>>
  <2>1. TypeOK'
    BY <1>2 DEF Inv, TypeOK, State, class, sofar
  <2>2. Quiet
    BY <1>2 DEF Quiet, sofar
  <2> QED BY <2>1, <2>2, QuietKeepsInv
<1> QED BY <1>1, <1>2 DEF SetKey

LEMMA ResynchronizeKeepsInv ==
  ASSUME AuthenticatedSymmetricCipherAssumption, Inv, NEW v, Resynchronize(v)
  PROVE  Inv'
<1>1. CASE AtLeast("KeySet")
  BY <1>1, ResynchronizedKeepsInv DEF Resynchronize
<1>2. CASE ~AtLeast("KeySet")
  BY <1>2, BadStateKeepsInv DEF Resynchronize
<1> QED BY <1>1, <1>2

LEMMA RestartKeepsInv ==
  ASSUME Inv, Restart
  PROVE  Inv'
<1>1. TypeOK'
  BY DEF Inv, TypeOK, Restart, State, class, sofar
<1>2. m_state' \in {"Start", "KeySet"}
  BY StatesInOrder DEF Restart, Inv, TypeOK
<1>3. Quiet
  BY <1>2 DEF Restart, Quiet, sofar
<1> QED BY <1>1, <1>3, QuietKeepsInv

LEMMA RefusedKeepsInv ==
  ASSUME Inv, NEW n \in Nat, Refused(n)
  PROVE  Inv'
<1>1. TypeOK'
  <2>1. total' = [total EXCEPT !.message = @ + n] /\ total \in Counts
    BY DEF Refused, Inv, TypeOK
  <2>2. total' \in Counts
    BY <2>1 DEF Counts
  <2> QED BY <2>2 DEF Refused, Inv, TypeOK, class
<1>2. Quiet
  BY DEF Refused, Quiet
<1> QED BY <1>1, <1>2, QuietKeepsInv

LEMMA SpecifyDataLengthsKeepsInv ==
  ASSUME AuthenticatedSymmetricCipherAssumption, Inv, NEW h \in Nat, NEW m \in Nat,
         SpecifyDataLengths(h, m)
  PROVE  Inv'
<1>1. CASE m_state # "IVSet" \/ m > MaxMessageLength
  BY <1>1, BadStateKeepsInv DEF SpecifyDataLengths
<1>2. CASE ~(m_state # "IVSet" \/ m > MaxMessageLength)
  <2>1. /\ scheme = "CCM" /\ total.header = 0 /\ m_state = "IVSet"
        /\ promised' = Count(h, m, 1) /\ auth' = <<<<"B0", iv, h, m>>>>
        /\ m_buffer' = (IF h > 0 THEN <<<<"length">>>> ELSE <<>>) /\ tag' = NoTag
        /\ UNCHANGED <<scheme, forward, m_state, total, m_tags, m_ctr, iv, header, message,
                       keystream, trouble>>
    BY <1>2 DEF SpecifyDataLengths, class, sofar
  <2>2. TypeOK /\ CounterInPlace /\ KeystreamUsedOnce /\ Absorbed
    BY DEF Inv
  <2>3. TypeOK'
    BY <2>1, <2>2 DEF TypeOK, Counts, Count
  <2>4. CounterInPlace'
    BY <2>1, <2>2 DEF CounterInPlace, Running, CounterIV, FirstPosition
  <2>5. KeystreamUsedOnce'
    BY <2>1, <2>2 DEF KeystreamUsedOnce, RightKey, CounterIV, FirstPosition
  <2>6. TagIsDefined'
    BY <2>1 DEF TagIsDefined, NoTag
  <2>7. Absorbed'
    <3>1. SUFFICES ASSUME trouble' = {} PROVE Absorbed'
      BY DEF Absorbed
    <3>2. total.header = header /\ total.message = message /\ message = 0
      BY <2>1, <2>2, <3>1 DEF Absorbed, Running, State
    <3>3. HeaderStream' = LengthBytes' /\ Sequence(LengthBytes') /\ Len(LengthBytes') < BS
      <4>1. HeaderBytes' = <<>>
        BY <2>1, <3>2 DEF HeaderBytes
      <4>2. Sequence(LengthBytes') /\ Len(LengthBytes') \in 0 .. 1
        BY Few DEF LengthBytes
      <4>3. 1 < BS /\ BS \in Nat
        BY <2>1, <2>2, Sizes
      <4> QED BY <4>1, <4>2, <4>3, Concatenation, Few DEF HeaderStream
    <3>4. BS' = BS /\ BS \in Nat \ {0}
      BY <2>1, <2>2, Sizes DEF BS, AuthenticationBlockSize
    <3>5. Whole(LengthBytes', BS) = <<>> /\ Left(LengthBytes', BS) = LengthBytes'
      BY <3>3, <3>4, ShortHeld
    <3>6. LengthBytes' = m_buffer' /\ HeaderPrefix' = auth'
      BY <2>1 DEF LengthBytes, HeaderPrefix, B0, Count
    <3>7. auth' \o <<>> = auth'
      BY <2>1, Few, Concatenation
    <3>8. HeaderAbsorbed'
      BY <3>3, <3>4, <3>5, <3>6, <3>7 DEF HeaderAbsorbed
    <3>9. m_state' = "IVSet" /\ "IVSet" \notin Message
      BY <2>1 DEF Message
    <3> QED BY <2>1, <3>2, <3>8, <3>9 DEF Absorbed
  <2> QED BY <2>3, <2>4, <2>5, <2>6, <2>7 DEF Inv
<1> QED BY <1>1, <1>2

LEMMA Becoming ==
  ASSUME NEW p, NEW o, NEW x, Becomes(Authenticator(p, o, x))
  PROVE  m_buffer' = p /\ auth' = o /\ m_tags' = x
BY DEF Becomes, Authenticator

\* A piece of the header.
LEMMA HeaderKeepsInv ==
  ASSUME AuthenticatedSymmetricCipherAssumption, Inv, NEW n \in Nat \ {0}, Update(n),
         m_state = "IVSet"
  PROVE  Inv'
<1> DEFINE w == [i \in 1 .. n |-> H(header + i)]
<1>1. /\ Becomes(AuthenticateData(A, w))
      /\ total' = [total EXCEPT !.header = @ + n] /\ header' = header + n /\ tag' = NoTag
      /\ UNCHANGED <<scheme, forward, m_state, promised, m_ctr, iv, message, keystream, trouble>>
  BY DEF Update, class
<1>2. TypeOK /\ CounterInPlace /\ KeystreamUsedOnce /\ Absorbed
  BY DEF Inv
<1>3. /\ total' \in Counts /\ total'.header = total.header + n
      /\ total'.message = total.message
  BY <1>1, <1>2, SMTT(30) DEF TypeOK, Counts
<1>4. TypeOK'
  BY <1>1, <1>2, <1>3 DEF TypeOK
<1>5. CounterInPlace'
  BY <1>1, <1>2 DEF CounterInPlace, Running, CounterIV, FirstPosition
<1>6. KeystreamUsedOnce'
  BY <1>1, <1>2 DEF KeystreamUsedOnce, RightKey, CounterIV, FirstPosition
<1>7. TagIsDefined'
  BY <1>1 DEF TagIsDefined, NoTag
<1>8. Absorbed'
  <2>1. SUFFICES ASSUME trouble' = {} PROVE Absorbed'
    BY DEF Absorbed
  <2>2. /\ total.header = header /\ total.message = message /\ message = 0
        /\ scheme = "EAX" => m_tags = {CounterIV(iv)}
        /\ (scheme = "CCM" => promised.footer = 1) => HeaderAbsorbed
    BY <1>1, <1>2, <2>1 DEF Absorbed, Running, State
  <2>3. Sequence(w) /\ HeaderStream' = HeaderStream \o w
    BY <1>1, <1>2, <1>4, HeaderGrows
  <2> HIDE DEF w
  <2>4. BS' = BS /\ HeaderPrefix' = HeaderPrefix /\ CounterIV(iv)' = CounterIV(iv)
    BY <1>1 DEF BS, AuthenticationBlockSize, HeaderPrefix, B0, CounterIV
  <2>5. m_tags' = m_tags
    <3>1. AuthenticateData(A, w) = Authenticator(Left(m_buffer \o w, BS), auth \o Whole(m_buffer \o w, BS), m_tags)
      BY AIs, AuthenticateDataIs
    <3>2. Becomes(AuthenticateData(A, w))
      BY <1>1 DEF w
    <3> QED BY <3>1, <3>2, Becoming
  <2>6. ASSUME HeaderAbsorbed PROVE HeaderAbsorbed'
    <3>1. CASE auth = HeaderPrefix \o Whole(HeaderStream, BS) /\ m_buffer = Left(HeaderStream, BS)
      <4>1. A = Holding(HeaderPrefix, HeaderStream, m_tags)
        BY <3>1, AIs DEF Holding
      <4>2. AuthenticateData(A, w) = Holding(HeaderPrefix, HeaderStream \o w, m_tags)
        BY <4>1, <1>2, <2>3, Streams, Sizes, DataAbsorbed
      <4>3. /\ auth' = HeaderPrefix \o Whole(HeaderStream \o w, BS)
            /\ m_buffer' = Left(HeaderStream \o w, BS)
        <5>1. Becomes(AuthenticateData(A, w))
          BY <1>1 DEF w
        <5>2. Becomes(Authenticator(Left(HeaderStream \o w, BS),
                                    HeaderPrefix \o Whole(HeaderStream \o w, BS), m_tags))
          BY <5>1, <4>2 DEF Holding
        <5> QED BY <5>2, Becoming
      <4> QED BY <4>3, <2>3, <2>4 DEF HeaderAbsorbed
    <3>2. CASE scheme = "CCM" /\ header >= promised.header
      BY <3>2, <1>1, <1>2, SMTT(30) DEF HeaderAbsorbed, TypeOK, Counts
    <3>3. header = promised.header \/ header > promised.header => header >= promised.header
      BY <1>2 DEF TypeOK, Counts
    <3> QED BY <2>6, <3>1, <3>2, <3>3 DEF HeaderAbsorbed
  <2>7. m_state' = "IVSet" /\ "IVSet" \notin Message
    BY <1>1 DEF Message
  <2> QED BY <1>1, <1>3, <2>2, <2>4, <2>5, <2>6, <2>7 DEF Absorbed
<1> QED BY <1>4, <1>5, <1>6, <1>7, <1>8 DEF Inv

LEMMA UpdateKeepsInv ==
  ASSUME AuthenticatedSymmetricCipherAssumption, Inv, NEW n \in Nat \ {0}, Update(n)
  PROVE  Inv'
<1>1. m_state \in State
  BY DEF Inv, TypeOK
<1>2. CASE m_state \in {"Start", "KeySet"}
  <2>1. BadState
    BY <1>2 DEF Update
  <2> QED BY <2>1, BadStateKeepsInv
<1>3. CASE m_state = "IVSet"
  BY <1>3, HeaderKeepsInv
<1>4. CASE m_state \in Message /\ MessageRefused
  <2>1. BadState
    BY <1>4 DEF Update, Message
  <2> QED BY <2>1, BadStateKeepsInv
<1>5. CASE m_state = "AuthFooter" \/ (m_state \in Message /\ ~MessageRefused)
  <2>1. /\ total' = [total EXCEPT !.footer = @ + n] /\ m_state' = "AuthFooter" /\ tag' = NoTag
        /\ UNCHANGED <<scheme, forward, promised, m_ctr, iv, header, message, keystream, trouble>>
    BY <1>5 DEF Update, Message, class, sofar
  <2>2. TypeOK /\ CounterInPlace /\ KeystreamUsedOnce /\ Absorbed
    BY DEF Inv
  <2>3. /\ total' \in Counts /\ total'.header = total.header
        /\ total'.message = total.message /\ total'.footer > 0
    BY <2>1, <2>2 DEF TypeOK, Counts
  <2>4. Running
    BY <1>5 DEF Running, Message, State
  <2>5. TypeOK'
    BY <2>1, <2>2, <2>3 DEF TypeOK, State
  <2>6. CounterInPlace'
    BY <2>1, <2>2, <2>4 DEF CounterInPlace, CounterIV, FirstPosition
  <2>7. KeystreamUsedOnce'
    BY <2>1, <2>2 DEF KeystreamUsedOnce, RightKey, CounterIV, FirstPosition
  <2>8. TagIsDefined'
    BY <2>1 DEF TagIsDefined, NoTag
  <2>9. Absorbed'
    BY <2>1, <2>2, <2>3, <2>4 DEF Absorbed, Message
  <2> QED BY <2>5, <2>6, <2>7, <2>8, <2>9 DEF Inv
<1> QED BY <1>1, <1>2, <1>3, <1>4, <1>5 DEF State, Message

-----------------------------------------------------------------------------
(* The message.                                                            *)

LEMMA RunningStates ==
  ASSUME m_state \in State, Running, m_state # "AuthFooter"
  PROVE  m_state = "IVSet" \/ m_state \in Message
BY DEF Running, State, Message

\* A ProcessData that does not throw begins with this.
AtMessage == IF m_state = "IVSet" THEN AfterHeader ELSE A

LEMMA AtMessageHolds ==
  ASSUME AuthenticatedSymmetricCipherAssumption, Inv, trouble = {}, Running,
         m_state # "AuthFooter", Ready, ~(m_state = "IVSet" /\ HeaderRefused)
  PROVE  /\ AtMessage = Holding(MessagePrefix, MessageStream, TagsOfHeader)
         /\ scheme = "CCM" => header = promised.header
         /\ total.header = header /\ total.message = message
<1>1. TypeOK /\ Absorbed
  BY DEF Inv
<1>2. total.header = header /\ total.message = message
  BY <1>1 DEF Absorbed
<1>3. CASE m_state = "IVSet"
  <2>1. scheme = "CCM" => promised.footer = 1
    BY <1>1, StatesInOrder DEF Ready, TypeOK
  <2>2. HeaderAbsorbed /\ message = 0 /\ (scheme = "EAX" => m_tags = {CounterIV(iv)})
    BY <1>1, <1>3, <2>1 DEF Absorbed
  <2>3. AfterHeader = Holding(MessagePrefix, <<>>, TagsOfHeader)
    BY <1>1, <1>2, <1>3, <2>2, HeaderDone
  <2>4. MessageStream = <<>>
    BY <2>2 DEF MessageStream, PlainBytes, CipherBytes
  <2>5. scheme = "CCM" => header = promised.header
    BY <1>2, <1>3 DEF HeaderRefused
  <2> QED BY <1>2, <1>3, <2>3, <2>4, <2>5 DEF AtMessage
<1>4. CASE m_state \in Message
  <2>1. MessageAbsorbed
    BY <1>1, <1>4 DEF Absorbed
  <2>2. m_tags = TagsOfHeader
    BY <2>1 DEF MessageAbsorbed, TagsOfHeader, EaxTags
  <2>3. A = Holding(MessagePrefix, MessageStream, TagsOfHeader)
    BY <2>1, <2>2, AIs DEF MessageAbsorbed, Holding
  <2>4. m_state # "IVSet"
    BY <1>4 DEF Message
  <2> QED BY <1>2, <2>1, <2>3, <2>4 DEF AtMessage, MessageAbsorbed
<1> QED BY <1>1, <1>3, <1>4, RunningStates DEF TypeOK

LEMMA CounterMoves ==
  ASSUME TypeOK, NEW c
  PROVE  [m_ctr EXCEPT !.position = c] = [iv |-> m_ctr.iv, position |-> c]
<1> DEFINE v == m_ctr.iv
           q == m_ctr.position
<1>1. m_ctr = [iv |-> v, position |-> q]
  BY DEF TypeOK
<1> HIDE DEF v, q
<1>2. m_ctr \in [iv : {v}, position : {q, c}]
  BY <1>1
<1>3. m_ctr.iv = v
  BY <1>1
<1>4. [m_ctr EXCEPT !.position = c] = [iv |-> v, position |-> c]
  BY <1>2
<1> QED BY <1>4 DEF v

LEMMA KeystreamGrows ==
  ASSUME TypeOK, NEW n \in Nat, keystream = [i \in 1 .. message |-> RightKey(i)],
         Keys(n) = [i \in 1 .. n |-> RightKey(message + i)]
  PROVE  keystream \o Keys(n) = [i \in 1 .. message + n |-> RightKey(i)]
<1> DEFINE u == [i \in 1 .. message + n |-> RightKey(i)]
           v == keystream
           w == Keys(n)
<1>1. message \in Nat /\ message + n \in Nat
  BY DEF TypeOK
<1>2. Sequence(u) /\ Len(u) = message + n
  <2>1. u = [i \in 1 .. message + n |-> u[i]]
    OBVIOUS
  <2> HIDE DEF u
  <2> QED BY <1>1, <2>1, Listed
<1>3. Sequence(v) /\ Len(v) = message
  <2>1. v = [i \in 1 .. message |-> v[i]]
    OBVIOUS
  <2> HIDE DEF v
  <2> QED BY <1>1, <2>1, Listed
<1>4. Sequence(w) /\ Len(w) = n
  <2>1. w = [i \in 1 .. n |-> w[i]]
    OBVIOUS
  <2> HIDE DEF w
  <2> QED BY <2>1, Listed
<1>5. /\ \A i \in 1 .. message : u[i] = v[i]
      /\ \A i \in 1 .. n : u[message + i] = w[i]
  BY <1>1
<1>6. IsJoined(u, v, w)
  <2> HIDE DEF u, v, w
  <2> QED BY <1>2, <1>3, <1>4, <1>5 DEF IsJoined
<1> HIDE DEF u, v, w
<1>7. u = v \o w
  <2>1. Sequence(u) /\ Sequence(v) /\ Sequence(w)
    BY <1>2, <1>3, <1>4
  <2> QED BY <2>1, <1>6, Grown
<1> QED BY <1>7 DEF u, v, w

\* A piece of the message.
LEMMA MessageKeepsInv ==
  ASSUME AuthenticatedSymmetricCipherAssumption, Inv, NEW n \in Nat \ {0}, ProcessData(n), Ready,
         Running, m_state # "AuthFooter", ~TooLong(n), ~(m_state = "IVSet" /\ HeaderRefused)
  PROVE  Inv'
<1> DEFINE s == IF AuthenticatesInput THEN "AuthUntransformed" ELSE "AuthTransformed"
           w == IF (m_state' = "AuthUntransformed") = forward THEN Plain(n) ELSE Cipher(n)
<1>1. TypeOK /\ CounterInPlace /\ KeystreamUsedOnce /\ Absorbed
  BY DEF Inv
<1>2. /\ m_state' = (IF m_state = "IVSet" THEN s ELSE m_state)
      /\ Becomes(AuthenticateData(AtMessage, w))
      /\ total' = [total EXCEPT !.message = @ + n]
      /\ m_ctr' = [m_ctr EXCEPT !.position = @ + n]
      /\ keystream' = keystream \o Keys(n) /\ message' = message + n /\ tag' = NoTag
      /\ UNCHANGED <<scheme, forward, promised, iv, header, trouble>>
  <2>1. AtLeast("IVSet")
    BY <1>1, StatesInOrder DEF TypeOK
  <2> QED BY <2>1 DEF ProcessData, class, AtMessage, AfterHeader
<1>3. /\ total' \in Counts /\ total'.header = total.header
      /\ total'.message = total.message + n
  <2>1. total \in Counts /\ total' = [total EXCEPT !.message = @ + n]
    BY <1>1, <1>2 DEF TypeOK
  <2> QED BY <2>1 DEF Counts
<1>4. m_ctr' = [iv |-> m_ctr.iv, position |-> m_ctr.position + n]
  BY <1>1, <1>2, CounterMoves
<1>5. m_state' \in Message
  <2>1. m_state = "IVSet" \/ m_state \in Message
    BY <1>1, RunningStates DEF TypeOK
  <2> QED BY <2>1, <1>2 DEF Message
<1>6. TypeOK'
  <2>1. /\ m_ctr' = [iv |-> m_ctr'.iv, position |-> m_ctr'.position]
        /\ m_ctr'.position \in Nat
    BY <1>1, <1>4 DEF TypeOK
  <2> QED BY <1>1, <1>2, <1>3, <1>5, <2>1 DEF TypeOK, State, Message
<1>7. CounterIV(iv)' = CounterIV(iv) /\ FirstPosition' = FirstPosition /\ FirstPosition \in Nat
  BY <1>1, <1>2, Sizes DEF CounterIV, FirstPosition
<1>8. CounterInPlace'
  <2>1. ASSUME "abandoned" \notin trouble
        PROVE  m_ctr'.iv = CounterIV(iv) /\ m_ctr'.position = FirstPosition + (message + n)
    <3>1. m_ctr.iv = CounterIV(iv) /\ m_ctr.position = FirstPosition + message
      BY <1>1, <2>1 DEF CounterInPlace
    <3>2. m_ctr'.iv = m_ctr.iv /\ m_ctr'.position = m_ctr.position + n
      BY <1>4
    <3>3. message \in Nat
      BY <1>1 DEF TypeOK
    <3> QED BY <3>1, <3>2, <3>3, <1>7
  <2> QED BY <2>1, <1>2, <1>7 DEF CounterInPlace
<1>9. KeystreamUsedOnce'
  <2>1. SUFFICES ASSUME "abandoned" \notin trouble'
                 PROVE  keystream' = [i \in 1 .. message' |-> RightKey(i)']
    BY DEF KeystreamUsedOnce
  <2>2. \A i \in Int : RightKey(i)' = RightKey(i)
    BY <1>2, <1>7 DEF RightKey
  <2>3. m_ctr.iv = CounterIV(iv) /\ m_ctr.position = FirstPosition + message
        /\ keystream = [i \in 1 .. message |-> RightKey(i)]
    BY <2>1, <1>1, <1>2 DEF CounterInPlace, KeystreamUsedOnce
  <2>4. Keys(n) = [i \in 1 .. n |-> RightKey(message + i)]
    BY <2>3, <1>1, <1>7, KeysAreRight
  <2>5. keystream' = [i \in 1 .. message + n |-> RightKey(i)]
    BY <2>3, <2>4, <1>1, <1>2, KeystreamGrows
  <2>6. message' = message + n /\ message + n \in Nat
    BY <1>1, <1>2 DEF TypeOK
  <2> QED BY <2>2, <2>5, <2>6
<1>10. TagIsDefined'
  BY <1>2 DEF TagIsDefined, NoTag
<1>11. Absorbed'
  <2>1. SUFFICES ASSUME trouble' = {} PROVE Absorbed'
    BY DEF Absorbed
  <2>2. trouble = {}
    BY <2>1, <1>2
  <2>3. /\ AtMessage = Holding(MessagePrefix, MessageStream, TagsOfHeader)
        /\ scheme = "CCM" => header = promised.header
        /\ total.header = header /\ total.message = message
    BY <2>2, AtMessageHolds
  <2>4. m_state' = s
    <3>1. m_state \in Message => m_state = s
      BY <1>1, <2>2 DEF Absorbed, MessageAbsorbed
    <3>2. m_state = "IVSet" \/ m_state \in Message
      BY <1>1, RunningStates DEF TypeOK
    <3>3. m_state \in Message => m_state # "IVSet"
      BY DEF Message
    <3> HIDE DEF s
    <3> QED BY <1>2, <3>1, <3>2, <3>3
  <2>5. w = MessageBytes(n)
    <3>1. m_ctr.iv = CounterIV(iv) /\ m_ctr.position = FirstPosition + message
      BY <1>1, <2>2 DEF CounterInPlace
    <3>2. /\ Plain(n) = [i \in 1 .. n |-> P(message + i)]
          /\ Cipher(n) = [i \in 1 .. n |-> C(message + i, RightKey(message + i))]
      BY <3>1, <1>1, <1>7, KeysAreRight
    <3>3. ((m_state' = "AuthUntransformed") = forward) <=> scheme = "CCM"
      <4>1. forward \in BOOLEAN
        BY <1>1 DEF TypeOK
      <4>2. (m_state' = "AuthUntransformed") <=> AuthenticatesInput
        BY <2>4
      <4> QED BY <4>1, <4>2 DEF AuthenticatesInput
    <3> QED BY <3>2, <3>3 DEF MessageBytes
  <2> HIDE DEF s, w
  <2>6. Sequence(MessageBytes(n)) /\ MessageStream' = MessageStream \o MessageBytes(n)
    BY <1>1, <1>2, <1>6, MessageGrows
  <2>7. AuthenticateData(AtMessage, w)
          = Holding(MessagePrefix, MessageStream \o MessageBytes(n), TagsOfHeader)
    BY <1>1, <2>3, <2>5, <2>6, Streams, MessagePrefixIs, Sizes, DataAbsorbed
  <2>8. /\ auth' = MessagePrefix \o Whole(MessageStream', BS)
        /\ m_buffer' = Left(MessageStream', BS) /\ m_tags' = TagsOfHeader
    <3>1. Becomes(AuthenticateData(AtMessage, w))
      BY <1>2
    <3>2. Becomes(Authenticator(Left(MessageStream', BS),
                                MessagePrefix \o Whole(MessageStream', BS), TagsOfHeader))
      BY <3>1, <2>6, <2>7 DEF Holding
    <3> QED BY <3>2, Becoming
  <2>9. BS' = BS /\ AuthenticatesInput' = AuthenticatesInput
    BY <1>2 DEF BS, AuthenticationBlockSize, AuthenticatesInput
  <2>10. MessagePrefix' = MessagePrefix
    BY <1>2 DEF MessagePrefix, HeaderPrefix, HeaderStream, LengthBytes, HeaderBytes, B0,
      InBlocks, AuthenticationBlockSize
  <2>11. EaxTags' = EaxTags
    BY <1>2 DEF EaxTags, CounterIV, HeaderBytes, InBlocks, AuthenticationBlockSize
  <2>12. MessageAbsorbed'
    <3>1. (m_state = IF AuthenticatesInput THEN "AuthUntransformed" ELSE "AuthTransformed")'
      BY <2>4, <2>9 DEF s
    <3>2. scheme' = "EAX" => m_tags' = EaxTags'
      BY <1>2, <2>8, <2>11 DEF TagsOfHeader
    <3>3. scheme' = "CCM" => header' = promised'.header
      BY <1>2, <2>3
    <3> QED BY <2>8, <2>9, <2>10, <3>1, <3>2, <3>3 DEF MessageAbsorbed, EaxTags
  <2>13. m_state' # "IVSet" /\ m_state' # "AuthFooter"
    BY <1>5 DEF Message
  <2>14. total'.header = header' /\ total'.message = message'
    BY <1>2, <1>3, <2>3
  <2> QED BY <2>12, <2>13, <2>14 DEF Absorbed
<1> QED BY <1>6, <1>8, <1>9, <1>10, <1>11 DEF Inv

LEMMA ProcessDataKeepsInv ==
  ASSUME AuthenticatedSymmetricCipherAssumption, Inv, NEW n \in Nat \ {0}, ProcessData(n), Ready
  PROVE  Inv'
<1>1. AtLeast("IVSet") <=> Running
  BY StatesInOrder DEF Inv, TypeOK
<1>2. CASE \/ ~Running \/ m_state = "AuthFooter"
           \/ TooLong(n)
           \/ m_state = "IVSet" /\ HeaderRefused
  <2>1. Refused(n)
    BY <1>1, <1>2 DEF ProcessData
  <2> QED BY <2>1, RefusedKeepsInv
<1>3. CASE Running /\ m_state # "AuthFooter" /\ ~TooLong(n) /\ ~(m_state = "IVSet" /\ HeaderRefused)
  BY <1>3, MessageKeepsInv
<1> QED BY <1>2, <1>3

\* The end of a message.
LEMMA FinalKeepsInv ==
  ASSUME AuthenticatedSymmetricCipherAssumption, Inv, TruncatedFinal, Ready,
         Running, ~(total.footer > 0), ~(m_state = "IVSet" /\ HeaderRefused)
  PROVE  Inv'
<1> DEFINE c == AfterMessage(AtMessage)
<1>1. TypeOK /\ CounterInPlace /\ KeystreamUsedOnce /\ Absorbed
  BY DEF Inv
<1>2. /\ IF MessageRefused
           THEN Becomes(AtMessage) /\ tag' = NoTag /\ UNCHANGED <<m_state, m_ctr>>
           ELSE /\ tag' = Tag(c) /\ m_state' = "KeySet"
                /\ m_ctr' = IF scheme = "EAX" THEN m_ctr ELSE [m_ctr EXCEPT !.position = 0]
      /\ UNCHANGED <<scheme, forward, total, promised, iv, header, message, keystream, trouble>>
  <2>1. AtLeast("IVSet")
    BY <1>1, StatesInOrder DEF TypeOK
  <2> QED BY <2>1 DEF TruncatedFinal, class, sofar, AtMessage, AfterHeader, AfterMessage, AfterFinal
<1>3. KeystreamUsedOnce'
  BY <1>1, <1>2 DEF KeystreamUsedOnce, RightKey, CounterIV, FirstPosition
<1>4. trouble = {} => m_state # "AuthFooter"
  BY <1>1 DEF Absorbed
<1>5. ASSUME trouble = {}
      PROVE  /\ AtMessage = Holding(MessagePrefix, MessageStream, TagsOfHeader)
             /\ scheme = "CCM" => header = promised.header
             /\ total.header = header /\ total.message = message
             /\ m_ctr.iv = CounterIV(iv)
  <2>1. m_ctr.iv = CounterIV(iv)
    BY <1>1, <1>5 DEF CounterInPlace
  <2> QED BY <2>1, <1>4, <1>5, AtMessageHolds
<1>6. CASE ~MessageRefused
  <2>1. /\ tag' = Tag(c) /\ m_state' = "KeySet"
        /\ m_ctr' = IF scheme = "EAX" THEN m_ctr ELSE [m_ctr EXCEPT !.position = 0]
    BY <1>2, <1>6
  <2>2. m_ctr' = m_ctr \/ m_ctr' = [iv |-> m_ctr.iv, position |-> 0]
    BY <2>1, <1>1, CounterMoves
  <2>3. m_ctr' = [iv |-> m_ctr'.iv, position |-> m_ctr'.position] /\ m_ctr'.position \in Nat
    BY <2>2, <1>1 DEF TypeOK
  <2>4. TypeOK'
    BY <1>1, <1>2, <2>1, <2>3 DEF TypeOK, State
  <2>5. CounterInPlace' /\ Absorbed'
    BY <2>1 DEF CounterInPlace, Absorbed, Running
  <2>6. TagIsDefined'
    <3>1. SUFFICES ASSUME trouble = {} PROVE tag' = DefinedTag'
      BY <1>2 DEF TagIsDefined
    <3>2. scheme = "CCM" => promised.message = message
      BY <3>1, <1>5, <1>6 DEF MessageRefused
    <3>3. Tag(c) = DefinedTag
      <4>1. scheme \in {"CCM", "GCM", "EAX"}
        BY <1>1 DEF TypeOK
      <4>2. CASE scheme = "CCM"
        BY <4>2, <3>1, <3>2, <1>1, <1>5, TagOfCCM
      <4>3. CASE scheme = "GCM"
        BY <4>3, <3>1, <1>1, <1>5, TagOfGCM
      <4>4. CASE scheme = "EAX"
        BY <4>4, <3>1, <1>1, <1>5, TagOfEAX
      <4> QED BY <4>1, <4>2, <4>3, <4>4
    <3>4. DefinedTag' = DefinedTag
      BY <1>2 DEF DefinedTag, CounterIV, HeaderBytes, PlainBytes, CipherBytes, RightKey,
        FirstPosition, InBlocks, AuthenticationBlockSize
    <3> QED BY <2>1, <3>3, <3>4
  <2> QED BY <2>4, <2>5, <2>6, <1>3 DEF Inv
<1>7. CASE MessageRefused
  <2>1. /\ Becomes(AtMessage) /\ tag' = NoTag
        /\ UNCHANGED <<scheme, forward, m_state, m_ctr, total, promised, iv, header, message,
                       keystream, trouble>>
    BY <1>2, <1>7
  <2>2. TypeOK' /\ CounterInPlace'
    BY <2>1, <1>1 DEF TypeOK, CounterInPlace, Running, CounterIV, FirstPosition
  <2>3. TagIsDefined'
    BY <2>1 DEF TagIsDefined, NoTag
  <2>4. scheme = "CCM"
    BY <1>7 DEF MessageRefused
  <2>5. Absorbed'
    <3>1. SUFFICES ASSUME trouble' = {} PROVE Absorbed'
      BY DEF Absorbed
    <3>2. AtMessage = Holding(MessagePrefix, MessageStream, TagsOfHeader)
          /\ header = promised.header
      BY <3>1, <2>1, <2>4, <1>5
    <3>3. /\ m_buffer' = Left(MessageStream, BS)
          /\ auth' = MessagePrefix \o Whole(MessageStream, BS)
      BY <3>2, <2>1, Becoming DEF Holding
    <3>4. BS' = BS /\ BS \in Nat \ {0}
      BY <2>1, <1>1, Sizes DEF BS, AuthenticationBlockSize
    <3>5. HeaderStream' = HeaderStream /\ HeaderPrefix' = HeaderPrefix
      BY <2>1 DEF HeaderStream, HeaderBytes, LengthBytes, HeaderPrefix, B0
    <3>6. MessagePrefix' = MessagePrefix /\ MessageStream' = MessageStream
      BY <2>1, <3>5 DEF MessagePrefix, MessageStream, PlainBytes, CipherBytes, RightKey, CounterIV,
        FirstPosition, InBlocks, AuthenticationBlockSize
    <3>7. m_state = "IVSet" => HeaderAbsorbed'
      <4>1. ASSUME m_state = "IVSet" PROVE MessageStream = <<>>
        BY <4>1, <1>1, <2>1, <3>1 DEF Absorbed, MessageStream, PlainBytes, CipherBytes
      <4>2. MessagePrefix = HeaderPrefix \o InBlocks(HeaderStream)
        BY <2>4 DEF MessagePrefix
      <4>3. Sequence(MessagePrefix)
        BY <1>1, MessagePrefixIs
      <4>4. Left(<<>>, BS) = <<>> /\ Whole(<<>>, BS) = <<>> /\ MessagePrefix \o <<>> = MessagePrefix
        BY <4>3, <3>4, NothingHeld, Few, Concatenation
      <4>5. InBlocks(HeaderStream)' = InBlocks(HeaderStream)
        BY <2>1, <3>5 DEF InBlocks, AuthenticationBlockSize
      <4> QED BY <2>1, <2>4, <3>2, <3>3, <3>5, <4>1, <4>2, <4>4, <4>5 DEF HeaderAbsorbed
    <3>8. m_state \in Message => MessageAbsorbed'
      <4>1. m_state \in Message => MessageAbsorbed
        BY <1>1, <2>1, <3>1 DEF Absorbed
      <4>2. AuthenticatesInput' = AuthenticatesInput
        BY <2>1 DEF AuthenticatesInput
      <4>3. (m_state = IF AuthenticatesInput THEN "AuthUntransformed" ELSE "AuthTransformed")
              => (m_state = IF AuthenticatesInput THEN "AuthUntransformed" ELSE "AuthTransformed")'
        BY <4>2, <2>1
      <4> QED BY <2>1, <2>4, <3>2, <3>3, <3>4, <3>6, <4>1, <4>3 DEF MessageAbsorbed
    <3>9. /\ total'.header = header' /\ total'.message = message'
          /\ m_state' = "IVSet" => message' = 0
          /\ m_state' # "AuthFooter"
      BY <2>1, <3>1, <1>1, <1>4, <1>5 DEF Absorbed
    <3>10. scheme' # "EAX"
      BY <2>1, <2>4
    <3> QED BY <2>1, <3>7, <3>8, <3>9, <3>10 DEF Absorbed
  <2> QED BY <2>2, <2>3, <2>5, <1>3 DEF Inv
<1> QED BY <1>6, <1>7

LEMMA TruncatedFinalKeepsInv ==
  ASSUME AuthenticatedSymmetricCipherAssumption, Inv, TruncatedFinal, Ready
  PROVE  Inv'
<1>1. AtLeast("IVSet") <=> Running
  BY StatesInOrder DEF Inv, TypeOK
<1>2. CASE \/ ~Running \/ total.footer > 0
           \/ m_state = "IVSet" /\ HeaderRefused
  <2>1. BadState
    BY <1>1, <1>2 DEF TruncatedFinal
  <2> QED BY <2>1, BadStateKeepsInv
<1>3. CASE Running /\ ~(total.footer > 0) /\ ~(m_state = "IVSet" /\ HeaderRefused)
  BY <1>3, FinalKeepsInv
<1> QED BY <1>2, <1>3

-----------------------------------------------------------------------------
(* The theorems.                                                           *)

LEMMA InitInv ==
  ASSUME AuthenticatedSymmetricCipherAssumption, Init
  PROVE  Inv
<1>1. TypeOK
  BY DEF Init, TypeOK, State, Counts, Count
<1>2. CounterInPlace /\ Absorbed
  BY DEF Init, CounterInPlace, Absorbed, Running
<1>3. KeystreamUsedOnce
  BY DEF Init, KeystreamUsedOnce
<1>4. TagIsDefined
  BY DEF Init, TagIsDefined
<1> QED BY <1>1, <1>2, <1>3, <1>4 DEF Inv

LEMMA NextInv ==
  ASSUME AuthenticatedSymmetricCipherAssumption, Inv, [Next]_vars
  PROVE  Inv'
<1>1. CASE UNCHANGED vars
  <2>1. TypeOK /\ CounterInPlace /\ KeystreamUsedOnce /\ Absorbed /\ TagIsDefined
    BY DEF Inv
  <2>2. TypeOK'
    BY <1>1, <2>1 DEF vars, TypeOK
  <2>3. Quiet
    BY <1>1, <2>1 DEF vars, Quiet, class
  <2> QED BY <2>2, <2>3, QuietKeepsInv
<1>2. CASE SetKey
  BY <1>2, SetKeyKeepsInv
<1>3. CASE MayAbandon /\ \E v \in IVs : Resynchronize(v)
  BY <1>3, ResynchronizeKeepsInv
<1>4. CASE Restart
  BY <1>4, RestartKeepsInv
<1>5. CASE \E h \in 0 .. MaxHeader, m \in 0 .. MaxMessageLength + 1 : SpecifyDataLengths(h, m)
  BY <1>5, SpecifyDataLengthsKeepsInv
<1>6. CASE \E n \in 1 .. MaxHeader :
             /\ Ready /\ total.header + total.footer + n <= MaxHeader
             /\ Update(n)
  <2>1. PICK n \in 1 .. MaxHeader : Update(n)
    BY <1>6
  <2> QED BY <2>1, UpdateKeepsInv
<1>7. CASE \E n \in 1 .. MaxMessageLength :
             /\ Ready /\ total.message + n <= MaxMessageLength + 1
             /\ ProcessData(n)
  <2>1. PICK n \in 1 .. MaxMessageLength : Ready /\ ProcessData(n)
    BY <1>7
  <2> QED BY <2>1, ProcessDataKeepsInv
<1>8. CASE Ready /\ TruncatedFinal
  BY <1>8, TruncatedFinalKeepsInv
<1> QED BY <1>1, <1>2, <1>3, <1>4, <1>5, <1>6, <1>7, <1>8 DEF Next

\* What the object holds is always what its client has given it since
\* Resynchronize, cut into blocks: for CCM, GCM and EAX, both directions.
THEOREM InvariantHolds == AuthenticatedSymmetricCipherAssumption => (Spec => []Inv)
<1> SUFFICES ASSUME AuthenticatedSymmetricCipherAssumption PROVE Spec => []Inv
  OBVIOUS
<1>1. Init => Inv
  BY InitInv
<1>2. Inv /\ [Next]_vars => Inv'
  BY NextInv
<1> QED BY <1>1, <1>2, PTL DEF Spec

\* No byte of keystream is used twice under one IV, and none that encrypts the
\* tag, in whatever pieces the messages come, as long as none was given up
\* half-way (authenc.cpp:175).
THEOREM NoKeystreamTwice ==
  AuthenticatedSymmetricCipherAssumption => (Spec => []KeystreamUsedOnce)
<1>1. Inv => KeystreamUsedOnce
  BY DEF Inv
<1> QED BY <1>1, InvariantHolds, PTL

\* A tag that is given out is the scheme's for IV, header and message, in
\* whatever pieces they came and whatever calls were refused meanwhile, for
\* headers, messages and blocks of any size, unless a message was given up or a
\* refused ProcessData has counted its bytes (authenc.cpp:11-46, 104-176).
THEOREM TagsAreDefined ==
  AuthenticatedSymmetricCipherAssumption => (Spec => []TagIsDefined)
<1>1. Inv => TagIsDefined
  BY DEF Inv
<1> QED BY <1>1, InvariantHolds, PTL
=============================================================================
