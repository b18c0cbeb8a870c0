---------------------------- MODULE sha256_proofs ----------------------------
(***************************************************************************)
(* A hash object of class SHA256, or SHA512, for messages of any length    *)
(* cut in any way: between two calls it holds exactly the message sent,    *)
(* and final absorbs the padding of the standard. Then the same for an MD5 *)
(* object.                                                                 *)
(***************************************************************************)
EXTENDS sha256, CommonLemmas

\* A word that wraps while it counts shows the count modulo the word.
LEMMA ModAdd ==
  ASSUME NEW a \in Nat, NEW b \in Nat, NEW w \in Nat \ {0}
  PROVE  ((a % w) + b) % w = (a + b) % w
<1>1. a = (a \div w) * w + (a % w) /\ a \div w \in Nat /\ a % w \in Nat
  BY Division
<1> DEFINE c == (a % w) + b
<1>2. c \in Nat
  BY <1>1
<1>3. c = (c \div w) * w + (c % w) /\ c \div w \in Nat /\ c % w \in 0 .. w - 1
  <2> HIDE DEF c
  <2> QED BY <1>2, Division
<1>4. a + b = ((a \div w) + (c \div w)) * w + (c % w)
  BY <1>1, <1>3
<1>5. (a \div w) + (c \div w) \in Nat
  BY <1>1, <1>3
<1> HIDE DEF c
<1>6. (((a \div w) + (c \div w)) * w + (c % w)) % w = c % w
  BY <1>3, <1>5, DivisionIsUnique
<1> QED BY <1>4, <1>6 DEF c

\* Positions are natural numbers.
LEMMA Position ==
  ASSUME NEW q \in Nat, NEW d \in Nat, NEW k \in 0 .. d - 1
  PROVE  q * d + k \in Nat
OBVIOUS

\* Byte k of block i comes before those of the blocks behind it.
LEMMA BlocksInOrder ==
  ASSUME NEW i \in Nat, NEW n \in Nat, i < n, NEW d \in Nat, NEW k \in 0 .. d - 1
  PROVE  i * d + k < n * d
<1>1. n - i - 1 \in Nat
  OBVIOUS
<1>2. (n - i - 1) * d >= 0
  BY <1>1
<1>3. n * d = i * d + d + (n - i - 1) * d
  OBVIOUS
<1> QED BY <1>2, <1>3

-----------------------------------------------------------------------------
\* Sequences given by their elements.

\* What is behind a sequence when n elements are appended.
LEMMA Appended ==
  ASSUME NEW S, NEW s \in Seq(S), NEW n \in Nat, NEW t \in [1 .. n -> S]
  PROVE  /\ s \o t \in Seq(S) /\ Len(s \o t) = Len(s) + n
         /\ \A i \in 1 .. Len(s) : (s \o t)[i] = s[i]
         /\ \A i \in 1 .. n : (s \o t)[Len(s) + i] = t[i]
<1>1. t \in Seq(S) /\ Len(t) = n
  OBVIOUS
<1> QED BY <1>1

\* The numbers of a class.
LEMMA Numbers ==
  ASSUME Sha256Assumption
  PROVE  /\ B \in Nat \ {0} /\ LengthBytes \in Nat /\ 4 <= LengthBytes /\ LengthBytes < B
         /\ WordMod \in Nat \ {0} /\ B < WordMod
         /\ Lens \subseteq Nat
         /\ \A len \in Lens : len <= WordMod - B
BY DEF Sha256Assumption, B

\* h is the first blocks of the stream b of bytes of S.
Cut(h, b, S) ==
  /\ h \in Seq([0 .. B - 1 -> S])
  /\ \A k \in 1 .. Len(h), j \in 0 .. B - 1 : h[k][j] = b[(k - 1) * B + j]

\* The n blocks of bytes at `from` are the next ones of the stream.
Continue(h, b, bytes, from, n) ==
  \A i \in 1 .. n, j \in 0 .. B - 1 :
    bytes[from + (i - 1) * B + j] = b[(Len(h) + i - 1) * B + j]

\* transform goes on in the stream.
LEMMA CutFurther ==
  ASSUME Sha256Assumption,
         NEW S, NEW b \in [Nat -> S], NEW h, Cut(h, b, S),
         NEW n \in Nat, NEW bytes, NEW from, Continue(h, b, bytes, from, n)
  PROVE  /\ Cut(transform(h, bytes, from, n), b, S)
         /\ Len(transform(h, bytes, from, n)) = Len(h) + n
<1> DEFINE t == BlocksOf(bytes, from, n, B)
           g == h \o t
<1>1. B \in Nat \ {0} /\ h \in Seq([0 .. B - 1 -> S]) /\ Len(h) \in Nat
  BY Numbers DEF Cut
<1>2. ASSUME NEW i \in 1 .. n, NEW j \in 0 .. B - 1
      PROVE  t[i][j] = b[(Len(h) + i - 1) * B + j] /\ b[(Len(h) + i - 1) * B + j] \in S
  <2>1. t[i][j] = bytes[from + (i - 1) * B + j]
    BY DEF BlocksOf
  <2>2. bytes[from + (i - 1) * B + j] = b[(Len(h) + i - 1) * B + j]
    BY DEF Continue
  <2>3. Len(h) + i - 1 \in Nat
    BY <1>1
  <2>4. (Len(h) + i - 1) * B + j \in Nat
    BY <1>1, <2>3, Position
  <2> QED BY <2>2, <2>1, <2>4
<1>3. t \in [1 .. n -> [0 .. B - 1 -> S]]
  <2>1. t = [i \in 1 .. n |-> [j \in 0 .. B - 1 |-> bytes[from + (i - 1) * B + j]]]
    BY DEF BlocksOf
  <2>2. \A i \in 1 .. n : [j \in 0 .. B - 1 |-> bytes[from + (i - 1) * B + j]] \in [0 .. B - 1 -> S]
    BY <1>2, <2>1
  <2> HIDE DEF t
  <2> QED BY <2>1, <2>2
<1> HIDE DEF t
<1>4. /\ g \in Seq([0 .. B - 1 -> S]) /\ Len(g) = Len(h) + n
      /\ \A i \in 1 .. Len(h) : g[i] = h[i]
      /\ \A i \in 1 .. n : g[Len(h) + i] = t[i]
  BY <1>1, <1>3, Appended
<1> HIDE DEF g
<1>5. ASSUME NEW k \in 1 .. Len(g), NEW j \in 0 .. B - 1
      PROVE  g[k][j] = b[(k - 1) * B + j]
  <2>1. CASE k <= Len(h)
    <3>1. k \in 1 .. Len(h)
      BY <1>1, <1>4, <2>1
    <3>2. h[k][j] = b[(k - 1) * B + j]
      BY <3>1 DEF Cut
    <3> QED BY <1>4, <3>1, <3>2
  <2>2. CASE k > Len(h)
    <3>1. k - Len(h) \in 1 .. n /\ Len(h) + (k - Len(h)) = k
      BY <1>1, <1>4, <2>2
    <3>2. g[k] = t[k - Len(h)]
      BY <1>4, <3>1
    <3>3. t[k - Len(h)][j] = b[(Len(h) + (k - Len(h)) - 1) * B + j]
      BY <1>2, <3>1
    <3> QED BY <3>1, <3>2, <3>3
  <2> QED BY <1>1, <1>4, <2>1, <2>2
<1>6. transform(h, bytes, from, n) = g
  BY DEF transform, t, g
<1> QED BY <1>4, <1>5, <1>6 DEF Cut

-----------------------------------------------------------------------------
MessageBytes == {MessageByte(i) : i \in Nat}
Message == [i \in Nat |-> MessageByte(i)]

\* Between two calls the blocks absorbed are blocks of the message.
Absorbed == stage = "open" => Cut(m_h, Message, MessageBytes)

\* The bytes waiting are those behind them.
Waiting == stage = "open" => \A j \in 0 .. m_len - 1 : m_block[j] = Message[Len(m_h) * B + j]

Counts ==
  stage = "open" => sent = Len(m_h) * B + m_len /\ m_tot_len = (Len(m_h) * B) % WordMod

\* The inductive invariant.
IInv == TypeOK /\ Absorbed /\ Waiting /\ Counts /\ DigestIsStandard

\* The invariant's streams are the message that the property speaks of.
LEMMA InvGivesStream ==
  ASSUME Sha256Assumption, IInv
  PROVE  StreamIsMessage
<1> SUFFICES ASSUME stage = "open"
             PROVE  /\ sent = Len(m_h) * B + m_len
                    /\ m_tot_len = (Len(m_h) * B) % WordMod
                    /\ \A k \in 1 .. Len(m_h), j \in 0 .. B - 1 :
                         m_h[k][j] = MessageByte((k - 1) * B + j)
                    /\ \A j \in 0 .. m_len - 1 : m_block[j] = MessageByte(Len(m_h) * B + j)
  BY DEF StreamIsMessage
<1>1. B \in Nat \ {0} /\ Len(m_h) \in Nat /\ m_len \in 0 .. B - 1
  BY Numbers DEF IInv, Absorbed, Cut, TypeOK
<1>2. ASSUME NEW k \in Nat, NEW j \in Nat PROVE Message[k * B + j] = MessageByte(k * B + j)
  <2>1. k * B + j \in Nat
    BY <1>1
  <2> QED BY <2>1 DEF Message
<1>3. ASSUME NEW k \in 1 .. Len(m_h), NEW j \in 0 .. B - 1
      PROVE  m_h[k][j] = MessageByte((k - 1) * B + j)
  <2>1. m_h[k][j] = Message[(k - 1) * B + j]
    BY DEF IInv, Absorbed, Cut
  <2>2. k - 1 \in Nat /\ j \in Nat
    BY <1>1
  <2> QED BY <1>2, <2>1, <2>2
<1>4. ASSUME NEW j \in 0 .. m_len - 1 PROVE m_block[j] = MessageByte(Len(m_h) * B + j)
  BY <1>1, <1>2 DEF IInv, Waiting
<1> QED BY <1>3, <1>4 DEF IInv, Counts

-----------------------------------------------------------------------------
\* Message is a stream of message bytes.
LEMMA MessageType ==
  /\ Message \in [Nat -> MessageBytes]
  /\ \A i \in Nat : Message[i] = MessageByte(i)
BY DEF Message, MessageBytes

\* A piece that leaves the block unfinished.
LEMMA SmallPieceKeepsInv ==
  ASSUME Sha256Assumption, IInv,
         NEW len \in Lens, sent + len <= MaxMessage, update(len), Fits(len)
  PROVE  IInv'
<1> DEFINE filled == [i \in 0 .. 2 * B - 1 |->
                        IF m_len <= i /\ i < m_len + len THEN MessageByte(sent + (i - m_len))
                                                          ELSE m_block[i]]
<1>1. /\ B \in Nat \ {0} /\ len \in Nat /\ len <= WordMod - B /\ WordMod \in Nat \ {0}
      /\ m_len \in 0 .. B - 1 /\ stage = "open" /\ Len(m_h) \in Nat
      /\ sent = Len(m_h) * B + m_len
  BY Numbers DEF IInv, TypeOK, Counts, Absorbed, Cut, update
<1>2. (m_len + len) % WordMod = m_len + len
  <2>1. m_len + len \in 0 .. WordMod - 1
    BY <1>1
  <2> QED BY <1>1, <2>1
<1>3. m_len + len < B
  BY <1>2 DEF Fits
<1>4. ~(len < B - m_len) => len = B - m_len
  BY <1>1, <1>3
<1>5. /\ stage' = "open" /\ sent' = sent + len /\ digest' = digest
      /\ m_len' = m_len + len /\ m_h' = m_h /\ m_tot_len' = m_tot_len
      /\ m_block' = filled
  <2>1. len < B - m_len
    BY <1>1, <1>3
  <2>2. \A i \in 0 .. 2 * B - 1 : m_len <= i /\ i < m_len + len =>
          [k \in 0 .. len - 1 |-> MessageByte(sent + k)][i - m_len] = MessageByte(sent + (i - m_len))
    BY <1>1
  <2>3. m_block' = [i \in 0 .. 2 * B - 1 |->
                     IF m_len <= i /\ i < m_len + len
                       THEN [k \in 0 .. len - 1 |-> MessageByte(sent + k)][i - m_len]
                       ELSE m_block[i]]
    BY <2>1 DEF update, Fits
  <2> QED BY <1>1, <1>2, <2>1, <2>2, <2>3 DEF update, Fits
<1>6. TypeOK'
  <2>1. DOMAIN filled = 0 .. 2 * B - 1
    OBVIOUS
  <2> HIDE DEF filled
  <2>2. m_len' \in 0 .. B - 1
    BY <1>1, <1>3, <1>5
  <2>3. sent' \in 0 .. MaxMessage
    BY <1>1, <1>5 DEF IInv, TypeOK, Sha256Assumption
  <2> QED BY <1>5, <2>1, <2>2, <2>3 DEF IInv, TypeOK, B
<1>7. Waiting'
  <2> SUFFICES ASSUME NEW j \in 0 .. m_len' - 1
               PROVE  filled[j] = Message[Len(m_h) * B + j]
    BY <1>5 DEF Waiting
  <2>1. j \in 0 .. 2 * B - 1 /\ j \in Nat /\ j < m_len + len
    BY <1>1, <1>3, <1>5
  <2>2. CASE j < m_len
    <3>1. j \in 0 .. m_len - 1 /\ ~(m_len <= j)
      BY <1>1, <2>1, <2>2
    <3> QED BY <1>1, <2>1, <3>1 DEF IInv, Waiting
  <2>3. CASE m_len <= j
    <3>1. filled[j] = MessageByte(sent + (j - m_len))
      BY <2>1, <2>3
    <3>2. sent + (j - m_len) = Len(m_h) * B + j /\ Len(m_h) * B + j \in Nat
      BY <1>1, <2>1
    <3> QED BY <3>1, <3>2, MessageType
  <2> QED BY <1>1, <2>1, <2>2, <2>3
<1> HIDE DEF filled
<1>8. Absorbed'
  BY <1>1, <1>5 DEF IInv, Absorbed, Cut
<1>9. Counts'
  <2>1. sent' = Len(m_h') * B + m_len'
    BY <1>1, <1>5
  <2> QED BY <1>1, <1>5, <2>1 DEF IInv, Counts, B
<1>10. DigestIsStandard'
  BY <1>5 DEF DigestIsStandard
<1> QED BY <1>6, <1>7, <1>8, <1>9, <1>10 DEF IInv

\* A piece that fills the block, and goes on with whole blocks and a rest.
LEMMA LargePieceKeepsInv ==
  ASSUME Sha256Assumption, IInv,
         NEW len \in Lens, sent + len <= MaxMessage, update(len), ~Fits(len)
  PROVE  IInv'
<1> DEFINE L == Len(m_h)
           rem == B - m_len
           nb == (len - rem) \div B
           tail == (len - rem) % B
           message == [i \in 0 .. len - 1 |-> MessageByte(sent + i)]
           filled == [i \in 0 .. 2 * B - 1 |->
                        IF m_len <= i /\ i < m_len + rem THEN message[i - m_len]
                                                          ELSE m_block[i]]
           absorbed == transform(m_h, filled, 0, 1)
<1>1. /\ B \in Nat \ {0} /\ len \in Nat /\ len <= WordMod - B /\ WordMod \in Nat \ {0}
      /\ m_len \in 0 .. B - 1 /\ stage = "open" /\ L \in Nat
      /\ sent = L * B + m_len /\ m_tot_len = (L * B) % WordMod
      /\ Cut(m_h, Message, MessageBytes)
  BY Numbers DEF IInv, TypeOK, Counts, Absorbed, Cut, update
<1>2. len >= rem /\ rem \in Nat \ {0} /\ len - rem \in Nat
  <2>1. m_len + len \in 0 .. WordMod - 1
    BY <1>1
  <2>2. (m_len + len) % WordMod = m_len + len
    BY <1>1, <2>1
  <2> QED BY <1>1, <2>2 DEF Fits
<1>3. /\ nb \in Nat /\ tail \in 0 .. B - 1 /\ len = rem + nb * B + tail
  <2> DEFINE n == len - rem
  <2>1. n \in Nat /\ len = rem + n
    BY <1>1, <1>2
  <2> HIDE DEF n
  <2>2. n \div B \in Nat /\ n % B \in 0 .. B - 1 /\ n = (n \div B) * B + (n % B)
    BY <1>1, <2>1, Division
  <2> QED BY <1>1, <1>2, <2>1, <2>2 DEF n
<1> HIDE DEF nb, tail
<1>4. /\ stage' = "open" /\ sent' = sent + len /\ digest' = digest
      /\ m_h' = transform(absorbed, message, rem, nb)
      /\ m_block' = [i \in 0 .. 2 * B - 1 |->
                       IF i < tail THEN message[rem + nb * B + i] ELSE filled[i]]
      /\ m_len' = tail
      /\ m_tot_len' = (m_tot_len + (nb + 1) * B) % WordMod
  <2>1. ~(len < B - m_len)
    BY <1>1, <1>2
  <2>2. ~Fits(len)
    OBVIOUS
  <2> HIDE DEF Fits
  <2> QED BY <2>1, <2>2 DEF update, Counted, nb, tail
<1>5. ASSUME NEW i \in 0 .. len - 1
      PROVE  message[i] = Message[L * B + m_len + i]
  <2>1. sent + i = L * B + m_len + i /\ L * B + m_len + i \in Nat
    BY <1>1
  <2> QED BY <2>1, MessageType
<1>6. ASSUME NEW j \in 0 .. B - 1
      PROVE  filled[j] = Message[L * B + j]
  <2>1. j \in 0 .. 2 * B - 1 /\ j < m_len + rem
    BY <1>1
  <2>2. CASE m_len <= j
    <3>1. j - m_len \in 0 .. len - 1 /\ L * B + m_len + (j - m_len) = L * B + j
      BY <1>1, <1>2, <2>2
    <3>2. filled[j] = message[j - m_len]
      BY <2>1, <2>2
    <3> HIDE DEF filled, message
    <3> QED BY <1>5, <3>1, <3>2
  <2>3. CASE ~(m_len <= j)
    <3>1. filled[j] = m_block[j] /\ j \in 0 .. m_len - 1
      BY <1>1, <2>1, <2>3
    <3> HIDE DEF filled
    <3> QED BY <1>1, <3>1 DEF IInv, Waiting
  <2> QED BY <2>2, <2>3
<1> HIDE DEF filled, message
<1>7. Cut(absorbed, Message, MessageBytes) /\ Len(absorbed) = L + 1
  <2>1. ASSUME NEW i \in 1 .. 1, NEW j \in 0 .. B - 1
        PROVE  filled[0 + (i - 1) * B + j] = Message[(L + i - 1) * B + j]
    <3>1. 0 + (i - 1) * B + j = j /\ (L + i - 1) * B + j = L * B + j
      BY <1>1
    <3> QED BY <1>6, <3>1
  <2>2. Continue(m_h, Message, filled, 0, 1)
    BY <2>1 DEF Continue
  <2> QED BY <1>1, <2>2, CutFurther, MessageType
<1>8. Cut(m_h', Message, MessageBytes) /\ Len(m_h') = L + 1 + nb
  <2>1. ASSUME NEW i \in 1 .. nb, NEW j \in 0 .. B - 1
        PROVE  message[rem + (i - 1) * B + j] = Message[(Len(absorbed) + i - 1) * B + j]
    <3>1. (i - 1) * B + j < nb * B /\ i - 1 \in Nat
      BY <1>1, <1>3, BlocksInOrder
    <3>2. rem + (i - 1) * B + j \in 0 .. len - 1
      BY <1>1, <1>2, <1>3, <3>1
    <3>3. L * B + m_len + (rem + (i - 1) * B + j) = (L + 1 + i - 1) * B + j
      BY <1>1
    <3> QED BY <1>5, <1>7, <3>2, <3>3
  <2>2. Len(absorbed) + nb = L + 1 + nb
    BY <1>7
  <2>3. Continue(absorbed, Message, message, rem, nb)
    BY <2>1 DEF Continue
  <2>4. nb \in Nat /\ Cut(absorbed, Message, MessageBytes) /\ Message \in [Nat -> MessageBytes]
    BY <1>3, <1>7, MessageType
  <2> HIDE DEF absorbed, L, rem
  <2>5. /\ Cut(transform(absorbed, message, rem, nb), Message, MessageBytes)
        /\ Len(transform(absorbed, message, rem, nb)) = Len(absorbed) + nb
    BY <2>3, <2>4, CutFurther
  <2> QED BY <1>4, <2>2, <2>5
<1>9. TypeOK'
  <2>1. sent' \in 0 .. MaxMessage
    BY <1>1, <1>4 DEF IInv, TypeOK, Sha256Assumption
  <2>2. m_tot_len' \in 0 .. WordMod - 1
    <3>1. L * B \in Nat /\ (nb + 1) * B \in Nat
      BY <1>1, <1>3
    <3>2. m_tot_len \in Nat
      BY <1>1, <3>1, Division
    <3>3. m_tot_len + (nb + 1) * B \in Nat
      BY <3>1, <3>2
    <3>4. (m_tot_len + (nb + 1) * B) % WordMod \in 0 .. WordMod - 1
      BY <1>1, <3>3, Division
    <3> QED BY <1>4, <3>4
  <2>3. m_len' \in 0 .. B - 1
    BY <1>3, <1>4
  <2>4. DOMAIN m_block' = 0 .. 2 * B - 1
    BY <1>4
  <2> QED BY <1>4, <2>1, <2>2, <2>3, <2>4 DEF TypeOK, B
<1>10. Waiting'
  <2> SUFFICES ASSUME NEW j \in 0 .. tail - 1
               PROVE  m_block'[j] = Message[(L + 1 + nb) * B + j]
    BY <1>4, <1>8 DEF Waiting, B
  <2>1. j \in 0 .. 2 * B - 1 /\ j < tail
    BY <1>1, <1>3
  <2>2. m_block'[j] = message[rem + nb * B + j]
    BY <1>4, <2>1
  <2>3. rem + nb * B + j \in 0 .. len - 1
    BY <1>1, <1>2, <1>3, <2>1
  <2>4. L * B + m_len + (rem + nb * B + j) = (L + 1 + nb) * B + j
    BY <1>1, <1>3, <2>1
  <2> QED BY <1>5, <2>2, <2>3, <2>4
<1>11. Counts'
  <2>1. sent' = (L + 1 + nb) * B + tail
    BY <1>1, <1>3, <1>4
  <2>2. (((L * B) % WordMod) + (nb + 1) * B) % WordMod = (L * B + (nb + 1) * B) % WordMod
    <3>1. L * B \in Nat /\ (nb + 1) * B \in Nat
      BY <1>1, <1>3
    <3> QED BY <1>1, <3>1, ModAdd
  <2>3. L * B + (nb + 1) * B = (L + 1 + nb) * B
    BY <1>1, <1>3
  <2> QED BY <1>1, <1>4, <1>8, <2>1, <2>2, <2>3 DEF Counts, B
<1>12. Absorbed'
  BY <1>8 DEF Absorbed, Cut, B, Message, MessageBytes
<1>13. DigestIsStandard'
  BY <1>4 DEF DigestIsStandard
<1> QED BY <1>9, <1>10, <1>11, <1>12, <1>13 DEF IInv

-----------------------------------------------------------------------------
\* The end of a message.  Byte i of the message of n bytes padded to `total`.
PaddedByte(n, total, i) ==
  IF i < n THEN MessageByte(i)
  ELSE IF i = n THEN Octet(128)
  ELSE IF i < total - LengthBytes THEN Octet(0)
  ELSE OctetOf(8 * n, LengthBytes - 1 - (i - (total - LengthBytes)))

PaddedBytes(n, total) == {PaddedByte(n, total, i) : i \in Nat}
PaddedMessage(n, total) == [i \in Nat |-> PaddedByte(n, total, i)]

\* The blocks that final absorbs end where the standard's padded message ends.
LEMMA PaddingEnds ==
  ASSUME Sha256Assumption, NEW q \in Nat, NEW r \in 0 .. B - 1
  PROVE  RoundUp(q * B + r + 1 + LengthBytes, B)
           = (q + (IF B - (LengthBytes + 1) < r THEN 2 ELSE 1)) * B
<1>1. B \in Nat \ {0} /\ LengthBytes \in Nat /\ LengthBytes < B /\ r \in Nat /\ r < B
  BY Numbers
<1>2. q * B + r + 1 + LengthBytes + B - 1 = (q + 1) * B + (r + LengthBytes)
  BY <1>1
<1>3. CASE B - (LengthBytes + 1) < r
  <2>1. r + LengthBytes - B \in 0 .. B - 1
    BY <1>1, <1>3
  <2>2. (q + 1) * B + (r + LengthBytes) = (q + 2) * B + (r + LengthBytes - B)
    BY <1>1
  <2>3. ((q + 2) * B + (r + LengthBytes - B)) \div B = q + 2
    BY <1>1, <2>1, DivisionIsUnique
  <2> QED BY <1>2, <1>3, <2>2, <2>3 DEF RoundUp
<1>4. CASE ~(B - (LengthBytes + 1) < r)
  <2>1. r + LengthBytes \in 0 .. B - 1
    BY <1>1, <1>4
  <2>2. ((q + 1) * B + (r + LengthBytes)) \div B = q + 1
    BY <1>1, <2>1, DivisionIsUnique
  <2> QED BY <1>2, <1>4, <2>2 DEF RoundUp
<1> QED BY <1>3, <1>4

\* A list of blocks that is cut from the padded message is the standard's.
LEMMA CutIsHash ==
  ASSUME Sha256Assumption, NEW n \in Nat, NEW N \in Nat, NEW h,
         RoundUp(n + 1 + LengthBytes, B) = N * B,
         Cut(h, PaddedMessage(n, N * B), PaddedBytes(n, N * B)), Len(h) = N
  PROVE  h = Hash(n)
<1> DEFINE total == N * B
           bytes == [i \in 0 .. total - 1 |-> PaddedByte(n, total, i)]
<1>1. B \in Nat \ {0} /\ LengthBytes \in Nat /\ total \in Nat
  BY Numbers
<1>2. total \div B = N
  <2>1. (N * B + 0) \div B = N
    BY <1>1, DivisionIsUnique
  <2> QED BY <1>1, <2>1
<1>3. Hash(n) = BlocksOf(bytes, 0, N, B)
  <2> DEFINE field == [d \in 0 .. LengthBytes - 1 |-> OctetOf(8 * n, LengthBytes - 1 - d)]
             given == [i \in 0 .. total - 1 |->
                         IF i < n THEN MessageByte(i)
                         ELSE IF i = n THEN Octet(128)
                         ELSE IF i < total - LengthBytes THEN Octet(0)
                         ELSE field[i - (total - LengthBytes)]]
  <2>1. ASSUME NEW i \in 0 .. total - 1, ~(i < total - LengthBytes)
        PROVE  field[i - (total - LengthBytes)]
                 = OctetOf(8 * n, LengthBytes - 1 - (i - (total - LengthBytes)))
    <3>1. i - (total - LengthBytes) \in 0 .. LengthBytes - 1
      BY <1>1, <2>1
    <3> QED BY <3>1
  <2> HIDE DEF field
  <2>2. given = bytes
    BY <2>1 DEF PaddedByte
  <2>3. Hash(n) = Padded(n, B, LengthBytes, field)
    BY DEF Hash, field
  <2>4. RoundUp(n + 1 + LengthBytes, B) = total
    OBVIOUS
  <2> HIDE DEF total, bytes
  <2>5. Padded(n, B, LengthBytes, field) = BlocksOf(given, 0, total \div B, B)
    BY <2>4 DEF Padded
  <2> QED BY <1>2, <2>2, <2>3, <2>5
<1>4. ASSUME NEW k \in 1 .. N, NEW j \in 0 .. B - 1
      PROVE  h[k][j] = BlocksOf(bytes, 0, N, B)[k][j]
  <2>1. (k - 1) * B + j < total /\ k - 1 \in Nat /\ (k - 1) * B + j \in Nat
    BY <1>1, BlocksInOrder, Position
  <2>2. 0 + (k - 1) * B + j = (k - 1) * B + j /\ (k - 1) * B + j \in 0 .. total - 1
    BY <1>1, <2>1
  <2>3. BlocksOf(bytes, 0, N, B)[k][j] = bytes[0 + (k - 1) * B + j]
    <3> HIDE DEF bytes
    <3> QED BY DEF BlocksOf
  <2>4. h[k][j] = PaddedMessage(n, total)[(k - 1) * B + j]
    BY DEF Cut
  <2> QED BY <2>1, <2>2, <2>3, <2>4 DEF PaddedMessage
<1>5. h \in Seq([0 .. B - 1 -> PaddedBytes(n, total)]) /\ Len(h) = N
  BY DEF Cut
<1> HIDE DEF bytes, total
<1>6. ASSUME NEW k \in 1 .. N
      PROVE  h[k] = BlocksOf(bytes, 0, N, B)[k]
  <2>1. h[k] \in [0 .. B - 1 -> PaddedBytes(n, total)]
    BY <1>5
  <2>2. BlocksOf(bytes, 0, N, B)[k] = [j \in 0 .. B - 1 |-> bytes[0 + (k - 1) * B + j]]
    BY DEF BlocksOf
  <2>3. \A j \in 0 .. B - 1 : h[k][j] = BlocksOf(bytes, 0, N, B)[k][j]
    BY <1>4
  <2> QED BY <2>1, <2>2, <2>3, ZenonT(40)
<1>7. h = BlocksOf(bytes, 0, N, B)
  BY <1>5, <1>6 DEF BlocksOf
<1> QED BY <1>3, <1>7

\* The blocks absorbed before the end are blocks of the padded message.
LEMMA AbsorbedIsPadded ==
  ASSUME Sha256Assumption, NEW n \in Nat, NEW total \in Nat, NEW h,
         Cut(h, Message, MessageBytes), Len(h) * B <= n
  PROVE  Cut(h, PaddedMessage(n, total), PaddedBytes(n, total))
<1>1. /\ B \in Nat \ {0} /\ Len(h) \in Nat
      /\ h \in Seq([0 .. B - 1 -> MessageBytes])
  BY Numbers DEF Cut
<1>2. ASSUME NEW k \in 1 .. Len(h), NEW j \in 0 .. B - 1
      PROVE  /\ h[k][j] = PaddedMessage(n, total)[(k - 1) * B + j]
             /\ h[k][j] \in PaddedBytes(n, total)
  <2>1. k - 1 \in Nat /\ (k - 1) * B + j \in Nat /\ (k - 1) * B + j < Len(h) * B
    <3>1. k - 1 \in Nat /\ k - 1 < Len(h)
      BY <1>1
    <3> QED BY <1>1, <3>1, Position, BlocksInOrder
  <2>2. (k - 1) * B + j < n /\ (k - 1) * B + j \in Nat
    BY <1>1, <2>1
  <2>3. h[k][j] = Message[(k - 1) * B + j]
    BY DEF Cut
  <2>4. h[k][j] = PaddedByte(n, total, (k - 1) * B + j)
    BY <2>2, <2>3 DEF Message, PaddedByte
  <2> QED BY <2>2, <2>4 DEF PaddedMessage, PaddedBytes
<1>3. h \in Seq([0 .. B - 1 -> PaddedBytes(n, total)])
  <2>1. \A k \in 1 .. Len(h) : h[k] \in [0 .. B - 1 -> PaddedBytes(n, total)]
    <3>1. \A k \in 1 .. Len(h) : h[k] \in [0 .. B - 1 -> MessageBytes]
      BY <1>1
    <3> QED BY <1>2, <3>1
  <2> QED BY <1>1, <2>1
<1> QED BY <1>2, <1>3 DEF Cut

\* The block or blocks that final absorbs.
padded(p, lenBits) ==
  [i \in 0 .. 2 * B - 1 |->
     IF p * B - 4 <= i /\ i < p * B THEN OctetOf(lenBits, p * B - 1 - i)
     ELSE IF i = m_len THEN Octet(128)
     ELSE IF m_len < i /\ i < p * B THEN Octet(0)
     ELSE m_block[i]]

\* They are the bytes of the padded message behind the blocks absorbed before.
LEMMA PaddedAtTheEnd ==
  ASSUME Sha256Assumption, NEW q \in Nat, NEW p \in 1 .. 2, NEW n \in Nat,
         m_len \in 0 .. B - 1, n = q * B + m_len, 8 * n < WordMod,
         m_len + LengthBytes + 1 <= p * B,
         \A j \in 0 .. m_len - 1 : m_block[j] = Message[q * B + j],
         NEW t \in 0 .. p * B - 1
  PROVE  padded(p, 8 * n)[t] = PaddedByte(n, (q + p) * B, q * B + t)
<1> DEFINE pm == p * B
           total == (q + p) * B
           i == q * B + t
<1>1. /\ B \in Nat \ {0} /\ LengthBytes \in Nat /\ 4 <= LengthBytes /\ pm \in Nat
      /\ pm <= 2 * B /\ m_len \in Nat /\ m_len + LengthBytes + 1 <= pm
  BY Numbers
<1>2. t \in 0 .. 2 * B - 1 /\ t < pm /\ t \in Nat
  BY <1>1
<1>3. i \in Nat /\ total = q * B + pm /\ total \in Nat /\ q * B \in Nat
  BY <1>1
<1>4. padded(p, 8 * n)[t] =
        IF pm - 4 <= t /\ t < pm THEN OctetOf(8 * n, pm - 1 - t)
        ELSE IF t = m_len THEN Octet(128)
        ELSE IF m_len < t /\ t < pm THEN Octet(0)
        ELSE m_block[t]
  BY <1>2 DEF padded
<1>5. PaddedByte(n, total, i) =
        IF i < n THEN MessageByte(i)
        ELSE IF i = n THEN Octet(128)
        ELSE IF i < total - LengthBytes THEN Octet(0)
        ELSE OctetOf(8 * n, LengthBytes - 1 - (i - (total - LengthBytes)))
  BY DEF PaddedByte
<1>6. /\ i < n <=> t < m_len
      /\ i = n <=> t = m_len
      /\ i < total - LengthBytes <=> t < pm - LengthBytes
      /\ LengthBytes - 1 - (i - (total - LengthBytes)) = pm - 1 - t
  BY <1>1, <1>2, <1>3
<1> HIDE DEF pm, total, i
<1>7. CASE t < m_len
  <2>1. t \in 0 .. m_len - 1 /\ i = q * B + t
    BY <1>1, <1>2, <1>7 DEF i
  <2>2. m_block[t] = MessageByte(i)
    BY <1>3, <2>1 DEF Message
  <2> QED BY <1>1, <1>2, <1>4, <1>5, <1>6, <1>7, <2>2 DEF pm, total, i
<1>8. CASE t = m_len
  BY <1>1, <1>2, <1>4, <1>5, <1>6, <1>8 DEF pm, total, i
<1>9. CASE m_len < t /\ t < pm - LengthBytes
  BY <1>1, <1>2, <1>4, <1>5, <1>6, <1>9 DEF pm, total, i
<1>10. CASE pm - LengthBytes <= t /\ t < pm - 4
  <2>1. pm - 1 - t \in 4 .. LengthBytes - 1
    BY <1>1, <1>2, <1>10
  <2>2. 8 * n \in 0 .. WordMod - 1
    BY Numbers
  <2>3. OctetOf(8 * n, pm - 1 - t) = Octet(0)
    BY <2>1, <2>2 DEF Sha256Assumption
  <2> QED BY <1>1, <1>2, <1>4, <1>5, <1>6, <1>10, <2>3 DEF pm, total, i
<1>11. CASE pm - 4 <= t
  BY <1>1, <1>2, <1>4, <1>5, <1>6, <1>11 DEF pm, total, i
<1> QED BY <1>1, <1>2, <1>7, <1>8, <1>9, <1>10, <1>11

\* final returns the hash of the standard.
LEMMA FinalKeepsInv ==
  ASSUME Sha256Assumption, IInv, final
  PROVE  IInv'
<1> DEFINE q == Len(m_h)
           p == PadBlocks
           lenBits == ((m_tot_len + m_len) * 8) % WordMod
<1>1. /\ B \in Nat \ {0} /\ LengthBytes \in Nat /\ 4 <= LengthBytes /\ LengthBytes < B
      /\ m_len \in 0 .. B - 1 /\ stage = "open" /\ q \in Nat /\ WordMod \in Nat \ {0}
      /\ sent = q * B + m_len /\ m_tot_len = (q * B) % WordMod
      /\ Cut(m_h, Message, MessageBytes)
  BY Numbers DEF IInv, TypeOK, Counts, Absorbed, Cut, final
<1>2. /\ stage' = "done" /\ sent' = sent /\ m_len' = m_len /\ m_tot_len' = m_tot_len
      /\ digest' = m_h' /\ m_h' = transform(m_h, padded(p, lenBits), 0, p)
      /\ m_block' = padded(p, lenBits)
  BY DEF final, padded
<1>3. p = (IF B - (LengthBytes + 1) < m_len THEN 2 ELSE 1)
  <2>1. m_len % B = m_len
    BY <1>1
  <2> QED BY <2>1 DEF PadBlocks
<1> HIDE DEF p
<1>4. p \in 1 .. 2 /\ m_len + LengthBytes + 1 <= p * B
  BY <1>1, <1>3
<1>5. TypeOK'
  <2>1. DOMAIN m_block' = 0 .. 2 * B - 1
    BY <1>2 DEF padded
  <2> QED BY <1>2, <2>1 DEF IInv, TypeOK, B
<1>6. ASSUME 8 * sent < WordMod
      PROVE  m_h' = Hash(sent)
  <2> DEFINE n == sent
             N == q + p
             PM == PaddedMessage(n, N * B)
             PB == PaddedBytes(n, N * B)
  <2>1. n \in Nat /\ N \in Nat /\ N * B \in Nat /\ q * B \in Nat /\ q * B <= n
    BY <1>1, <1>4
  <2>2. lenBits = 8 * n
    <3>1. q * B \in 0 .. WordMod - 1 /\ 8 * n \in 0 .. WordMod - 1
      BY <1>1, <1>6, <2>1
    <3>2. m_tot_len = q * B
      BY <1>1, <3>1
    <3>3. (m_tot_len + m_len) * 8 = 8 * n
      BY <1>1, <3>2
    <3> QED BY <1>1, <3>1, <3>3
  <2>3. Cut(m_h, PM, PB)
    BY <1>1, <2>1, AbsorbedIsPadded
  <2>4. Continue(m_h, PM, padded(p, 8 * n), 0, p)
    <3>1. ASSUME NEW i \in 1 .. p, NEW j \in 0 .. B - 1
          PROVE  padded(p, 8 * n)[0 + (i - 1) * B + j] = PM[(q + i - 1) * B + j]
      <4> DEFINE t == (i - 1) * B + j
      <4>1. i - 1 \in Nat /\ i - 1 < p /\ p \in Nat
        BY <1>4
      <4>2. t \in Nat /\ t < p * B
        BY <1>1, <4>1, Position, BlocksInOrder
      <4>3. t \in 0 .. p * B - 1
        BY <1>1, <4>1, <4>2
      <4>4. padded(p, 8 * n)[t] = PaddedByte(n, N * B, q * B + t)
        <5>1. \A k \in 0 .. m_len - 1 : m_block[k] = Message[q * B + k]
          BY <1>1 DEF IInv, Waiting
        <5> HIDE DEF t, q
        <5> QED BY <1>1, <1>4, <1>6, <2>1, <4>3, <5>1, PaddedAtTheEnd
      <4>5. (q + i - 1) * B + j = q * B + t /\ 0 + (i - 1) * B + j = t /\ q * B + t \in Nat
        BY <1>1, <2>1, <4>1, <4>2
      <4> QED BY <4>4, <4>5 DEF PaddedMessage
    <3> QED BY <3>1 DEF Continue
  <2>5. PM \in [Nat -> PB]
    BY DEF PaddedMessage, PaddedBytes
  <2>6. Cut(m_h', PM, PB) /\ Len(m_h') = N
    <3>1. m_h' = transform(m_h, padded(p, 8 * n), 0, p) /\ p \in Nat
      BY <1>2, <1>4, <2>2
    <3> HIDE DEF PM, PB
    <3>2. /\ Cut(transform(m_h, padded(p, 8 * n), 0, p), PM, PB)
          /\ Len(transform(m_h, padded(p, 8 * n), 0, p)) = Len(m_h) + p
      BY <2>3, <2>4, <2>5, <3>1, CutFurther
    <3> QED BY <3>1, <3>2
  <2>7. RoundUp(n + 1 + LengthBytes, B) = N * B
    BY <1>1, <1>3, PaddingEnds
  <2> HIDE DEF N, n
  <2> QED BY <2>1, <2>6, <2>7, CutIsHash DEF n
<1>7. DigestIsStandard'
  <2>1. Hash(sent)' = Hash(sent)
    BY <1>2 DEF Hash, B
  <2> QED BY <1>2, <1>6, <2>1 DEF DigestIsStandard
<1> QED BY <1>2, <1>5, <1>7 DEF IInv, Absorbed, Waiting, Counts

-----------------------------------------------------------------------------
\* An object that was never initialised promises nothing.
LEMMA InitInv ==
  ASSUME Sha256Assumption, Init
  PROVE  IInv
<1>1. B \in Nat \ {0} /\ WordMod \in Nat \ {0} /\ MaxMessage \in Nat
  BY Numbers DEF Sha256Assumption
<1>2. TypeOK
  BY <1>1 DEF Init, TypeOK
<1> QED BY <1>2 DEF Init, IInv, Absorbed, Waiting, Counts, DigestIsStandard

\* init begins an empty message, whatever was in the object.
LEMMA InitKeepsInv ==
  ASSUME Sha256Assumption, IInv, init
  PROVE  IInv'
<1>1. /\ B \in Nat \ {0} /\ WordMod \in Nat \ {0} /\ MaxMessage \in Nat
  BY Numbers DEF Sha256Assumption
<1>2. /\ stage' = "open" /\ m_h' = <<>> /\ m_len' = 0 /\ m_tot_len' = 0 /\ sent' = 0
      /\ DOMAIN m_block' = 0 .. 2 * B - 1
  BY DEF init
<1>3. TypeOK'
  BY <1>1, <1>2 DEF TypeOK, B
<1>4. Cut(<<>>, Message, MessageBytes) /\ Len(<<>>) = 0
  BY DEF Cut
<1>5. Absorbed'
  BY <1>2, <1>4 DEF Absorbed, Cut, B, Message, MessageBytes
<1>6. Waiting'
  BY <1>2 DEF Waiting
<1>7. Counts'
  <2>1. 0 % WordMod = 0 /\ 0 * B = 0
    BY <1>1
  <2> QED BY <1>2, <1>4, <2>1 DEF Counts, B
<1> QED BY <1>2, <1>3, <1>5, <1>6, <1>7 DEF IInv, DigestIsStandard

\* Every call keeps the invariant.
LEMMA NextInv ==
  ASSUME Sha256Assumption
  PROVE  IInv /\ [Next]_vars => IInv'
<1> SUFFICES ASSUME IInv, [Next]_vars PROVE IInv'
  OBVIOUS
<1>1. CASE init
  BY <1>1, InitKeepsInv
<1>2. ASSUME NEW len \in Lens, sent + len <= MaxMessage, update(len) PROVE IInv'
  BY <1>2, SmallPieceKeepsInv, LargePieceKeepsInv
<1>3. CASE final
  BY <1>3, FinalKeepsInv
<1>4. CASE UNCHANGED vars
  BY <1>4 DEF vars, IInv, TypeOK, Absorbed, Waiting, Counts, DigestIsStandard, Cut, B, Hash,
              Message, MessageBytes
<1> QED BY <1>1, <1>2, <1>3, <1>4 DEF Next

\* The inductive invariant holds for any block size, length field, word and
\* pieces.
THEOREM InvariantHolds ==
  ASSUME Sha256Assumption
  PROVE  Spec => []IInv
<1>1. Init => IInv
  BY InitInv
<1>2. IInv /\ [Next]_vars => IInv'
  BY NextInv
<1> QED BY <1>1, <1>2, PTL DEF Spec

\* Between two calls the object holds the message that was sent, nothing lost,
\* repeated or out of place, however it was cut (sha256.cpp:75-96).
THEOREM TheStreamIsTheMessage ==
  ASSUME Sha256Assumption
  PROVE  Spec => []StreamIsMessage
<1>1. IInv => StreamIsMessage
  BY InvGivesStream
<1> QED BY <1>1, InvariantHolds, PTL

\* final returns the hash of the message padded as FIPS 180-2 says, for every
\* message whose length in bits fits in an unsigned int (sha256.cpp:98-115).
THEOREM TheDigestIsStandard ==
  ASSUME Sha256Assumption
  PROVE  Spec => []DigestIsStandard
<1>1. IInv => DigestIsStandard
  BY DEF IInv
<1> QED BY <1>1, InvariantHolds, PTL

-----------------------------------------------------------------------------
(* A hash object of class MD5 implements MessageDigest, for messages of    *)
(* any length cut into pieces shorter than a word counts by more than a    *)
(* block (MD5Assumption: the loop of MD5.cpp:274 does not wrap): whatever  *)
(* its user does, the digest he reads is the hash of RFC 1321 of the bytes *)
(* he gave it before finalize.                                             *)

CONSTANTS MdWordMod, MdLens, MaxBytes
VARIABLES count, buffer, state, finalized, mdDigest, mdSent

Md == INSTANCE MD5
  WITH WordMod <- MdWordMod, Lens <- MdLens, digest <- mdDigest, sent <- mdSent

\* A sequence of elements of T.
LEMMA ElementsOf ==
  ASSUME NEW S, NEW T, NEW s \in Seq(S), \A k \in 1 .. Len(s) : s[k] \in T
  PROVE  s \in Seq(T)
OBVIOUS

\* A word counts bits in whole blocks.
LEMMA Words ==
  ASSUME Md!MD5Assumption
  PROVE  /\ MdWordMod \in Nat \ {0} /\ MdWordMod \div 512 \in Nat \ {0}
         /\ MdWordMod = (MdWordMod \div 512) * 512
         /\ MdWordMod \div 8 \in Nat \ {0} /\ MdWordMod = (MdWordMod \div 8) * 8
<1>1. MdWordMod \in Nat \ {0} /\ MdWordMod % 512 = 0
  BY DEF Md!MD5Assumption
<1> QED BY <1>1

-----------------------------------------------------------------------------
\* The counter.  After n bytes both words show the number of bits.
Count(n) ==
  [w \in 0 .. 1 |-> IF w = 0 THEN (8 * n) % MdWordMod ELSE ((8 * n) \div MdWordMod) % MdWordMod]

\* The low word tells how full the block is.
LEMMA IndexOfCount ==
  ASSUME Md!MD5Assumption, NEW n \in Nat
  PROVE  (Count(n)[0] \div 8) % 64 = n % 64
<1> DEFINE k == MdWordMod \div 512
           H == (8 * n) \div MdWordMod
           r == (8 * n) % MdWordMod
<1>1. k \in Nat /\ MdWordMod = k * 512 /\ MdWordMod \in Nat \ {0}
  BY Words
<1>2. H \in Nat /\ r \in Nat /\ 8 * n = H * MdWordMod + r
  BY <1>1, Division
<1> HIDE DEF k, H, r
<1>3. H * k \in Nat /\ H * MdWordMod = 512 * (H * k)
  BY <1>1, <1>2
<1> DEFINE z == H * k
<1>4. z \in Nat /\ r = 8 * (n - 64 * z)
  BY <1>2, <1>3
<1> HIDE DEF z
<1>5. r \div 8 = n - 64 * z /\ n - 64 * z \in Nat
  BY <1>2, <1>4
<1>6. (n - 64 * z) % 64 = n % 64
  BY <1>4, <1>5
<1>7. Count(n)[0] = r
  BY DEF Count, r
<1> QED BY <1>5, <1>6, <1>7

\* The counter goes on by the bits of a piece, with the carry.
LEMMA CountGoesOn ==
  ASSUME Md!MD5Assumption, NEW n \in Nat, NEW length \in 0 .. MdWordMod - 1
  PROVE  Md!Counted(Count(n), length) = Count(n + length)
<1> DEFINE W == MdWordMod
           V == MdWordMod \div 8
           H == (8 * n) \div W
           r == (8 * n) % W
           d == length \div V
           e == length % V
           bits == (length * 8) % W
           low == (r + bits) % W
           carry == IF low < bits THEN 1 ELSE 0
<1>1. W \in Nat \ {0} /\ V \in Nat \ {0} /\ W = V * 8
  BY Words
<1>2. H \in Nat /\ r \in 0 .. W - 1 /\ 8 * n = H * W + r
  BY <1>1, Division
<1>3. d \in Nat /\ e \in 0 .. V - 1 /\ length = d * V + e
  <2>1. length \in Nat
    BY <1>1
  <2> HIDE DEF V
  <2> QED BY <1>1, <2>1, Division
<1>4. Md!Counted(Count(n), length) =
        [w \in 0 .. 1 |-> IF w = 0 THEN low ELSE ((H % W) + carry + d) % W]
  BY DEF Md!Counted, Count
<1>5. Count(n + length) =
        [w \in 0 .. 1 |-> IF w = 0 THEN (8 * (n + length)) % W
                                   ELSE ((8 * (n + length)) \div W) % W]
  BY DEF Count
<1>6. bits = 8 * e
  <2> HIDE DEF W, V, d, e
  <2>1. length * 8 = d * W + 8 * e /\ 8 * e \in 0 .. W - 1
    BY <1>1, <1>3
  <2> DEFINE b == 8 * e
  <2>2. b \in 0 .. W - 1
    BY <2>1
  <2> HIDE DEF b
  <2>3. (d * W + b) % W = b
    BY <1>1, <1>3, <2>2, DivisionIsUnique
  <2> QED BY <2>1, <2>3 DEF b
<1> HIDE DEF W, V, H, r, d, e, bits
<1>7. /\ bits \in 0 .. W - 1 /\ 8 * (n + length) = (H + d) * W + (r + bits)
  <2>1. 8 * length = d * W + 8 * e
    BY <1>1, <1>3
  <2>2. (H + d) * W = H * W + d * W
    BY <1>1, <1>2, <1>3
  <2>3. 8 * (n + length) = 8 * n + 8 * length
    BY <1>1 DEF W
  <2>4. bits \in 0 .. W - 1
    BY <1>1, <1>3, <1>6
  <2>5. H * W \in Nat /\ d * W \in Nat
    BY <1>1, <1>2, <1>3
  <2> QED BY <1>2, <1>3, <1>6, <2>1, <2>2, <2>3, <2>4, <2>5
<1>8. low \in 0 .. W - 1 /\ carry \in 0 .. 1 /\ r + bits = carry * W + low
  <2>1. CASE r + bits < W
    BY <1>1, <1>2, <1>7, <2>1
  <2>2. CASE r + bits >= W
    <3>1. r + bits = 1 * W + (r + bits - W) /\ r + bits - W \in 0 .. W - 1
      BY <1>1, <1>2, <1>7, <2>2
    <3>2. low = r + bits - W
      BY <1>1, <3>1, DivisionIsUnique
    <3> QED BY <1>1, <1>2, <1>7, <3>1, <3>2
  <2> QED BY <1>1, <1>2, <1>7, <2>1, <2>2
<1> HIDE DEF low, carry
<1>9. 8 * (n + length) = (H + d + carry) * W + low /\ H + d + carry \in Nat
  BY <1>1, <1>2, <1>3, <1>7, <1>8
<1>10. (8 * (n + length)) % W = low /\ (8 * (n + length)) \div W = H + d + carry
  <2> DEFINE Q == H + d + carry
             X == 8 * (n + length)
  <2>1. Q \in Nat /\ X = Q * W + low
    BY <1>9
  <2> HIDE DEF Q, X
  <2>2. (Q * W + low) \div W = Q /\ (Q * W + low) % W = low
    BY <1>1, <1>8, <2>1, DivisionIsUnique
  <2>3. X % W = low /\ X \div W = Q
    BY <2>1, <2>2
  <2> QED BY <2>3 DEF Q, X
<1>11. ((H % W) + carry + d) % W = (H + d + carry) % W
  <2>1. ((H % W) + (d + carry)) % W = (H + (d + carry)) % W
    <3> DEFINE y == d + carry
    <3>1. y \in Nat
      BY <1>3, <1>8
    <3> HIDE DEF y
    <3>2. ((H % W) + y) % W = (H + y) % W
      BY <1>1, <1>2, <3>1, ModAdd
    <3> QED BY <3>2 DEF y
  <2>2. H % W \in Nat
    BY <1>1, <1>2, Division
  <2>3. (H % W) + carry + d = (H % W) + (d + carry) /\ H + d + carry = H + (d + carry)
    BY <1>2, <1>3, <1>8, <2>2
  <2> QED BY <2>1, <2>3
<1> QED BY <1>4, <1>5, <1>10, <1>11

-----------------------------------------------------------------------------
LEMMA BlockSize == Md!blocksize \in Nat \ {0}
BY DEF Md!blocksize

\* h is the first blocks of the stream b of bytes of S.
MdCut(h, b, S) ==
  /\ h \in Seq([0 .. Md!blocksize - 1 -> S])
  /\ \A k \in 1 .. Len(h), j \in 0 .. Md!blocksize - 1 : h[k][j] = b[(k - 1) * Md!blocksize + j]

\* The n blocks of bytes at `from` are the next ones of the stream.
MdContinue(h, b, bytes, from, n) ==
  \A i \in 1 .. n, j \in 0 .. Md!blocksize - 1 :
    bytes[from + (i - 1) * Md!blocksize + j] = b[(Len(h) + i - 1) * Md!blocksize + j]

\* transform goes on in the stream.
LEMMA MdCutFurther ==
  ASSUME NEW S, NEW b \in [Nat -> S], NEW h, MdCut(h, b, S),
         NEW n \in Nat, NEW bytes, NEW from, MdContinue(h, b, bytes, from, n)
  PROVE  /\ MdCut(Md!transform(h, bytes, from, n), b, S)
         /\ Len(Md!transform(h, bytes, from, n)) = Len(h) + n
<1> DEFINE t == Md!BlocksOf(bytes, from, n, Md!blocksize)
           g == h \o t
<1>1. Md!blocksize \in Nat \ {0} /\ h \in Seq([0 .. Md!blocksize - 1 -> S]) /\ Len(h) \in Nat
  BY BlockSize DEF MdCut
<1>2. ASSUME NEW i \in 1 .. n, NEW j \in 0 .. Md!blocksize - 1
      PROVE  t[i][j] = b[(Len(h) + i - 1) * Md!blocksize + j] /\ b[(Len(h) + i - 1) * Md!blocksize + j] \in S
  <2>1. t[i][j] = bytes[from + (i - 1) * Md!blocksize + j]
    BY DEF Md!BlocksOf
  <2>2. bytes[from + (i - 1) * Md!blocksize + j] = b[(Len(h) + i - 1) * Md!blocksize + j]
    BY DEF MdContinue
  <2>3. Len(h) + i - 1 \in Nat
    BY <1>1
  <2>4. (Len(h) + i - 1) * Md!blocksize + j \in Nat
    BY <1>1, <2>3, Position
  <2> QED BY <2>2, <2>1, <2>4
<1>3. t \in [1 .. n -> [0 .. Md!blocksize - 1 -> S]]
  <2>1. t = [i \in 1 .. n |-> [j \in 0 .. Md!blocksize - 1 |-> bytes[from + (i - 1) * Md!blocksize + j]]]
    BY DEF Md!BlocksOf
  <2>2. \A i \in 1 .. n : [j \in 0 .. Md!blocksize - 1 |-> bytes[from + (i - 1) * Md!blocksize + j]] \in [0 .. Md!blocksize - 1 -> S]
    BY <1>2, <2>1
  <2> HIDE DEF t
  <2> QED BY <2>1, <2>2
<1> HIDE DEF t
<1>4. /\ g \in Seq([0 .. Md!blocksize - 1 -> S]) /\ Len(g) = Len(h) + n
      /\ \A i \in 1 .. Len(h) : g[i] = h[i]
      /\ \A i \in 1 .. n : g[Len(h) + i] = t[i]
  BY <1>1, <1>3, Appended
<1> HIDE DEF g
<1>5. ASSUME NEW k \in 1 .. Len(g), NEW j \in 0 .. Md!blocksize - 1
      PROVE  g[k][j] = b[(k - 1) * Md!blocksize + j]
  <2>1. CASE k <= Len(h)
    <3>1. k \in 1 .. Len(h)
      BY <1>1, <1>4, <2>1
    <3>2. h[k][j] = b[(k - 1) * Md!blocksize + j]
      BY <3>1 DEF MdCut
    <3> QED BY <1>4, <3>1, <3>2
  <2>2. CASE k > Len(h)
    <3>1. k - Len(h) \in 1 .. n /\ Len(h) + (k - Len(h)) = k
      BY <1>1, <1>4, <2>2
    <3>2. g[k] = t[k - Len(h)]
      BY <1>4, <3>1
    <3>3. t[k - Len(h)][j] = b[(Len(h) + (k - Len(h)) - 1) * Md!blocksize + j]
      BY <1>2, <3>1
    <3> QED BY <3>1, <3>2, <3>3
  <2> QED BY <1>1, <1>4, <2>1, <2>2
<1>6. Md!transform(h, bytes, from, n) = g
  BY DEF Md!transform, t, g
<1> QED BY <1>4, <1>5, <1>6 DEF MdCut

-----------------------------------------------------------------------------
\* The context c has absorbed n bytes of the stream b.
Represents(c, b, n, S) ==
  /\ c.count = Count(n)
  /\ MdCut(c.state, b, S) /\ Len(c.state) = n \div Md!blocksize
  /\ \A j \in 0 .. (n % Md!blocksize) - 1 : c.buffer[j] = b[(n \div Md!blocksize) * Md!blocksize + j]

\* input is the next piece of the stream b behind its first n bytes.
Piece(input, b, n, length) == \A i \in 0 .. length - 1 : input[i] = b[n + i]

\* update(input, length) absorbs the next piece of a stream.
LEMMA AbsorbedGoesOn ==
  ASSUME Md!MD5Assumption, NEW S, NEW b \in [Nat -> S], NEW n \in Nat,
         NEW length \in 0 .. MdWordMod - 1,
         NEW c, Represents(c, b, n, S), NEW input, Piece(input, b, n, length)
  PROVE  Represents(Md!Absorbed(c, input, length), b, n + length, S)
<1> DEFINE q == n \div Md!blocksize
           index == n % Md!blocksize
           first == Md!blocksize - index
           chunks == (length - first) \div Md!blocksize
           filled == [i \in 0 .. Md!blocksize - 1 |-> IF index <= i /\ i < index + length
                                          THEN input[i - index] ELSE c.buffer[i]]
           i0 == first + chunks * Md!blocksize
           rest == [i \in 0 .. Md!blocksize - 1 |-> IF i < length - i0 THEN input[i0 + i] ELSE filled[i]]
           one == Md!transform(c.state, filled, 0, 1)
           a == Md!Absorbed(c, input, length)
<1> SUFFICES Represents(a, b, n + length, S)
  OBVIOUS
<1>1. Md!blocksize \in Nat \ {0}
  BY BlockSize
<1>2. /\ q \in Nat /\ index \in 0 .. Md!blocksize - 1 /\ n = q * Md!blocksize + index /\ length \in Nat
      /\ first \in 1 .. Md!blocksize
  <2>1. q \in Nat /\ index \in 0 .. Md!blocksize - 1 /\ n = q * Md!blocksize + index
    BY <1>1, Division
  <2> HIDE DEF q, index
  <2>2. length \in Nat
    BY Words
  <2> QED BY <1>1, <2>1, <2>2
<1>3. (c.count[0] \div 8) % Md!blocksize = index
  BY IndexOfCount DEF Represents, Md!blocksize
<1> HIDE DEF q, index
<1>4. a = IF length >= first
          THEN Md!Context(Md!Counted(c.count, length), rest, Md!transform(one, input, first, chunks))
          ELSE Md!Context(Md!Counted(c.count, length), filled, c.state)
  BY <1>3 DEF Md!Absorbed
<1>5. Md!Counted(c.count, length) = Count(n + length)
  BY CountGoesOn DEF Represents
<1>6. /\ MdCut(c.state, b, S) /\ Len(c.state) = q
      /\ \A j \in 0 .. index - 1 : c.buffer[j] = b[q * Md!blocksize + j]
  BY DEF Represents, q, index
<1>7. ASSUME NEW j \in 0 .. Md!blocksize - 1, j < index + length
      PROVE  filled[j] = b[q * Md!blocksize + j]
  <2>1. CASE index <= j
    <3>1. j - index \in 0 .. length - 1 /\ n + (j - index) = q * Md!blocksize + j
      BY <1>1, <1>2, <1>7, <2>1
    <3>2. filled[j] = input[j - index]
      BY <1>7, <2>1
    <3> QED BY <3>1, <3>2 DEF Piece
  <2>2. CASE ~(index <= j)
    <3>1. j \in 0 .. index - 1
      BY <1>1, <1>2, <2>2
    <3> QED BY <1>6, <2>2, <3>1
  <2> QED BY <2>1, <2>2
<1> HIDE DEF filled
<1>8. CASE length < first
  <2> DEFINE tail == index + length
             X == n + length
  <2>1. X = q * Md!blocksize + tail /\ tail \in 0 .. Md!blocksize - 1
    BY <1>1, <1>2, <1>8
  <2>2. a = Md!Context(Count(X), filled, c.state)
    BY <1>1, <1>2, <1>4, <1>5, <1>8
  <2>3. \A j \in 0 .. tail - 1 : filled[j] = b[q * Md!blocksize + j]
    BY <1>1, <1>2, <1>7, <2>1
  <2>4. a.count = Count(X) /\ a.buffer = filled /\ a.state = c.state
    BY <2>2 DEF Md!Context
  <2> HIDE DEF a, tail, X
  <2>5. (q * Md!blocksize + tail) \div Md!blocksize = q /\ (q * Md!blocksize + tail) % Md!blocksize = tail
    BY <1>1, <1>2, <2>1, DivisionIsUnique
  <2>6. X \div Md!blocksize = q /\ X % Md!blocksize = tail
    BY <2>1, <2>5
  <2>7. \A j \in 0 .. (X % Md!blocksize) - 1 : a.buffer[j] = b[(X \div Md!blocksize) * Md!blocksize + j]
    BY <2>3, <2>4, <2>6
  <2>8. MdCut(a.state, b, S) /\ Len(a.state) = X \div Md!blocksize
    BY <1>6, <2>4, <2>6
  <2>9. Represents(a, b, X, S)
    BY <2>4, <2>7, <2>8, Zenon DEF Represents
  <2> QED BY <2>9 DEF X
<1>9. CASE length >= first
  <2> DEFINE tail == (length - first) % Md!blocksize
  <2>1. chunks \in Nat /\ tail \in 0 .. Md!blocksize - 1 /\ length = first + chunks * Md!blocksize + tail
    <3> DEFINE m == length - first
    <3>1. m \in Nat /\ length = first + m
      BY <1>1, <1>2, <1>9
    <3> HIDE DEF m
    <3>2. m \div Md!blocksize \in Nat /\ m % Md!blocksize \in 0 .. Md!blocksize - 1
          /\ m = (m \div Md!blocksize) * Md!blocksize + (m % Md!blocksize)
      BY <1>1, <3>1, Division
    <3> QED BY <1>1, <1>2, <3>1, <3>2 DEF m
  <2> HIDE DEF chunks, tail
  <2>2. n + length = (q + 1 + chunks) * Md!blocksize + tail /\ q + 1 + chunks \in Nat
    BY <1>1, <1>2, <2>1
  <2>3. (n + length) \div Md!blocksize = q + 1 + chunks /\ (n + length) % Md!blocksize = tail
    <3> DEFINE Q == q + 1 + chunks
               X == n + length
               r == tail
    <3>1. Q \in Nat /\ X = Q * Md!blocksize + r /\ r \in 0 .. Md!blocksize - 1
      BY <2>1, <2>2
    <3> HIDE DEF Q, X, r
    <3>2. (Q * Md!blocksize + r) \div Md!blocksize = Q /\ (Q * Md!blocksize + r) % Md!blocksize = r
      BY <1>1, <3>1, DivisionIsUnique
    <3>3. X \div Md!blocksize = Q /\ X % Md!blocksize = r
      BY <3>1, <3>2
    <3> QED BY <3>3 DEF Q, X, r
  <2>4. a = Md!Context(Count(n + length), rest, Md!transform(one, input, first, chunks))
    BY <1>4, <1>5, <1>9
  <2>5. MdCut(one, b, S) /\ Len(one) = q + 1
    <3>1. MdContinue(c.state, b, filled, 0, 1)
      <4>1. ASSUME NEW i \in 1 .. 1, NEW j \in 0 .. Md!blocksize - 1
            PROVE  filled[0 + (i - 1) * Md!blocksize + j] = b[(Len(c.state) + i - 1) * Md!blocksize + j]
        <5>1. 0 + (i - 1) * Md!blocksize + j = j /\ (q + i - 1) * Md!blocksize + j = q * Md!blocksize + j /\ j < index + length
          BY <1>1, <1>2, <1>9
        <5> QED BY <1>6, <1>7, <5>1
      <4> QED BY <4>1 DEF MdContinue
    <3> QED BY <1>6, <3>1, MdCutFurther
  <2> HIDE DEF one
  <2>6. MdContinue(one, b, input, first, chunks)
    <3>1. ASSUME NEW i \in 1 .. chunks, NEW j \in 0 .. Md!blocksize - 1
          PROVE  input[first + (i - 1) * Md!blocksize + j] = b[(Len(one) + i - 1) * Md!blocksize + j]
      <4>1. first + (i - 1) * Md!blocksize + j \in 0 .. length - 1
        <5>1. i - 1 \in Nat /\ i - 1 < chunks
          BY <2>1
        <5>2. (i - 1) * Md!blocksize + j \in Nat /\ (i - 1) * Md!blocksize + j < chunks * Md!blocksize
          BY <1>1, <2>1, <5>1, Position, BlocksInOrder
        <5> QED BY <1>1, <1>2, <2>1, <5>2
      <4>2. n + (first + (i - 1) * Md!blocksize + j) = (Len(one) + i - 1) * Md!blocksize + j
        BY <1>1, <1>2, <2>5
      <4> QED BY <4>1, <4>2 DEF Piece
    <3> QED BY <3>1 DEF MdContinue
  <2>7. /\ MdCut(Md!transform(one, input, first, chunks), b, S)
        /\ Len(Md!transform(one, input, first, chunks)) = q + 1 + chunks
    <3>1. /\ MdCut(Md!transform(one, input, first, chunks), b, S)
          /\ Len(Md!transform(one, input, first, chunks)) = Len(one) + chunks
      <4>1. chunks \in Nat /\ MdCut(one, b, S)
        BY <2>1, <2>5
      <4> HIDE DEF first
      <4> QED BY <2>6, <4>1, MdCutFurther
    <3> QED BY <2>1, <2>5, <3>1
  <2>8. ASSUME NEW j \in 0 .. tail - 1
        PROVE  rest[j] = b[(q + 1 + chunks) * Md!blocksize + j]
    <3>1. j \in 0 .. Md!blocksize - 1 /\ j < length - i0 /\ i0 + j \in 0 .. length - 1
      BY <1>1, <1>2, <2>1
    <3>2. n + (i0 + j) = (q + 1 + chunks) * Md!blocksize + j
      BY <1>1, <1>2, <2>1
    <3>3. rest[j] = input[i0 + j]
      BY <3>1
    <3> QED BY <3>1, <3>2, <3>3 DEF Piece
  <2> HIDE DEF rest
  <2>9. /\ a.count = Count(n + length) /\ a.buffer = rest
        /\ a.state = Md!transform(one, input, first, chunks)
    BY <2>4 DEF Md!Context
  <2> HIDE DEF a
  <2>10. \A j \in 0 .. ((n + length) % Md!blocksize) - 1 :
           a.buffer[j] = b[((n + length) \div Md!blocksize) * Md!blocksize + j]
    BY <2>3, <2>8, <2>9
  <2>11. MdCut(a.state, b, S) /\ Len(a.state) = (n + length) \div Md!blocksize
    BY <2>3, <2>7, <2>9
  <2> QED BY <2>9, <2>10, <2>11, Zenon DEF Represents
<1> QED BY <1>1, <1>2, <1>8, <1>9

-----------------------------------------------------------------------------
\* The end of a message.  Byte i of the message of n bytes padded to `total`.
Field(n) == Md!encode(Count(n))

MdPaddedByte(n, total, i) ==
  IF i < n THEN Md!MessageByte(i)
  ELSE IF i = n THEN Md!Octet(128)
  ELSE IF i < total - 8 THEN Md!Octet(0)
  ELSE Field(n)[i - (total - 8)]

MdPaddedBytes(n, total) == {MdPaddedByte(n, total, i) : i \in Nat}
MdPaddedMessage(n, total) == [i \in Nat |-> MdPaddedByte(n, total, i)]

MdMessageBytes == {Md!MessageByte(i) : i \in Nat}
MdMessage == [i \in Nat |-> Md!MessageByte(i)]

\* finalize pads to where the standard's padded message ends.
LEMMA MdPaddingEnds ==
  ASSUME NEW n \in Nat
  PROVE  \E N \in Nat : /\ Md!RoundUp(n + 1 + 8, Md!blocksize) = N * Md!blocksize
                        /\ n + Md!padLen(n % 64) + 8 = N * Md!blocksize
                        /\ Md!padLen(n % 64) \in 1 .. 64
                        /\ N = (n + Md!padLen(n % 64) + 8) \div Md!blocksize
<1>1. n \div 64 \in Nat /\ n % 64 \in 0 .. 63 /\ n = (n \div 64) * 64 + (n % 64)
  OBVIOUS
<1>2. CASE n % 64 < 56
  <2>1. Md!padLen(n % 64) = 56 - (n % 64)
    BY <1>2 DEF Md!padLen
  <2>2. /\ (n + 1 + 8 + 64 - 1) \div 64 = (n \div 64) + 1
        /\ n + (56 - (n % 64)) + 8 = ((n \div 64) + 1) * 64
    BY <1>1, <1>2
  <2>3. (n + (56 - (n % 64)) + 8) \div 64 = (n \div 64) + 1
    BY <1>1, <1>2
  <2> WITNESS (n \div 64) + 1 \in Nat
  <2> QED BY <1>1, <1>2, <2>1, <2>2, <2>3 DEF Md!RoundUp, Md!blocksize
<1>3. CASE ~(n % 64 < 56)
  <2>1. Md!padLen(n % 64) = 120 - (n % 64)
    BY <1>3 DEF Md!padLen
  <2>2. /\ (n + 1 + 8 + 64 - 1) \div 64 = (n \div 64) + 2
        /\ n + (120 - (n % 64)) + 8 = ((n \div 64) + 2) * 64
    BY <1>1, <1>3
  <2>3. (n + (120 - (n % 64)) + 8) \div 64 = (n \div 64) + 2
    BY <1>1, <1>3
  <2> WITNESS (n \div 64) + 2 \in Nat
  <2> QED BY <1>1, <1>3, <2>1, <2>2, <2>3 DEF Md!RoundUp, Md!blocksize
<1> QED BY <1>2, <1>3

\* The blocks absorbed before the end are blocks of the padded message.
LEMMA MdAbsorbedIsPadded ==
  ASSUME Md!MD5Assumption, NEW n \in Nat, NEW total \in Nat, NEW h,
         MdCut(h, MdMessage, MdMessageBytes), Len(h) * Md!blocksize <= n
  PROVE  MdCut(h, MdPaddedMessage(n, total), MdPaddedBytes(n, total))
<1>1. /\ Md!blocksize \in Nat \ {0} /\ Len(h) \in Nat
      /\ h \in Seq([0 .. Md!blocksize - 1 -> MdMessageBytes])
  BY BlockSize DEF MdCut
<1>2. ASSUME NEW k \in 1 .. Len(h), NEW j \in 0 .. Md!blocksize - 1
      PROVE  /\ h[k][j] = MdPaddedMessage(n, total)[(k - 1) * Md!blocksize + j]
             /\ h[k][j] \in MdPaddedBytes(n, total)
  <2>1. k - 1 \in Nat /\ (k - 1) * Md!blocksize + j \in Nat /\ (k - 1) * Md!blocksize + j < Len(h) * Md!blocksize
    <3>1. k - 1 \in Nat /\ k - 1 < Len(h)
      BY <1>1
    <3> QED BY <1>1, <3>1, Position, BlocksInOrder
  <2>2. (k - 1) * Md!blocksize + j < n /\ (k - 1) * Md!blocksize + j \in Nat
    BY <1>1, <2>1
  <2>3. h[k][j] = MdMessage[(k - 1) * Md!blocksize + j]
    BY DEF MdCut
  <2>4. h[k][j] = MdPaddedByte(n, total, (k - 1) * Md!blocksize + j)
    BY <2>2, <2>3 DEF MdMessage, MdPaddedByte
  <2> QED BY <2>2, <2>4 DEF MdPaddedMessage, MdPaddedBytes
<1>3. h \in Seq([0 .. Md!blocksize - 1 -> MdPaddedBytes(n, total)])
  <2>1. \A k \in 1 .. Len(h) : h[k] \in [0 .. Md!blocksize - 1 -> MdPaddedBytes(n, total)]
    <3>1. \A k \in 1 .. Len(h) : h[k] \in [0 .. Md!blocksize - 1 -> MdMessageBytes]
      BY <1>1
    <3> QED BY <1>2, <3>1
  <2> DEFINE T == [0 .. Md!blocksize - 1 -> MdPaddedBytes(n, total)]
  <2>2. \A k \in 1 .. Len(h) : h[k] \in T
    BY <2>1
  <2> HIDE DEF T
  <2>3. h \in Seq(T)
    BY <1>1, <2>2, ElementsOf
  <2> QED BY <2>3 DEF T
<1> QED BY <1>2, <1>3 DEF MdCut

\* A list of blocks that is cut from the padded message is the standard's.
LEMMA MdCutIsHash ==
  ASSUME Md!MD5Assumption, NEW n \in Nat, NEW N \in Nat, NEW h,
         Md!RoundUp(n + 1 + 8, Md!blocksize) = N * Md!blocksize,
         MdCut(h, MdPaddedMessage(n, N * Md!blocksize), MdPaddedBytes(n, N * Md!blocksize)), Len(h) = N
  PROVE  h = Md!Hash(n)
<1> DEFINE total == N * Md!blocksize
           bytes == [i \in 0 .. total - 1 |-> MdPaddedByte(n, total, i)]
<1>1. Md!blocksize \in Nat \ {0} /\ total \in Nat
  BY BlockSize
<1>2. total \div Md!blocksize = N
  <2>1. (N * Md!blocksize + 0) \div Md!blocksize = N
    BY <1>1, DivisionIsUnique
  <2> QED BY <1>1, <2>1
<1>3. Md!Hash(n) = Md!BlocksOf(bytes, 0, N, Md!blocksize)
  <2> DEFINE given == [i \in 0 .. total - 1 |->
                         IF i < n THEN Md!MessageByte(i)
                         ELSE IF i = n THEN Md!Octet(128)
                         ELSE IF i < total - 8 THEN Md!Octet(0)
                         ELSE Field(n)[i - (total - 8)]]
  <2>1. given = bytes
    BY DEF MdPaddedByte
  <2>2. Md!Hash(n) = Md!Padded(n, Md!blocksize, 8, Field(n))
    BY DEF Md!Hash, Field, Count
  <2>3. Md!RoundUp(n + 1 + 8, Md!blocksize) = total
    OBVIOUS
  <2> HIDE DEF total, bytes
  <2>4. Md!Padded(n, Md!blocksize, 8, Field(n)) = Md!BlocksOf(given, 0, total \div Md!blocksize, Md!blocksize)
    BY <2>3 DEF Md!Padded
  <2> QED BY <1>2, <2>1, <2>2, <2>4
<1>4. ASSUME NEW k \in 1 .. N, NEW j \in 0 .. Md!blocksize - 1
      PROVE  h[k][j] = Md!BlocksOf(bytes, 0, N, Md!blocksize)[k][j]
  <2>1. (k - 1) * Md!blocksize + j < total /\ k - 1 \in Nat /\ (k - 1) * Md!blocksize + j \in Nat
    BY <1>1, BlocksInOrder, Position
  <2>2. 0 + (k - 1) * Md!blocksize + j = (k - 1) * Md!blocksize + j /\ (k - 1) * Md!blocksize + j \in 0 .. total - 1
    BY <1>1, <2>1
  <2>3. Md!BlocksOf(bytes, 0, N, Md!blocksize)[k][j] = bytes[0 + (k - 1) * Md!blocksize + j]
    <3> HIDE DEF bytes
    <3> QED BY DEF Md!BlocksOf
  <2>4. h[k][j] = MdPaddedMessage(n, total)[(k - 1) * Md!blocksize + j]
    BY DEF MdCut
  <2> QED BY <2>1, <2>2, <2>3, <2>4 DEF MdPaddedMessage
<1>5. h \in Seq([0 .. Md!blocksize - 1 -> MdPaddedBytes(n, total)]) /\ Len(h) = N
  BY DEF MdCut
<1> HIDE DEF bytes, total
<1>6. ASSUME NEW k \in 1 .. N
      PROVE  h[k] = Md!BlocksOf(bytes, 0, N, Md!blocksize)[k]
  <2> DEFINE D == 0 .. Md!blocksize - 1
             f == h[k]
             g == Md!BlocksOf(bytes, 0, N, Md!blocksize)[k]
  <2>1. f \in [D -> MdPaddedBytes(n, total)]
    BY <1>5
  <2>2. g = [j \in D |-> bytes[0 + (k - 1) * Md!blocksize + j]]
    BY DEF Md!BlocksOf
  <2>3. \A j \in D : f[j] = g[j]
    BY <1>4
  <2> SUFFICES f = g
    OBVIOUS
  <2> HIDE DEF D, f, g
  <2> QED BY <2>1, <2>2, <2>3
<1>7. h = Md!BlocksOf(bytes, 0, N, Md!blocksize)
  BY <1>5, <1>6 DEF Md!BlocksOf
<1> QED BY <1>3, <1>7

\* A context that has absorbed the message is at the end of its part of the
\* padded message.
LEMMA MessageIsPadded ==
  ASSUME Md!MD5Assumption, NEW n \in Nat, NEW total \in Nat, NEW c,
         Represents(c, MdMessage, n, MdMessageBytes)
  PROVE  Represents(c, MdPaddedMessage(n, total), n, MdPaddedBytes(n, total))
<1>1. Md!blocksize \in Nat \ {0} /\ n \div Md!blocksize \in Nat /\ n % Md!blocksize \in 0 .. Md!blocksize - 1
      /\ n = (n \div Md!blocksize) * Md!blocksize + (n % Md!blocksize)
  BY BlockSize, Division
<1> DEFINE q == n \div Md!blocksize
           r == n % Md!blocksize
<1>2. /\ c.count = Count(n) /\ MdCut(c.state, MdMessage, MdMessageBytes) /\ Len(c.state) = q
      /\ \A j \in 0 .. r - 1 : c.buffer[j] = MdMessage[q * Md!blocksize + j]
  BY DEF Represents
<1>3. q \in Nat /\ r \in 0 .. Md!blocksize - 1 /\ n = q * Md!blocksize + r
  BY <1>1
<1> HIDE DEF q, r
<1>4. Len(c.state) * Md!blocksize <= n
  BY <1>1, <1>2, <1>3
<1>5. MdCut(c.state, MdPaddedMessage(n, total), MdPaddedBytes(n, total))
  BY <1>2, <1>4, MdAbsorbedIsPadded
<1>6. ASSUME NEW j \in 0 .. r - 1
      PROVE  c.buffer[j] = MdPaddedMessage(n, total)[q * Md!blocksize + j]
  <2>1. q * Md!blocksize + j \in Nat /\ q * Md!blocksize + j < n
    BY <1>1, <1>3
  <2>2. MdMessage[q * Md!blocksize + j] = Md!MessageByte(q * Md!blocksize + j)
    BY <2>1 DEF MdMessage
  <2> QED BY <1>2, <2>1, <2>2 DEF MdPaddedMessage, MdPaddedByte
<1> QED BY <1>2, <1>5, <1>6 DEF Represents, q, r

\* finalize leaves the hash of the standard.
LEMMA FinalizedIsHash ==
  ASSUME Md!MD5Assumption, NEW n \in Nat, NEW c, Represents(c, MdMessage, n, MdMessageBytes)
  PROVE  LET p == Md!Absorbed(c, Md!padding, Md!padLen((c.count[0] \div 8) % 64))
         IN  Md!Absorbed(p, Md!encode(c.count), 8).state = Md!Hash(n)
<1>1. PICK N \in Nat : /\ Md!RoundUp(n + 1 + 8, Md!blocksize) = N * Md!blocksize
                       /\ n + Md!padLen(n % 64) + 8 = N * Md!blocksize
                       /\ Md!padLen(n % 64) \in 1 .. 64
                       /\ N = (n + Md!padLen(n % 64) + 8) \div Md!blocksize
  BY MdPaddingEnds
<1> DEFINE len == Md!padLen(n % 64)
           total == N * Md!blocksize
           PM == MdPaddedMessage(n, total)
           PB == MdPaddedBytes(n, total)
           p == Md!Absorbed(c, Md!padding, len)
           d == Md!Absorbed(p, Md!encode(c.count), 8)
<1>2. /\ len \in 1 .. 64 /\ total = n + len + 8 /\ total \in Nat /\ N = (n + len + 8) \div Md!blocksize
      /\ MdWordMod \in Nat /\ 64 < MdWordMod
  BY <1>1, Words
<1>3. c.count = Count(n) /\ (c.count[0] \div 8) % 64 = n % 64
  BY IndexOfCount DEF Represents
<1> HIDE DEF len, total
<1>4. PM \in [Nat -> PB]
  BY DEF MdPaddedMessage, MdPaddedBytes
<1>5. Represents(c, PM, n, PB)
  BY <1>2, MessageIsPadded
<1>6. Piece(Md!padding, PM, n, len)
  <2>1. ASSUME NEW i \in 0 .. len - 1
        PROVE  Md!padding[i] = PM[n + i]
    <3>1. i \in 0 .. 63 /\ n + i \in Nat /\ n + i < total - 8 /\ ~(n + i < n)
      BY <1>2
    <3>2. n + i = n <=> i = 0
      BY <3>1
    <3> QED BY <3>1, <3>2 DEF Md!padding, MdPaddedMessage, MdPaddedByte
  <2> QED BY <2>1 DEF Piece
<1> HIDE DEF PM, PB
<1>7. Represents(p, PM, n + len, PB)
  <2>1. len \in 0 .. MdWordMod - 1
    BY <1>2
  <2> QED BY <1>4, <1>5, <1>6, <2>1, AbsorbedGoesOn
<1>8. Piece(Md!encode(c.count), PM, n + len, 8)
  <2>1. ASSUME NEW i \in 0 .. 8 - 1
        PROVE  Md!encode(c.count)[i] = PM[n + len + i]
    <3> DEFINE x == n + len + i
    <3>1. x \in Nat /\ ~(x < n) /\ x # n /\ ~(x < total - 8) /\ x - (total - 8) = i
      BY <1>2
    <3> HIDE DEF x
    <3>2. i \in 0 .. 7
      OBVIOUS
    <3>3. PM[x] = Field(n)[i]
      BY <3>1 DEF PM, MdPaddedMessage, MdPaddedByte
    <3>4. Md!encode(c.count) = Field(n)
      BY <1>3 DEF Field
    <3> QED BY <3>3, <3>4 DEF x
  <2> QED BY <2>1 DEF Piece
<1>9. Represents(d, PM, n + len + 8, PB)
  <2>1. 8 \in 0 .. MdWordMod - 1 /\ n + len \in Nat
    BY <1>2
  <2> HIDE DEF p
  <2> QED BY <1>4, <1>7, <1>8, <2>1, AbsorbedGoesOn
<1> HIDE DEF d
<1>10. MdCut(d.state, PM, PB) /\ Len(d.state) = N
  BY <1>2, <1>9 DEF Represents
<1>11. d.state = Md!Hash(n)
  BY <1>1, <1>10, MdCutIsHash DEF PM, PB, total
<1> QED BY <1>3, <1>11 DEF d, p, len

-----------------------------------------------------------------------------
\* Until finalize, the object has absorbed what its user has sent.
HoldsTheMessage ==
  ~finalized => Represents(Md!Context(count, buffer, state), MdMessage, mdSent, MdMessageBytes)

\* The inductive invariant.
MdIInv == Md!TypeOK /\ HoldsTheMessage

\* Counting and absorbing keep the types.
LEMMA AbsorbedTypes ==
  ASSUME Md!MD5Assumption, NEW c, c.count \in [0 .. 1 -> Md!uint4], NEW input, NEW length \in Nat
  PROVE  /\ Md!Absorbed(c, input, length).count \in [0 .. 1 -> Md!uint4]
         /\ DOMAIN Md!Absorbed(c, input, length).buffer = 0 .. Md!blocksize - 1
<1>1. MdWordMod \in Nat \ {0} /\ MdWordMod \div 8 \in Nat \ {0}
  BY Words
<1>2. c.count[0] \in Nat /\ c.count[1] \in Nat
  BY <1>1 DEF Md!uint4
<1>3. Md!Counted(c.count, length) \in [0 .. 1 -> Md!uint4]
  <2> DEFINE low == (c.count[0] + ((length * 8) % MdWordMod)) % MdWordMod
             carry == IF low < (length * 8) % MdWordMod THEN 1 ELSE 0
             high == (c.count[1] + carry + length \div (MdWordMod \div 8)) % MdWordMod
  <2>1. (length * 8) % MdWordMod \in Nat
    BY <1>1, Division
  <2>2. low \in 0 .. MdWordMod - 1
    <3> DEFINE x == c.count[0] + ((length * 8) % MdWordMod)
    <3>1. x \in Nat
      BY <1>2, <2>1
    <3> HIDE DEF x
    <3>2. x % MdWordMod \in 0 .. MdWordMod - 1
      BY <1>1, <3>1, Division
    <3> QED BY <3>2 DEF x
  <2>3. high \in 0 .. MdWordMod - 1
    <3> DEFINE x == c.count[1] + carry + length \div (MdWordMod \div 8)
    <3>1. length \div (MdWordMod \div 8) \in Nat
      BY <1>1, Division
    <3>2. x \in Nat
      <4>1. carry \in Nat
        OBVIOUS
      <4> HIDE DEF carry
      <4> QED BY <1>2, <3>1, <4>1
    <3> HIDE DEF x
    <3>3. x % MdWordMod \in 0 .. MdWordMod - 1
      BY <1>1, <3>2, Division
    <3> QED BY <3>3 DEF x
  <2>4. Md!Counted(c.count, length) = [c.count EXCEPT ![0] = low, ![1] = high]
    BY DEF Md!Counted
  <2> HIDE DEF low, high
  <2> QED BY <2>2, <2>3, <2>4 DEF Md!uint4
<1> QED BY <1>3 DEF Md!Absorbed, Md!Context

-----------------------------------------------------------------------------
\* A new object has absorbed nothing.
LEMMA MdInitInv ==
  ASSUME Md!MD5Assumption
  PROVE  Md!Init => MdIInv
<1> SUFFICES ASSUME Md!Init PROVE MdIInv
  OBVIOUS
<1>1. MdWordMod \in Nat \ {0} /\ MaxBytes \in Nat /\ Md!blocksize \in Nat \ {0}
  BY Words, BlockSize DEF Md!MD5Assumption
<1>2. /\ count = [w \in 0 .. 1 |-> 0] /\ state = <<>> /\ finalized = FALSE /\ mdSent = 0
      /\ buffer = [i \in 0 .. Md!blocksize - 1 |-> Md!Garbage]
  BY DEF Md!Init
<1>3. Md!TypeOK
  BY <1>1, <1>2 DEF Md!TypeOK, Md!uint4
<1>4. Count(0) = [w \in 0 .. 1 |-> 0]
  <2>1. (8 * 0) % MdWordMod = 0 /\ ((8 * 0) \div MdWordMod) % MdWordMod = 0
    BY <1>1
  <2> QED BY <2>1 DEF Count
<1>5. 0 \div Md!blocksize = 0 /\ 0 % Md!blocksize = 0
  BY <1>1
<1>6. MdCut(<<>>, MdMessage, MdMessageBytes) /\ Len(<<>>) = 0
  BY DEF MdCut
<1> DEFINE c == Md!Context(count, buffer, state)
<1>7. c.count = count /\ c.state = state
  BY DEF Md!Context
<1> HIDE DEF c
<1>8. Represents(c, MdMessage, 0, MdMessageBytes)
  BY <1>2, <1>4, <1>5, <1>6, <1>7 DEF Represents
<1> QED BY <1>2, <1>3, <1>8 DEF MdIInv, HoldsTheMessage, c

\* update goes on with the next bytes of the message; after finalize only the
\* types are left.
LEMMA UpdateKeepsInv ==
  ASSUME Md!MD5Assumption, MdIInv, NEW length \in MdLens,
         Len(state) * Md!blocksize + Md!blocksize + length <= MaxBytes, Md!update(length)
  PROVE  MdIInv'
<1> DEFINE input == [i \in 0 .. length - 1 |->
                       IF finalized THEN Md!Octet(0) ELSE Md!MessageByte(mdSent + i)]
           here == Md!Context(count, buffer, state)
           c == Md!Absorbed(here, input, length)
<1>1. /\ count' = c.count /\ buffer' = c.buffer /\ state' = c.state /\ finalized' = finalized
      /\ mdSent' = IF finalized THEN mdSent ELSE mdSent + length
  BY DEF Md!update
<1>2. /\ length \in 0 .. MdWordMod - 1 /\ length \in Nat /\ MaxBytes \in Nat /\ mdSent \in 0 .. MaxBytes
      /\ finalized \in BOOLEAN /\ Md!blocksize \in Nat \ {0}
  BY Words, BlockSize DEF Md!MD5Assumption, MdIInv, Md!TypeOK
<1>3. here.count = count /\ here.state = state /\ count \in [0 .. 1 -> Md!uint4]
  BY DEF Md!Context, MdIInv, Md!TypeOK
<1>4. c.count \in [0 .. 1 -> Md!uint4] /\ DOMAIN c.buffer = 0 .. Md!blocksize - 1
  <2> HIDE DEF here, input
  <2> QED BY <1>2, <1>3, AbsorbedTypes
<1>5. ASSUME ~finalized
      PROVE  Represents(here, MdMessage, mdSent, MdMessageBytes)
  BY <1>5 DEF MdIInv, HoldsTheMessage
<1>6. mdSent' \in 0 .. MaxBytes
  <2>1. CASE ~finalized
    <3>1. Len(state) = mdSent \div Md!blocksize
      BY <1>3, <1>5, <2>1 DEF Represents
    <3>2. mdSent = (mdSent \div Md!blocksize) * Md!blocksize + (mdSent % Md!blocksize) /\ mdSent % Md!blocksize \in 0 .. Md!blocksize - 1
      BY <1>2, Division
    <3> HIDE DEF c
    <3> QED BY <1>1, <1>2, <2>1, <3>1, <3>2
  <2> QED BY <1>1, <1>2, <2>1
<1>7. ASSUME ~finalized
      PROVE  Represents(c, MdMessage, mdSent + length, MdMessageBytes)
  <2>1. MdMessage \in [Nat -> MdMessageBytes]
    BY DEF MdMessage, MdMessageBytes
  <2>2. Piece(input, MdMessage, mdSent, length)
    BY <1>2, <1>7 DEF Piece, MdMessage
  <2> HIDE DEF here, input
  <2> QED BY <1>2, <1>5, <1>7, <2>1, <2>2, AbsorbedGoesOn
<1> HIDE DEF c
<1>8. Md!TypeOK'
  BY <1>1, <1>2, <1>4, <1>6 DEF Md!TypeOK, Md!uint4
<1>9. HoldsTheMessage'
  <2>1. CASE ~finalized
    <3> DEFINE new == Md!Context(c.count, c.buffer, c.state)
    <3>1. new.count = c.count /\ new.buffer = c.buffer /\ new.state = c.state
      BY DEF Md!Context
    <3> HIDE DEF new
    <3>2. Represents(new, MdMessage, mdSent + length, MdMessageBytes)
      BY <1>7, <2>1, <3>1 DEF Represents
    <3>3. mdSent' = mdSent + length /\ new = Md!Context(count', buffer', state')
      BY <1>1, <2>1 DEF new
    <3> QED BY <3>2, <3>3 DEF HoldsTheMessage, MdMessage, MdMessageBytes
  <2> QED BY <1>1, <2>1 DEF HoldsTheMessage
<1> QED BY <1>8, <1>9 DEF MdIInv

\* finalize empties the counter and the buffer.
LEMMA FinalizeKeepsInv ==
  ASSUME Md!MD5Assumption, MdIInv, Md!finalize
  PROVE  MdIInv'
<1>1. CASE Md!Finalizes
  <2>1. /\ finalized' = TRUE /\ mdSent' = mdSent /\ count' = [w \in 0 .. 1 |-> 0]
        /\ buffer' = [i \in 0 .. Md!blocksize - 1 |-> Md!Octet(0)]
    BY <1>1 DEF Md!finalize, Md!Finalizes
  <2>2. 0 \in Md!uint4
    BY Words DEF Md!uint4
  <2>3. Md!TypeOK'
    BY <2>1, <2>2 DEF MdIInv, Md!TypeOK, Md!uint4
  <2> QED BY <2>1, <2>3 DEF MdIInv, HoldsTheMessage
<1>2. CASE UNCHANGED Md!vars
  BY <1>2 DEF Md!vars, MdIInv, Md!TypeOK, HoldsTheMessage, Md!uint4, MdMessage, MdMessageBytes
<1> QED BY <1>1, <1>2 DEF Md!finalize

\* Every call keeps the invariant.
LEMMA MdNextInv ==
  ASSUME Md!MD5Assumption
  PROVE  MdIInv /\ [Md!Next]_(Md!vars) => MdIInv'
<1> SUFFICES ASSUME MdIInv, [Md!Next]_(Md!vars) PROVE MdIInv'
  OBVIOUS
<1>1. ASSUME NEW length \in MdLens, Len(state) * Md!blocksize + Md!blocksize + length <= MaxBytes,
             Md!update(length)
      PROVE  MdIInv'
  BY <1>1, UpdateKeepsInv
<1>2. CASE Md!finalize
  BY <1>2, FinalizeKeepsInv
<1>3. CASE UNCHANGED Md!vars
  BY <1>3 DEF Md!vars, MdIInv, Md!TypeOK, HoldsTheMessage, Md!uint4, MdMessage, MdMessageBytes
<1> QED BY <1>1, <1>2, <1>3 DEF Md!Next

\* Every step of an object is one of the abstract hash object, or none.
LEMMA StepIsAbstract ==
  ASSUME Md!MD5Assumption, MdIInv, [Md!Next]_(Md!vars)
  PROVE  [Md!Object!Next]_(Md!Object!vars)
<1> USE DEF Md!Object!vars, Md!hexdigest
<1>1. ASSUME NEW length \in MdLens, Md!update(length)
      PROVE  [Md!Object!Next]_(Md!Object!vars)
  <2>1. /\ finalized' = finalized /\ mdDigest' = mdDigest
        /\ mdSent' = IF finalized THEN mdSent ELSE mdSent + length
    BY <1>1 DEF Md!update
  <2>2. length \in Nat /\ mdSent \in Nat /\ finalized \in BOOLEAN
    BY DEF Md!MD5Assumption, MdIInv, Md!TypeOK
  <2>3. CASE finalized
    BY <2>1, <2>3
  <2>4. CASE ~finalized
    BY <2>1, <2>2, <2>4 DEF Md!Object!Next, Md!Object!Update
  <2> QED BY <2>3, <2>4
<1>2. CASE Md!finalize
  <2>1. CASE Md!Finalizes
    <3> DEFINE here == Md!Context(count, buffer, state)
    <3>1. Represents(here, MdMessage, mdSent, MdMessageBytes) /\ mdSent \in Nat
      BY <2>1 DEF Md!Finalizes, MdIInv, HoldsTheMessage, Md!TypeOK
    <3>2. here.count = count
      BY DEF Md!Context
    <3>3. /\ finalized' = TRUE /\ mdSent' = mdSent
          /\ mdDigest' = Md!Absorbed(Md!Absorbed(here, Md!padding, Md!padLen((count[0] \div 8) % 64)),
                                Md!encode(count), 8).state
      BY <1>2, <2>1 DEF Md!finalize, Md!Finalizes
    <3> HIDE DEF here
    <3>4. mdDigest' = Md!Hash(mdSent)
      BY <3>1, <3>2, <3>3, FinalizedIsHash
    <3> QED BY <2>1, <3>3, <3>4 DEF Md!Finalizes, Md!Object!Next, Md!Object!Final
  <2> QED BY <1>2, <2>1 DEF Md!finalize, Md!vars
<1>3. CASE UNCHANGED Md!vars
  BY <1>3 DEF Md!vars
<1> QED BY <1>1, <1>2, <1>3 DEF Md!Next

\* The inductive invariant: the types, and that until finalize the object has
\* absorbed the bytes its user has sent, with the bits counted in both words,
\* whatever the pieces, as long as each leaves room for a block below 2^32, where
\* the guard of the loop over the blocks does not wrap (MD5.cpp:254-283).
THEOREM MdInvariantHolds ==
  ASSUME Md!MD5Assumption
  PROVE  Md!Spec => []MdIInv
<1>1. Md!Init => MdIInv
  BY MdInitInv
<1>2. MdIInv /\ [Md!Next]_(Md!vars) => MdIInv'
  BY MdNextInv
<1> QED BY <1>1, <1>2, PTL DEF Md!Spec

\* hexdigest is the hash that RFC 1321 defines for the bytes sent before
\* finalize, for every way to cut them into pieces for which i + blocksize does
\* not wrap (MD5.cpp:274), and although update and finalize may be called again
\* (MD5.cpp:254-283,306-326,337).
THEOREM TheDigestIsImplemented ==
  ASSUME Md!MD5Assumption
  PROVE  Md!Spec => Md!ImplementsDigest
<1>1. Md!Init => Md!Object!Init
  BY DEF Md!Init, Md!Object!Init, Md!hexdigest
<1>2. MdIInv /\ [Md!Next]_(Md!vars) => [Md!Object!Next]_(Md!Object!vars)
  BY StepIsAbstract
<1> QED BY <1>1, <1>2, MdInvariantHolds, PTL DEF Md!Spec, Md!Object!Spec, Md!ImplementsDigest
=============================================================================
