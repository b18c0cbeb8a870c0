------------------------------- MODULE sha256 -------------------------------
(***************************************************************************)
(* Class SHA256: one hash object and a user that calls init, then update   *)
(* any number of times, then final, and may start again with init at any   *)
(* time; sha256(input) is one such round.                                  *)
(*                                                                         *)
(* The chaining value m_h is represented by the list of blocks it has      *)
(* absorbed since init, so two equal lists stand for equal digests.        *)
(* Class SHA512 is the same code with other constants: see sha512.         *)
(*                                                                         *)
(* Bounds: unsigned int has WordMod values (2^32 in the code), messages    *)
(* have at most MaxMessage bytes and come in pieces of the sizes in Lens.  *)
(***************************************************************************)
EXTENDS Octets

CONSTANTS
  SHA224_256_BLOCK_SIZE,   \* 64
  LengthBytes,             \* bytes of the length field, 8
  WordMod,                 \* 2^32
  Lens, MaxMessage

Sha256Assumption ==
  /\ SHA224_256_BLOCK_SIZE \in Nat /\ LengthBytes \in Nat
  /\ 4 <= LengthBytes /\ LengthBytes < SHA224_256_BLOCK_SIZE
  /\ WordMod \in Nat /\ SHA224_256_BLOCK_SIZE < WordMod
  /\ WordMod % SHA224_256_BLOCK_SIZE = 0
  /\ Lens \subseteq 0 .. WordMod - SHA224_256_BLOCK_SIZE
  /\ MaxMessage \in Nat
  /\ \A x \in 0 .. WordMod - 1, d \in 4 .. LengthBytes - 1 :    \* a word has four bytes
       OctetOf(x, d) = Octet(0)

VARIABLES
  m_tot_len,   \* bytes absorbed into m_h, an unsigned int
  m_len,       \* bytes waiting in m_block
  m_block,     \* two blocks of memory
  m_h,         \* blocks absorbed since init
  digest,      \* what final returned, <<>> before
  stage,       \* what the user may call next
  sent         \* bytes given to update since init

vars == <<m_tot_len, m_len, m_block, m_h, digest, stage, sent>>

B == SHA224_256_BLOCK_SIZE

TypeOK ==
  /\ m_tot_len \in 0 .. WordMod - 1
  /\ m_len \in 0 .. B - 1
  /\ DOMAIN m_block = 0 .. 2 * B - 1
  /\ stage \in {"new", "open", "done"}
  /\ sent \in 0 .. MaxMessage

\* SHA256 has no constructor: the fields hold anything until init is called.
Init ==
  /\ m_tot_len = 0 /\ m_len = 0
  /\ m_block = [i \in 0 .. 2 * B - 1 |-> Garbage]
  /\ m_h = <<>> /\ digest = <<>> /\ sent = 0
  /\ stage = "new"

\* transform: the compression function over block_nb blocks.
transform(h, message, from, block_nb) == h \o BlocksOf(message, from, block_nb, B)

\* The bytes left in m_block are not bytes of the message that starts here.
init ==
  /\ stage' = "open"
  /\ m_h' = <<>> /\ m_len' = 0 /\ m_tot_len' = 0
  /\ sent' = 0 /\ digest' = <<>>
  /\ m_block' = [i \in 0 .. 2 * B - 1 |-> Garbage]

-----------------------------------------------------------------------------
\* The piece leaves the block unfinished.
Fits(len) == (m_len + len) % WordMod < B

Counted(block_nb) == (m_tot_len + (block_nb + 1) * B) % WordMod

update(len) ==
  LET rem_len  == IF len < B - m_len THEN len ELSE B - m_len
      new_len  == len - rem_len
      block_nb == new_len \div B
      tail     == new_len % B
      message  == [i \in 0 .. len - 1 |-> MessageByte(sent + i)]
      filled   == [i \in 0 .. 2 * B - 1 |->
                     IF m_len <= i /\ i < m_len + rem_len THEN message[i - m_len]
                                                          ELSE m_block[i]]
  IN  /\ stage = "open"
      /\ sent' = sent + len
      /\ \/ /\ Fits(len)
            /\ m_len' = (m_len + len) % WordMod
            /\ m_block' = filled
            /\ UNCHANGED <<m_h, m_tot_len>>
         \/ /\ ~Fits(len)
            /\ m_h' = transform(transform(m_h, filled, 0, 1), message, rem_len, block_nb)
            /\ m_block' = [i \in 0 .. 2 * B - 1 |->
                 IF i < tail THEN message[rem_len + block_nb * B + i] ELSE filled[i]]
            /\ m_len' = tail
            /\ m_tot_len' = Counted(block_nb)
      /\ UNCHANGED <<digest, stage>>

-----------------------------------------------------------------------------
\* Mutant: the byte 0x80 is forgotten when the room for the length is counted.
PadBlocks_OffByOne == IF B - LengthBytes < m_len % B THEN 2 ELSE 1

\* The padding fits into the block being filled, or needs another one.
PadBlocks == IF B - (LengthBytes + 1) < m_len % B THEN 2 ELSE 1

final ==
  LET pm_len == PadBlocks * B
      len_b  == ((m_tot_len + m_len) * 8) % WordMod
      padded == [i \in 0 .. 2 * B - 1 |->
                   IF pm_len - 4 <= i /\ i < pm_len THEN OctetOf(len_b, pm_len - 1 - i)
                   ELSE IF i = m_len THEN Octet(128)
                   ELSE IF m_len < i /\ i < pm_len THEN Octet(0)
                   ELSE m_block[i]]
  IN  /\ stage = "open" /\ stage' = "done"
      /\ m_block' = padded
      /\ m_h' = transform(m_h, padded, 0, PadBlocks)
      /\ digest' = m_h'
      /\ UNCHANGED <<m_tot_len, m_len, sent>>

Next ==
  \/ init
  \/ \E len \in Lens : sent + len <= MaxMessage /\ update(len)
  \/ final

Spec == Init /\ [][Next]_vars

-----------------------------------------------------------------------------
\* Between two calls nothing of the message is lost, repeated or out of place:
\* the blocks absorbed and the bytes waiting are the message sent so far, and
\* the byte counter agrees (sha256.cpp:80-95), however the message was cut.
StreamIsMessage ==
  stage = "open" =>
    /\ sent = Len(m_h) * B + m_len
    /\ m_tot_len = (Len(m_h) * B) % WordMod
    /\ \A k \in 1 .. Len(m_h), j \in 0 .. B - 1 :
         m_h[k][j] = MessageByte((k - 1) * B + j)
    /\ \A j \in 0 .. m_len - 1 : m_block[j] = MessageByte(Len(m_h) * B + j)

\* FIPS 180-2, 5.1: the length is that of the message in bits.
Hash(n) ==
  Padded(n, B, LengthBytes,
         [d \in 0 .. LengthBytes - 1 |-> OctetOf(8 * n, LengthBytes - 1 - d)])

\* Whatever the pieces, and whatever memory and earlier messages left in the
\* object, final returns the hash of the message padded as the standard says
\* (sha256.cpp:104-111): one block or two at 55 and 56 bytes, no stale byte.
\* Holds while eight times the length fits in an unsigned int (line 106).
DigestIsStandard == stage = "done" /\ 8 * sent < WordMod => digest = Hash(sent)
=============================================================================
