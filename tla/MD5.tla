-------------------------------- MODULE MD5 ---------------------------------
(***************************************************************************)
(* Class MD5: one object from its construction on.  Its user feeds it with *)
(* update, ends it with finalize, as often as he likes, and reads it with  *)
(* hexdigest; MD5(text) and md5(str) are one such sequence.                *)
(*                                                                         *)
(* state is represented by the list of blocks the chaining value has       *)
(* absorbed, <<>> for the initial one.                                     *)
(*                                                                         *)
(* Bounds: a uint4 has WordMod values (2^32 in the code), pieces have the  *)
(* sizes in Lens, and no update starts that may absorb more than MaxBytes. *)
(* The guard of the loop over the blocks, i + blocksize <= length, is a    *)
(* uint4 too; it wraps for pieces within a block of WordMod and the loop   *)
(* then leaves the input, so Lens has no such piece.                       *)
(***************************************************************************)
EXTENDS Octets

CONSTANTS WordMod, Lens, MaxBytes

MD5Assumption ==
  /\ WordMod \in Nat \ {0} /\ WordMod % (8 * 64) = 0     \* bits of a block
  /\ Lens \subseteq 0 .. WordMod - 1 - 64    \* i + blocksize does not wrap
  /\ MaxBytes \in Nat

VARIABLES
  count,       \* count[0], count[1]: bits absorbed, low and high word
  buffer,      \* bytes that did not fill a block
  state,
  finalized,
  digest,      \* set by finalize
  sent         \* bytes given to update before finalize

vars == <<count, buffer, state, finalized, digest, sent>>

blocksize == 64
uint4     == 0 .. WordMod - 1

TypeOK ==
  /\ count \in [0 .. 1 -> uint4]
  /\ DOMAIN buffer = 0 .. blocksize - 1
  /\ finalized \in BOOLEAN
  /\ sent \in 0 .. MaxBytes

\* The constructor calls init, which leaves buffer and digest alone.
Init ==
  /\ finalized = FALSE
  /\ count = [w \in 0 .. 1 |-> 0]
  /\ state = <<>>
  /\ buffer = [i \in 0 .. blocksize - 1 |-> Garbage]
  /\ digest = <<>>
  /\ sent = 0

-----------------------------------------------------------------------------
Context(n, b, s) == [count |-> n, buffer |-> b, state |-> s]

transform(s, input, from, n) == s \o BlocksOf(input, from, n, blocksize)

\* Mutant: the low word wraps without a carry.
Counted_NoCarry(n, length) ==
  [n EXCEPT ![0] = (n[0] + length * 8) % WordMod,
            ![1] = (n[1] + length \div (WordMod \div 8)) % WordMod]

\* length << 3 is a uint4 too; a sum smaller than it has wrapped.
Counted(n, length) ==
  LET bits  == (length * 8) % WordMod
      low   == (n[0] + bits) % WordMod
      carry == IF low < bits THEN 1 ELSE 0
  IN  [n EXCEPT ![0] = low,
                ![1] = (n[1] + carry + length \div (WordMod \div 8)) % WordMod]

\* update(input, length) on a context.
Absorbed(c, input, length) ==
  LET index     == (c.count[0] \div 8) % blocksize
      firstpart == blocksize - index
      chunks    == (length - firstpart) \div blocksize
      filled    == [i \in 0 .. blocksize - 1 |->
                      IF index <= i /\ i < index + length THEN input[i - index]
                                                          ELSE c.buffer[i]]
      i0        == firstpart + chunks * blocksize
      rest      == [i \in 0 .. blocksize - 1 |->
                      IF i < length - i0 THEN input[i0 + i] ELSE filled[i]]
  IN  IF length >= firstpart
      THEN Context(Counted(c.count, length), rest,
             transform(transform(c.state, filled, 0, 1), input, firstpart, chunks))
      ELSE Context(Counted(c.count, length), filled, c.state)

\* An update after finalize goes on from the state finalize left; its bytes
\* are zeros here.
update(length) ==
  LET input == [i \in 0 .. length - 1 |->
                  IF finalized THEN Octet(0) ELSE MessageByte(sent + i)]
      c     == Absorbed(Context(count, buffer, state), input, length)
  IN  /\ count' = c.count /\ buffer' = c.buffer /\ state' = c.state
      /\ sent' = IF finalized THEN sent ELSE sent + length
      /\ UNCHANGED <<finalized, digest>>

-----------------------------------------------------------------------------
padding == [i \in 0 .. 63 |-> Octet(IF i = 0 THEN 128 ELSE 0)]

\* encode: four bytes per word, the low one first.
encode(n) == [i \in 0 .. 7 |-> OctetOf(n[i \div 4], i % 4)]

padLen(index) == IF index < 56 THEN 56 - index ELSE 120 - index

Finalizes == ~finalized

finalize ==
  LET bits   == encode(count)
      padded == Absorbed(Context(count, buffer, state), padding,
                         padLen((count[0] \div 8) % 64))
      c      == Absorbed(padded, bits, 8)
  IN  \/ /\ Finalizes
         /\ state' = c.state
         /\ digest' = c.state
         /\ buffer' = [i \in 0 .. blocksize - 1 |-> Octet(0)]
         /\ count' = [w \in 0 .. 1 |-> 0]
         /\ finalized' = TRUE
         /\ UNCHANGED sent
      \/ ~Finalizes /\ UNCHANGED vars

\* "" before finalize.
hexdigest == IF finalized THEN digest ELSE <<>>

Next ==
  \/ \E length \in Lens :
       Len(state) * blocksize + blocksize + length <= MaxBytes /\ update(length)
  \/ finalize

Spec == Init /\ [][Next]_vars

-----------------------------------------------------------------------------
\* RFC 1321, 3.1 and 3.2: the length in bits, low-order word first.
Hash(n) ==
  Padded(n, blocksize, 8,
    encode([w \in 0 .. 1 |-> IF w = 0 THEN (8 * n) % WordMod
                             ELSE ((8 * n) \div WordMod) % WordMod]))

Object == INSTANCE MessageDigest
  WITH length <- sent, digest <- hexdigest, NoDigest <- <<>>

\* hexdigest is empty until finalize, and from then on the RFC's digest of the
\* bytes sent before, whatever the pieces, with the carry between the words of
\* the counter (MD5.cpp:254-283), and although update and finalize may be
\* called again (MD5.cpp:306-326,337).
ImplementsDigest == Object!Spec
=============================================================================
