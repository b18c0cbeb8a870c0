----------------------------- MODULE BlockModes -----------------------------
(***************************************************************************)
(* The modes of cryptopp562/modes.cpp that feed ciphertext back: CFB, with *)
(* its CFB_CipherTemplate of strciphr.cpp, CBC, and CBC with ciphertext    *)
(* stealing (CTS).  One object encrypts a message in pieces, another one   *)
(* decrypts what has come, in other pieces.                                *)
(*                                                                         *)
(* A byte is the set of the terms whose exclusive or it is.  The block     *)
(* cipher is any cipher: of what it makes of a block nothing is known but  *)
(* that it can be undone.                                                  *)
(***************************************************************************)
EXTENDS Integers, Sequences, SequencesExt

CONSTANTS
  BlockSize,
  FeedbackSizes,          \* of CFB
  MaxMessage              \* bound on the bytes of a message

BlockModesAssumption ==
  BlockSize \in Nat \ {0} /\ FeedbackSizes \subseteq 1 .. BlockSize

VARIABLES
  mode, m_feedbackSize,
  m_register,             \* of either object
  m_leftOver,             \* of either object: bytes of the register not yet used
  message, ciphertext, decrypted,
  ended                   \* the objects that have done their last block

vars == <<mode, m_feedbackSize, m_register, m_leftOver, message, ciphertext, decrypted, ended>>

Object == {"encryption", "decryption"}

Lower(a, b) == IF a < b THEN a ELSE b

Xor(a, b) == [i \in DOMAIN b |-> (a[i] \ b[i]) \cup (b[i] \ a[i])]

\* ProcessBlock of the cipher, forward and in reverse.
E(b) == [i \in 1 .. BlockSize |-> {<<"E", b, i>>}]
D(b) ==
  IF \E t \in b[1] : b = E(t[2]) THEN (CHOOSE t \in b[1] : TRUE)[2]
  ELSE [i \in 1 .. BlockSize |-> {<<"D", b, i>>}]

IV == [i \in 1 .. BlockSize |-> {<<"IV", <<>>, i>>}]

-----------------------------------------------------------------------------
\* CFB.  The state c of an object is its register and m_leftOver.

State(register, leftOver) == [register |-> register, leftOver |-> leftOver]

\* Mutant: the register is not shifted but replaced.
TransformRegister_NoShift(r) == E(r)

\* TransformRegister shifts the last feedback bytes out of the register and
\* encrypted ones in.
TransformRegister(r) ==
  SubSeq(r, m_feedbackSize + 1, BlockSize) \o SubSeq(E(r), 1, m_feedbackSize)

\* CombineMessageAndShiftRegister puts the ciphertext into the register.
Combined(object, input, output) == IF object = "encryption" THEN output ELSE input

\* The next bytes of the input: of what is left of the register, or of one that
\* has been transformed.
CfbStep(object, c, input) ==
  LET r      == IF c.leftOver = 0 THEN TransformRegister(c.register) ELSE c.register
      left   == IF c.leftOver = 0 THEN m_feedbackSize ELSE c.leftOver
      n      == Lower(left, Len(input))
      used   == BlockSize - left
      output == Xor(SubSeq(r, used + 1, used + n), SubSeq(input, 1, n))
  IN  [c |-> State(SubSeq(r, 1, used) \o Combined(object, SubSeq(input, 1, n), output)
                     \o SubSeq(r, used + n + 1, BlockSize),
                   left - n),
       output |-> output]

\* Iterate: whole blocks, when the feedback is a block and the register used up.
CfbIterate(object, c, input) ==
  LET n == Len(input) \div BlockSize
      block(s, k) == SubSeq(s, (k - 1) * BlockSize + 1, k * BlockSize)
      out[k \in 0 .. n] ==
        IF k = 0 THEN c.register
        ELSE Xor(E(IF object = "encryption" \/ k = 1 THEN out[k - 1] ELSE block(input, k - 1)),
                 block(input, k))
  IN  [c |-> State(IF object = "encryption" THEN out[n] ELSE block(input, n), 0),
       output |-> FlattenSeq([k \in 1 .. n |-> out[k]])]

CanIterate(c, input) ==
  m_feedbackSize = BlockSize /\ c.leftOver = 0 /\ Len(input) >= BlockSize

RECURSIVE CfbSteps(_, _, _)
CfbSteps(object, c, input) ==
  IF input = <<>> THEN [c |-> c, output |-> <<>>]
  ELSE LET s == CfbStep(object, c, input)
           t == CfbSteps(object, s.c, SubSeq(input, Len(s.output) + 1, Len(input)))
       IN  [c |-> t.c, output |-> s.output \o t.output]

\* ProcessData: what is left of the register, whole blocks at once if the output
\* is aligned, and the rest step by step.
CfbProcess(object, c, input, aligned) ==
  LET s1    == CfbSteps(object, c, SubSeq(input, 1, Lower(c.leftOver, Len(input))))
      rest1 == SubSeq(input, Len(s1.output) + 1, Len(input))
      s2    == IF aligned /\ CanIterate(s1.c, rest1) THEN CfbIterate(object, s1.c, rest1)
               ELSE [c |-> s1.c, output |-> <<>>]
      s3    == CfbSteps(object, s2.c, SubSeq(rest1, Len(s2.output) + 1, Len(rest1)))
  IN  [c |-> s3.c, output |-> s1.output \o s2.output \o s3.output]

-----------------------------------------------------------------------------
\* CBC, of whole blocks.

BlockOf(s, k) == SubSeq(s, (k - 1) * BlockSize + 1, k * BlockSize)

CbcProcess(object, c, input) ==
  LET n == Len(input) \div BlockSize
      encrypted[k \in 0 .. n] ==
        IF k = 0 THEN c.register ELSE E(Xor(encrypted[k - 1], BlockOf(input, k)))
      before(k) == IF k = 1 THEN c.register ELSE BlockOf(input, k - 1)
      output == FlattenSeq([k \in 1 .. n |->
                  IF object = "encryption" THEN encrypted[k]
                  ELSE Xor(before(k), D(BlockOf(input, k)))])
      last == IF object = "encryption" THEN output ELSE input
  IN  [c |-> State(IF n = 0 THEN c.register ELSE BlockOf(last, n), 0), output |-> output]

\* The exclusive or of a block and the bytes that s has.
XorPart(b, s) == Xor(b, s) \o SubSeq(b, Len(s) + 1, BlockSize)

\* Mutant: the two last blocks are not swapped.
Stolen_InOrder(r1, r2, n) == SubSeq(r1, 1, n) \o r2

\* The last full block of the ciphertext comes before the shortened one.
Stolen(r1, r2, n) == r2 \o SubSeq(r1, 1, n)

\* ProcessLastBlock of CBC_CTS_Encryption for more than a block, and the one for
\* less, which steals from the IV: the block goes to where SetStolenIV said.
CtsEncryptLast(c, input) ==
  LET r1 == E(Xor(c.register, SubSeq(input, 1, BlockSize)))
      s  == SubSeq(input, BlockSize + 1, Len(input))
  IN  Stolen(r1, E(XorPart(r1, s)), Len(s))

ShortEncrypted(c, input) == SubSeq(c.register, 1, Len(input))
ShortStolenIV(c, input) == E(XorPart(c.register, input))

CtsDecryptLast(c, input) ==
  LET pn1 == SubSeq(input, 1, BlockSize)
      pn  == SubSeq(input, BlockSize + 1, Len(input))
      r   == D(pn1)
  IN  Xor(c.register, D(pn \o SubSeq(r, Len(pn) + 1, BlockSize))) \o Xor(r, pn)

ShortDecrypted(c, input) == Xor(D(c.register), input)

-----------------------------------------------------------------------------
\* Resynchronize with the IV; the message is short if it will steal from it.

Init ==
  /\ \/ mode = "CFB" /\ m_feedbackSize \in FeedbackSizes
     \/ mode \in {"CBC", "CTS"} /\ m_feedbackSize = BlockSize
  /\ LET r == IF mode = "CFB" THEN TransformRegister(IV) ELSE IV
     IN  m_register = [o \in Object |-> r]
  /\ m_leftOver = [o \in Object |-> IF mode = "CFB" THEN m_feedbackSize ELSE 0]
  /\ message = <<>> /\ ciphertext = <<>> /\ decrypted = <<>> /\ ended = {}

Becomes(o, c) ==
  /\ m_register' = [m_register EXCEPT ![o] = c.register]
  /\ m_leftOver' = [m_leftOver EXCEPT ![o] = c.leftOver]

Current(o) == State(m_register[o], m_leftOver[o])

\* ProcessData; `aligned` is where the caller's buffer lies.
Processed(o, input) ==
  IF mode = "CFB" THEN {CfbProcess(o, Current(o), input, aligned) : aligned \in BOOLEAN}
  ELSE {CbcProcess(o, Current(o), input)}

MandatoryBlockSize == IF mode = "CFB" THEN 1 ELSE BlockSize

\* The next n bytes of the message.
Plain(n) == [i \in 1 .. n |-> {<<"m", <<>>, Len(message) + i>>}]

Encrypt(n) ==
  /\ "encryption" \notin ended /\ n % MandatoryBlockSize = 0
  /\ Len(message) + n <= MaxMessage
  /\ message' = message \o Plain(n)
  /\ \E p \in Processed("encryption", Plain(n)) :
       Becomes("encryption", p.c) /\ ciphertext' = ciphertext \o p.output
  /\ UNCHANGED <<mode, m_feedbackSize, decrypted, ended>>

Waiting == SubSeq(ciphertext, Len(decrypted) + 1, Len(ciphertext))

Decrypt(n) ==
  /\ "decryption" \notin ended /\ n % MandatoryBlockSize = 0 /\ n <= Len(Waiting)
  /\ mode = "CTS" => \/ "encryption" \notin ended
                     \/ Len(Waiting) - n > BlockSize
  /\ \E p \in Processed("decryption", SubSeq(Waiting, 1, n)) :
       Becomes("decryption", p.c) /\ decrypted' = decrypted \o p.output
  /\ UNCHANGED <<mode, m_feedbackSize, message, ciphertext, ended>>

EncryptLast(n) ==
  /\ mode = "CTS" /\ "encryption" \notin ended
  /\ Len(message) + n <= MaxMessage
  /\ message' = message \o Plain(n)
  /\ ended' = {"encryption"}
  /\ LET c == Current("encryption")
     IN  \/ /\ n > BlockSize
            /\ ciphertext' = ciphertext \o CtsEncryptLast(c, Plain(n))
            /\ UNCHANGED m_register
         \* the decryption is started with the stolen IV
         \/ /\ n <= BlockSize /\ message = <<>>
            /\ ciphertext' = ShortEncrypted(c, Plain(n))
            /\ m_register' = [m_register EXCEPT !["decryption"] = ShortStolenIV(c, Plain(n))]
  /\ UNCHANGED <<mode, m_feedbackSize, m_leftOver, decrypted>>

DecryptLast ==
  /\ mode = "CTS" /\ ended = {"encryption"}
  /\ Len(Waiting) \in 1 .. 2 * BlockSize
  /\ Len(Waiting) <= BlockSize => decrypted = <<>>
  /\ ended' = Object
  /\ LET c == Current("decryption")
     IN  decrypted' = decrypted \o (IF Len(Waiting) > BlockSize THEN CtsDecryptLast(c, Waiting)
                                    ELSE ShortDecrypted(c, Waiting))
  /\ UNCHANGED <<mode, m_feedbackSize, m_register, m_leftOver, message, ciphertext>>

\* The whole message has been processed.
Done ==
  /\ Waiting = <<>> /\ (Len(message) = MaxMessage \/ ended = Object)
  /\ UNCHANGED vars

Next ==
  \/ \E n \in 1 .. MaxMessage : Encrypt(n) \/ Decrypt(n)
  \/ \E n \in 1 .. 2 * BlockSize : EncryptLast(n)
  \/ DecryptLast
  \/ Done

Spec == Init /\ [][Next]_vars

-----------------------------------------------------------------------------
\* The definitions of the modes: segment by segment, block by block.

CfbDefined ==
  LET f == m_feedbackSize
      segment(k) == SubSeq(message, (k - 1) * f + 1, Lower(k * f, Len(message)))
      n == (Len(message) + f - 1) \div f
      step[k \in 0 .. n] ==
        IF k = 0 THEN [shift |-> IV, c |-> <<>>]
        ELSE LET c == Xor(SubSeq(E(step[k - 1].shift), 1, Len(segment(k))), segment(k))
             IN  [shift |-> SubSeq(step[k - 1].shift, f + 1, BlockSize) \o c, c |-> c]
  IN  FlattenSeq([k \in 1 .. n |-> step[k].c])

\* CBC of the message filled up with zero bytes: block 0 is the IV.
Blocks == (Len(message) + BlockSize - 1) \div BlockSize

CbcBlocks ==
  LET padded == message \o [i \in 1 .. BlockSize |-> {}]
      c[k \in 0 .. Blocks] == IF k = 0 THEN IV ELSE E(Xor(c[k - 1], BlockOf(padded, k)))
  IN  c

CbcDefined == FlattenSeq([k \in 1 .. Blocks |-> CbcBlocks[k]])

\* Stealing: the last two of these blocks change places, and the one that is now
\* last is cut to the length of the message.  Where the other one is the IV, a
\* stolen IV takes its place.
CtsDefined ==
  LET c == CbcBlocks
      cut == SubSeq(c[Blocks - 1], 1, Len(message) - (Blocks - 1) * BlockSize)
  IN  FlattenSeq([k \in 1 .. Blocks - 2 |-> c[k]])
        \o (IF Blocks > 1 THEN c[Blocks] ELSE <<>>) \o cut

\* The ciphertext is the one the mode defines, in whatever pieces the message
\* came and however they lay in memory, and so is the IV that the receiver of a
\* message of no more than a block starts with (strciphr.cpp:176-248,
\* modes.cpp:27-55, 155-193).
CiphertextIsDefined ==
  /\ CASE mode = "CFB"                    -> ciphertext = CfbDefined
       [] mode = "CBC"                    -> ciphertext = CbcDefined
       [] mode = "CTS" /\ ended = {}      -> ciphertext = CbcDefined
       [] mode = "CTS" /\ ended # {}      -> ciphertext = CtsDefined
  /\ ended # {} /\ Blocks = 1 => m_register["decryption"] = CbcBlocks[1]

\* The other object gets the message back, also the last blocks and a message
\* shorter than a block, from which ciphertext is stolen (modes.cpp:168-241).
DecryptionUndoes == decrypted = SubSeq(message, 1, Len(decrypted))
=============================================================================
