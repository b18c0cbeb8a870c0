--------------------- MODULE StreamTransformationFilter ---------------------
(***************************************************************************)
(* StreamTransformationFilter of cryptopp562/filters.cpp: one that         *)
(* encrypts, with its padding, attached to one that decrypts.  The cipher  *)
(* is of one of three kinds: a stream cipher, a block cipher (ECB, CBC),   *)
(* and one with ciphertext stealing, whose last call takes between one and *)
(* two blocks at once.                                                     *)
(***************************************************************************)
EXTENDS Integers, Sequences, SequencesExt

CONSTANTS
  Garbage,                   \* memory never written
  Byte,                      \* with 0 and 128 among them
  BlockSizes,                \* of the block ciphers
  MaxPiece, MaxMessage       \* bounds: bytes of a call and of a message

LOCAL INSTANCE BlockQueue

ByteAssumption == {0, 128} \subseteq Byte /\ BlockSizes \subseteq Nat \ {0, 1}

VARIABLES
  m_cipher, m_padding,       \* what both filters are constructed with
  encryptor, decryptor,      \* their FilterWithBufferedInput
  message, out,              \* what was put in, and what has come out
  status                     \* "open", "ended", or who has thrown

vars == <<m_cipher, m_padding, encryptor, decryptor, message, out, status>>

Cipher ==
  [kind : {"stream"}, size : {1}] \cup [kind : {"block", "stealing"}, size : BlockSizes]

MandatoryBlockSize == m_cipher.size
MinLastBlockSize(c) == IF c.kind = "stealing" THEN c.size + 1 ELSE 0

Pads(padding) == padding \in {"PKCS", "ONE_AND_ZEROS"}

LastBlockSize(c, padding, forward) ==
  CASE c.kind = "stealing"                               -> MinLastBlockSize(c)
    [] c.kind = "block" /\ ~forward /\ Pads(padding)     -> c.size
    [] c.kind = "stream" \/ (c.kind = "block" /\ (forward \/ ~Pads(padding))) -> 0

Init ==
  /\ m_cipher \in Cipher
  /\ m_padding \in {"NO", "ZEROS", "PKCS", "ONE_AND_ZEROS"}
  /\ Pads(m_padding) => m_cipher.kind = "block"
  /\ encryptor = Filter(0, m_cipher.size, LastBlockSize(m_cipher, m_padding, TRUE))
  /\ decryptor = Filter(0, m_cipher.size, LastBlockSize(m_cipher, m_padding, FALSE))
  /\ message = <<>> /\ out = <<>> /\ status = "open"

-----------------------------------------------------------------------------
\* The cipher: the ciphertext of a unit, a block or the bytes of the last call,
\* tells which byte of which unit it is.  Anything else decrypts to garbage.

UnitEncrypted(u) == [i \in DOMAIN u |-> <<u, i>>]

UnitDecrypted(c) ==
  IF \E i \in DOMAIN c : c = UnitEncrypted(c[i][1]) THEN c[1][1]
  ELSE [i \in DOMAIN c |-> -1]

Blocks(s) ==
  [k \in 1 .. Len(s) \div MandatoryBlockSize |->
     SubSeq(s, (k - 1) * MandatoryBlockSize + 1, k * MandatoryBlockSize)]

Encrypted(s) == FlattenSeq([k \in DOMAIN Blocks(s) |-> UnitEncrypted(Blocks(s)[k])])
Decrypted(s) == FlattenSeq([k \in DOMAIN Blocks(s) |-> UnitDecrypted(Blocks(s)[k])])

Zeros(n) == [i \in 1 .. n |-> 0]

\* Mutant: a message that fills its blocks is not padded.
Pad_NotWhole(s, n) ==
  IF s = <<>> THEN <<>>
  ELSE s \o (IF m_padding = "PKCS" THEN [i \in 1 .. n |-> n] ELSE <<128>> \o Zeros(n - 1))

\* n bytes of padding behind the last ones of the message.
Pad(s, n) ==
  s \o (IF m_padding = "PKCS" THEN [i \in 1 .. n |-> n] ELSE <<128>> \o Zeros(n - 1))

\* LastPut of the filter that encrypts: the string it puts, or none if it throws.
LastEncrypted(s) ==
  LET min == MinLastBlockSize(m_cipher)
  IN  IF Pads(m_padding) THEN {Encrypted(Pad(s, MandatoryBlockSize - Len(s)))}
      ELSE IF s = <<>> THEN {<<>>}
      ELSE IF m_padding = "ZEROS" /\ (min = 0 \/ Len(s) < min)
        THEN {UnitEncrypted(s \o Zeros((IF min = 0 THEN MandatoryBlockSize ELSE min) - Len(s)))}
      ELSE IF min = 0 \/ Len(s) < min THEN {}
      ELSE {UnitEncrypted(s)}

PkcsUnpadded(s) ==
  LET n == Len(s)
      pad == s[n]
  IN  IF pad \in 1 .. n /\ \A i \in n - pad + 1 .. n : s[i] = pad
        THEN {SubSeq(s, 1, n - pad)} ELSE {}

\* The zeros at the end, but for a first byte, and the 128 before them.
OneAndZerosUnpadded(s) ==
  LET n == Max({1} \cup {i \in DOMAIN s : s[i] # 0})
  IN  IF s[n] = 128 THEN {SubSeq(s, 1, n - 1)} ELSE {}

\* LastPut of the filter that decrypts.
LastDecrypted(c) ==
  IF Pads(m_padding)
    THEN IF Len(c) # MandatoryBlockSize THEN {}
         ELSE IF m_padding = "PKCS" THEN PkcsUnpadded(UnitDecrypted(c))
         ELSE OneAndZerosUnpadded(UnitDecrypted(c))
    ELSE IF c = <<>> THEN {<<>>}
    ELSE IF MinLastBlockSize(m_cipher) = 0 THEN {}
    ELSE {UnitDecrypted(c)}

-----------------------------------------------------------------------------
\* The strings the encryptor hands on are put into the decryptor one by one.
Passed(strings) ==
  FoldLeft(LAMBDA a, s : LET p == PutMaybeModifiable(a.f, s)
                         IN  Answer(p.f, a.given \o p.given),
           Answer(decryptor, <<>>), strings)

NextEncrypted(strings) == [i \in DOMAIN strings |-> Encrypted(strings[i])]

AllDecrypted(strings) == FlattenSeq([i \in DOMAIN strings |-> Decrypted(strings[i])])

Put2(s) ==
  LET e == PutMaybeModifiable(encryptor, s)
      d == Passed(NextEncrypted(e.given))
  IN  /\ status = "open"
      /\ message' = message \o s /\ Len(message') <= MaxMessage
      /\ encryptor' = e.f /\ decryptor' = d.f
      /\ out' = out \o AllDecrypted(d.given)
      /\ UNCHANGED <<m_cipher, m_padding, status>>

EncryptorThrows ==
  /\ LastEncrypted(Queued(encryptor.queue)) = {}
  /\ status' = "encryptor"
  /\ UNCHANGED <<decryptor, out>>

\* The end of the message goes through both filters.
Ends(c) ==
  LET d == Passed(<<c>>)
      l == MessageEnd(d.f)
      s == LastDecrypted(l.given[1])
  IN  /\ decryptor' = l.f
      /\ status' = IF s = {} THEN "decryptor" ELSE "ended"
      /\ out' = out \o AllDecrypted(d.given) \o (IF s = {} THEN <<>> ELSE CHOOSE x \in s : TRUE)

PutMessageEnd ==
  /\ status = "open"
  /\ encryptor' = MessageEnd(encryptor).f
  /\ EncryptorThrows \/ \E c \in LastEncrypted(Queued(encryptor.queue)) : Ends(c)
  /\ UNCHANGED <<m_cipher, m_padding, message>>

\* The next message.
Again ==
  /\ status = "ended"
  /\ message' = <<>> /\ out' = <<>> /\ status' = "open"
  /\ UNCHANGED <<m_cipher, m_padding, encryptor, decryptor>>

\* Nothing is done with filters that have thrown.
GaveUp == status \in {"encryptor", "decryptor"} /\ UNCHANGED vars

Next == (\E s \in BoundedSeq(Byte, MaxPiece) : Put2(s)) \/ PutMessageEnd \/ Again \/ GaveUp

Spec == Init /\ [][Next]_vars

-----------------------------------------------------------------------------
\* Without padding a message must be whole blocks, or longer than one with
\* ciphertext stealing (filters.cpp:647-653, modes.cpp:170-173).
CannotBeEncrypted ==
  /\ m_padding = "NO"
  /\ \/ m_cipher.kind = "block" /\ Len(message) % m_cipher.size # 0
     \/ m_cipher.kind = "stealing" /\ Len(message) \in 1 .. m_cipher.size

ZerosAdded ==
  CASE m_padding # "ZEROS" \/ message = <<>> \/ m_cipher.kind = "stream" -> 0
    [] m_padding = "ZEROS" /\ m_cipher.kind = "block" -> (-Len(message)) % m_cipher.size
    [] m_padding = "ZEROS" /\ message # <<>> /\ m_cipher.kind = "stealing" ->
         IF Len(message) <= m_cipher.size THEN m_cipher.size + 1 - Len(message) ELSE 0

\* What is decrypted is the message, with the zeros of ZEROS_PADDING, whatever
\* the bytes at its end and the pieces it came in; the encryptor refuses what
\* it must and the decryptor nothing (filters.cpp:622-707, 555-563).
PaddingIsUndone ==
  /\ status = "open" => IsPrefix(out, message)
  /\ status = "ended" => out = message \o Zeros(ZerosAdded) /\ ~CannotBeEncrypted
  /\ status = "encryptor" => CannotBeEncrypted
  /\ status # "decryptor"
=============================================================================
