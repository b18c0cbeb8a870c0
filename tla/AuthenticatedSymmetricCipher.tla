-------------------- MODULE AuthenticatedSymmetricCipher --------------------
(***************************************************************************)
(* AuthenticatedSymmetricCipherBase of cryptopp562/authenc.cpp with its    *)
(* three schemes CCM, GCM and EAX: one object that encrypts or decrypts.   *)
(* Its client may make any call in any state; a call in a wrong state      *)
(* throws and leaves what it had done by then.                             *)
(*                                                                         *)
(* The bytes of header and message are numbered; a byte of ciphertext is   *)
(* its plaintext with the byte of keystream used.  auth is the list of     *)
(* what the MAC has absorbed: blocks in CCM and GCM, bytes in EAX.         *)
(***************************************************************************)
EXTENDS Integers, Sequences, SequencesExt

CONSTANTS
  IVs,
  HeaderBlock,        \* AuthenticationBlockSize of CCM and GCM
  MaxHeader,          \* bound on the bytes of a header and of a footer
  MaxMessageLength    \* of CCM and GCM; a client goes a byte beyond it

AuthenticatedSymmetricCipherAssumption ==
  {HeaderBlock, MaxHeader, MaxMessageLength} \subseteq Nat \ {0, 1}

VARIABLES
  scheme, forward,           \* the class; IsForwardTransformation
  m_state,
  m_buffer,                  \* its m_bufferedDataLength bytes
  total,                     \* m_totalHeaderLength, m_totalMessageLength, m_totalFooterLength
  promised,                  \* CCM: m_aadLength, m_messageLength
  auth,
  m_tags,                    \* EAX: the digests combined in the second half of m_buffer
  m_ctr,                     \* the counter mode's IV and position
  tag,                       \* what the last call gave out, if it was TruncatedFinal
  iv, header, message,       \* history: what the client has given since Resynchronize
  keystream,                 \* history: the bytes of keystream used for it, in order
  trouble                    \* history: "refused" a call since, "abandoned" the message before

vars == <<scheme, forward, m_state, m_buffer, total, promised, auth, m_tags, m_ctr, tag,
          iv, header, message, keystream, trouble>>
sofar == <<iv, header, message, keystream, trouble>>
class == <<scheme, forward>>

NoTag == [auth |-> {}, iv |-> <<>>]
NoIV  == "none"

Order == <<"Start", "KeySet", "IVSet", "AuthUntransformed", "AuthTransformed", "AuthFooter">>
AtLeast(state) == \E i, j \in DOMAIN Order : i >= j /\ Order[i] = m_state /\ Order[j] = state

Count(h, m, f) == [header |-> h, message |-> m, footer |-> f]

AuthenticationBlockSize == IF scheme = "EAX" THEN 1 ELSE HeaderBlock

\* The IV of the counter mode; EAX makes it of the digest of the nonce.
CounterIV(v) == IF scheme = "EAX" THEN <<<<"0", v>>>> ELSE <<v>>

\* Keystream before this position is kept for the tag.
FirstPosition == IF scheme = "EAX" THEN 0 ELSE HeaderBlock

H(i) == <<"H", i>>
F(i) == <<"F", i>>
P(i) == <<"P", i>>
C(i, k) == <<"C", i, k>>
RightKey(i) == <<CounterIV(iv), FirstPosition + i - 1>>

Toggled(set, x) == (set \ {x}) \cup ({x} \ set)

-----------------------------------------------------------------------------
\* The parts of the MAC.  An authenticator a has the buffer, auth and the tags.

A == [buffer |-> m_buffer, auth |-> auth, tags |-> m_tags]

\* Mutant: the bytes that fill a block are not kept for the next call.
AuthenticateData_Loses(a, s) ==
  LET all == a.buffer \o s
      n   == Len(all) \div AuthenticationBlockSize
  IN  [a EXCEPT !.auth = @ \o [k \in 1 .. n |->
                   SubSeq(all, (k - 1) * AuthenticationBlockSize + 1, k * AuthenticationBlockSize)],
                !.buffer = IF n > 0 THEN <<>> ELSE all]

\* Whole blocks go into the MAC; the rest waits in the buffer.
AuthenticateData(a, s) ==
  LET all == a.buffer \o s
      n   == Len(all) \div AuthenticationBlockSize
      bs  == AuthenticationBlockSize
  IN  [a EXCEPT !.auth = @ \o [k \in 1 .. n |-> SubSeq(all, (k - 1) * bs + 1, k * bs)],
                !.buffer = SubSeq(all, n * bs + 1, Len(all))]

\* What waits is completed with zeros.
PartialBlock(a) ==
  [a EXCEPT !.auth = IF a.buffer = <<>> THEN @ ELSE Append(@, a.buffer), !.buffer = <<>>]

LengthBlock == <<<<"lengths", total.header, total.message>>>>

\* CCM throws if the header is not as long as promised.
HeaderRefused == scheme = "CCM" /\ promised.header # total.header

AuthenticateLastHeaderBlock(a) ==
  IF scheme = "EAX"
    THEN [a EXCEPT !.tags = Toggled(@, a.auth), !.auth = <<<<"2">>>>]
    ELSE PartialBlock(a)

MessageRefused == scheme = "CCM" /\ promised.message # total.message

AuthenticateLastConfidentialBlock(a) ==
  CASE scheme = "CCM" -> PartialBlock(a)
    [] scheme = "GCM" -> LET b == PartialBlock(a) IN [b EXCEPT !.auth = Append(@, LengthBlock)]
    [] scheme = "EAX" -> a

\* AuthenticateLastFooterBlock: the tag, and in EAX the MAC is free again.
Tag(a) == [auth |-> IF scheme = "EAX" THEN Toggled(a.tags, a.auth) ELSE {a.auth}, iv |-> m_ctr.iv]

Becomes(a) == m_buffer' = a.buffer /\ auth' = a.auth /\ m_tags' = a.tags

-----------------------------------------------------------------------------
Init ==
  /\ scheme \in {"CCM", "GCM", "EAX"} /\ forward \in BOOLEAN
  /\ m_state = "Start" /\ m_buffer = <<>> /\ total = Count(0, 0, 0) /\ promised = Count(0, 0, 0)
  /\ auth = <<>> /\ m_tags = {} /\ m_ctr = [iv |-> <<>>, position |-> 0] /\ tag = NoTag
  /\ iv = NoIV /\ header = 0 /\ message = 0 /\ keystream = <<>> /\ trouble = {}

\* A call that throws before it has changed anything.
BadState ==
  /\ tag' = NoTag
  /\ UNCHANGED <<class, m_state, m_buffer, total, promised, auth, m_tags, m_ctr, sofar>>

\* Resynchronize when the MAC has absorbed `before`: EAX goes on from there.
Resynchronized(v, before) ==
  /\ m_state' = "IVSet" /\ m_buffer' = <<>> /\ total' = Count(0, 0, 0) /\ promised' = Count(0, 0, 0)
  /\ m_ctr' = [iv |-> IF scheme = "EAX" THEN before \o CounterIV(v) ELSE CounterIV(v),
               position |-> FirstPosition]
  /\ auth' = CASE scheme = "EAX" -> <<<<"1">>>> [] scheme = "GCM" -> <<>> [] OTHER -> before
  /\ m_tags' = {m_ctr'.iv}
  /\ tag' = NoTag
  /\ iv' = v /\ header' = 0 /\ message' = 0 /\ keystream' = <<>>
  /\ trouble' = IF scheme = "EAX" /\ before # <<>> THEN {"abandoned"} ELSE {}
  /\ UNCHANGED class

SetKey ==
  LET free == IF scheme = "EAX" THEN <<>> ELSE auth
  IN  \/ \E v \in IVs : Resynchronized(v, free)
      \/ /\ m_state' = "KeySet" /\ m_buffer' = <<>> /\ auth' = free
         /\ tag' = NoTag
         /\ UNCHANGED <<class, total, promised, m_tags, m_ctr, sofar>>

Resynchronize(v) == IF AtLeast("KeySet") THEN Resynchronized(v, auth) ELSE BadState

Restart ==
  /\ m_state' = IF AtLeast("KeySet") THEN "KeySet" ELSE m_state
  /\ tag' = NoTag
  /\ UNCHANGED <<class, m_buffer, total, promised, auth, m_tags, m_ctr, sofar>>

\* SpecifyDataLengths, which a client of CCM calls before any data (cryptlib.h:644).
SpecifyDataLengths(h, m) ==
  IF m_state # "IVSet" \/ m > MaxMessageLength THEN BadState
  ELSE /\ scheme = "CCM" /\ total.header = 0 /\ promised = Count(0, 0, 0)
       /\ promised' = Count(h, m, 1)       \* 1: the lengths have been specified
       /\ auth' = <<<<"B0", iv, h, m>>>>
       /\ m_buffer' = IF h > 0 THEN <<<<"length">>>> ELSE <<>>
       /\ tag' = NoTag
       /\ UNCHANGED <<class, m_state, total, m_tags, m_ctr, sofar>>

\* In CCM no data comes before the lengths have been specified.
Ready == scheme = "CCM" /\ AtLeast("IVSet") => promised.footer = 1

Update(n) ==
  CASE m_state \in {"Start", "KeySet"} -> BadState
    [] m_state = "IVSet" ->
         /\ Becomes(AuthenticateData(A, [i \in 1 .. n |-> H(header + i)]))
         /\ total' = [total EXCEPT !.header = @ + n]
         /\ header' = header + n
         /\ tag' = NoTag
         /\ UNCHANGED <<class, m_state, promised, m_ctr, iv, message, keystream, trouble>>
    [] m_state \in {"AuthUntransformed", "AuthTransformed"} /\ MessageRefused -> BadState
    [] OTHER ->
         /\ LET a == IF m_state = "AuthFooter" THEN A
                     ELSE [AuthenticateLastConfidentialBlock(A) EXCEPT !.buffer = <<>>]
            IN  Becomes(AuthenticateData(a, [i \in 1 .. n |-> F(total.footer + i)]))
         /\ total' = [total EXCEPT !.footer = @ + n]
         /\ m_state' = "AuthFooter" /\ tag' = NoTag
         /\ UNCHANGED <<class, promised, m_ctr, sofar>>

\* AuthenticationIsOnPlaintext() == IsForwardTransformation()
AuthenticatesInput == (scheme = "CCM") = forward

\* The counter mode's bytes for n bytes of the message, and what goes in and out.
Keys(n) == [i \in 1 .. n |-> <<m_ctr.iv, m_ctr.position + i - 1>>]
Plain(n) ==
  [i \in 1 .. n |-> IF forward \/ Keys(n)[i] = RightKey(message + i) THEN P(message + i) ELSE <<"?">>]
Cipher(n) ==
  [i \in 1 .. n |-> C(message + i, IF forward THEN Keys(n)[i] ELSE RightKey(message + i))]

\* A ProcessData that throws has counted its bytes.
Refused(n) ==
  /\ total' = [total EXCEPT !.message = @ + n]
  /\ trouble' = trouble \cup {"refused"}
  /\ tag' = NoTag
  /\ UNCHANGED <<class, m_state, m_buffer, promised, auth, m_tags, m_ctr, iv, header, message, keystream>>

TooLong(n) == scheme # "EAX" /\ AtLeast("IVSet") /\ total.message + n > MaxMessageLength

ProcessData(n) ==
  IF \/ ~AtLeast("IVSet") \/ m_state = "AuthFooter"
     \/ TooLong(n)
     \/ m_state = "IVSet" /\ HeaderRefused
  THEN Refused(n)
  ELSE LET a == IF m_state = "IVSet"
                  THEN [AuthenticateLastHeaderBlock(A) EXCEPT !.buffer = <<>>] ELSE A
           s == IF AuthenticatesInput THEN "AuthUntransformed" ELSE "AuthTransformed"
       IN  /\ m_state' = IF m_state = "IVSet" THEN s ELSE m_state
           /\ Becomes(AuthenticateData(a, IF (m_state' = "AuthUntransformed") = forward
                                            THEN Plain(n) ELSE Cipher(n)))
           /\ total' = [total EXCEPT !.message = @ + n]
           /\ m_ctr' = [m_ctr EXCEPT !.position = @ + n]
           /\ keystream' = keystream \o Keys(n)
           /\ message' = message + n
           /\ tag' = NoTag
           /\ UNCHANGED <<class, promised, iv, header, trouble>>

\* Mutant: a message that is finished can be gone on with.
AfterFinal_Same == m_state

AfterFinal == "KeySet"

\* MaxFooterLength is 0, so that there is no tag once Update has begun a footer.
TruncatedFinal ==
  IF \/ ~AtLeast("IVSet") \/ total.footer > 0
     \/ m_state = "IVSet" /\ HeaderRefused
  THEN BadState
  ELSE LET h == IF m_state = "IVSet"
                  THEN [AuthenticateLastHeaderBlock(A) EXCEPT !.buffer = <<>>] ELSE A
           c == [AuthenticateLastConfidentialBlock(h) EXCEPT !.buffer = <<>>]
       IN  /\ IF MessageRefused
                THEN Becomes(h) /\ tag' = NoTag /\ UNCHANGED <<m_state, m_ctr>>
                ELSE /\ Becomes(IF scheme = "EAX" THEN [c EXCEPT !.auth = <<>>] ELSE c)
                     /\ tag' = Tag(c)
                     /\ m_state' = AfterFinal
                     /\ m_ctr' = IF scheme = "EAX" THEN m_ctr ELSE [m_ctr EXCEPT !.position = 0]
           /\ UNCHANGED <<class, total, promised, sofar>>

\* Bound: messages are not abandoned twice in a row.
MayAbandon == "abandoned" \in trouble => auth = <<>>

Next ==
  \/ SetKey
  \/ MayAbandon /\ \E v \in IVs : Resynchronize(v)
  \/ Restart
  \/ \E h \in 0 .. MaxHeader, m \in 0 .. MaxMessageLength + 1 : SpecifyDataLengths(h, m)
  \/ \E n \in 1 .. MaxHeader :
       /\ Ready /\ total.header + total.footer + n <= MaxHeader
       /\ Update(n)
  \/ \E n \in 1 .. MaxMessageLength :
       /\ Ready /\ total.message + n <= MaxMessageLength + 1
       /\ ProcessData(n)
  \/ Ready /\ TruncatedFinal

Spec == Init /\ [][Next]_vars

-----------------------------------------------------------------------------
HeaderBytes  == [i \in 1 .. header |-> H(i)]
PlainBytes   == [i \in 1 .. message |-> P(i)]
CipherBytes  == [i \in 1 .. message |-> C(i, RightKey(i))]

InBlocks(s) ==
  LET bs == AuthenticationBlockSize
  IN  [k \in 1 .. (Len(s) + bs - 1) \div bs |-> SubSeq(s, (k - 1) * bs + 1, IF k * bs < Len(s) THEN k * bs ELSE Len(s))]

\* The tags as the schemes define them.
DefinedTag ==
  [iv |-> CounterIV(iv),
   auth |-> CASE scheme = "CCM" ->
                   {<<<<"B0", iv, header, message>>>>
                    \o InBlocks((IF header > 0 THEN <<<<"length">>>> ELSE <<>>) \o HeaderBytes)
                    \o InBlocks(PlainBytes)}
              [] scheme = "GCM" ->
                   {InBlocks(HeaderBytes) \o InBlocks(CipherBytes)
                    \o <<<<<<"lengths", header, message>>>>>>}
              [] scheme = "EAX" ->
                   {CounterIV(iv), <<<<"1">>>> \o InBlocks(HeaderBytes),
                    <<<<"2">>>> \o InBlocks(CipherBytes)}]

\* A tag is the scheme's for IV, header and message, in whatever pieces they
\* came and whatever calls were refused; it is only to be had for the lengths
\* promised (authenc.cpp:11-46, 104-176).  It fails after a refused ProcessData,
\* whose bytes stay counted (authenc.cpp:106), and in EAX for a message begun
\* before the one before was ended, as Resync leaves the MAC as it was
\* (eax.cpp:14-27).
TagIsDefined == tag # NoTag /\ trouble = {} => tag = DefinedTag

\* No byte of keystream is used for two bytes under one IV, and none of those
\* that encrypt the tag (authenc.cpp:175, ccm.cpp:46, gcm.cpp:323).
KeystreamUsedOnce ==
  "abandoned" \notin trouble => keystream = [i \in 1 .. message |-> RightKey(i)]

\* "discard the current state, and restart with a new message" (cryptlib.h:548),
\* "resynchronize with an IV" (cryptlib.h:401).
RestartDiscards == tag # NoTag /\ "refused" \notin trouble => tag = DefinedTag
=============================================================================
