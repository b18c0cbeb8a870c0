------------------------------- MODULE sha512 -------------------------------
(***************************************************************************)
(* Class SHA512: the code of sha512.cpp is that of sha256.cpp with blocks  *)
(* of 128 bytes and a length field of 16 bytes, of which it writes the     *)
(* last four.                                                              *)
(***************************************************************************)
EXTENDS Octets

CONSTANTS WordMod, Lens, MaxMessage

VARIABLES m_tot_len, m_len, m_block, m_h, digest, stage, sent

SHA384_512_BLOCK_SIZE == 128

Class == INSTANCE sha256
  WITH SHA224_256_BLOCK_SIZE <- SHA384_512_BLOCK_SIZE, LengthBytes <- 16

Sha512Assumption == Class!Sha256Assumption

transform(h, message, from, block_nb) == Class!transform(h, message, from, block_nb)

Init        == Class!Init
init        == Class!init
update(len) == Class!update(len)
final       == Class!final

Next ==
  \/ init
  \/ \E len \in Lens : sent + len <= MaxMessage /\ update(len)
  \/ final

-----------------------------------------------------------------------------
\* As for SHA256, at the boundaries of this class (sha512.cpp:102-119).
TypeOK          == Class!TypeOK
StreamIsMessage == Class!StreamIsMessage

\* One block or two at 111 and 112 bytes, and a length field that the code
\* fills only in part (sha512.cpp:128-135).
DigestIsStandard == Class!DigestIsStandard
=============================================================================
