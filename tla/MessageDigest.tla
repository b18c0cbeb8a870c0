--------------------------- MODULE MessageDigest ----------------------------
(***************************************************************************)
(* What a hash object promises its user: feed it a message in pieces of    *)
(* any sizes, and the digest is that of the whole message.                 *)
(*                                                                         *)
(* The hash code only copies message bytes and never branches on them, so  *)
(* byte i of a message is the symbol i and a message is given by its       *)
(* length.                                                                 *)
(***************************************************************************)
EXTENDS Naturals

CONSTANTS
  Hash(_),     \* the digest of the message of a given length
  NoDigest     \* the user has not asked for one

VARIABLES length, digest

vars == <<length, digest>>

Init == length = 0 /\ digest = NoDigest

Start == length' = 0 /\ digest' = NoDigest

Update ==
  /\ digest = NoDigest
  /\ length' >= length
  /\ UNCHANGED digest

Final ==
  /\ digest = NoDigest
  /\ digest' = Hash(length)
  /\ UNCHANGED length

Next == Start \/ Update \/ Final

Spec == Init /\ [][Next]_vars
=============================================================================
