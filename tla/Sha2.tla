-------------------------------- MODULE Sha2 --------------------------------
(***************************************************************************)
(* One hash object, of class SHA256 or of class SHA512: the constants of   *)
(* sha256 are those of SHA256, and sha512 brings its own.                  *)
(***************************************************************************)
EXTENDS sha256

VARIABLE class

Long == INSTANCE sha512

Sha2Assumption == Sha256Assumption /\ Long!Sha512Assumption

Sha2Init ==
  \/ class = "SHA256" /\ Init
  \/ class = "SHA512" /\ Long!Init

Sha2Next ==
  \/ class = "SHA256" /\ Next /\ UNCHANGED class
  \/ class = "SHA512" /\ Long!Next /\ UNCHANGED class

TypeInvariant == IF class = "SHA256" THEN TypeOK ELSE Long!TypeOK

\* Neither class loses, repeats or misplaces a byte between two calls, and
\* either returns the standard's digest of the whole message
\* (sha256.cpp:80-115, sha512.cpp:104-139).
StandardDigest ==
  IF class = "SHA256" THEN StreamIsMessage /\ DigestIsStandard
  ELSE Long!StreamIsMessage /\ Long!DigestIsStandard
=============================================================================
