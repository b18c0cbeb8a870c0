------------------------------- MODULE Octets -------------------------------
(***************************************************************************)
(* Bytes as the hash modules tell them apart, and the padding rule they    *)
(* share with the standards they implement (RFC 1321 3.1-3.2, FIPS 180-2   *)
(* 5.1): one bit, zeros, the length, up to a whole number of blocks.       *)
(***************************************************************************)
EXTENDS Integers, Sequences

MessageByte(i) == <<"message", i>>     \* byte i of the message, i = 0, 1, ...
Octet(b)       == <<"octet", b>>       \* a byte of known value
Garbage        == <<"garbage", 0>>     \* memory never written

\* Byte d of a number, counted from the least significant one.
OctetOf(x, d) ==
  LET shifted[k \in 0 .. d] == IF k = 0 THEN x ELSE shifted[k - 1] \div 256
  IN  Octet(shifted[d] % 256)

\* The first n blocks of `size` bytes, from position `from` of a byte array.
BlocksOf(bytes, from, n, size) ==
  [i \in 1 .. n |-> [j \in 0 .. size - 1 |-> bytes[from + (i - 1) * size + j]]]

RoundUp(n, size) == ((n + size - 1) \div size) * size

\* The padded message of n bytes: field[d] is byte d, from the left, of the
\* length that ends the last block.
Padded(n, size, fieldLen, field) ==
  LET total == RoundUp(n + 1 + fieldLen, size)
      bytes == [i \in 0 .. total - 1 |->
                  IF i < n THEN MessageByte(i)
                  ELSE IF i = n THEN Octet(128)
                  ELSE IF i < total - fieldLen THEN Octet(0)
                  ELSE field[i - (total - fieldLen)]]
  IN  BlocksOf(bytes, 0, total \div size, size)
=============================================================================
