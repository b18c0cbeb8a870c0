------------------------------ MODULE ByteFifo ------------------------------
(***************************************************************************)
(* What a byte queue promises its user: bytes come out in the order they   *)
(* went in, whatever call moves them.  `call` is the operation with its    *)
(* argument and `out` the bytes it handed over.                            *)
(***************************************************************************)
EXTENDS Naturals, Sequences

VARIABLES bytes, call, out

vars == <<bytes, call, out>>

Init == bytes = <<>> /\ out = <<>>

Put == bytes' = bytes \o call'.arg /\ out' = <<>>

\* Bytes leave at the front, at most as many as were asked for, and all of
\* those if the taker blocks rather than refuse.
Take ==
  \E n \in 0 .. Len(bytes) :
    /\ n <= call'.arg
    /\ call'.op = "Get" => n = call'.arg \/ n = Len(bytes)
    /\ out' = SubSeq(bytes, 1, n)
    /\ bytes' = SubSeq(bytes, n + 1, Len(bytes))

\* Bytes are put back at the front.
Unget == bytes' = call'.arg \o bytes /\ out' = <<>>

\* The last bytes are taken back.
Undo == bytes' = SubSeq(bytes, 1, Len(bytes) - call'.arg) /\ out' = <<>>

Clear == bytes' = <<>> /\ out' = <<>>

Keep == UNCHANGED bytes /\ out' = <<>>

Next ==
  CASE call'.op = "Put"                   -> Put
    [] call'.op \in {"Get", "GetOrBlock"} -> Take
    [] call'.op = "Unget"                 -> Unget
    [] call'.op = "Undo"                  -> Undo
    [] call'.op = "Clear"                 -> Clear
    [] call'.op = "Keep"                  -> Keep

Spec == Init /\ [][Next]_vars
=============================================================================
