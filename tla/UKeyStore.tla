----------------------------- MODULE UKeyStore ------------------------------
(***************************************************************************)
(* What a UKey promises its owner, without sectors, marks or caches: the   *)
(* stick holds nothing, or a key together with its checksum.               *)
(*                                                                         *)
(* Both appear in one step, so that nobody ever recognises half a UKey.    *)
(* Deleting is not atomic, but it wipes the key before the checksum and    *)
(* forgets the UKey only when nothing of either is left.                   *)
(***************************************************************************)
CONSTANTS
  Key, Sum,              \* what may be stored
  WipedKey, WipedSum     \* what is left of them after a delete

VARIABLE store

Absent == [present |-> FALSE, key |-> WipedKey, sum |-> WipedSum]

Init ==
  \/ store = Absent
  \/ \E k \in Key \cup {WipedKey}, c \in Sum \cup {WipedSum} :
       store = [present |-> TRUE, key |-> k, sum |-> c]

Create ==
  /\ store = Absent
  /\ \E k \in Key, c \in Sum : store' = [present |-> TRUE, key |-> k, sum |-> c]

WipeKey ==
  /\ store.present
  /\ store' = [store EXCEPT !.key = WipedKey]

WipeCheckSum ==
  /\ store.present /\ store.key = WipedKey
  /\ store' = [store EXCEPT !.sum = WipedSum]

Clear ==
  /\ store = [Absent EXCEPT !.present = TRUE]
  /\ store' = Absent

Next == Create \/ WipeKey \/ WipeCheckSum \/ Clear

Spec == Init /\ [][Next]_store
=============================================================================
