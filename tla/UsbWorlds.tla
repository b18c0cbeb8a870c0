----------------------------- MODULE UsbWorlds ------------------------------
(***************************************************************************)
(* What an identification call may find, for TLC: up to three USB devices  *)
(* in any order.  They are the stick behind the drive, a second stick of   *)
(* the same product, a hub, and a mouse whose instance Windows made up.    *)
(***************************************************************************)
EXTENDS Naturals

Stick  == [pid |-> "VID1&PID1&S1", id |-> <<"S1">>]
Twin   == [pid |-> "VID1&PID1&S2", id |-> <<"S2">>]
Hub    == [pid |-> "VID2&PID1&S1&1", id |-> <<"S1", "1">>]
Mouse  == [pid |-> "VID3&PID7&7&1", id |-> <<"7", "1">>]

Lists == UNION {[1 .. n -> {Stick, Twin, Hub, Mouse}] : n \in 0 .. 3}
Distinct(l) == \A i, j \in DOMAIN l : i # j => l[i] # l[j]

World(removable, drive, devices, fails) ==
  [removable |-> removable, drive |-> drive, devices |-> devices, fails |-> fails]

Anything == {"open", "query", "requery", "list", "size", "detail", "memory"}
NoDetail == {"open", "query", "requery", "list", "memory"}

\* The registry value of a stick with a serial number is "S1&0"; one without
\* a serial number; a value without an instance part; a fixed disk.
FoundWorlds ==
  {World(TRUE, <<"S1", "0">>, l, f) :
     l \in {x \in Lists : Distinct(x)}, f \in {{}, Anything}}
  \cup
  {World(r, d, l, f) :
     r \in BOOLEAN, d \in {<<"7", "100A16F", "0">>, <<>>},
     l \in {<<>>, <<Mouse>>, <<Mouse, Twin>>}, f \in {{}, NoDetail, Anything}}

\* A stick without a serial number of its own, and nothing fails.
WorldWithoutSerial == World(TRUE, <<"7", "100A16F", "0">>, <<Mouse, Twin>>, {})
=============================================================================
