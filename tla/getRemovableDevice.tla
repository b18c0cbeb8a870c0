------------------------- MODULE getRemovableDevice -------------------------
(***************************************************************************)
(* UsbIo::getRemovableDevice: the letters of the removable drives, from    *)
(* the bit mask of GetLogicalDrives.  Drive i is bit i of the mask.        *)
(***************************************************************************)
EXTENDS Integers, Sequences

CONSTANT Drives      \* number of drive letters, 26 in Windows

DrivesAssumption == Drives \in Nat

VARIABLES
  present,      \* the drives of the mask
  removable,    \* those GetDriveType calls DRIVE_REMOVABLE
  i,            \* the loop variable
  deviceName,   \* letters found, as drive numbers
  done

vars == <<present, removable, i, deviceName, done>>

Drive == 0 .. Drives - 1

TypeOK ==
  /\ present \subseteq Drive /\ removable \subseteq present
  /\ i \in 0 .. Drives
  /\ \A k \in 1 .. Len(deviceName) : deviceName[k] \in Drive
  /\ done \in BOOLEAN

Init ==
  /\ present \in SUBSET Drive /\ removable \in SUBSET present
  /\ i = 0 /\ deviceName = <<>> /\ done = FALSE

\* 1<<k
Bit[k \in Nat] == IF k = 0 THEN 1 ELSE 2 * Bit[k - 1]

\* The value of the mask.
Mask ==
  LET sum[k \in Nat] ==
        IF k = 0 THEN 0 ELSE sum[k - 1] + (IF k - 1 \in present THEN Bit[k - 1] ELSE 0)
  IN  sum[Drives]

\* Mutant: the loop ends one bit early.
GoesOn_Short == Bit[i + 1] < Mask

\* while((1<<i)<drive)
GoesOn == Bit[i] < Mask

Look ==
  /\ ~done /\ GoesOn
  /\ deviceName' = IF i \in removable THEN Append(deviceName, i) ELSE deviceName
  /\ i' = i + 1
  /\ UNCHANGED <<present, removable, done>>

Finish ==
  /\ ~done /\ ~GoesOn
  /\ done' = TRUE
  /\ UNCHANGED <<present, removable, i, deviceName>>

Next == Look \/ Finish \/ (done /\ UNCHANGED vars)

Spec == Init /\ [][Next]_vars

-----------------------------------------------------------------------------
\* Every removable drive once, in the order of the alphabet.
Listed ==
  /\ {deviceName[k] : k \in 1 .. Len(deviceName)} = removable
  /\ \A k \in 1 .. Len(deviceName) - 1 : deviceName[k] < deviceName[k + 1]

\* On a machine with two drives or more, the loop that stops at the first power
\* of two not below the mask (UsbIo.cpp:33) has seen every removable one.  It
\* does not look at a drive that is the only one.
ListedAmongOthers == done /\ (\E j, k \in present : j # k) => Listed
=============================================================================
