------------------------ MODULE GetUsbIdentification ------------------------
(***************************************************************************)
(* GetUsbIdentification: one call, from the drive letter to the vendor,    *)
(* product and serial number of the USB device behind it.  The call looks  *)
(* the drive up in the registry, then walks through the USB devices until  *)
(* one has the drive's serial number.                                      *)
(*                                                                         *)
(* The instance part of a registry value or device path is the sequence of *)
(* its fields between '&'; <<>> stands for a registry value with fewer     *)
(* than three '#'.  Windows itself is the world the call finds and the     *)
(* failures it may meet.                                                   *)
(***************************************************************************)
EXTENDS Integers, Sequences

CONSTANTS
  Worlds,    \* what the call may find, see GetUsbIdentificationAssumption
  NoPID      \* contents of the caller's buffer before the call

GetUsbIdentificationAssumption ==
  \A w \in Worlds :
    /\ w.removable \in BOOLEAN      \* GetDriveType says DRIVE_REMOVABLE
    /\ w.drive \in Seq(STRING)      \* instance part of the registry value
    /\ w.devices \in Seq([id : Seq(STRING), pid : STRING])
    /\ \A i \in 1 .. Len(w.devices) : w.devices[i].pid # NoPID
    /\ w.fails \subseteq           \* what may fail, at any call
         {"open", "query", "requery", "list", "size", "detail", "memory"}

VARIABLES
  world,       \* chosen once; a device list is a snapshot
  at,          \* the next call of the Windows API
  nDevIndex,
  held,        \* what the call has opened or allocated and not given back
  lpPID,       \* the caller's buffer
  result       \* the value returned

vars == <<world, at, nDevIndex, held, lpPID, result>>

Resource == {"hKey", "lpRegBinData", "lpUSBKeyData", "hUSB",
             "lpDevIntDetailData", "lpPathTemp"}
Exit == {"returned", "thrown", "dead"}

TypeOK ==
  /\ world \in Worlds
  /\ at \in {"type", "open", "query", "requery", "list", "enum", "size", "detail"} \cup Exit
  /\ nDevIndex \in 0 .. Len(world.devices)
  /\ held \subseteq Resource
  /\ lpPID \in {NoPID} \cup {world.devices[i].pid : i \in 1 .. Len(world.devices)}
  /\ result \in BOOLEAN

Init ==
  /\ world \in Worlds
  /\ at = "type" /\ nDevIndex = 0 /\ held = {} /\ lpPID = NoPID /\ result = FALSE

-----------------------------------------------------------------------------
Goto(label) == at' = label /\ UNCHANGED <<world, lpPID, result>>

Return(value) == at' = "returned" /\ result' = value /\ UNCHANGED world

\* new throws through the call, which has no handler.
Throws ==
  /\ "memory" \in world.fails
  /\ Goto("thrown")
  /\ UNCHANGED <<nDevIndex, held>>

\* `op` can fail, and then the call gives up what it holds and returns false.
GivesUp(op) ==
  /\ op \in world.fails
  /\ Return(FALSE)
  /\ held' = {}
  /\ UNCHANGED <<nDevIndex, lpPID>>

DriveType ==
  /\ at = "type"
  /\ \/ world.removable /\ Goto("open") /\ UNCHANGED <<nDevIndex, held>>
     \/ ~world.removable /\ Return(FALSE) /\ UNCHANGED <<nDevIndex, held, lpPID>>

OpenKey ==
  /\ at = "open"
  /\ \/ Goto("query") /\ held' = {"hKey"} /\ UNCHANGED nDevIndex
     \/ GivesUp("open")

QuerySize ==
  /\ at = "query"
  /\ \/ /\ Goto("requery")
        /\ held' = held \cup {"lpRegBinData", "lpUSBKeyData"}
        /\ UNCHANGED nDevIndex
     \/ Throws
     \/ GivesUp("query")

\* strtok keeps the first field of the instance part; without one, strupr
\* gets a null pointer.
QueryValue ==
  /\ at = "requery"
  /\ \/ /\ Goto(IF world.drive = <<>> THEN "dead" ELSE "list")
        /\ held' = held \ {"hKey", "lpRegBinData"}
        /\ UNCHANGED nDevIndex
     \/ GivesUp("requery")

GetClassDevs ==
  /\ at = "list"
  /\ \/ Goto("enum") /\ held' = held \cup {"hUSB"} /\ UNCHANGED nDevIndex
     \/ GivesUp("list")

EnumDeviceInterfaces ==
  /\ at = "enum"
  /\ UNCHANGED nDevIndex
  /\ \/ nDevIndex < Len(world.devices) /\ Goto("size") /\ UNCHANGED held
     \/ /\ nDevIndex >= Len(world.devices)
        /\ Return(TRUE)
        /\ held' = held \ {"hUSB", "lpUSBKeyData"}
        /\ UNCHANGED lpPID

\* GlobalAlloc returns a null pointer, which the call writes through.
DetailSize ==
  /\ at = "size"
  /\ UNCHANGED nDevIndex
  /\ \/ Goto("detail") /\ held' = held \cup {"lpDevIntDetailData"}
     \/ "memory" \in world.fails /\ Goto("dead") /\ UNCHANGED held
     \/ "size" \in world.fails /\ Goto("enum") /\ UNCHANGED held

Device == world.devices[nDevIndex + 1]

\* Mutant: only the beginning of the instance is compared.
SameSerial_Prefix == Device.id[1] = world.drive[1]

\* The whole instance part of the device, against one field of the drive's.
SameSerial == Device.id = <<world.drive[1]>>

\* Mutant: leaving the loop forgets the buffer of the details.
FreedWhenFound_Detail == held \ {"hUSB", "lpUSBKeyData"}

FreedWhenFound == held \ {"lpDevIntDetailData", "hUSB", "lpUSBKeyData"}

\* Mutant: the loop asks for the same device again.
NextIndex_Stuck == nDevIndex

\* Mutant: the loop passes over every second device.
NextIndex_Skips == nDevIndex + 2

NextIndex == nDevIndex + 1

Detail ==
  /\ at = "detail"
  /\ \/ /\ SameSerial
        /\ lpPID' = Device.pid
        /\ Return(TRUE)
        /\ held' = FreedWhenFound
        /\ UNCHANGED nDevIndex
     \/ /\ ~SameSerial
        /\ Goto("enum")
        /\ nDevIndex' = NextIndex
        /\ held' = held \ {"lpDevIntDetailData"}
     \/ Throws
     \/ /\ "detail" \in world.fails
        /\ Goto("enum")
        /\ held' = held \ {"lpDevIntDetailData"}
        /\ UNCHANGED nDevIndex

Step ==
  \/ DriveType \/ OpenKey \/ QuerySize \/ QueryValue \/ GetClassDevs
  \/ EnumDeviceInterfaces \/ DetailSize \/ Detail

Next == Step \/ (at \in Exit /\ UNCHANGED vars)

Spec == Init /\ [][Next]_vars

\* The thread that made the call keeps running.
FairSpec == Spec /\ WF_vars(Step)

-----------------------------------------------------------------------------
IsTheDrives(i) == world.drive # <<>> /\ world.devices[i].id = <<world.drive[1]>>

\* Every path on which the call returns gives back the key, the lists and the
\* buffers it took (GetUsbIdentification.cpp:53,69-71,76,87,106,154-168).
NothingLeaks == at = "returned" => held = {}

\* Whatever fails, the identification handed out is that of a device with the
\* drive's own serial number, and false comes with none (lines 149-156).
OnlyTheDrivesDevice ==
  lpPID # NoPID =>
    /\ at = "returned" /\ result
    /\ \E i \in 1 .. Len(world.devices) : world.devices[i].pid = lpPID /\ IsTheDrives(i)

\* If nothing fails, a stick with a serial number is found wherever it is in
\* the list of devices (lines 120-164).
CanIdentify ==
  /\ world.removable /\ world.fails = {}
  /\ \E i \in 1 .. Len(world.devices) : IsTheDrives(i)
Identified == lpPID # NoPID

Identifies == CanIdentify ~> Identified

\* The walk through the devices ends, unless the details of one of them cannot
\* be had: nDevIndex advances only when they can (lines 133,139,159).
DetailsReadable == world.fails \cap {"size", "detail"} = {}
HasEnded == at \in Exit

Returns == DetailsReadable ~> HasEnded

\* "Gets the serial number of the given drive" (GetUsbIdentification.h:5):
\* true means that the buffer holds one.
TrueMeansIdentified == at = "returned" /\ result => lpPID # NoPID
=============================================================================
