------------------------------- MODULE UsbIo --------------------------------
(***************************************************************************)
(* Class UsbIo: sector reads and read-modify-write writes through a        *)
(* Windows volume handle, together with the volume behind the handle.      *)
(*                                                                         *)
(* One Client is one UsbIo object (in a process of its own).  A call runs  *)
(* in two steps, so that the calls of several clients interleave:          *)
(*                                                                         *)
(*   read    FSCTL_LOCK_VOLUME, SetFilePointer, ReadFile  ("loaded")       *)
(*           copy to the caller, FSCTL_UNLOCK_VOLUME, return               *)
(*   write   SetFilePointer, ReadFile                     ("loaded")       *)
(*           overlay, SetFilePointer, WriteFile, unlock, return            *)
(*                                                                         *)
(* Locking and the ReadFile that follows are one step because no other     *)
(* handle reaches a locked volume.  A write never takes the lock.          *)
(*                                                                         *)
(* The pointer of the handle is not kept: a call moves it before it uses   *)
(* it, and where the move is refused (PreRead) it may stand anywhere.      *)
(*                                                                         *)
(* The module has no next-state relation: usbModel and UsbIoCalls compose  *)
(* its actions.  An action that ends a call has the value returned as its  *)
(* last parameter.                                                         *)
(***************************************************************************)
EXTENDS Sector

CONSTANTS
  Client,        \* the UsbIo objects
  NoClient,      \* no handle holds the volume lock
  LastSector,    \* sectors of the volume: 0 .. LastSector
  UninitBlocks,  \* what an uninitialised heap buffer may look like
  Faults         \* the failures the environment may inject

FaultKinds ==
  { "lock",      \* FSCTL_LOCK_VOLUME fails although no client holds it
    "unlock",    \* FSCTL_UNLOCK_VOLUME fails
    "read",      \* ReadFile fails
    "write",     \* WriteFile fails
    "torn",      \* WriteFile fails after the first sector
    "alloc",     \* new BYTE[] throws
    "open",      \* CreateFile returns INVALID_HANDLE_VALUE
    "unplug",    \* the stick is pulled out, its handles become invalid
    "crash" }    \* a client process dies, its handle is closed

ASSUME UsbIoAssumption ==
  /\ NoClient \notin Client
  /\ LastSector \in Nat
  /\ UninitBlocks \subseteq Block /\ UninitBlocks # {}
  /\ Faults \subseteq FaultKinds

VARIABLES
  disk,      \* disk[s]: sector s of the volume; survives every client
  locker,    \* the client whose handle holds the volume lock, or NoClient
  handle,    \* handle[p]: deviceHandle of client p
  io,        \* io[p]: where client p is in its current call
  buf        \* buf[p]: pTempData of that call, two sectors suffice

ioVars == <<disk, locker, handle, io, buf>>

SectorNo    == 0 .. LastSector
ReadFailed  == -1
WriteFailed == -2
NoBuf       == [i \in 0 .. 1 |-> ZeroBlock]

IoTypeOK ==
  /\ disk   \in [SectorNo -> Block]
  /\ locker \in Client \cup {NoClient}
  /\ handle \in [Client -> {"none", "open", "invalid"}]
  /\ io     \in [Client -> {"entry", "loaded"}]
  /\ buf    \in [Client -> [0 .. 1 -> Block]]

IoInit ==
  /\ locker = NoClient
  /\ handle = [p \in Client |-> "none"]
  /\ io     = [p \in Client |-> "entry"]
  /\ buf    = [p \in Client |-> NoBuf]

-----------------------------------------------------------------------------
(* The volume.                                                             *)

\* A handle reaches the volume unless another handle has locked it.
Reaches(p) == handle[p] = "open" /\ locker \in {NoClient, p}

\* A volume that is locked, even through the same handle, is not locked again.
CanLock(p) == handle[p] = "open" /\ locker = NoClient

\* FSCTL_UNLOCK_VOLUME, by a client that may or may not hold the lock.
Unlocked(p) == IF locker = p THEN NoClient ELSE locker

\* ReadFile into a fresh heap buffer, whose contents a failure leaves as is.
Load(p, req, mayFail) ==
  /\ io' = [io EXCEPT ![p] = "loaded"]
  /\ \/ /\ Reaches(p)
        /\ buf' = [buf EXCEPT ![p] =
             [i \in 0 .. 1 |-> IF i < Span(req) THEN disk[req.sector + i]
                                                ELSE ZeroBlock]]
     \/ /\ ~Reaches(p) \/ mayFail
        /\ \E g \in UninitBlocks :
             buf' = [buf EXCEPT ![p] =
               [i \in 0 .. 1 |-> IF i < Span(req) THEN g ELSE ZeroBlock]]

\* Mutant: the sectors are not read before they are written.
Merged_NotRead(p, req, data) ==
  [s \in SectorNo |->
     IF Touches(req, s)
     THEN [q \in Part |-> IF Covers(req, s, q) THEN data[q] ELSE 0]
     ELSE disk[s]]

\* The sectors handed to WriteFile: the buffer under the caller's bytes.
Merged(p, req, data) ==
  [s \in SectorNo |->
     IF Touches(req, s)
     THEN [q \in Part |-> IF Covers(req, s, q) THEN data[q]
                                               ELSE buf[p][s - req.sector][q]]
     ELSE disk[s]]

\* WriteFile: its result is not looked at.
Store(p, req, data) ==
  \/ Reaches(p) /\ disk' = Merged(p, req, data)
  \/ /\ ~Reaches(p) \/ "write" \in Faults
     /\ disk' = disk
  \/ /\ Reaches(p) /\ "torn" \in Faults
     /\ disk' = [disk EXCEPT ![req.sector] = Merged(p, req, data)[req.sector]]

-----------------------------------------------------------------------------
(* readFileForUsb.                                                         *)

\* The overload by distance swallows bad_alloc and goes on with a wild pointer.
ReadBegins(p, req) ==
  /\ io[p] = "entry"
  /\ CanLock(p)
  /\ locker' = p
  /\ Load(p, req, "read" \in Faults \/ (req.seek /\ "alloc" \in Faults))
  /\ UNCHANGED <<disk, handle>>

ReadRefused(p, ret) ==
  /\ io[p] = "entry"
  /\ ~CanLock(p) \/ "lock" \in Faults
  /\ ret = ReadFailed
  /\ UNCHANGED ioVars

\* Only the overload by sector number returns here, with the volume locked.
ReadOutOfMemory(p, req, ret) ==
  /\ io[p] = "entry"
  /\ CanLock(p)
  /\ ~req.seek /\ "alloc" \in Faults
  /\ ret = ReadFailed
  /\ locker' = p
  /\ UNCHANGED <<disk, handle, io, buf>>

\* Mutant: the volume is left locked.
ReadEnds_Locked(p, req, ret) ==
  /\ io[p] = "loaded"
  /\ ret = req.n
  /\ io'  = [io EXCEPT ![p] = "entry"]
  /\ buf' = [buf EXCEPT ![p] = NoBuf]
  /\ UNCHANGED <<disk, locker, handle>>

\* Mutant: the result of FSCTL_UNLOCK_VOLUME is not looked at.
ReadEnds_Unchecked(p, req, ret) ==
  /\ io[p] = "loaded"
  /\ locker' = Unlocked(p) /\ ret = req.n
  /\ io'  = [io EXCEPT ![p] = "entry"]
  /\ buf' = [buf EXCEPT ![p] = NoBuf]
  /\ UNCHANGED <<disk, handle>>

\* Mutant: a failed unlock returns before the buffer is given up.
ReadEnds_Loaded(p, req, ret) ==
  /\ io[p] = "loaded"
  /\ \/ locker = p /\ locker' = Unlocked(p) /\ ret = req.n /\ io' = [io EXCEPT ![p] = "entry"]
     \/ locker # p /\ locker' = locker /\ ret = ReadFailed /\ io' = io
  /\ UNCHANGED <<disk, handle, buf>>

\* The length returned is that of the copy loop, not of the transfer.
ReadEnds(p, req, ret) ==
  /\ io[p] = "loaded"
  /\ \/ locker = p /\ locker' = Unlocked(p) /\ ret = req.n
     \/ /\ locker # p \/ "unlock" \in Faults
        /\ locker' = locker
        /\ ret = ReadFailed
  /\ io'  = [io EXCEPT ![p] = "entry"]
  /\ buf' = [buf EXCEPT ![p] = NoBuf]
  /\ UNCHANGED <<disk, handle>>

ReadReturns(p, req, ret) ==
  \/ ReadRefused(p, ret)
  \/ ReadOutOfMemory(p, req, ret)
  \/ ReadEnds(p, req, ret)

-----------------------------------------------------------------------------
(* writeFileForUsb.                                                        *)

\* The move before a write's ReadFile leaves the high half and the method out
\* (UsbIo.cpp:196). Where it is refused, a negative low half from the beginning,
\* ReadFile goes on from wherever the handle's pointer stands.
PreRead(req) ==
  {[req EXCEPT !.sector = s] :
     s \in IF req.from = Unmoved THEN 0 .. LastSector + 1 - Span(req) ELSE {req.from}}

WriteBegins(p, req) ==
  /\ io[p] = "entry"
  /\ \E r \in PreRead(req) : Load(p, r, "read" \in Faults \/ req.from = Unmoved)
  /\ UNCHANGED <<disk, locker, handle>>

WriteOutOfMemory(p, ret) ==
  /\ io[p] = "entry"
  /\ "alloc" \in Faults
  /\ ret = WriteFailed
  /\ UNCHANGED ioVars

\* The copy loop's length again, whatever ReadFile and WriteFile did.
WriteEnds(p, req, data, ret) ==
  /\ io[p] = "loaded"
  /\ Store(p, req, data)
  /\ locker' \in {Unlocked(p)} \cup (IF "unlock" \in Faults THEN {locker} ELSE {})
  /\ ret = req.n
  /\ io'  = [io EXCEPT ![p] = "entry"]
  /\ buf' = [buf EXCEPT ![p] = NoBuf]
  /\ UNCHANGED handle

WriteReturns(p, req, data, ret) ==
  \/ WriteOutOfMemory(p, ret)
  \/ WriteEnds(p, req, data, ret)

-----------------------------------------------------------------------------
(* The handle.                                                             *)

NoCallInProgress(p) ==
  /\ io'  = [io EXCEPT ![p] = "entry"]
  /\ buf' = [buf EXCEPT ![p] = NoBuf]

OpenDevice(p) ==
  /\ handle[p] = "none"
  /\ handle' \in {[handle EXCEPT ![p] = h] :
        h \in {"open"} \cup (IF "open" \in Faults THEN {"invalid"} ELSE {})}
  /\ NoCallInProgress(p)
  /\ UNCHANGED <<disk, locker>>

\* ~UsbIo, or the end of the process: closing a handle gives up its lock.
CloseHandle(p) ==
  /\ handle[p] # "none"
  /\ handle' = [handle EXCEPT ![p] = "none"]
  /\ locker' = Unlocked(p)
  /\ NoCallInProgress(p)
  /\ UNCHANGED disk

\* The stick is pulled out and put back: the handles opened before are dead.
Unplug ==
  /\ "unplug" \in Faults
  /\ \E p \in Client : handle[p] = "open"
  /\ handle' = [p \in Client |-> IF handle[p] = "open" THEN "invalid"
                                                       ELSE handle[p]]
  /\ locker' = NoClient
  /\ UNCHANGED <<disk, io, buf>>
=============================================================================
