------------------------- MODULE usbModelProperties -------------------------
(***************************************************************************)
(* What the UKey operations guarantee, on which stick and under which      *)
(* failures: each property names the runs' assumptions it needs.           *)
(***************************************************************************)
EXTENDS usbModel

Idle == \A p \in Client : pc[p] = "idle"

\* The UKey on the stick is the one client p has cached.
CacheCurrent(p) ==
  /\ Marked(disk[1])
  /\ sector_Key[p] = disk[1]["kptr"]
  /\ sector_CheckSum[p] = disk[1]["cptr"]

\* Whatever fails and however clients interleave, a stick that is recognised
\* as a UKey points to two different sectors behind the first two: what
\* createUKey (usbModel.cpp:55-64) publishes is what findNullSector found.
MarkSane == SaneMark(disk[1])

\* No write of createUKey or deleteUkey reaches the boot sector, although the
\* sector numbers they use are read from the stick (usbModel.cpp:33-35,82-84).
BootSectorKept == [][disk'[0] = disk[0]]_vars

\* A step changes a sector, the mark's apart, only if it is unused or one of
\* the two the mark points to: neither a scan that was cut short, nor a cache
\* that has gone stale, nor the rewrite of the sector after the one asked for
\* (UsbIo.cpp:241,280) touches the data of files or the remains of a UKey that
\* was never marked.  Needs ReadFile to work, one program, and sticks without
\* a sector in which only byte 511 is used (usbModel.cpp:133).
ForeignDataKept ==
  [][\A s \in SectorNo \ {1} :
       disk'[s] # disk[s] =>
         \/ disk[s] = ZeroBlock
         \/ Marked(disk[1]) /\ s \in {disk[1]["kptr"], disk[1]["cptr"]}]_vars

\* OPERATION_SUCCESS of createUKey means that, at that moment, the stick is
\* marked with the two sectors the object has cached: is_UKey runs again at
\* the end (usbModel.cpp:67) and holds the volume lock while it does.
SuccessIsVerified ==
  [][\A p \in Client :
       /\ pc[p] \in {"create.key", "create.sum", "create.mark", "create.verify"}
       /\ answer'.to = p /\ answer'.ret = OPERATION_SUCCESS
       => CacheCurrent(p)']_vars

\* Between its calls a client does not hold the volume lock, so that a call
\* of one program never locks out every other (UsbIo.cpp:98,166,233,290).
\* Needs allocation and FSCTL_UNLOCK_VOLUME to work.
LockFreeBetweenCalls ==
  \A p \in Client : locker = p => pc[p] \in ReadLabel /\ io[p] = "loaded"

\* A single program on a stick that only crashes, unplugging, failed unlocks
\* and failed opens disturb: the object's cached sectors are those of the
\* UKey on the stick, or the object has none, whenever it is not busy.
CacheCoherent ==
  Idle /\ Marked(disk[1]) =>
    \A p \in Client : sector_Key[p] = 0 \/ CacheCurrent(p)

\* In the same setting a successful getKey or getCheckSum on a UKey hands out
\* what is stored there, whichever object made it and whatever this one did
\* before (usbModel.cpp:101-108,114-121).
GetsWhatIsStored ==
  [][\A p \in Client :
       /\ answer'.to = p /\ answer'.ret = 1 /\ Marked(disk[1])
       => /\ pc[p] = "getKey.read" => answer'.out = disk[disk[1]["kptr"]]
          /\ pc[p] = "getCheckSum.read" =>
               answer'.out["head"] = disk[disk[1]["cptr"]]["head"]]_vars

\* Every call returns (or its process dies): the scan, the re-checks and the
\* paths of every failure end (usbModel.cpp:129).
CallsReturn == \A p \in Client : pc[p] # "idle" ~> pc[p] = "idle"

\* The sectors, marks and writes of one program implement the abstract store.
Stored ==
  IF Marked(disk[1])
  THEN [present |-> TRUE,
        key     |-> disk[disk[1]["kptr"]],
        sum     |-> disk[disk[1]["cptr"]]["head"]]
  ELSE [present |-> FALSE, key |-> ZeroBlock, sum |-> 0]

Keeper == INSTANCE UKeyStore
  WITH Key <- Keys, Sum <- Sums, WipedKey <- ZeroBlock, WipedSum <- 0,
       store <- Stored

\* createUKey publishes key and checksum at once, never replaces a UKey, and
\* deleteUkey wipes both before it unmarks the stick (usbModel.cpp:47-64,82-92),
\* with a crash, a torn write or an unplugging between any two steps.
ImplementsStore == Keeper!Spec

-----------------------------------------------------------------------------
(* Why MarkSane and BootSectorKept hold: the inductive invariant.          *)

\* No cached sector number lies outside the scan.
PointersInRange ==
  \A p \in Client : sector_Key[p] < ScanEnd /\ sector_CheckSum[p] < ScanEnd

\* A client that writes has two sector numbers, found or read from the mark.
WritersHaveSectors ==
  \A p \in Client :
    pc[p] \in WriteLabel =>
      /\ 2 <= sector_Key[p]
      /\ sector_Key[p] < sector_CheckSum[p]

\* The scan has left the key sector behind when it looks for the second one.
ScanIsAhead ==
  \A p \in Client :
    pc[p] = "create.scan" =>
      sector_Key[p] = 0 \/ (2 <= sector_Key[p] /\ sector_Key[p] < scan[p])

\* What a client has loaded from sector 1, and may put back, is sane.
LoadedMarksSane ==
  \A p \in Client :
    pc[p] \in CheckLabel \cup {"delete.undo"} /\ io[p] = "loaded"
      => SaneMark(buf[p][0])

\* A buffer does not outlive its call.
IdleHasNoBuffer == \A p \in Client : pc[p] = "idle" => io[p] = "entry"

\* Every client writes only where a sane mark or its own scan sent it, and
\* what it may put into sector 1 is sane: an inductive invariant of the steps
\* of usbModel.cpp, implying MarkSane and BootSectorKept.
IInv ==
  /\ TypeOK
  /\ MarkSane
  /\ PointersInRange
  /\ WritersHaveSectors
  /\ ScanIsAhead
  /\ LoadedMarksSane
  /\ IdleHasNoBuffer

-----------------------------------------------------------------------------
(* What comments and declarations say of the class, and the code does not  *)
(* keep.                                                                   *)

\* "Get the stored key" (usbModel.h:56): getKey succeeds only on a UKey.
GetsOnlyFromUKey ==
  [][\A p \in Client :
       pc[p] = "getKey.read" /\ answer'.to = p /\ answer'.ret = 1
         => Marked(disk[1])]_vars

\* "Verify the UKey mark" and ALREADY_EXIST (usbModel.cpp:46-47, usbModel.h:25):
\* with one program, a stick that is a UKey stays the one it is until that is
\* deleted; no second one takes over its mark.
NeverReplaces ==
  [][Marked(disk[1]) /\ Marked(disk'[1]) => disk'[1] = disk[1]]_vars

\* "The key to be written", "the checksum to be written" (usbModel.h:35,36):
\* these are stored when createUKey reports success.  Another program that
\* only reads makes the writes fail unseen (UsbIo.cpp:287-292), and one that
\* found the same unused sectors writes over them (usbModel.cpp:133).
SuccessMeansStored ==
  [][\A p \in Client :
       pc[p] = "create.verify" /\ answer'.to = p /\ answer'.ret = OPERATION_SUCCESS
         => Stored = [present |-> TRUE, key |-> arg[p].key, sum |-> arg[p].sum]]_vars
=============================================================================
