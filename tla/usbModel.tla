------------------------------ MODULE usbModel ------------------------------
(***************************************************************************)
(* Class usbModel: a UKey is a key and a checksum stored in two otherwise  *)
(* unused sectors of a USB stick, found through five bytes at the end of   *)
(* sector 1 (key sector, checksum sector, AA 55 AA).                       *)
(*                                                                         *)
(* pc[p] names the UsbIo call that client p's current operation is at, as  *)
(* "operation.call"; a step that ends a call also runs the code from that  *)
(* call to the next one, or to the return of the operation.                *)
(*                                                                         *)
(* Bounds: the scan limit 256 is ScanEnd, a BYTE has ByteSize values, the  *)
(* keys and checksums are those of Keys and Sums.                          *)
(***************************************************************************)
EXTENDS UsbIo

CONSTANTS
  ScanEnd,        \* findNullSector looks at sectors 2 .. ScanEnd - 1
  Keys,           \* keys handed to createUKey: one sector each
  Sums,           \* checksums handed to createUKey: 32 bytes each
  InitialDisks    \* contents of the stick before the first operation

OPERATION_SUCCESS   == 1
INVALID_DISK        == 0
UNABLE_TO_READ      == -1
UNABLE_TO_WRITE     == -2
SPACE_IS_NOT_ENOUGH == -3
ALREADY_EXIST       == -4
DANGOURS_ERROR      == -100

\* Sectors a marked block may point to.
SaneMark(b) ==
  Marked(b) => 2 <= b["kptr"] /\ b["kptr"] < b["cptr"] /\ b["cptr"] < ScanEnd

ASSUME usbModelAssumption ==
  /\ ScanEnd \in 3 .. ByteSize     \* a sector number found fits in a BYTE
  /\ ScanEnd <= LastSector         \* the sector after the last one scanned exists
  /\ Keys \subseteq Block
  /\ Sums \subseteq Byte
  /\ \A b \in UninitBlocks : ~Marked(b)
  /\ \A d \in InitialDisks : d \in [SectorNo -> Block] /\ SaneMark(d[1])

VARIABLES
  pc,               \* where client p is
  sector_Key,       \* the object's cached sector numbers, 0 if unknown
  sector_CheckSum,
  arg,              \* arguments of createUKey
  scan,             \* loop variable of findNullSector
  answer            \* what this step returned to a client, if anything

vars   == <<disk, locker, handle, io, buf,
            pc, sector_Key, sector_CheckSum, arg, scan, answer>>

CheckLabel == {"is_UKey", "create.check", "create.verify", "delete.check",
               "getKey.check", "getCheckSum.check"}
ReadLabel  == CheckLabel \cup {"create.boot", "create.scan", "getKey.read",
                               "getCheckSum.read"}
WriteLabel == {"create.key", "create.sum", "create.mark",
               "delete.key", "delete.sum", "delete.undo", "delete.mark"}
Label      == {"idle"} \cup ReadLabel \cup WriteLabel

NoAnswer == [to |-> NoClient, ret |-> 0, out |-> ZeroBlock]
NoArg    == [key |-> ZeroBlock, sum |-> 0]

TypeOK ==
  /\ IoTypeOK
  /\ pc              \in [Client -> Label]
  /\ sector_Key      \in [Client -> Byte]
  /\ sector_CheckSum \in [Client -> Byte]
  /\ arg    \in [Client -> [key : Block, sum : Byte]]
  /\ scan   \in [Client -> 2 .. ScanEnd - 1]
  /\ answer \in [to : Client \cup {NoClient}, ret : Int, out : Block]

Init ==
  /\ disk \in InitialDisks
  /\ IoInit
  /\ pc              = [p \in Client |-> "idle"]
  /\ sector_Key      = [p \in Client |-> 0]
  /\ sector_CheckSum = [p \in Client |-> 0]
  /\ arg    = [p \in Client |-> NoArg]
  /\ scan   = [p \in Client |-> 2]
  /\ answer = NoAnswer

-----------------------------------------------------------------------------
(* The UsbIo call at each label.                                           *)

\* Mutant: the end of sector 0 instead of the end of sector 1.
MarkBytes_SectorZero == Seek(perSectorSize - 5, 5)

\* The five bytes that make a stick a UKey.
MarkBytes == Seek(perSectorSize * 2 - 5, 5)

Req(p) ==
  IF pc[p] \in CheckLabel \cup {"create.mark", "delete.mark"} THEN MarkBytes
  ELSE IF pc[p] = "create.boot"      THEN Seek(perSectorSize - 2, 2)
  ELSE IF pc[p] = "create.scan"      THEN At(scan[p], perSectorSize)
  ELSE IF pc[p] \in {"create.key", "getKey.read", "delete.key"}
                                     THEN At(sector_Key[p], KeySize)
  ELSE IF pc[p] \in {"create.sum", "getCheckSum.read"}
                                     THEN At(sector_CheckSum[p], CheckSumSize)
  ELSE IF pc[p] = "delete.sum"       THEN At(sector_CheckSum[p], perSectorSize)
  ELSE \* delete.undo
       Seek(perSectorSize * 2 - 3, 1)

\* Mutant: the two sector numbers in the other order.
NewMark_Swapped(p) ==
  [ZeroBlock EXCEPT !["kptr"] = sector_CheckSum[p] % ByteSize,
                    !["cptr"] = sector_Key[p] % ByteSize,
                    !["mark"] = MarkAA,
                    !["sig"]  = Sig55AA]

\* What createUKey writes to the end of sector 1.
NewMark(p) ==
  [ZeroBlock EXCEPT !["kptr"] = sector_Key[p] % ByteSize,
                    !["cptr"] = sector_CheckSum[p] % ByteSize,
                    !["mark"] = MarkAA,
                    !["sig"]  = Sig55AA]

\* The bytes handed to writeFileForUsb; deleteUkey clears pData and writes it.
Data(p) ==
  IF pc[p] = "create.key"       THEN arg[p].key
  ELSE IF pc[p] = "create.sum"  THEN [ZeroBlock EXCEPT !["head"] = arg[p].sum]
  ELSE IF pc[p] = "create.mark" THEN NewMark(p)
  ELSE ZeroBlock

-----------------------------------------------------------------------------
(* Control.                                                                *)

Goto(p, label) ==
  /\ pc' = [pc EXCEPT ![p] = label]
  /\ answer' = NoAnswer
  /\ UNCHANGED arg

ReturnWith(p, ret, out) ==
  /\ pc'  = [pc EXCEPT ![p] = "idle"]
  /\ arg' = [arg EXCEPT ![p] = NoArg]
  /\ answer' = [to |-> p, ret |-> ret, out |-> out]

Return(p, ret) == ReturnWith(p, ret, ZeroBlock)

Call(p, label, newArg) ==
  /\ pc[p] = "idle" /\ handle[p] # "none"
  /\ pc'  = [pc EXCEPT ![p] = label]
  /\ arg' = [arg EXCEPT ![p] = newArg]
  /\ answer' = NoAnswer
  /\ UNCHANGED <<ioVars, sector_Key, sector_CheckSum, scan>>

\* The first step of any UsbIo call.
BeginIo(p) ==
  /\ \/ pc[p] \in ReadLabel  /\ ReadBegins(p, Req(p))
     \/ pc[p] \in WriteLabel /\ WriteBegins(p, Req(p))
  /\ answer' = NoAnswer
  /\ UNCHANGED <<pc, sector_Key, sector_CheckSum, arg, scan>>

-----------------------------------------------------------------------------
(* is_UKey, as called by the client itself and by the other operations.    *)

is_UKey(p) == Call(p, "is_UKey", NoArg)

Recognised(p) ==
  \/ pc[p] = "is_UKey"           /\ Return(p, 1)
  \/ pc[p] = "create.check"      /\ Return(p, ALREADY_EXIST)
  \/ pc[p] = "create.verify"     /\ Return(p, OPERATION_SUCCESS)
  \/ pc[p] = "delete.check"      /\ Goto(p, "delete.key")
  \/ pc[p] = "getKey.check"      /\ Goto(p, "getKey.read")
  \/ pc[p] = "getCheckSum.check" /\ Goto(p, "getCheckSum.read")

NotRecognised(p) ==
  \/ pc[p] \in {"is_UKey", "getKey.check", "getCheckSum.check"} /\ Return(p, 0)
  \/ pc[p] = "create.check"  /\ Goto(p, "create.boot")
  \/ pc[p] = "create.verify" /\ Return(p, UNABLE_TO_WRITE)
  \/ pc[p] = "delete.check"  /\ Return(p, INVALID_DISK)

CheckReturns(p) ==
  /\ pc[p] \in CheckLabel
  /\ \E ret \in {ReadFailed, 5} :
       /\ ReadReturns(p, Req(p), ret)
       /\ IF ret = 5 /\ Marked(buf[p][0])
          THEN /\ sector_Key'      = [sector_Key EXCEPT ![p] = buf[p][0]["kptr"]]
               /\ sector_CheckSum' = [sector_CheckSum EXCEPT ![p] = buf[p][0]["cptr"]]
               /\ Recognised(p)
          ELSE /\ UNCHANGED <<sector_Key, sector_CheckSum>>
               /\ NotRecognised(p)
  /\ UNCHANGED scan

-----------------------------------------------------------------------------
(* createUKey and findNullSector.                                          *)

createUKey(p) ==
  \E k \in Keys, c \in Sums : Call(p, "create.check", [key |-> k, sum |-> c])

BootReturns(p) ==
  /\ pc[p] = "create.boot"
  /\ \E ret \in {ReadFailed, 2} :
       /\ ReadReturns(p, Req(p), ret)
       /\ IF ret = 2 /\ Bootable(buf[p][0])
          THEN /\ Goto(p, "create.scan")
               /\ sector_Key'      = [sector_Key EXCEPT ![p] = 0]
               /\ sector_CheckSum' = [sector_CheckSum EXCEPT ![p] = 0]
          ELSE /\ Return(p, IF ret = 2 THEN INVALID_DISK ELSE UNABLE_TO_READ)
               /\ UNCHANGED <<sector_Key, sector_CheckSum>>
  /\ UNCHANGED scan

\* Mutant: the loop also looks at sector ScanEnd.
ScanOn_TooFar(p) ==
  IF scan[p] < ScanEnd
  THEN scan' = [scan EXCEPT ![p] = scan[p] + 1] /\ Goto(p, "create.scan")
  ELSE scan' = [scan EXCEPT ![p] = 2] /\ Return(p, SPACE_IS_NOT_ENOUGH)

\* Mutant: the loop does not go on.
ScanOn_Stuck(p) == Goto(p, "create.scan") /\ UNCHANGED scan

\* The loop goes on to the next sector, or has seen them all.
ScanOn(p) ==
  IF scan[p] + 1 < ScanEnd
  THEN scan' = [scan EXCEPT ![p] = scan[p] + 1] /\ Goto(p, "create.scan")
  ELSE scan' = [scan EXCEPT ![p] = 2] /\ Return(p, SPACE_IS_NOT_ENOUGH)

findNullSector(p) ==
  /\ pc[p] = "create.scan"
  /\ \E ret \in {ReadFailed, perSectorSize} :
       LET null == ret = perSectorSize /\ ScansAsNull(buf[p][0])
       IN  /\ ReadReturns(p, Req(p), ret)
           /\ \/ /\ ~null
                 /\ ScanOn(p)
                 /\ UNCHANGED <<sector_Key, sector_CheckSum>>
              \/ /\ null /\ sector_Key[p] = 0
                 /\ sector_Key' = [sector_Key EXCEPT ![p] = scan[p]]
                 /\ ScanOn(p)
                 /\ UNCHANGED sector_CheckSum
              \/ /\ null /\ sector_Key[p] # 0
                 /\ sector_CheckSum' = [sector_CheckSum EXCEPT ![p] = scan[p]]
                 /\ scan' = [scan EXCEPT ![p] = 2]
                 /\ Goto(p, "create.key")
                 /\ UNCHANGED sector_Key

\* Mutant: the mark is written before the checksum it points to.
Written_MarkFirst(p) ==
  \/ pc[p] = "create.key"  /\ Goto(p, "create.mark")
  \/ pc[p] = "create.mark" /\ Goto(p, "create.sum")
  \/ pc[p] = "create.sum"  /\ Goto(p, "create.verify")
  \/ pc[p] = "delete.key"  /\ Goto(p, "delete.sum")
  \/ pc[p] = "delete.sum"  /\ Goto(p, "delete.mark")
  \/ pc[p] = "delete.mark" /\ Return(p, OPERATION_SUCCESS)

\* Mutant: createUKey trusts its last write.
Written_Unverified(p) ==
  \/ pc[p] = "create.key"  /\ Goto(p, "create.sum")
  \/ pc[p] = "create.sum"  /\ Goto(p, "create.mark")
  \/ pc[p] = "delete.key"  /\ Goto(p, "delete.sum")
  \/ pc[p] = "delete.sum"  /\ Goto(p, "delete.mark")
  \/ pc[p] \in {"create.mark", "delete.mark"} /\ Return(p, OPERATION_SUCCESS)

\* One of the writes of createUKey or deleteUkey returns.
Written(p) ==
  \/ pc[p] = "create.key"  /\ Goto(p, "create.sum")
  \/ pc[p] = "create.sum"  /\ Goto(p, "create.mark")
  \/ pc[p] = "create.mark" /\ Goto(p, "create.verify")
  \/ pc[p] = "delete.key"  /\ Goto(p, "delete.sum")
  \/ pc[p] = "delete.sum"  /\ Goto(p, "delete.mark")
  \/ pc[p] = "delete.mark" /\ Return(p, OPERATION_SUCCESS)

NotWritten(p) ==
  \/ pc[p] = "delete.sum"  /\ Goto(p, "delete.undo")
  \/ pc[p] = "delete.mark" /\ Return(p, DANGOURS_ERROR)
  \/ pc[p] \notin {"delete.sum", "delete.mark"} /\ Return(p, UNABLE_TO_WRITE)

PutReturns(p) ==
  /\ pc[p] \in WriteLabel \ {"delete.undo"}
  /\ \E ret \in {WriteFailed, Req(p).n} :
       /\ WriteReturns(p, Req(p), Data(p), ret)
       /\ IF ret = Req(p).n THEN Written(p) ELSE NotWritten(p)
  /\ UNCHANGED <<sector_Key, sector_CheckSum, scan>>

-----------------------------------------------------------------------------
(* deleteUkey.                                                             *)

deleteUkey(p) == Call(p, "delete.check", NoArg)

(***************************************************************************)
(* The attempt to spoil the mark passes a null pointer as the data.  The   *)
(* copy loop faults; a build that turns the fault into a C++ exception     *)
(* swallows it, writes the buffer back as it was loaded and returns 0,     *)
(* any other build dies (Dies below).                                      *)
(***************************************************************************)
UndoReturns(p) ==
  /\ pc[p] = "delete.undo"
  /\ \/ WriteOutOfMemory(p, WriteFailed)
     \/ WriteEnds(p, Req(p), buf[p][0], Req(p).n)
  /\ Return(p, DANGOURS_ERROR)
  /\ UNCHANGED <<sector_Key, sector_CheckSum, scan>>

-----------------------------------------------------------------------------
(* getKey and getCheckSum: is_UKey is called when no sector is cached.     *)

\* Mutant: the sector is not looked up.
getKey_NotLookedUp(p) == Call(p, "getKey.read", NoArg)

getKey(p) ==
  Call(p, IF sector_Key[p] = 0 THEN "getKey.check" ELSE "getKey.read", NoArg)

getCheckSum(p) ==
  Call(p, IF sector_CheckSum[p] = 0 THEN "getCheckSum.check"
                                    ELSE "getCheckSum.read", NoArg)

\* The bytes of the buffer that a get hands to its caller.
Got(p) == IF pc[p] = "getKey.read" THEN buf[p][0]
          ELSE [ZeroBlock EXCEPT !["head"] = buf[p][0]["head"]]

GetReturns(p) ==
  /\ pc[p] \in {"getKey.read", "getCheckSum.read"}
  /\ \E ret \in {ReadFailed, Req(p).n} :
       /\ ReadReturns(p, Req(p), ret)
       /\ IF ret = Req(p).n THEN ReturnWith(p, 1, Got(p)) ELSE Return(p, 0)
  /\ UNCHANGED <<sector_Key, sector_CheckSum, scan>>

-----------------------------------------------------------------------------
(* The object's life: construction, destruction, death of the process.     *)

Forget(p) ==
  /\ pc'              = [pc EXCEPT ![p] = "idle"]
  /\ sector_Key'      = [sector_Key EXCEPT ![p] = 0]
  /\ sector_CheckSum' = [sector_CheckSum EXCEPT ![p] = 0]
  /\ arg'    = [arg EXCEPT ![p] = NoArg]
  /\ scan'   = [scan EXCEPT ![p] = 2]
  /\ answer' = NoAnswer

Construct(p) == OpenDevice(p) /\ Forget(p)

Destroy(p) == pc[p] = "idle" /\ CloseHandle(p) /\ Forget(p)

\* A kill, a null pointer (delete.undo) or a wild pointer (a read by distance
\* whose allocation failed).
Dies(p) ==
  /\ \/ "crash" \in Faults
     \/ pc[p] = "delete.undo" /\ io[p] = "loaded"
     \/ "alloc" \in Faults /\ pc[p] \in ReadLabel /\ Req(p).seek /\ io[p] = "loaded"
  /\ CloseHandle(p)
  /\ Forget(p)

Pulled ==
  /\ Unplug
  /\ answer' = NoAnswer
  /\ UNCHANGED <<pc, sector_Key, sector_CheckSum, arg, scan>>

Start(p) ==
  is_UKey(p) \/ createUKey(p) \/ deleteUkey(p) \/ getKey(p) \/ getCheckSum(p)

Advance(p) ==
  \/ BeginIo(p)
  \/ CheckReturns(p)
  \/ BootReturns(p)
  \/ findNullSector(p)
  \/ PutReturns(p)
  \/ UndoReturns(p)
  \/ GetReturns(p)

Next ==
  \/ \E p \in Client : Construct(p) \/ Start(p) \/ Advance(p) \/ Destroy(p) \/ Dies(p)
  \/ Pulled

Spec == Init /\ [][Next]_vars

\* A thread that is inside an operation keeps running.
FairSpec == Spec /\ \A p \in Client : WF_vars(Advance(p))
=============================================================================
