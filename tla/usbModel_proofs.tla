-------------------------- MODULE usbModel_proofs ---------------------------
EXTENDS usbModelProperties, TLAPS

-----------------------------------------------------------------------------
(* The requests.                                                           *)

\* The ranges that do not depend on the state.
LEMMA FixedRequests ==
  /\ MarkBytes = [seek |-> TRUE, sector |-> 1, from |-> 1, off |-> 507, n |-> 5]
  /\ Seek(perSectorSize * 2 - 3, 1) = [seek |-> TRUE, sector |-> 1, from |-> 1, off |-> 509, n |-> 1]
  /\ Seek(perSectorSize - 2, 2) = [seek |-> TRUE, sector |-> 0, from |-> 0, off |-> 510, n |-> 2]
BY DEF MarkBytes, Seek, perSectorSize

\* The pointers and the scan are sector numbers that fit in a BYTE.
LEMMA Numbers ==
  ASSUME IInv, NEW p \in Client
  PROVE  /\ sector_Key[p] \in Nat /\ sector_Key[p] < ScanEnd
         /\ sector_CheckSum[p] \in Nat /\ sector_CheckSum[p] < ScanEnd
         /\ scan[p] \in Nat /\ 2 <= scan[p] /\ scan[p] < ScanEnd
         /\ ScanEnd \in Nat /\ ScanEnd <= ByteSize /\ ScanEnd <= LastSector
         /\ ByteSize \in Nat /\ LastSector \in Nat /\ ByteSize >= 4 /\ ScanEnd >= 3
BY usbModelAssumption, UsbIoAssumption, ByteSizeAssumption
   DEF IInv, TypeOK, PointersInRange, Byte

\* Every request stays on the stick, and a write never starts at sector 0.
LEMMA RequestInRange ==
  ASSUME IInv, NEW p \in Client, pc[p] # "idle"
  PROVE  /\ Req(p).sector \in Nat /\ Req(p).sector < ScanEnd
         /\ Span(Req(p)) \in {1, 2}
         /\ Req(p).n \in Nat
         /\ pc[p] \in WriteLabel => Req(p).sector >= 1
<1>1. pc[p] \in ReadLabel \cup WriteLabel
  BY DEF IInv, TypeOK, Label
<1>2. CASE pc[p] \in CheckLabel \cup {"create.mark", "delete.mark"}
  <2>1. Req(p) = [seek |-> TRUE, sector |-> 1, from |-> 1, off |-> 507, n |-> 5]
    BY <1>2, FixedRequests DEF Req
  <2> QED BY <2>1, Numbers DEF Span, perSectorSize
<1>3. CASE pc[p] = "create.boot"
  <2>1. Req(p) = [seek |-> TRUE, sector |-> 0, from |-> 0, off |-> 510, n |-> 2]
    BY <1>3, FixedRequests DEF Req, CheckLabel
  <2> QED BY <2>1, <1>3, Numbers DEF Span, perSectorSize, WriteLabel
<1>4. CASE pc[p] = "create.scan"
  <2>1. Req(p) = [seek |-> FALSE, sector |-> scan[p], from |-> scan[p], off |-> 0, n |-> 512]
    BY <1>4 DEF Req, CheckLabel, At, perSectorSize
  <2> QED BY <2>1, <1>4, Numbers DEF Span, perSectorSize, WriteLabel
<1>5. CASE pc[p] \in {"create.key", "getKey.read", "delete.key"}
  <2>1. Req(p) = [seek |-> FALSE, sector |-> sector_Key[p], from |-> sector_Key[p], off |-> 0, n |-> 512]
    BY <1>5 DEF Req, CheckLabel, At, KeySize
  <2>2. pc[p] \in WriteLabel => sector_Key[p] >= 2
    BY Numbers DEF IInv, WritersHaveSectors
  <2> QED BY <2>1, <2>2, Numbers DEF Span, perSectorSize
<1>6. CASE pc[p] \in {"create.sum", "getCheckSum.read"}
  <2>1. Req(p) = [seek |-> FALSE, sector |-> sector_CheckSum[p], from |-> sector_CheckSum[p], off |-> 0, n |-> 32]
    BY <1>6 DEF Req, CheckLabel, At, CheckSumSize
  <2>2. pc[p] \in WriteLabel => sector_CheckSum[p] >= 2
    BY Numbers DEF IInv, WritersHaveSectors
  <2> QED BY <2>1, <2>2, Numbers DEF Span, perSectorSize
<1>7. CASE pc[p] = "delete.sum"
  <2>1. Req(p) = [seek |-> FALSE, sector |-> sector_CheckSum[p], from |-> sector_CheckSum[p], off |-> 0, n |-> 512]
    BY <1>7 DEF Req, CheckLabel, At, perSectorSize
  <2>2. sector_CheckSum[p] >= 2
    BY <1>7, Numbers DEF IInv, WritersHaveSectors, WriteLabel
  <2> QED BY <2>1, <2>2, Numbers DEF Span, perSectorSize
<1>8. CASE pc[p] = "delete.undo"
  <2>1. Req(p) = [seek |-> TRUE, sector |-> 1, from |-> 1, off |-> 509, n |-> 1]
    BY <1>8, FixedRequests DEF Req, CheckLabel
  <2> QED BY <2>1, Numbers DEF Span, perSectorSize
<1> QED
  BY <1>1, <1>2, <1>3, <1>4, <1>5, <1>6, <1>7, <1>8 DEF ReadLabel, WriteLabel

\* The requests read where they write: before a write, ReadFile loads its sectors.
LEMMA WritesLoadTheirSectors ==
  ASSUME IInv, NEW p \in Client, pc[p] # "idle", WriteBegins(p, Req(p))
  PROVE  Load(p, Req(p), "read" \in Faults)
<1>1. \E low, n : Req(p) = Seek(low, n) \/ Req(p) = At(low, n)
  BY Zenon DEF Req, MarkBytes
<1>2. ReadWhereWritten(Req(p)) /\ [Req(p) EXCEPT !.sector = Req(p).sector] = Req(p)
  BY <1>1 DEF Seek, At, ReadWhereWritten
<1>3. Req(p).from # Unmoved
  BY <1>2, RequestInRange DEF ReadWhereWritten, Unmoved
<1>4. PreRead(Req(p)) = {Req(p)}
  BY <1>2, <1>3 DEF PreRead, ReadWhereWritten
<1>5. Load(p, Req(p), "read" \in Faults \/ Req(p).from = Unmoved)
  BY <1>4, Zenon DEF WriteBegins
<1> QED BY <1>3, <1>5, Zenon DEF Load

\* The requests that reach the end of sector 1, and nothing before it.
LEMMA MarkRequests ==
  ASSUME NEW p \in Client, pc[p] \in CheckLabel \cup {"create.mark", "delete.mark"}
  PROVE  Req(p) = [seek |-> TRUE, sector |-> 1, from |-> 1, off |-> 507, n |-> 5]
BY FixedRequests DEF Req

\* Any other write but the undo starts behind sector 1.
LEMMA OtherRequests ==
  ASSUME IInv, NEW p \in Client,
         pc[p] \in {"create.key", "create.sum", "delete.key", "delete.sum"}
  PROVE  Req(p).sector >= 2
BY Numbers DEF Req, CheckLabel, At, IInv, WritersHaveSectors, WriteLabel

-----------------------------------------------------------------------------
(* ReadFile and WriteFile.                                                 *)

\* Whatever ReadFile does, the buffer holds blocks; if it holds sector 1, it
\* holds the sane mark that was there, or no mark.
LEMMA LoadIsTyped ==
  ASSUME IInv, NEW p \in Client, pc[p] # "idle", NEW f, Load(p, Req(p), f)
  PROVE  /\ buf' \in [Client -> [0 .. 1 -> Block]]
         /\ io'  \in [Client -> {"entry", "loaded"}]
         /\ \A r \in Client : r # p => buf'[r] = buf[r] /\ io'[r] = io[r]
         /\ Req(p).sector = 1 => SaneMark(buf'[p][0])
<1> USE RequestInRange, Numbers
<1>0. /\ ZeroBlock \in Block
      /\ disk \in [SectorNo -> Block]
      /\ buf \in [Client -> [0 .. 1 -> Block]]
      /\ io \in [Client -> {"entry", "loaded"}]
  BY DEF IInv, TypeOK, IoTypeOK, ZeroBlock, Block, Byte
<1>1. ASSUME NEW i \in 0 .. 1, i < Span(Req(p))
      PROVE  Req(p).sector + i \in SectorNo
  BY <1>1 DEF SectorNo
<1>2. io' = [io EXCEPT ![p] = "loaded"]
  BY DEF Load
<1>3. CASE buf' = [buf EXCEPT ![p] =
             [i \in 0 .. 1 |-> IF i < Span(Req(p)) THEN disk[Req(p).sector + i]
                                                   ELSE ZeroBlock]]
  <2>1. [i \in 0 .. 1 |-> IF i < Span(Req(p)) THEN disk[Req(p).sector + i] ELSE ZeroBlock]
          \in [0 .. 1 -> Block]
    BY <1>0, <1>1
  <2>2. buf'[p][0] = disk[Req(p).sector]
    BY <1>0, <1>3
  <2> QED BY <1>0, <1>2, <1>3, <2>1, <2>2 DEF IInv, MarkSane
<1>4. ASSUME NEW g \in UninitBlocks,
             buf' = [buf EXCEPT ![p] =
               [i \in 0 .. 1 |-> IF i < Span(Req(p)) THEN g ELSE ZeroBlock]]
      PROVE  /\ buf' \in [Client -> [0 .. 1 -> Block]]
             /\ \A r \in Client : r # p => buf'[r] = buf[r] /\ io'[r] = io[r]
             /\ SaneMark(buf'[p][0])
  <2>1. g \in Block /\ ~Marked(g)
    BY UsbIoAssumption, usbModelAssumption
  <2>2. [i \in 0 .. 1 |-> IF i < Span(Req(p)) THEN g ELSE ZeroBlock] \in [0 .. 1 -> Block]
    BY <1>0, <2>1
  <2>3. buf'[p][0] = g
    BY <1>0, <1>4
  <2> QED BY <1>0, <1>2, <1>4, <2>1, <2>2, <2>3 DEF SaneMark
<1> QED BY <1>0, <1>2, <1>3, <1>4 DEF Load

LEMMA DataIsTyped ==
  ASSUME IInv, NEW p \in Client
  PROVE  Data(p) \in Block
<1>1. /\ ZeroBlock \in Block /\ arg[p].key \in Block /\ arg[p].sum \in Byte
      /\ sector_Key[p] % ByteSize \in Byte /\ sector_CheckSum[p] % ByteSize \in Byte
      /\ MarkAA \in Byte /\ Sig55AA \in Byte
  BY Numbers DEF IInv, TypeOK, ZeroBlock, Block, Byte, MarkAA, Sig55AA
<1>2. NewMark(p) \in Block
  BY <1>1 DEF NewMark, Block, Part, ZeroBlock
<1>3. [ZeroBlock EXCEPT !["head"] = arg[p].sum] \in Block
  BY <1>1 DEF Block, ZeroBlock
<1> QED BY <1>1, <1>2, <1>3 DEF Data

\* A write keeps the boot sector and, if the bytes it lays over sector 1 make
\* a sane mark, leaves a sane mark.
LEMMA StoreKeepsMark ==
  ASSUME IInv, NEW p \in Client, pc[p] \in WriteLabel, NEW d \in Block,
         Store(p, Req(p), d),
         SaneMark(Merged(p, Req(p), d)[1])
  PROVE  /\ disk' \in [SectorNo -> Block]
         /\ SaneMark(disk'[1])
         /\ disk'[0] = disk[0]
<1> USE RequestInRange, Numbers
<1>0. /\ disk \in [SectorNo -> Block]
      /\ buf \in [Client -> [0 .. 1 -> Block]]
      /\ 0 \in SectorNo /\ 1 \in SectorNo /\ Req(p).sector \in SectorNo
      /\ SectorNo \subseteq Nat
  BY DEF IInv, TypeOK, IoTypeOK, SectorNo, WriteLabel
<1> DEFINE M == Merged(p, Req(p), d)
<1>1. ASSUME NEW s \in SectorNo PROVE M[s] \in Block
  <2>1. CASE Touches(Req(p), s)
    <3>1. s - Req(p).sector \in 0 .. 1
      BY <1>0, <2>1 DEF Touches, WriteLabel
    <3>2. buf[p][s - Req(p).sector] \in Block
      BY <1>0, <3>1
    <3> QED BY <2>1, <3>2 DEF Merged, Block
  <2>2. CASE ~Touches(Req(p), s)
    BY <1>0, <2>2 DEF Merged
  <2> QED BY <2>1, <2>2
<1>2. M \in [SectorNo -> Block]
  BY <1>1 DEF Merged
<1>3. M[0] = disk[0]
  <2>1. ~Touches(Req(p), 0)
    BY <1>0 DEF Touches, WriteLabel
  <2> QED BY <1>0, <2>1 DEF Merged
<1> HIDE DEF M
<1>4. CASE disk' = M
  BY <1>2, <1>3, <1>4 DEF M
<1>5. CASE disk' = disk
  BY <1>0, <1>5 DEF IInv, MarkSane
<1>6. CASE disk' = [disk EXCEPT ![Req(p).sector] = M[Req(p).sector]]
  BY <1>0, <1>2, <1>3, <1>6 DEF M, IInv, MarkSane, WriteLabel
<1> QED BY <1>4, <1>5, <1>6 DEF Store, M

\* What the operations lay over sector 1 makes a sane mark, or none.
LEMMA MergedMarkSane ==
  ASSUME IInv, NEW p \in Client, pc[p] \in WriteLabel \ {"delete.undo"}
  PROVE  SaneMark(Merged(p, Req(p), Data(p))[1])
<1> USE Numbers
<1>0. 1 \in SectorNo
  BY DEF SectorNo
<1>1. CASE pc[p] \in {"create.mark", "delete.mark"}
  <2>1. Req(p) = [seek |-> TRUE, sector |-> 1, from |-> 1, off |-> 507, n |-> 5]
    BY <1>1, MarkRequests
  <2>2. /\ Touches(Req(p), 1)
        /\ \A q \in {"kptr", "cptr", "mark", "sig"} : Covers(Req(p), 1, q)
    BY <2>1 DEF Touches, Covers, Span, perSectorSize, FirstByte, LastByte
  <2>3. \A q \in {"kptr", "cptr", "mark", "sig"} :
          Merged(p, Req(p), Data(p))[1][q] = Data(p)[q]
    BY <1>0, <2>2 DEF Merged, Part
  <2>4. CASE pc[p] = "create.mark"
    <3>1. /\ Data(p)["kptr"] = sector_Key[p] % ByteSize
          /\ Data(p)["cptr"] = sector_CheckSum[p] % ByteSize
      BY <2>4 DEF Data, NewMark, ZeroBlock, Part
    <3>2. sector_Key[p] % ByteSize = sector_Key[p]
      OBVIOUS
    <3>3. sector_CheckSum[p] % ByteSize = sector_CheckSum[p]
      OBVIOUS
    <3>4. 2 <= sector_Key[p] /\ sector_Key[p] < sector_CheckSum[p]
      BY <2>4 DEF IInv, WritersHaveSectors, WriteLabel
    <3> QED BY <2>3, <3>1, <3>2, <3>3, <3>4 DEF SaneMark
  <2>5. CASE pc[p] = "delete.mark"
    <3>1. Data(p)["mark"] = 0
      BY <2>5 DEF Data, ZeroBlock, Part
    <3> QED BY <2>3, <3>1 DEF SaneMark, Marked, MarkAA
  <2> QED BY <1>1, <2>4, <2>5
<1>2. CASE pc[p] \in {"create.key", "create.sum", "delete.key", "delete.sum"}
  <2>1. ~Touches(Req(p), 1)
    BY <1>2, OtherRequests, RequestInRange DEF Touches
  <2>2. Merged(p, Req(p), Data(p))[1] = disk[1]
    BY <1>0, <2>1 DEF Merged
  <2> QED BY <2>2 DEF IInv, MarkSane
<1> QED BY <1>1, <1>2 DEF WriteLabel

\* The failed undo of deleteUkey puts back the sector it loaded.
LEMMA UndoneMarkSane ==
  ASSUME IInv, NEW p \in Client, pc[p] = "delete.undo", io[p] = "loaded"
  PROVE  SaneMark(Merged(p, Req(p), buf[p][0])[1])
<1>0. 1 \in SectorNo
  BY Numbers DEF SectorNo
<1>1. Req(p) = [seek |-> TRUE, sector |-> 1, from |-> 1, off |-> 509, n |-> 1]
  BY FixedRequests DEF Req, CheckLabel
<1>2. Touches(Req(p), 1)
  BY <1>1 DEF Touches, Span, perSectorSize
<1>3. Merged(p, Req(p), buf[p][0])[1] = [q \in Part |-> buf[p][0][q]]
  BY <1>0, <1>1, <1>2 DEF Merged
<1> QED BY <1>3 DEF IInv, LoadedMarksSane, SaneMark, Marked, Part

-----------------------------------------------------------------------------
(* Ends of UsbIo calls.                                                    *)

\* A read leaves the stick alone and gives up its buffer.
LEMMA ReadReturnsIsTyped ==
  ASSUME IInv, NEW p \in Client, pc[p] # "idle", NEW ret, ReadReturns(p, Req(p), ret)
  PROVE  /\ IoTypeOK'
         /\ disk' = disk
         /\ io'[p] = "entry"
         /\ \A r \in Client : r # p => buf'[r] = buf[r] /\ io'[r] = io[r]
         /\ ret = ReadFailed \/ (ret = Req(p).n /\ io[p] = "loaded")
<1>0. NoBuf \in [0 .. 1 -> Block] /\ IoTypeOK
  BY Numbers DEF NoBuf, ZeroBlock, Block, Byte, IInv, TypeOK
<1>1. CASE ReadRefused(p, ret)
  BY <1>0, <1>1 DEF ReadRefused, ioVars, IoTypeOK
<1>2. CASE ReadOutOfMemory(p, Req(p), ret)
  BY <1>0, <1>2 DEF ReadOutOfMemory, IoTypeOK
<1>3. CASE ReadEnds(p, Req(p), ret)
  BY <1>0, <1>3 DEF ReadEnds, IoTypeOK, Unlocked
<1> QED BY <1>1, <1>2, <1>3 DEF ReadReturns

LEMMA WriteReturnsIsTyped ==
  ASSUME IInv, NEW p \in Client, pc[p] \in WriteLabel, NEW d \in Block, NEW ret,
         WriteReturns(p, Req(p), d, ret),
         io[p] = "loaded" => SaneMark(Merged(p, Req(p), d)[1])
  PROVE  /\ IoTypeOK'
         /\ SaneMark(disk'[1])
         /\ disk'[0] = disk[0]
         /\ io'[p] = "entry"
         /\ \A r \in Client : r # p => buf'[r] = buf[r] /\ io'[r] = io[r]
<1>0. NoBuf \in [0 .. 1 -> Block] /\ IoTypeOK /\ SaneMark(disk[1])
  BY Numbers DEF NoBuf, ZeroBlock, Block, Byte, IInv, TypeOK, MarkSane
<1>1. CASE WriteOutOfMemory(p, ret)
  BY <1>0, <1>1 DEF WriteOutOfMemory, ioVars, IoTypeOK
<1>2. CASE WriteEnds(p, Req(p), d, ret)
  <2>1. /\ disk' \in [SectorNo -> Block] /\ SaneMark(disk'[1]) /\ disk'[0] = disk[0]
    BY <1>2, StoreKeepsMark DEF WriteEnds
  <2> QED BY <1>0, <1>2, <2>1 DEF WriteEnds, IoTypeOK, Unlocked
<1> QED BY <1>1, <1>2 DEF WriteReturns

-----------------------------------------------------------------------------
(* Each step of a client moves that client only.                           *)

\* The part of the invariant that speaks of one client.
ClientOK(p) ==
  /\ sector_Key[p] < ScanEnd /\ sector_CheckSum[p] < ScanEnd
  /\ pc[p] \in WriteLabel => 2 <= sector_Key[p] /\ sector_Key[p] < sector_CheckSum[p]
  /\ pc[p] = "create.scan" =>
       sector_Key[p] = 0 \/ (2 <= sector_Key[p] /\ sector_Key[p] < scan[p])
  /\ pc[p] \in CheckLabel \cup {"delete.undo"} /\ io[p] = "loaded"
       => SaneMark(buf[p][0])
  /\ pc[p] = "idle" => io[p] = "entry"

LEMMA OneClientMoves ==
  ASSUME IInv, NEW p \in Client,
         TypeOK', SaneMark(disk'[1]), ClientOK(p)',
         \A r \in Client : r # p =>
           /\ pc'[r] = pc[r] /\ scan'[r] = scan[r]
           /\ sector_Key'[r] = sector_Key[r] /\ sector_CheckSum'[r] = sector_CheckSum[r]
           /\ io'[r] = io[r] /\ buf'[r] = buf[r]
  PROVE  IInv'
<1>1. MarkSane'
  BY DEF MarkSane
<1>2. \A r \in Client : ClientOK(r)'
  <2> SUFFICES ASSUME NEW r \in Client, r # p PROVE ClientOK(r)'
    OBVIOUS
  <2> QED BY DEF ClientOK, IInv, PointersInRange, WritersHaveSectors, ScanIsAhead,
                 LoadedMarksSane, IdleHasNoBuffer
<1> QED BY <1>1, <1>2 DEF ClientOK, IInv, PointersInRange, WritersHaveSectors,
                          ScanIsAhead, LoadedMarksSane, IdleHasNoBuffer

LEMMA ClientIsOK ==
  ASSUME IInv, NEW p \in Client
  PROVE  ClientOK(p) /\ TypeOK /\ SaneMark(disk[1])
BY DEF ClientOK, IInv, MarkSane, PointersInRange, WritersHaveSectors, ScanIsAhead,
       LoadedMarksSane, IdleHasNoBuffer

\* An operation is called: the client leaves "idle" with no buffer.
LEMMA StartKeepsInv ==
  ASSUME IInv, NEW p \in Client, Start(p)
  PROVE  IInv' /\ disk'[0] = disk[0]
<1>1. PICK l \in {"is_UKey", "create.check", "delete.check", "getKey.check", "getKey.read",
                   "getCheckSum.check", "getCheckSum.read"},
           a \in [key : Block, sum : Byte] : Call(p, l, a)
  <2>1. NoArg \in [key : Block, sum : Byte]
    BY Numbers DEF NoArg, ZeroBlock, Block, Byte
  <2>2. \A k \in Keys, c \in Sums : [key |-> k, sum |-> c] \in [key : Block, sum : Byte]
    BY usbModelAssumption
  <2> QED BY <2>1, <2>2 DEF Start, is_UKey, createUKey, deleteUkey, getKey, getCheckSum
<1> USE ClientIsOK, Numbers
<1>2. TypeOK'
  <2>1. NoAnswer \in [to : Client \cup {NoClient}, ret : Int, out : Block]
    BY DEF NoAnswer, ZeroBlock, Block, Byte
  <2>2. l \in Label
    BY DEF Label, ReadLabel, CheckLabel
  <2> QED BY <1>1, <2>1, <2>2 DEF TypeOK, IoTypeOK, Call, ioVars
<1>3. ClientOK(p)'
  <2>1. pc'[p] = l /\ io'[p] = "entry"
    BY <1>1 DEF Call, ioVars, TypeOK, ClientOK
  <2> QED BY <1>1, <2>1 DEF ClientOK, Call, ioVars, WriteLabel
<1> QED BY <1>1, <1>2, <1>3, OneClientMoves DEF Call, ioVars, TypeOK

\* A UsbIo call begins.
LEMMA BeginIoKeepsInv ==
  ASSUME IInv, NEW p \in Client, BeginIo(p)
  PROVE  IInv' /\ disk'[0] = disk[0]
<1> USE ClientIsOK, Numbers
<1>0. pc[p] # "idle"
  BY DEF BeginIo, ReadLabel, WriteLabel, CheckLabel
<1>1. PICK f : Load(p, Req(p), f)
  BY <1>0, WritesLoadTheirSectors, Zenon DEF BeginIo, ReadBegins
<1>2. /\ disk' = disk /\ handle' = handle
      /\ locker' \in {p, locker}
      /\ UNCHANGED <<pc, sector_Key, sector_CheckSum, arg, scan>>
      /\ answer' = NoAnswer
  BY DEF BeginIo, ReadBegins, WriteBegins
<1>3. /\ buf' \in [Client -> [0 .. 1 -> Block]]
      /\ io'  \in [Client -> {"entry", "loaded"}]
      /\ \A r \in Client : r # p => buf'[r] = buf[r] /\ io'[r] = io[r]
      /\ Req(p).sector = 1 => SaneMark(buf'[p][0])
  BY <1>0, <1>1, LoadIsTyped
<1>4. NoAnswer \in [to : Client \cup {NoClient}, ret : Int, out : Block]
  BY DEF NoAnswer, ZeroBlock, Block, Byte
<1>5. TypeOK'
  BY <1>2, <1>3, <1>4 DEF TypeOK, IoTypeOK
<1>6. pc[p] \in CheckLabel \cup {"delete.undo"} => Req(p).sector = 1
  BY FixedRequests DEF Req, CheckLabel
<1>7. ClientOK(p)'
  BY <1>0, <1>2, <1>3, <1>6 DEF ClientOK
<1> QED BY <1>2, <1>3, <1>5, <1>7, OneClientMoves

\* The client p goes on at label l, or returns, with a well-typed answer.
MovesTo(p, l) ==
  /\ pc' = [pc EXCEPT ![p] = l]
  /\ arg' \in [Client -> [key : Block, sum : Byte]]
  /\ answer' \in [to : Client \cup {NoClient}, ret : Int, out : Block]

LEMMA GotoMoves ==
  ASSUME IInv, NEW p \in Client, NEW l, Goto(p, l)
  PROVE  MovesTo(p, l)
BY Numbers DEF Goto, MovesTo, NoAnswer, ZeroBlock, Block, Byte, IInv, TypeOK

LEMMA ReturnMoves ==
  ASSUME IInv, NEW p \in Client, NEW ret \in Int, NEW out \in Block,
         ReturnWith(p, ret, out) \/ Return(p, ret)
  PROVE  MovesTo(p, "idle")
<1>1. ZeroBlock \in Block /\ NoArg \in [key : Block, sum : Byte]
  BY Numbers DEF NoArg, ZeroBlock, Block, Byte
<1> QED BY <1>1 DEF ReturnWith, Return, MovesTo, IInv, TypeOK

\* When a UsbIo call has ended, the invariant only depends on the next label
\* and on the sector numbers.
LEMMA CallEnds ==
  ASSUME IInv, NEW p \in Client, NEW l \in Label, MovesTo(p, l),
         sector_Key'      = [sector_Key EXCEPT ![p] = sector_Key'[p]],
         sector_CheckSum' = [sector_CheckSum EXCEPT ![p] = sector_CheckSum'[p]],
         scan'            = [scan EXCEPT ![p] = scan'[p]],
         sector_Key'[p]      \in Nat, sector_Key'[p] < ScanEnd,
         sector_CheckSum'[p] \in Nat, sector_CheckSum'[p] < ScanEnd,
         scan'[p] \in 2 .. ScanEnd - 1,
         l \in WriteLabel => 2 <= sector_Key'[p] /\ sector_Key'[p] < sector_CheckSum'[p],
         l = "create.scan" =>
           sector_Key'[p] = 0 \/ (2 <= sector_Key'[p] /\ sector_Key'[p] < scan'[p]),
         IoTypeOK', SaneMark(disk'[1]), io'[p] = "entry",
         \A r \in Client : r # p => buf'[r] = buf[r] /\ io'[r] = io[r]
  PROVE  IInv'
<1> USE ClientIsOK, Numbers
<1>1. sector_Key'[p] \in Byte /\ sector_CheckSum'[p] \in Byte
  BY DEF Byte
<1>2. TypeOK'
  BY <1>1 DEF TypeOK, MovesTo
<1>3. pc'[p] = l
  BY DEF TypeOK, MovesTo
<1>4. ClientOK(p)'
  BY <1>3 DEF ClientOK
<1> QED BY <1>2, <1>4, OneClientMoves DEF MovesTo, TypeOK

-----------------------------------------------------------------------------
(* The steps that end a UsbIo call.                                        *)

LEMMA ReturnCodes ==
  {OPERATION_SUCCESS, INVALID_DISK, UNABLE_TO_READ, UNABLE_TO_WRITE, SPACE_IS_NOT_ENOUGH,
   ALREADY_EXIST, DANGOURS_ERROR, ReadFailed, WriteFailed} \subseteq Int
BY DEF OPERATION_SUCCESS, INVALID_DISK, UNABLE_TO_READ, UNABLE_TO_WRITE, SPACE_IS_NOT_ENOUGH,
       ALREADY_EXIST, DANGOURS_ERROR, ReadFailed, WriteFailed

LEMMA ZeroBlockIsTyped == ZeroBlock \in Block
BY ByteSizeAssumption DEF ZeroBlock, Block, Byte

\* is_UKey: the numbers cached are those of a sane mark.
LEMMA CheckReturnsKeepsInv ==
  ASSUME IInv, NEW p \in Client, CheckReturns(p)
  PROVE  IInv' /\ disk'[0] = disk[0]
<1> USE ClientIsOK, Numbers
<1>0. pc[p] \in CheckLabel /\ pc[p] # "idle"
  BY DEF CheckReturns, CheckLabel
<1>1. PICK ret \in {ReadFailed, 5} :
        /\ ReadReturns(p, Req(p), ret)
        /\ IF ret = 5 /\ Marked(buf[p][0])
           THEN /\ sector_Key'      = [sector_Key EXCEPT ![p] = buf[p][0]["kptr"]]
                /\ sector_CheckSum' = [sector_CheckSum EXCEPT ![p] = buf[p][0]["cptr"]]
                /\ Recognised(p)
           ELSE /\ UNCHANGED <<sector_Key, sector_CheckSum>>
                /\ NotRecognised(p)
  BY DEF CheckReturns
<1>2. scan' = scan
  BY DEF CheckReturns
<1>3. /\ IoTypeOK' /\ disk' = disk /\ io'[p] = "entry"
      /\ \A r \in Client : r # p => buf'[r] = buf[r] /\ io'[r] = io[r]
      /\ ret = ReadFailed \/ (ret = Req(p).n /\ io[p] = "loaded")
  BY <1>0, <1>1, ReadReturnsIsTyped
<1>4. /\ scan' = [scan EXCEPT ![p] = scan'[p]] /\ scan'[p] \in 2 .. ScanEnd - 1
      /\ sector_Key'      = [sector_Key EXCEPT ![p] = sector_Key'[p]]
      /\ sector_CheckSum' = [sector_CheckSum EXCEPT ![p] = sector_CheckSum'[p]]
  BY <1>1, <1>2 DEF TypeOK
<1>5. CASE ret = 5 /\ Marked(buf[p][0])
  <2>1. io[p] = "loaded"
    BY <1>3, <1>5 DEF ReadFailed
  <2>2. SaneMark(buf[p][0])
    BY <1>0, <2>1 DEF ClientOK
  <2>3. /\ sector_Key'[p] = buf[p][0]["kptr"] /\ sector_CheckSum'[p] = buf[p][0]["cptr"]
        /\ buf[p][0]["kptr"] \in Nat /\ buf[p][0]["cptr"] \in Nat
    BY <1>1, <1>5 DEF TypeOK, IoTypeOK, Block, Byte, Part
  <2>4. /\ 2 <= sector_Key'[p] /\ sector_Key'[p] < sector_CheckSum'[p]
        /\ sector_CheckSum'[p] < ScanEnd
    BY <1>5, <2>2, <2>3 DEF SaneMark
  <2>5. \E l \in Label \ {"create.scan"} : MovesTo(p, l)
    <3>1. Recognised(p)
      BY <1>1, <1>5
    <3>2. CASE Goto(p, "delete.key")
      BY <3>2, GotoMoves DEF Label, WriteLabel
    <3>3. CASE Goto(p, "getKey.read") \/ Goto(p, "getCheckSum.read")
      BY <3>3, GotoMoves DEF Label, ReadLabel
    <3>4. CASE Return(p, 1) \/ Return(p, ALREADY_EXIST) \/ Return(p, OPERATION_SUCCESS)
      <4>1. MovesTo(p, "idle")
        BY <3>4, ReturnCodes, ZeroBlockIsTyped, ReturnMoves
      <4> QED BY <4>1 DEF Label
    <3> QED BY <3>1, <3>2, <3>3, <3>4 DEF Recognised
  <2>6. PICK l \in Label \ {"create.scan"} : MovesTo(p, l)
    BY <2>5
  <2>7. sector_Key'[p] \in Nat /\ sector_CheckSum'[p] \in Nat /\ sector_Key'[p] < ScanEnd
    BY <2>3, <2>4
  <2>8. l \in Label /\ l # "create.scan"
    BY <2>6
  <2>9. SaneMark(disk'[1])
    BY <1>3
  <2> QED BY <1>3, <1>4, <2>4, <2>6, <2>7, <2>8, <2>9, CallEnds
<1>6. CASE ~(ret = 5 /\ Marked(buf[p][0]))
  <2>1. \E l \in {"idle", "create.boot"} : MovesTo(p, l)
    <3>1. CASE Goto(p, "create.boot")
      BY <3>1, GotoMoves
    <3>2. CASE Return(p, 0) \/ Return(p, UNABLE_TO_WRITE) \/ Return(p, INVALID_DISK)
      <4>1. MovesTo(p, "idle")
        BY <3>2, ReturnCodes, ZeroBlockIsTyped, ReturnMoves
      <4> QED BY <4>1
    <3> QED BY <1>1, <1>6, <3>1, <3>2 DEF NotRecognised
  <2>2. PICK l \in {"idle", "create.boot"} : MovesTo(p, l)
    BY <2>1
  <2>3. l \in Label /\ l \notin WriteLabel /\ l # "create.scan"
    BY <2>2 DEF Label, ReadLabel, WriteLabel
  <2>4. /\ sector_Key'[p] \in Nat /\ sector_Key'[p] < ScanEnd
        /\ sector_CheckSum'[p] \in Nat /\ sector_CheckSum'[p] < ScanEnd
    BY <1>1, <1>6
  <2> QED BY <1>3, <1>4, <2>2, <2>3, <2>4, CallEnds
<1> QED BY <1>3, <1>5, <1>6

LEMMA BootReturnsKeepsInv ==
  ASSUME IInv, NEW p \in Client, BootReturns(p)
  PROVE  IInv' /\ disk'[0] = disk[0]
<1> USE ClientIsOK, Numbers
<1>0. pc[p] # "idle"
  BY DEF BootReturns
<1>1. PICK ret \in {ReadFailed, 2} :
        /\ ReadReturns(p, Req(p), ret)
        /\ IF ret = 2 /\ Bootable(buf[p][0])
           THEN /\ Goto(p, "create.scan")
                /\ sector_Key'      = [sector_Key EXCEPT ![p] = 0]
                /\ sector_CheckSum' = [sector_CheckSum EXCEPT ![p] = 0]
           ELSE /\ Return(p, IF ret = 2 THEN INVALID_DISK ELSE UNABLE_TO_READ)
                /\ UNCHANGED <<sector_Key, sector_CheckSum>>
  BY DEF BootReturns
<1>2. /\ scan' = [scan EXCEPT ![p] = scan'[p]] /\ scan'[p] \in 2 .. ScanEnd - 1
      /\ sector_Key'      = [sector_Key EXCEPT ![p] = sector_Key'[p]]
      /\ sector_CheckSum' = [sector_CheckSum EXCEPT ![p] = sector_CheckSum'[p]]
      /\ sector_Key'[p] \in {0, sector_Key[p]}
      /\ sector_CheckSum'[p] \in {0, sector_CheckSum[p]}
  BY <1>1 DEF BootReturns, TypeOK
<1>3. /\ IoTypeOK' /\ disk' = disk /\ io'[p] = "entry"
      /\ \A r \in Client : r # p => buf'[r] = buf[r] /\ io'[r] = io[r]
  BY <1>0, <1>1, ReadReturnsIsTyped
<1>4. /\ "create.scan" \in Label /\ "create.scan" \notin WriteLabel
      /\ "idle" \in Label /\ "idle" \notin WriteLabel
  BY DEF Label, ReadLabel, WriteLabel
<1>5. CASE ret = 2 /\ Bootable(buf[p][0])
  <2>1. MovesTo(p, "create.scan")
    BY <1>1, <1>5, GotoMoves
  <2>2. sector_Key'[p] = 0
    BY <1>1, <1>5 DEF TypeOK
  <2> QED BY <1>2, <1>3, <1>4, <2>1, <2>2, CallEnds
<1>6. CASE ~(ret = 2 /\ Bootable(buf[p][0]))
  <2>1. MovesTo(p, "idle")
    BY <1>1, <1>6, ReturnCodes, ZeroBlockIsTyped, ReturnMoves
  <2> QED BY <1>2, <1>3, <1>4, <2>1, CallEnds
<1> QED BY <1>3, <1>5, <1>6

\* The scan: a sector found second lies behind the one found first.
LEMMA findNullSectorKeepsInv ==
  ASSUME IInv, NEW p \in Client, findNullSector(p)
  PROVE  IInv' /\ disk'[0] = disk[0]
<1> USE ClientIsOK, Numbers
<1>0. pc[p] = "create.scan"
  BY DEF findNullSector
<1>1. PICK ret \in {ReadFailed, perSectorSize} :
        LET null == ret = perSectorSize /\ ScansAsNull(buf[p][0])
        IN  /\ ReadReturns(p, Req(p), ret)
            /\ \/ ~null /\ ScanOn(p) /\ UNCHANGED <<sector_Key, sector_CheckSum>>
               \/ /\ null /\ sector_Key[p] = 0
                  /\ sector_Key' = [sector_Key EXCEPT ![p] = scan[p]]
                  /\ ScanOn(p)
                  /\ UNCHANGED sector_CheckSum
               \/ /\ null /\ sector_Key[p] # 0
                  /\ sector_CheckSum' = [sector_CheckSum EXCEPT ![p] = scan[p]]
                  /\ scan' = [scan EXCEPT ![p] = 2]
                  /\ Goto(p, "create.key")
                  /\ UNCHANGED sector_Key
  BY DEF findNullSector
<1>2. /\ IoTypeOK' /\ disk' = disk /\ io'[p] = "entry"
      /\ \A r \in Client : r # p => buf'[r] = buf[r] /\ io'[r] = io[r]
  BY <1>0, <1>1, ReadReturnsIsTyped
<1>3. sector_Key[p] = 0 \/ (2 <= sector_Key[p] /\ sector_Key[p] < scan[p])
  BY <1>0 DEF ClientOK
<1>4. /\ {"create.scan", "create.key", "idle"} \subseteq Label
      /\ {"create.scan", "idle"} \cap WriteLabel = {}
  BY DEF Label, ReadLabel, WriteLabel
<1>5. ASSUME ScanOn(p), sector_CheckSum' = sector_CheckSum,
             sector_Key' = [sector_Key EXCEPT ![p] = sector_Key'[p]],
             sector_Key'[p] \in {sector_Key[p], scan[p]}
      PROVE  IInv'
  <2>1. /\ sector_CheckSum' = [sector_CheckSum EXCEPT ![p] = sector_CheckSum'[p]]
        /\ sector_CheckSum'[p] = sector_CheckSum[p]
    BY <1>5 DEF TypeOK
  <2>2. CASE scan[p] + 1 < ScanEnd
    <3>1. /\ scan' = [scan EXCEPT ![p] = scan'[p]] /\ scan'[p] = scan[p] + 1
          /\ Goto(p, "create.scan")
      BY <1>5, <2>2 DEF ScanOn, TypeOK
    <3>2. MovesTo(p, "create.scan")
      BY <3>1, GotoMoves
    <3> QED BY <1>2, <1>3, <1>4, <1>5, <2>1, <2>2, <3>1, <3>2, CallEnds
  <2>3. CASE ~(scan[p] + 1 < ScanEnd)
    <3>1. /\ scan' = [scan EXCEPT ![p] = scan'[p]] /\ scan'[p] = 2
          /\ Return(p, SPACE_IS_NOT_ENOUGH)
      BY <1>5, <2>3 DEF ScanOn, TypeOK
    <3>2. MovesTo(p, "idle")
      BY <3>1, ReturnCodes, ZeroBlockIsTyped, ReturnMoves
    <3> QED BY <1>2, <1>4, <1>5, <2>1, <3>1, <3>2, CallEnds
  <2> QED BY <2>2, <2>3
<1>6. CASE ScanOn(p) /\ UNCHANGED <<sector_Key, sector_CheckSum>>
  <2>1. /\ sector_Key' = [sector_Key EXCEPT ![p] = sector_Key'[p]]
        /\ sector_Key'[p] \in {sector_Key[p], scan[p]}
    BY <1>6 DEF TypeOK
  <2> QED BY <1>2, <1>5, <1>6, <2>1
<1>7. CASE /\ sector_Key' = [sector_Key EXCEPT ![p] = scan[p]]
           /\ ScanOn(p)
           /\ UNCHANGED sector_CheckSum
  <2>1. /\ sector_Key' = [sector_Key EXCEPT ![p] = sector_Key'[p]]
        /\ sector_Key'[p] \in {sector_Key[p], scan[p]}
    BY <1>7 DEF TypeOK
  <2> QED BY <1>2, <1>5, <1>7, <2>1
<1>8. CASE /\ sector_Key[p] # 0
           /\ sector_CheckSum' = [sector_CheckSum EXCEPT ![p] = scan[p]]
           /\ scan' = [scan EXCEPT ![p] = 2]
           /\ Goto(p, "create.key")
           /\ UNCHANGED sector_Key
  <2>1. MovesTo(p, "create.key")
    BY <1>8, GotoMoves
  <2>2. /\ sector_Key' = [sector_Key EXCEPT ![p] = sector_Key'[p]]
        /\ sector_CheckSum' = [sector_CheckSum EXCEPT ![p] = sector_CheckSum'[p]]
        /\ scan' = [scan EXCEPT ![p] = scan'[p]]
        /\ sector_Key'[p] = sector_Key[p] /\ sector_CheckSum'[p] = scan[p] /\ scan'[p] = 2
    BY <1>8 DEF TypeOK
  <2>3. 2 <= sector_Key'[p] /\ sector_Key'[p] < sector_CheckSum'[p]
    BY <1>3, <1>8, <2>2
  <2>4. "create.key" \in Label /\ SaneMark(disk'[1]) /\ scan'[p] \in 2 .. ScanEnd - 1
    BY <1>2, <1>4, <2>2
  <2> QED BY <1>2, <2>1, <2>2, <2>3, <2>4, CallEnds
<1> QED BY <1>1, <1>2, <1>6, <1>7, <1>8

\* The writes of createUKey and deleteUkey.
LEMMA PutReturnsKeepsInv ==
  ASSUME IInv, NEW p \in Client, PutReturns(p)
  PROVE  IInv' /\ disk'[0] = disk[0]
<1> USE ClientIsOK, Numbers
<1>0. pc[p] \in WriteLabel \ {"delete.undo"}
  BY DEF PutReturns
<1>1. PICK ret \in {WriteFailed, Req(p).n} :
        /\ WriteReturns(p, Req(p), Data(p), ret)
        /\ IF ret = Req(p).n THEN Written(p) ELSE NotWritten(p)
  BY DEF PutReturns
<1>2. /\ sector_Key'      = [sector_Key EXCEPT ![p] = sector_Key'[p]]
      /\ sector_CheckSum' = [sector_CheckSum EXCEPT ![p] = sector_CheckSum'[p]]
      /\ scan'            = [scan EXCEPT ![p] = scan'[p]]
      /\ UNCHANGED <<sector_Key, sector_CheckSum, scan>>
  BY DEF PutReturns, TypeOK
<1>3. /\ IoTypeOK' /\ SaneMark(disk'[1]) /\ disk'[0] = disk[0] /\ io'[p] = "entry"
      /\ \A r \in Client : r # p => buf'[r] = buf[r] /\ io'[r] = io[r]
  BY <1>0, <1>1, DataIsTyped, MergedMarkSane, WriteReturnsIsTyped
<1>4. 2 <= sector_Key[p] /\ sector_Key[p] < sector_CheckSum[p]
  BY <1>0 DEF ClientOK
<1>5. \E l \in {"idle", "create.sum", "create.mark", "create.verify", "delete.sum",
                "delete.mark", "delete.undo"} : MovesTo(p, l)
  <2>1. CASE \E l \in {"create.sum", "create.mark", "create.verify", "delete.sum",
                       "delete.mark", "delete.undo"} : Goto(p, l)
    BY <2>1, GotoMoves
  <2>2. CASE \E r \in {OPERATION_SUCCESS, DANGOURS_ERROR, UNABLE_TO_WRITE} : Return(p, r)
    <3>1. MovesTo(p, "idle")
      BY <2>2, ReturnCodes, ZeroBlockIsTyped, ReturnMoves
    <3> QED BY <3>1
  <2> QED BY <1>1, <2>1, <2>2 DEF Written, NotWritten
<1>6. PICK l \in {"idle", "create.sum", "create.mark", "create.verify", "delete.sum",
                 "delete.mark", "delete.undo"} : MovesTo(p, l)
  BY <1>5
<1>7. l \in Label /\ l # "create.scan"
  BY <1>6 DEF Label, ReadLabel, CheckLabel, WriteLabel
<1>8. scan'[p] \in 2 .. ScanEnd - 1
  BY <1>2
<1> QED BY <1>2, <1>3, <1>4, <1>6, <1>7, <1>8, CallEnds

LEMMA UndoReturnsKeepsInv ==
  ASSUME IInv, NEW p \in Client, UndoReturns(p)
  PROVE  IInv' /\ disk'[0] = disk[0]
<1> USE ClientIsOK, Numbers
<1>0. pc[p] = "delete.undo" /\ pc[p] \in WriteLabel
  BY DEF UndoReturns, WriteLabel
<1>1. /\ sector_Key'      = [sector_Key EXCEPT ![p] = sector_Key'[p]]
      /\ sector_CheckSum' = [sector_CheckSum EXCEPT ![p] = sector_CheckSum'[p]]
      /\ scan'            = [scan EXCEPT ![p] = scan'[p]]
      /\ UNCHANGED <<sector_Key, sector_CheckSum, scan>>
  BY DEF UndoReturns, TypeOK
<1>2. buf[p][0] \in Block
  BY DEF TypeOK, IoTypeOK
<1>3. PICK ret : WriteReturns(p, Req(p), buf[p][0], ret)
  BY DEF UndoReturns, WriteReturns
<1>4. /\ IoTypeOK' /\ SaneMark(disk'[1]) /\ disk'[0] = disk[0] /\ io'[p] = "entry"
      /\ \A r \in Client : r # p => buf'[r] = buf[r] /\ io'[r] = io[r]
  BY <1>0, <1>2, <1>3, UndoneMarkSane, WriteReturnsIsTyped
<1>5. MovesTo(p, "idle")
  BY ReturnCodes, ZeroBlockIsTyped, ReturnMoves DEF UndoReturns
<1>6. "idle" \in Label /\ "idle" \notin WriteLabel /\ scan'[p] \in 2 .. ScanEnd - 1
  BY <1>1 DEF Label, WriteLabel
<1> QED BY <1>1, <1>4, <1>5, <1>6, CallEnds

LEMMA GetReturnsKeepsInv ==
  ASSUME IInv, NEW p \in Client, GetReturns(p)
  PROVE  IInv' /\ disk'[0] = disk[0]
<1> USE ClientIsOK, Numbers
<1>0. pc[p] # "idle"
  BY DEF GetReturns
<1>1. PICK ret \in {ReadFailed, Req(p).n} :
        /\ ReadReturns(p, Req(p), ret)
        /\ IF ret = Req(p).n THEN ReturnWith(p, 1, Got(p)) ELSE Return(p, 0)
  BY DEF GetReturns
<1>2. /\ sector_Key'      = [sector_Key EXCEPT ![p] = sector_Key'[p]]
      /\ sector_CheckSum' = [sector_CheckSum EXCEPT ![p] = sector_CheckSum'[p]]
      /\ scan'            = [scan EXCEPT ![p] = scan'[p]]
      /\ UNCHANGED <<sector_Key, sector_CheckSum, scan>>
  BY DEF GetReturns, TypeOK
<1>3. /\ IoTypeOK' /\ disk' = disk /\ io'[p] = "entry"
      /\ \A r \in Client : r # p => buf'[r] = buf[r] /\ io'[r] = io[r]
  BY <1>0, <1>1, ReadReturnsIsTyped
<1>4. Got(p) \in Block
  <2>1. buf[p][0] \in Block
    BY DEF TypeOK, IoTypeOK
  <2>2. [ZeroBlock EXCEPT !["head"] = buf[p][0]["head"]] \in Block
    BY <2>1, ZeroBlockIsTyped DEF Block, Part
  <2> QED BY <2>1, <2>2 DEF Got
<1>5. MovesTo(p, "idle")
  <2>1. CASE ReturnWith(p, 1, Got(p))
    BY <1>4, <2>1, ReturnMoves
  <2>2. CASE Return(p, 0)
    BY <2>2, ZeroBlockIsTyped, ReturnMoves DEF Return
  <2> QED BY <1>1, <2>1, <2>2
<1>6. "idle" \in Label /\ "idle" \notin WriteLabel /\ scan'[p] \in 2 .. ScanEnd - 1
  BY <1>2 DEF Label, WriteLabel
<1> QED BY <1>2, <1>3, <1>5, <1>6, CallEnds

-----------------------------------------------------------------------------
(* The object's life.                                                      *)

\* A handle is opened or closed, and the object starts afresh.
LEMMA ForgetKeepsInv ==
  ASSUME IInv, NEW p \in Client, Construct(p) \/ Destroy(p) \/ Dies(p)
  PROVE  IInv' /\ disk'[0] = disk[0]
<1> USE ClientIsOK, Numbers
<1>1. Forget(p) /\ (OpenDevice(p) \/ CloseHandle(p))
  BY DEF Construct, Destroy, Dies
<1>2. NoBuf \in [0 .. 1 -> Block]
  BY ZeroBlockIsTyped DEF NoBuf
<1>3. /\ IoTypeOK' /\ disk' = disk /\ io'[p] = "entry"
      /\ \A r \in Client : r # p => buf'[r] = buf[r] /\ io'[r] = io[r]
  <2>1. CASE OpenDevice(p)
    BY <1>2, <2>1 DEF OpenDevice, NoCallInProgress, TypeOK, IoTypeOK
  <2>2. CASE CloseHandle(p)
    BY <1>2, <2>2 DEF CloseHandle, NoCallInProgress, Unlocked, TypeOK, IoTypeOK
  <2> QED BY <1>1, <2>1, <2>2
<1>4. /\ sector_Key'      = [sector_Key EXCEPT ![p] = sector_Key'[p]]
      /\ sector_CheckSum' = [sector_CheckSum EXCEPT ![p] = sector_CheckSum'[p]]
      /\ scan'            = [scan EXCEPT ![p] = scan'[p]]
      /\ sector_Key'[p] = 0 /\ sector_CheckSum'[p] = 0 /\ scan'[p] = 2
  BY <1>1 DEF Forget, TypeOK
<1>5. MovesTo(p, "idle")
  <2>1. NoArg \in [key : Block, sum : Byte] /\ NoAnswer \in [to : Client \cup {NoClient}, ret : Int, out : Block]
    BY ZeroBlockIsTyped DEF NoArg, NoAnswer, Byte
  <2> QED BY <1>1, <2>1 DEF Forget, MovesTo, TypeOK
<1>6. "idle" \in Label /\ "idle" \notin WriteLabel /\ scan'[p] \in 2 .. ScanEnd - 1
  BY <1>4 DEF Label, WriteLabel
<1> QED BY <1>3, <1>4, <1>5, <1>6, CallEnds

LEMMA PulledKeepsInv ==
  ASSUME IInv, Pulled
  PROVE  IInv' /\ disk'[0] = disk[0]
<1>1. /\ UNCHANGED <<disk, io, buf, pc, sector_Key, sector_CheckSum, arg, scan>>
      /\ locker' = NoClient /\ answer' = NoAnswer
      /\ handle' = [p \in Client |-> IF handle[p] = "open" THEN "invalid" ELSE handle[p]]
  BY DEF Pulled, Unplug
<1>2. handle' \in [Client -> {"none", "open", "invalid"}]
  BY <1>1 DEF IInv, TypeOK, IoTypeOK
<1>3. NoAnswer \in [to : Client \cup {NoClient}, ret : Int, out : Block]
  BY ZeroBlockIsTyped DEF NoAnswer
<1>4. TypeOK'
  BY <1>1, <1>2, <1>3 DEF IInv, TypeOK, IoTypeOK
<1> QED BY <1>1, <1>4 DEF IInv, MarkSane, PointersInRange, WritersHaveSectors, ScanIsAhead,
                          LoadedMarksSane, IdleHasNoBuffer

-----------------------------------------------------------------------------
(* The theorems.                                                           *)

LEMMA InitInv == Init => IInv
<1> SUFFICES ASSUME Init PROVE IInv
  OBVIOUS
<1>1. /\ ScanEnd \in Nat /\ ScanEnd >= 3 /\ ScanEnd <= ByteSize /\ ByteSize \in Nat
      /\ disk \in [SectorNo -> Block] /\ SaneMark(disk[1])
  BY usbModelAssumption, ByteSizeAssumption DEF Init
<1>2. /\ NoBuf \in [0 .. 1 -> Block] /\ NoArg \in [key : Block, sum : Byte]
      /\ NoAnswer \in [to : Client \cup {NoClient}, ret : Int, out : Block]
  BY <1>1, ZeroBlockIsTyped DEF NoBuf, NoArg, NoAnswer, Byte
<1>3. TypeOK
  BY <1>1, <1>2 DEF Init, IoInit, TypeOK, IoTypeOK, Byte, Label
<1> QED BY <1>1, <1>3 DEF Init, IoInit, IInv, MarkSane, PointersInRange, WritersHaveSectors,
                          ScanIsAhead, LoadedMarksSane, IdleHasNoBuffer, CheckLabel, WriteLabel

\* No step of any client, and no failure, breaks the invariant or touches the
\* boot sector.
LEMMA NextInv == IInv /\ [Next]_vars => IInv' /\ disk'[0] = disk[0]
<1> SUFFICES ASSUME IInv, [Next]_vars PROVE IInv' /\ disk'[0] = disk[0]
  OBVIOUS
<1>1. ASSUME NEW p \in Client, Construct(p) \/ Destroy(p) \/ Dies(p)
      PROVE  IInv' /\ disk'[0] = disk[0]
  BY <1>1, ForgetKeepsInv
<1>2. ASSUME NEW p \in Client, Start(p)
      PROVE  IInv' /\ disk'[0] = disk[0]
  BY <1>2, StartKeepsInv
<1>3. ASSUME NEW p \in Client, Advance(p)
      PROVE  IInv' /\ disk'[0] = disk[0]
  BY <1>3, BeginIoKeepsInv, CheckReturnsKeepsInv, BootReturnsKeepsInv,
     findNullSectorKeepsInv, PutReturnsKeepsInv, UndoReturnsKeepsInv, GetReturnsKeepsInv
     DEF Advance
<1>4. CASE Pulled
  BY <1>4, PulledKeepsInv
<1>5. CASE UNCHANGED vars
  BY <1>5 DEF vars, IInv, TypeOK, IoTypeOK, MarkSane, PointersInRange, WritersHaveSectors,
              ScanIsAhead, LoadedMarksSane, IdleHasNoBuffer
<1> QED BY <1>1, <1>2, <1>3, <1>4, <1>5 DEF Next

\* The inductive invariant holds whatever fails, for every number of clients
\* and sectors, every scan limit and every content of the stick.
THEOREM InvariantHolds == Spec => []IInv
BY InitInv, NextInv, PTL DEF Spec

\* Type correctness: every sector a read or a write reaches exists, and every
\* sector number fits in the BYTE it is stored in.
THEOREM TypeCorrect == Spec => []TypeOK
<1>1. IInv => TypeOK
  BY DEF IInv
<1> QED BY <1>1, InvariantHolds, PTL

\* The mark of a UKey always points to two different sectors behind sector 1.
THEOREM MarkIsSane == Spec => []MarkSane
<1>1. IInv => MarkSane
  BY DEF IInv
<1> QED BY <1>1, InvariantHolds, PTL

\* No operation of any client ever changes the boot sector.
THEOREM BootSectorSafe == Spec => BootSectorKept
<1>1. IInv /\ [Next]_vars => [disk'[0] = disk[0]]_vars
  BY NextInv
<1> QED BY <1>1, InvariantHolds, PTL DEF Spec, BootSectorKept

-----------------------------------------------------------------------------
(* The volume lock of UsbIo under the UKey operations: for any number of   *)
(* programs, who holds it, and what its holder has read.                   *)

\* Whoever holds the lock has an open handle: pulling the stick out or closing
\* the handle gives it up.
HolderIsOpen == \A p \in Client : locker = p => handle[p] = "open"

\* A client that has loaded what it reads keeps the lock as long as its handle
\* is good.
ReaderHolds ==
  \A p \in Client :
    pc[p] \in ReadLabel /\ io[p] = "loaded" /\ handle[p] = "open" => locker = p

\* A ReadFile that may leave its buffer as it was.
MayFail(p) == "read" \in Faults \/ (Req(p).seek /\ "alloc" \in Faults)

\* What a client has loaded under the lock is what the stick still holds:
\* nobody else reaches the volume.
HolderIsCurrent ==
  \A p \in Client :
    locker = p /\ pc[p] \in ReadLabel /\ io[p] = "loaded" =>
      \/ buf[p][0] = disk[Req(p).sector]
      \/ MayFail(p) /\ buf[p][0] \in UninitBlocks

-----------------------------------------------------------------------------
(* What a step does to the client that takes it, and to the others.        *)

StepOf(p) == Construct(p) \/ Start(p) \/ Advance(p) \/ Destroy(p) \/ Dies(p)

\* The variables are functions of the clients.
LEMMA Functions ==
  ASSUME IInv
  PROVE  /\ pc = [r \in Client |-> pc[r]] /\ scan = [r \in Client |-> scan[r]]
         /\ io = [r \in Client |-> io[r]] /\ buf = [r \in Client |-> buf[r]]
         /\ handle = [r \in Client |-> handle[r]] /\ arg = [r \in Client |-> arg[r]]
         /\ sector_Key = [r \in Client |-> sector_Key[r]]
         /\ sector_CheckSum = [r \in Client |-> sector_CheckSum[r]]
BY DEF IInv, TypeOK, IoTypeOK

\* A read ends without a change of the stick or the handles; it may succeed
\* only if the lock is still held, and then it may still be held afterwards.
LEMMA ReadEffect ==
  ASSUME IInv, NEW p \in Client, NEW req, NEW ret, ReadReturns(p, req, ret)
  PROVE  /\ disk' = disk /\ handle' = handle
         /\ io' = [io EXCEPT ![p] = "entry"] /\ buf' = [buf EXCEPT ![p] = buf'[p]]
         /\ \/ locker' = locker
            \/ locker = p /\ locker' = NoClient
            \/ locker = NoClient /\ handle[p] = "open" /\ locker' = p /\ "alloc" \in Faults
         /\ "unlock" \notin Faults /\ "alloc" \notin Faults /\ io[p] = "loaded" => locker' # p
         /\ ret = ReadFailed \/ (ret = req.n /\ io[p] = "loaded" /\ locker = p)
<1>1. NoClient \notin Client
  BY UsbIoAssumption
<1>2. CASE ReadRefused(p, ret)
  BY <1>2, Functions DEF ReadRefused, ioVars
<1>3. CASE ReadOutOfMemory(p, req, ret)
  BY <1>3, Functions DEF ReadOutOfMemory, CanLock
<1>4. CASE ReadEnds(p, req, ret)
  BY <1>1, <1>4, Functions DEF ReadEnds, Unlocked
<1> QED BY <1>2, <1>3, <1>4 DEF ReadReturns

\* A write ends without a change of the handles; the stick may change only
\* under a handle that reaches it, and the lock is given up if it was held.
LEMMA WriteEffect ==
  ASSUME IInv, NEW p \in Client, NEW req, NEW d, NEW ret, WriteReturns(p, req, d, ret)
  PROVE  /\ disk' = disk \/ Reaches(p)
         /\ handle' = handle
         /\ io' = [io EXCEPT ![p] = "entry"] /\ buf' = [buf EXCEPT ![p] = buf'[p]]
         /\ locker' \in {locker, Unlocked(p)}
<1>1. CASE WriteOutOfMemory(p, ret)
  BY <1>1, Functions DEF WriteOutOfMemory, ioVars
<1>2. CASE WriteEnds(p, req, d, ret)
  BY <1>2, Functions DEF WriteEnds, Store
<1> QED BY <1>1, <1>2 DEF WriteReturns

\* A call of the sector layer begins.
LEMMA BeginEffect ==
  ASSUME IInv, NEW p \in Client, BeginIo(p)
  PROVE  /\ disk' = disk /\ handle' = handle
         /\ io[p] = "entry" /\ pc[p] \in ReadLabel \cup WriteLabel
         /\ io' = [io EXCEPT ![p] = "loaded"] /\ buf' = [buf EXCEPT ![p] = buf'[p]]
         /\ pc[p] \in ReadLabel => CanLock(p) /\ locker' = p
         /\ pc[p] \in WriteLabel => locker' = locker
         /\ UNCHANGED <<pc, sector_Key, sector_CheckSum, arg, scan>> /\ answer' = NoAnswer
<1>1. ReadLabel \cap WriteLabel = {}
  BY DEF ReadLabel, WriteLabel, CheckLabel
<1>2. CASE pc[p] \in ReadLabel /\ ReadBegins(p, Req(p))
  BY <1>1, <1>2, Functions DEF BeginIo, ReadBegins, Load
<1>3. CASE pc[p] \in WriteLabel /\ WriteBegins(p, Req(p))
  BY <1>1, <1>3, Functions DEF BeginIo, WriteBegins, Load
<1> QED BY <1>2, <1>3 DEF BeginIo

\* The other steps inside an operation end a call of the sector layer.
LEMMA AdvanceEffect ==
  ASSUME IInv, NEW p \in Client, Advance(p)
  PROVE  \/ BeginIo(p)
         \/ /\ pc[p] \in ReadLabel
            /\ \E ret : ReadReturns(p, Req(p), ret)
         \/ /\ pc[p] \in WriteLabel
            /\ \E d, ret : WriteReturns(p, Req(p), d, ret)
<1>1. CASE CheckReturns(p)
  BY <1>1 DEF CheckReturns, ReadLabel
<1>2. CASE BootReturns(p)
  BY <1>2 DEF BootReturns, ReadLabel
<1>3. CASE findNullSector(p)
  BY <1>3 DEF findNullSector, ReadLabel
<1>4. CASE GetReturns(p)
  BY <1>4 DEF GetReturns, ReadLabel
<1>5. CASE PutReturns(p)
  BY <1>5 DEF PutReturns, WriteLabel
<1>6. CASE UndoReturns(p)
  BY <1>6 DEF UndoReturns, WriteLabel, WriteReturns
<1> QED BY <1>1, <1>2, <1>3, <1>4, <1>5, <1>6 DEF Advance

\* The control of an operation moves the client that runs it, and answers it
\* or nobody.
LEMMA ControlEffect ==
  ASSUME IInv, NEW p \in Client, StepOf(p)
  PROVE  /\ pc' = [pc EXCEPT ![p] = pc'[p]]
         /\ arg' = [arg EXCEPT ![p] = arg'[p]]
         /\ scan' = [scan EXCEPT ![p] = scan'[p]]
         /\ sector_Key' = [sector_Key EXCEPT ![p] = sector_Key'[p]]
         /\ sector_CheckSum' = [sector_CheckSum EXCEPT ![p] = sector_CheckSum'[p]]
         /\ answer' = NoAnswer \/ (answer'.to = p /\ Advance(p))
<1> DEFINE One == /\ pc' = [pc EXCEPT ![p] = pc'[p]]
                  /\ arg' = [arg EXCEPT ![p] = arg'[p]]
                  /\ answer' = NoAnswer \/ answer'.to = p
           Sectors == /\ scan' = [scan EXCEPT ![p] = scan'[p]]
                      /\ sector_Key' = [sector_Key EXCEPT ![p] = sector_Key'[p]]
                      /\ sector_CheckSum' = [sector_CheckSum EXCEPT ![p] = sector_CheckSum'[p]]
<1>1. ASSUME NEW l, Goto(p, l) PROVE One
  BY <1>1, Functions DEF Goto
<1>2. ASSUME NEW ret, NEW out, ReturnWith(p, ret, out) PROVE One
  BY <1>2, Functions DEF ReturnWith
<1>3. ASSUME NEW ret, Return(p, ret) PROVE One
  BY <1>2, <1>3 DEF Return
<1>4. ASSUME Forget(p) PROVE One /\ Sectors /\ answer' = NoAnswer
  BY <1>4, Functions DEF Forget
<1>5. ASSUME NEW l, NEW a, Call(p, l, a) PROVE One /\ Sectors /\ answer' = NoAnswer
  BY <1>5, Functions DEF Call
<1>6. CASE BeginIo(p)
  BY <1>6, BeginEffect, Functions
<1>7. CASE CheckReturns(p)
  <2>1. Sectors
    BY <1>7, Functions DEF CheckReturns
  <2>2. Recognised(p) \/ NotRecognised(p)
    BY <1>7 DEF CheckReturns
  <2>3. One
    BY <2>2, <1>1, <1>3 DEF Recognised, NotRecognised
  <2> QED BY <1>7, <2>1, <2>3 DEF Advance
<1>8. CASE BootReturns(p)
  <2>1. Sectors
    BY <1>8, Functions DEF BootReturns
  <2>2. One
    BY <1>8, <1>1, <1>3 DEF BootReturns
  <2> QED BY <1>8, <2>1, <2>2 DEF Advance
<1>9. CASE findNullSector(p)
  <2>1. ASSUME ScanOn(p) PROVE One /\ scan' = [scan EXCEPT ![p] = scan'[p]]
    BY <2>1, <1>1, <1>3, Functions DEF ScanOn
  <2>2. Sectors
    BY <1>9, <2>1, Functions DEF findNullSector
  <2>3. One
    BY <1>9, <1>1, <2>1 DEF findNullSector
  <2> QED BY <1>9, <2>2, <2>3 DEF Advance
<1>10. CASE PutReturns(p)
  <2>1. Sectors
    BY <1>10, Functions DEF PutReturns
  <2>2. Written(p) \/ NotWritten(p)
    BY <1>10 DEF PutReturns
  <2>3. One
    BY <2>2, <1>1, <1>3 DEF Written, NotWritten
  <2> QED BY <1>10, <2>1, <2>3 DEF Advance
<1>11. CASE UndoReturns(p)
  <2>1. Sectors
    BY <1>11, Functions DEF UndoReturns
  <2>2. One
    BY <1>11, <1>3 DEF UndoReturns
  <2> QED BY <1>11, <2>1, <2>2 DEF Advance
<1>12. CASE GetReturns(p)
  <2>1. Sectors
    BY <1>12, Functions DEF GetReturns
  <2>2. One
    BY <1>12, <1>2, <1>3 DEF GetReturns
  <2> QED BY <1>12, <2>1, <2>2 DEF Advance
<1>13. CASE Start(p)
  <2>1. \E l, a : Call(p, l, a)
    BY <1>13 DEF Start, is_UKey, createUKey, deleteUkey, getKey, getCheckSum
  <2> QED BY <1>5, <2>1
<1>14. CASE Construct(p) \/ Destroy(p) \/ Dies(p)
  BY <1>4, <1>14 DEF Construct, Destroy, Dies
<1> QED BY <1>6, <1>7, <1>8, <1>9, <1>10, <1>11, <1>12, <1>13, <1>14 DEF StepOf, Advance

\* The call that p has in progress, its request and its handle are left alone
\* by every step of another client.
LEMMA OthersStay ==
  ASSUME IInv, NEW r \in Client, StepOf(r), NEW p \in Client, p # r
  PROVE  /\ pc'[p] = pc[p] /\ io'[p] = io[p] /\ buf'[p] = buf[p] /\ handle'[p] = handle[p]
         /\ sector_Key'[p] = sector_Key[p] /\ sector_CheckSum'[p] = sector_CheckSum[p]
         /\ arg'[p] = arg[p] /\ scan'[p] = scan[p] /\ Req(p)' = Req(p)
<1>1. /\ io' = [io EXCEPT ![r] = io'[r]] /\ buf' = [buf EXCEPT ![r] = buf'[r]]
      /\ handle' = [handle EXCEPT ![r] = handle'[r]]
  <2>1. CASE Construct(r)
    BY <2>1, Functions DEF Construct, OpenDevice, NoCallInProgress
  <2>2. CASE Destroy(r) \/ Dies(r)
    BY <2>2, Functions DEF Destroy, Dies, CloseHandle, NoCallInProgress
  <2>3. CASE Start(r)
    BY <2>3, Functions DEF Start, is_UKey, createUKey, deleteUkey, getKey, getCheckSum,
                           Call, ioVars
  <2>4. CASE Advance(r)
    BY <2>4, AdvanceEffect, BeginEffect, ReadEffect, WriteEffect, Functions
  <2> QED BY <2>1, <2>2, <2>3, <2>4 DEF StepOf
<1>2. /\ pc'[p] = pc[p] /\ arg'[p] = arg[p] /\ scan'[p] = scan[p]
      /\ sector_Key'[p] = sector_Key[p] /\ sector_CheckSum'[p] = sector_CheckSum[p]
  BY ControlEffect, Functions
<1>3. io'[p] = io[p] /\ buf'[p] = buf[p] /\ handle'[p] = handle[p]
  BY <1>1, Functions
<1>4. Req(p)' = Req(p)
  BY <1>2 DEF Req, MarkBytes
<1> QED BY <1>2, <1>3, <1>4

\* Between its calls, and when a call of the sector layer has ended, a client
\* has nothing loaded.
LEMMA NothingLoaded ==
  ASSUME IInv, NEW p \in Client, StepOf(p), ~BeginIo(p)
  PROVE  io'[p] = "entry"
<1>1. CASE Start(p)
  BY <1>1 DEF Start, is_UKey, createUKey, deleteUkey, getKey, getCheckSum, Call, ioVars,
              IInv, IdleHasNoBuffer
<1>2. CASE Advance(p)
  BY <1>2, AdvanceEffect, ReadEffect, WriteEffect, Functions
<1>3. CASE Construct(p) \/ Destroy(p) \/ Dies(p)
  BY <1>3, Functions DEF Construct, Destroy, Dies, OpenDevice, CloseHandle, NoCallInProgress
<1> QED BY <1>1, <1>2, <1>3 DEF StepOf

-----------------------------------------------------------------------------
(* The holder of the lock.                                                 *)

\* The lock and the handles after a step of p.
LEMMA LockEffect ==
  ASSUME IInv, NEW p \in Client, StepOf(p)
  PROVE  /\ \A r \in Client : r # p => handle'[r] = handle[r]
         /\ locker' \in {locker, NoClient, p}
         /\ locker' # locker => locker \in {p, NoClient}
         /\ locker' = p /\ locker # p => handle[p] = "open" /\ handle'[p] = "open"
         /\ locker' = p /\ locker = p => handle'[p] = handle[p] \/ handle[p] = "none"
<1>0. NoClient \notin Client
  BY UsbIoAssumption
<1>1. CASE Construct(p)
  BY <1>1, Functions DEF Construct, OpenDevice
<1>2. CASE Destroy(p) \/ Dies(p)
  BY <1>0, <1>2, Functions DEF Destroy, Dies, CloseHandle, Unlocked
<1>3. CASE Start(p)
  BY <1>3 DEF Start, is_UKey, createUKey, deleteUkey, getKey, getCheckSum, Call, ioVars
<1>4. CASE BeginIo(p)
  BY <1>4, BeginEffect DEF CanLock
<1>5. ASSUME NEW ret, ReadReturns(p, Req(p), ret)
      PROVE  /\ handle' = handle
             /\ \/ locker' = locker
                \/ locker = p /\ locker' = NoClient
                \/ locker = NoClient /\ handle[p] = "open" /\ locker' = p
  BY <1>5, ReadEffect
<1>6. ASSUME NEW d, NEW ret, WriteReturns(p, Req(p), d, ret)
      PROVE  /\ handle' = handle
             /\ locker' = locker \/ (locker = p /\ locker' = NoClient)
  BY <1>6, WriteEffect DEF Unlocked
<1>7. CASE Advance(p)
  BY <1>0, <1>4, <1>5, <1>6, <1>7, AdvanceEffect
<1> QED BY <1>1, <1>2, <1>3, <1>7 DEF StepOf

LEMMA HolderIsOpenStep ==
  ASSUME IInv, HolderIsOpen, [Next]_vars
  PROVE  HolderIsOpen'
<1>1. ASSUME NEW r \in Client, StepOf(r), NEW p \in Client, locker' = p
      PROVE  handle'[p] = "open"
  <2>1. NoClient \notin Client
    BY UsbIoAssumption
  <2> QED BY <1>1, <2>1, LockEffect DEF HolderIsOpen
<1>2. CASE Pulled
  BY <1>2, UsbIoAssumption DEF Pulled, Unplug, HolderIsOpen
<1>3. CASE UNCHANGED vars
  BY <1>3 DEF vars, HolderIsOpen
<1> QED BY <1>1, <1>2, <1>3 DEF Next, StepOf, HolderIsOpen

\* Under the lock ReadFile reads what is there, or fails and leaves the buffer
\* as the heap gave it.
LEMMA BeginReads ==
  ASSUME IInv, NEW p \in Client, BeginIo(p), pc[p] \in ReadLabel
  PROVE  \/ buf'[p][0] = disk[Req(p).sector]
         \/ MayFail(p) /\ buf'[p][0] \in UninitBlocks
<1>1. Span(Req(p)) \in {1, 2}
  BY RequestInRange DEF ReadLabel, CheckLabel
<1>2. ReadBegins(p, Req(p))
  BY DEF BeginIo, ReadLabel, CheckLabel, WriteLabel
<1>3. Reaches(p) /\ Load(p, Req(p), "read" \in Faults \/ (Req(p).seek /\ "alloc" \in Faults))
  BY <1>2 DEF ReadBegins, CanLock, Reaches
<1>4. CASE buf' = [buf EXCEPT ![p] =
             [i \in 0 .. 1 |-> IF i < Span(Req(p)) THEN disk[Req(p).sector + i]
                                                   ELSE ZeroBlock]]
  <2>1. Req(p).sector + 0 = Req(p).sector
    BY RequestInRange DEF ReadLabel, CheckLabel
  <2> QED BY <1>1, <1>4, <2>1, Functions
<1>5. ASSUME NEW g \in UninitBlocks,
             buf' = [buf EXCEPT ![p] =
               [i \in 0 .. 1 |-> IF i < Span(Req(p)) THEN g ELSE ZeroBlock]]
      PROVE  buf'[p][0] \in UninitBlocks
  BY <1>1, <1>5, Functions
<1> QED BY <1>3, <1>4, <1>5 DEF Load, MayFail

\* While p holds the lock, no other client's step changes the stick.
LEMMA NobodyElseWrites ==
  ASSUME IInv, NEW r \in Client, StepOf(r), NEW p \in Client, p # r, locker = p
  PROVE  disk' = disk
<1>0. NoClient \notin Client
  BY UsbIoAssumption
<1>1. CASE Construct(r) \/ Destroy(r) \/ Dies(r)
  BY <1>1 DEF Construct, Destroy, Dies, OpenDevice, CloseHandle
<1>2. CASE Start(r)
  BY <1>2 DEF Start, is_UKey, createUKey, deleteUkey, getKey, getCheckSum, Call, ioVars
<1>3. CASE Advance(r)
  BY <1>0, <1>3, AdvanceEffect, BeginEffect, ReadEffect, WriteEffect DEF Reaches
<1> QED BY <1>1, <1>2, <1>3 DEF StepOf

LEMMA HolderIsCurrentStep ==
  ASSUME IInv, HolderIsOpen, HolderIsCurrent, [Next]_vars
  PROVE  HolderIsCurrent'
<1> SUFFICES ASSUME NEW p \in Client,
                    locker' = p, pc'[p] \in ReadLabel, io'[p] = "loaded"
             PROVE  \/ buf'[p][0] = disk'[Req(p)'.sector]
                    \/ MayFail(p)' /\ buf'[p][0] \in UninitBlocks
  BY DEF HolderIsCurrent
<1>0. NoClient \notin Client
  BY UsbIoAssumption
<1>1. ASSUME StepOf(p)
      PROVE  \/ buf'[p][0] = disk'[Req(p)'.sector]
             \/ MayFail(p)' /\ buf'[p][0] \in UninitBlocks
  <2>1. BeginIo(p)
    BY <1>1, NothingLoaded
  <2>2. disk' = disk /\ UNCHANGED <<pc, sector_Key, sector_CheckSum, scan>>
    BY <2>1, BeginEffect
  <2>3. Req(p)' = Req(p)
    BY <2>2 DEF Req, MarkBytes
  <2> QED BY <2>1, <2>2, <2>3, BeginReads DEF MayFail
<1>2. ASSUME NEW r \in Client, r # p, StepOf(r)
      PROVE  \/ buf'[p][0] = disk'[Req(p)'.sector]
             \/ MayFail(p)' /\ buf'[p][0] \in UninitBlocks
  <2>1. locker = p
    BY <1>0, <1>2, LockEffect
  <2>2. disk' = disk
    BY <1>2, <2>1, NobodyElseWrites
  <2>3. pc'[p] = pc[p] /\ io'[p] = io[p] /\ buf'[p] = buf[p] /\ Req(p)' = Req(p)
    BY <1>2, OthersStay
  <2> QED BY <2>1, <2>2, <2>3 DEF HolderIsCurrent, MayFail
<1>3. ~Pulled
  BY <1>0 DEF Pulled, Unplug
<1>4. CASE UNCHANGED vars
  <2>1. Req(p)' = Req(p)
    BY <1>4 DEF vars, Req, MarkBytes
  <2> QED BY <1>4, <2>1 DEF vars, HolderIsCurrent, MayFail
<1> QED BY <1>1, <1>2, <1>3, <1>4 DEF Next, StepOf

LEMMA ReaderHoldsStep ==
  ASSUME IInv, ReaderHolds, [Next]_vars
  PROVE  ReaderHolds'
<1> SUFFICES ASSUME NEW p \in Client,
                    pc'[p] \in ReadLabel, io'[p] = "loaded", handle'[p] = "open"
             PROVE  locker' = p
  BY DEF ReaderHolds
<1>1. CASE StepOf(p)
  <2>1. BeginIo(p)
    BY <1>1, NothingLoaded
  <2> QED BY <2>1, BeginEffect
<1>2. ASSUME NEW r \in Client, r # p, StepOf(r) PROVE locker' = p
  <2>1. pc'[p] = pc[p] /\ io'[p] = io[p] /\ handle'[p] = handle[p]
    BY <1>2, OthersStay
  <2>2. locker = p
    BY <2>1 DEF ReaderHolds
  <2> QED BY <1>2, <2>2, LockEffect, UsbIoAssumption
<1>3. ~Pulled
  BY DEF Pulled, Unplug
<1>4. CASE UNCHANGED vars
  BY <1>4 DEF vars, ReaderHolds
<1> QED BY <1>1, <1>2, <1>3, <1>4 DEF Next, StepOf

\* The inductive invariant of the lock, for every set of failures.
LockInv == IInv /\ HolderIsOpen /\ ReaderHolds /\ HolderIsCurrent

LEMMA LockInvInit == Init => LockInv
<1> SUFFICES ASSUME Init PROVE LockInv
  OBVIOUS
<1>1. locker = NoClient /\ NoClient \notin Client
  BY UsbIoAssumption DEF Init, IoInit
<1>2. \A p \in Client : pc[p] = "idle" /\ "idle" \notin ReadLabel
  BY DEF Init, ReadLabel, CheckLabel
<1> QED BY <1>1, <1>2, InitInv DEF LockInv, HolderIsOpen, ReaderHolds, HolderIsCurrent

LEMMA LockInvStep == LockInv /\ [Next]_vars => LockInv'
BY NextInv, HolderIsOpenStep, ReaderHoldsStep, HolderIsCurrentStep DEF LockInv

\* What the holder of the volume lock has read is what the stick holds, for
\* any number of programs and every set of failures (UsbIo.cpp:52,98,111,167).
THEOREM TheHolderIsCurrent == Spec => []LockInv
BY LockInvInit, LockInvStep, PTL DEF Spec

-----------------------------------------------------------------------------
(* The lock is given up.                                                   *)

\* A step of a client that does not begin a call leaves it without the lock,
\* if memory and FSCTL_UNLOCK_VOLUME do not fail.
LEMMA LockGivenUp ==
  ASSUME IInv, HolderIsOpen, LockFreeBetweenCalls,
         "unlock" \notin Faults, "alloc" \notin Faults,
         NEW p \in Client, StepOf(p), ~BeginIo(p)
  PROVE  locker' # p
<1>0. NoClient \notin Client
  BY UsbIoAssumption
<1>1. ReadLabel \cap WriteLabel = {} /\ "idle" \notin ReadLabel
  BY DEF ReadLabel, WriteLabel, CheckLabel
<1>2. CASE Construct(p)
  BY <1>2 DEF Construct, OpenDevice, HolderIsOpen
<1>3. CASE Destroy(p) \/ Dies(p)
  BY <1>0, <1>3 DEF Destroy, Dies, CloseHandle, Unlocked
<1>4. CASE Start(p)
  BY <1>1, <1>4 DEF Start, is_UKey, createUKey, deleteUkey, getKey, getCheckSum, Call,
                    ioVars, LockFreeBetweenCalls
<1>5. ASSUME NEW ret, ReadReturns(p, Req(p), ret)
      PROVE  locker' # p
  BY <1>5, ReadEffect DEF LockFreeBetweenCalls
<1>6. ASSUME pc[p] \in WriteLabel, NEW d, NEW ret, WriteReturns(p, Req(p), d, ret)
      PROVE  locker' # p
  BY <1>0, <1>1, <1>6, WriteEffect DEF LockFreeBetweenCalls, Unlocked
<1>7. CASE Advance(p)
  BY <1>5, <1>6, <1>7, AdvanceEffect
<1> QED BY <1>2, <1>3, <1>4, <1>7 DEF StepOf

LEMMA LockFreeStep ==
  ASSUME IInv, HolderIsOpen, LockFreeBetweenCalls,
         "unlock" \notin Faults, "alloc" \notin Faults, [Next]_vars
  PROVE  LockFreeBetweenCalls'
<1> SUFFICES ASSUME NEW p \in Client, locker' = p
             PROVE  pc'[p] \in ReadLabel /\ io'[p] = "loaded"
  BY DEF LockFreeBetweenCalls
<1>0. NoClient \notin Client
  BY UsbIoAssumption
<1>1. ReadLabel \cap WriteLabel = {}
  BY DEF ReadLabel, WriteLabel, CheckLabel
<1>2. CASE StepOf(p)
  <2>1. BeginIo(p)
    BY <1>2, LockGivenUp
  <2>2. /\ pc' = pc /\ io[p] = "entry" /\ io'[p] = "loaded"
        /\ pc[p] \in ReadLabel \/ locker = p
    BY <2>1, BeginEffect, Functions
  <2> QED BY <2>2 DEF LockFreeBetweenCalls
<1>3. ASSUME NEW r \in Client, r # p, StepOf(r)
      PROVE  pc'[p] \in ReadLabel /\ io'[p] = "loaded"
  <2>1. locker = p
    BY <1>0, <1>3, LockEffect
  <2>2. pc'[p] = pc[p] /\ io'[p] = io[p]
    BY <1>3, OthersStay
  <2> QED BY <2>1, <2>2 DEF LockFreeBetweenCalls
<1>4. ~Pulled
  BY <1>0 DEF Pulled, Unplug
<1>5. CASE UNCHANGED vars
  BY <1>5 DEF vars, LockFreeBetweenCalls
<1> QED BY <1>2, <1>3, <1>4, <1>5 DEF Next, StepOf

\* Unless an allocation or FSCTL_UNLOCK_VOLUME fails, every call gives up the
\* lock it took, on every path: no program locks out the others, whatever
\* else fails (UsbIo.cpp:98,166,233,290).
THEOREM LocksAreGivenUp ==
  ASSUME "unlock" \notin Faults, "alloc" \notin Faults
  PROVE  Spec => []LockFreeBetweenCalls
<1>1. Init => LockFreeBetweenCalls
  BY UsbIoAssumption DEF Init, IoInit, LockFreeBetweenCalls
<1>2. LockInv /\ LockFreeBetweenCalls /\ [Next]_vars => LockFreeBetweenCalls'
  BY LockFreeStep DEF LockInv
<1> QED BY <1>1, <1>2, LockInvInit, LockInvStep, PTL DEF Spec

-----------------------------------------------------------------------------
(* What createUKey reports.                                                *)

\* No operation is told success before it verifies.
LEMMA OnlyVerifySucceeds ==
  ASSUME IInv, NEW p \in Client, Advance(p),
         pc[p] \in {"create.key", "create.sum", "create.mark", "create.verify"},
         answer'.to = p, answer'.ret = OPERATION_SUCCESS
  PROVE  pc[p] = "create.verify" /\ CheckReturns(p)
<1>0. NoAnswer.to = NoClient /\ NoClient \notin Client
  BY UsbIoAssumption DEF NoAnswer
<1>1. ASSUME NEW l, Goto(p, l) PROVE FALSE
  BY <1>0, <1>1 DEF Goto
<1>2. ~BeginIo(p)
  BY <1>0, BeginEffect
<1>3. ~BootReturns(p) /\ ~findNullSector(p) /\ ~UndoReturns(p) /\ ~GetReturns(p)
  BY DEF BootReturns, findNullSector, UndoReturns, GetReturns
<1>4. CASE PutReturns(p)
  <2>1. pc[p] \in {"create.key", "create.sum", "create.mark"}
    BY <1>4 DEF PutReturns, WriteLabel
  <2>2. ~Written(p)
    BY <2>1, <1>1 DEF Written
  <2>3. NotWritten(p)
    BY <1>4, <2>2 DEF PutReturns
  <2>4. Return(p, UNABLE_TO_WRITE)
    BY <2>1, <2>3 DEF NotWritten
  <2> QED BY <2>4 DEF Return, ReturnWith, UNABLE_TO_WRITE, OPERATION_SUCCESS
<1>5. CASE CheckReturns(p)
  BY <1>5 DEF CheckReturns, CheckLabel
<1> QED BY <1>2, <1>3, <1>4, <1>5 DEF Advance

\* What the verification finds under the lock is what the stick holds.
LEMMA VerifySeesTheStick ==
  ASSUME LockInv, NEW p \in Client, CheckReturns(p), pc[p] = "create.verify",
         answer'.ret = OPERATION_SUCCESS
  PROVE  CacheCurrent(p)'
<1>0. IInv
  BY DEF LockInv
<1>1. PICK ret \in {ReadFailed, 5} :
        /\ ReadReturns(p, Req(p), ret)
        /\ IF ret = 5 /\ Marked(buf[p][0])
           THEN /\ sector_Key'      = [sector_Key EXCEPT ![p] = buf[p][0]["kptr"]]
                /\ sector_CheckSum' = [sector_CheckSum EXCEPT ![p] = buf[p][0]["cptr"]]
                /\ Recognised(p)
           ELSE /\ UNCHANGED <<sector_Key, sector_CheckSum>>
                /\ NotRecognised(p)
  BY DEF CheckReturns
<1>2. ~NotRecognised(p)
  BY DEF NotRecognised, Return, ReturnWith, UNABLE_TO_WRITE, OPERATION_SUCCESS
<1>3. ret = 5 /\ Marked(buf[p][0])
  BY <1>1, <1>2
<1>4. disk' = disk /\ io[p] = "loaded" /\ locker = p
  BY <1>0, <1>1, <1>3, ReadEffect DEF ReadFailed
<1>5. Req(p).sector = 1
  BY MarkRequests DEF CheckLabel
<1>6. buf[p][0] \notin UninitBlocks
  BY <1>3, usbModelAssumption
<1>7. buf[p][0] = disk[1]
  BY <1>4, <1>5, <1>6 DEF LockInv, HolderIsCurrent, ReadLabel, CheckLabel
<1>8. /\ sector_Key'[p] = buf[p][0]["kptr"]
      /\ sector_CheckSum'[p] = buf[p][0]["cptr"]
  BY <1>0, <1>1, <1>3, Functions
<1> QED BY <1>3, <1>4, <1>7, <1>8 DEF CacheCurrent

\* When createUKey reports success, the stick is marked with the sectors the
\* object has cached, whatever fails and whatever other programs do: its last
\* is_UKey (usbModel.cpp:67) ends while it still holds the lock.
THEOREM SuccessIsTrue == Spec => SuccessIsVerified
<1> DEFINE Reported(p) ==
      /\ pc[p] \in {"create.key", "create.sum", "create.mark", "create.verify"}
      /\ answer'.to = p /\ answer'.ret = OPERATION_SUCCESS
<1>1. ASSUME LockInv, Next, NEW p \in Client, Reported(p)
      PROVE  CacheCurrent(p)'
  <2>0. NoAnswer.to = NoClient /\ NoClient \notin Client /\ IInv
    BY <1>1, UsbIoAssumption DEF NoAnswer, LockInv
  <2>1. ~Pulled
    BY <1>1, <2>0 DEF Pulled
  <2>2. PICK r \in Client : StepOf(r)
    BY <1>1, <2>1 DEF Next, StepOf
  <2>3. r = p /\ Advance(p)
    BY <1>1, <2>0, <2>2, ControlEffect
  <2>4. pc[p] = "create.verify" /\ CheckReturns(p)
    BY <1>1, <2>0, <2>3, OnlyVerifySucceeds
  <2> QED BY <1>1, <2>4, VerifySeesTheStick
<1>2. LockInv /\ [Next]_vars => [\A p \in Client : Reported(p) => CacheCurrent(p)']_vars
  BY <1>1
<1> QED BY <1>2, TheHolderIsCurrent, PTL DEF Spec, SuccessIsVerified

-----------------------------------------------------------------------------
(* One program on a stick, with crashes and failures between any two       *)
(* steps: it destroys no foreign data, its cache agrees with the stick,    *)
(* and the sectors it reads and writes implement UKeyStore.                *)

-----------------------------------------------------------------------------
(* What the steps of an operation do, one by one.                          *)

LEMMA DataFacts ==
  ASSUME IInv
  PROVE  /\ disk \in [SectorNo -> Block]
         /\ 1 \in SectorNo /\ SectorNo = 0 .. LastSector /\ LastSector \in Nat
         /\ \A p \in Client : buf[p] \in [0 .. 1 -> Block]
         /\ \A p \in Client : arg[p].key \in Block /\ arg[p].sum \in Byte
         /\ locker \in Client \cup {NoClient}
BY UsbIoAssumption, usbModelAssumption DEF IInv, TypeOK, IoTypeOK, SectorNo

\* A read that succeeds has read what the stick holds; one that may go wrong
\* unseen has at least not found a mark.
LEMMA SuccessfulRead ==
  ASSUME LockInv, NEW p \in Client, pc[p] \in ReadLabel,
         NEW ret, ret # ReadFailed, ReadReturns(p, Req(p), ret)
  PROVE  \/ buf[p][0] = disk[Req(p).sector]
         \/ MayFail(p) /\ ~Marked(buf[p][0])
<1>1. io[p] = "loaded" /\ locker = p
  BY ReadEffect DEF LockInv
<1> QED BY <1>1, usbModelAssumption DEF LockInv, HolderIsCurrent

\* is_UKey caches the sectors of the UKey it finds, or leaves the cache alone.
LEMMA CheckEffect ==
  ASSUME LockInv, NEW p \in Client, CheckReturns(p)
  PROVE  /\ disk' = disk /\ handle' = handle
         /\ \/ /\ Marked(disk[1])
               /\ sector_Key'[p] = disk[1]["kptr"] /\ sector_CheckSum'[p] = disk[1]["cptr"]
               /\ pc'[p] \in {"idle", "delete.key", "getKey.read", "getCheckSum.read"}
            \/ /\ sector_Key'[p] = sector_Key[p] /\ sector_CheckSum'[p] = sector_CheckSum[p]
               /\ pc'[p] = "idle" \/ (pc[p] = "create.check" /\ pc'[p] = "create.boot")
<1>1. IInv
  BY DEF LockInv
<1>2. PICK ret \in {ReadFailed, 5} :
        /\ ReadReturns(p, Req(p), ret)
        /\ IF ret = 5 /\ Marked(buf[p][0])
           THEN /\ sector_Key'      = [sector_Key EXCEPT ![p] = buf[p][0]["kptr"]]
                /\ sector_CheckSum' = [sector_CheckSum EXCEPT ![p] = buf[p][0]["cptr"]]
                /\ Recognised(p)
           ELSE /\ UNCHANGED <<sector_Key, sector_CheckSum>>
                /\ NotRecognised(p)
  BY DEF CheckReturns
<1>3. disk' = disk /\ handle' = handle
  BY <1>1, <1>2, ReadEffect
<1>4. ASSUME NEW r, Return(p, r) PROVE pc'[p] = "idle"
  BY <1>1, <1>4, Functions DEF Return, ReturnWith
<1>5. ASSUME NEW l, Goto(p, l) PROVE pc'[p] = l
  BY <1>1, <1>5, Functions DEF Goto
<1>6. CASE ret = 5 /\ Marked(buf[p][0])
  <2>1. pc'[p] \in {"idle", "delete.key", "getKey.read", "getCheckSum.read"}
    BY <1>2, <1>4, <1>5, <1>6 DEF Recognised
  <2>2. Req(p).sector = 1 /\ pc[p] \in ReadLabel /\ ret # ReadFailed
    BY <1>6, MarkRequests DEF CheckReturns, CheckLabel, ReadLabel, ReadFailed
  <2>3. buf[p][0] = disk[1]
    BY <1>2, <1>6, <2>2, SuccessfulRead
  <2>4. sector_Key'[p] = buf[p][0]["kptr"] /\ sector_CheckSum'[p] = buf[p][0]["cptr"]
    BY <1>1, <1>2, <1>6, Functions
  <2> QED BY <1>3, <1>6, <2>1, <2>3, <2>4
<1>7. CASE ~(ret = 5 /\ Marked(buf[p][0]))
  BY <1>2, <1>3, <1>4, <1>5, <1>7 DEF NotRecognised
<1> QED BY <1>6, <1>7

\* createUKey forgets its cache before it scans.
LEMMA BootEffect ==
  ASSUME IInv, NEW p \in Client, BootReturns(p)
  PROVE  /\ disk' = disk /\ handle' = handle /\ pc[p] = "create.boot"
         /\ \/ /\ pc'[p] = "create.scan" /\ io[p] = "loaded"
               /\ sector_Key'[p] = 0 /\ sector_CheckSum'[p] = 0
            \/ /\ pc'[p] = "idle"
               /\ sector_Key'[p] = sector_Key[p] /\ sector_CheckSum'[p] = sector_CheckSum[p]
<1>1. PICK ret \in {ReadFailed, 2} :
        /\ ReadReturns(p, Req(p), ret)
        /\ IF ret = 2 /\ Bootable(buf[p][0])
           THEN /\ Goto(p, "create.scan")
                /\ sector_Key'      = [sector_Key EXCEPT ![p] = 0]
                /\ sector_CheckSum' = [sector_CheckSum EXCEPT ![p] = 0]
           ELSE /\ Return(p, IF ret = 2 THEN INVALID_DISK ELSE UNABLE_TO_READ)
                /\ UNCHANGED <<sector_Key, sector_CheckSum>>
  BY DEF BootReturns
<1>2. disk' = disk /\ handle' = handle /\ pc[p] = "create.boot"
  BY <1>1, ReadEffect DEF BootReturns
<1>3. CASE ret = 2 /\ Bootable(buf[p][0])
  <2>1. io[p] = "loaded"
    BY <1>1, <1>3, ReadEffect DEF ReadFailed
  <2> QED BY <1>1, <1>2, <1>3, <2>1, Functions DEF Goto
<1>4. CASE ~(ret = 2 /\ Bootable(buf[p][0]))
  BY <1>1, <1>2, <1>4, Functions DEF Return, ReturnWith
<1> QED BY <1>3, <1>4

\* The scan goes on, gives up, or has found its first or its second sector.
LEMMA ScanEffect ==
  ASSUME IInv, NEW p \in Client, findNullSector(p)
  PROVE  /\ disk' = disk /\ handle' = handle /\ pc[p] = "create.scan"
         /\ \/ /\ pc'[p] \in {"create.scan", "idle"}
               /\ sector_Key'[p] = sector_Key[p] /\ sector_CheckSum'[p] = sector_CheckSum[p]
            \/ /\ pc'[p] \in {"create.scan", "idle"}
               /\ sector_Key[p] = 0 /\ sector_Key'[p] = scan[p]
               /\ sector_CheckSum'[p] = sector_CheckSum[p]
               /\ ReadReturns(p, Req(p), perSectorSize) /\ ScansAsNull(buf[p][0])
            \/ /\ pc'[p] = "create.key"
               /\ sector_Key[p] # 0 /\ sector_Key'[p] = sector_Key[p]
               /\ sector_CheckSum'[p] = scan[p]
               /\ ReadReturns(p, Req(p), perSectorSize) /\ ScansAsNull(buf[p][0])
<1>1. PICK ret \in {ReadFailed, perSectorSize} :
        LET null == ret = perSectorSize /\ ScansAsNull(buf[p][0])
        IN  /\ ReadReturns(p, Req(p), ret)
            /\ \/ ~null /\ ScanOn(p) /\ UNCHANGED <<sector_Key, sector_CheckSum>>
               \/ /\ null /\ sector_Key[p] = 0
                  /\ sector_Key' = [sector_Key EXCEPT ![p] = scan[p]]
                  /\ ScanOn(p)
                  /\ UNCHANGED sector_CheckSum
               \/ /\ null /\ sector_Key[p] # 0
                  /\ sector_CheckSum' = [sector_CheckSum EXCEPT ![p] = scan[p]]
                  /\ scan' = [scan EXCEPT ![p] = 2]
                  /\ Goto(p, "create.key")
                  /\ UNCHANGED sector_Key
  BY DEF findNullSector
<1>2. disk' = disk /\ handle' = handle /\ pc[p] = "create.scan"
  BY <1>1, ReadEffect DEF findNullSector
<1>3. ASSUME ScanOn(p) PROVE pc'[p] \in {"create.scan", "idle"}
  BY <1>3, Functions DEF ScanOn, Goto, Return, ReturnWith
<1>4. CASE ScanOn(p) /\ UNCHANGED <<sector_Key, sector_CheckSum>>
  BY <1>2, <1>3, <1>4
<1>5. CASE /\ ret = perSectorSize /\ ScansAsNull(buf[p][0]) /\ sector_Key[p] = 0
           /\ sector_Key' = [sector_Key EXCEPT ![p] = scan[p]]
           /\ ScanOn(p)
           /\ UNCHANGED sector_CheckSum
  BY <1>1, <1>2, <1>3, <1>5, Functions
<1>6. CASE /\ ret = perSectorSize /\ ScansAsNull(buf[p][0]) /\ sector_Key[p] # 0
           /\ sector_CheckSum' = [sector_CheckSum EXCEPT ![p] = scan[p]]
           /\ Goto(p, "create.key")
           /\ UNCHANGED sector_Key
  BY <1>1, <1>2, <1>6, Functions DEF Goto
<1> QED BY <1>1, <1>4, <1>5, <1>6

\* The writes follow each other in order; one that fails leaves the stick as
\* it was and ends the operation, or leads to the undo.
LEMMA PutEffect ==
  ASSUME IInv, NEW p \in Client, PutReturns(p)
  PROVE  /\ sector_Key' = sector_Key /\ sector_CheckSum' = sector_CheckSum
         /\ handle' = handle
         /\ pc[p] \in WriteLabel \ {"delete.undo"}
         /\ \/ /\ io[p] = "loaded" /\ Store(p, Req(p), Data(p))
               /\ \/ pc[p] = "create.key"  /\ pc'[p] = "create.sum"
                  \/ pc[p] = "create.sum"  /\ pc'[p] = "create.mark"
                  \/ pc[p] = "create.mark" /\ pc'[p] = "create.verify"
                  \/ pc[p] = "delete.key"  /\ pc'[p] = "delete.sum"
                  \/ pc[p] = "delete.sum"  /\ pc'[p] = "delete.mark"
                  \/ pc[p] = "delete.mark" /\ pc'[p] = "idle"
            \/ /\ disk' = disk
               /\ pc'[p] = "idle" \/ (pc[p] = "delete.sum" /\ pc'[p] = "delete.undo")
<1>1. PICK ret \in {WriteFailed, Req(p).n} :
        /\ WriteReturns(p, Req(p), Data(p), ret)
        /\ IF ret = Req(p).n THEN Written(p) ELSE NotWritten(p)
  BY DEF PutReturns
<1>2. /\ sector_Key' = sector_Key /\ sector_CheckSum' = sector_CheckSum /\ handle' = handle
      /\ pc[p] \in WriteLabel \ {"delete.undo"}
  BY <1>1, WriteEffect DEF PutReturns
<1>3. ASSUME NEW r, Return(p, r) PROVE pc'[p] = "idle"
  BY <1>3, Functions DEF Return, ReturnWith
<1>4. ASSUME NEW l, Goto(p, l) PROVE pc'[p] = l
  BY <1>4, Functions DEF Goto
<1>5. Req(p).n # WriteFailed
  BY <1>2, RequestInRange DEF WriteLabel, WriteFailed
<1>6. CASE WriteOutOfMemory(p, ret)
  <2>1. NotWritten(p) /\ disk' = disk
    BY <1>1, <1>5, <1>6 DEF WriteOutOfMemory, ioVars
  <2>2. pc'[p] = "idle" \/ (pc[p] = "delete.sum" /\ pc'[p] = "delete.undo")
    BY <2>1, <1>3, <1>4 DEF NotWritten
  <2> QED BY <1>2, <2>1, <2>2
<1>7. CASE WriteEnds(p, Req(p), Data(p), ret)
  <2>1. io[p] = "loaded" /\ Store(p, Req(p), Data(p)) /\ Written(p)
    BY <1>1, <1>7 DEF WriteEnds
  <2>2. \/ pc[p] = "create.key"  /\ pc'[p] = "create.sum"
        \/ pc[p] = "create.sum"  /\ pc'[p] = "create.mark"
        \/ pc[p] = "create.mark" /\ pc'[p] = "create.verify"
        \/ pc[p] = "delete.key"  /\ pc'[p] = "delete.sum"
        \/ pc[p] = "delete.sum"  /\ pc'[p] = "delete.mark"
        \/ pc[p] = "delete.mark" /\ pc'[p] = "idle"
    BY <2>1, <1>3, <1>4 DEF Written
  <2> QED BY <1>2, <2>1, <2>2
<1> QED BY <1>1, <1>6, <1>7 DEF WriteReturns

\* The undo of deleteUkey and the gets end their operation.
LEMMA LastCallEffect ==
  ASSUME IInv, NEW p \in Client, UndoReturns(p) \/ GetReturns(p)
  PROVE  /\ sector_Key' = sector_Key /\ sector_CheckSum' = sector_CheckSum
         /\ handle' = handle /\ pc'[p] = "idle"
         /\ \/ disk' = disk
            \/ /\ UndoReturns(p) /\ pc[p] = "delete.undo" /\ io[p] = "loaded"
               /\ Store(p, Req(p), buf[p][0])
<1>1. ASSUME NEW r, Return(p, r) PROVE pc'[p] = "idle"
  BY <1>1, Functions DEF Return, ReturnWith
<1>2. ASSUME NEW r, NEW o, ReturnWith(p, r, o) PROVE pc'[p] = "idle"
  BY <1>2, Functions DEF ReturnWith
<1>3. CASE UndoReturns(p)
  BY <1>1, <1>3 DEF UndoReturns, WriteOutOfMemory, WriteEnds, ioVars
<1>4. CASE GetReturns(p)
  <2>1. PICK ret : ReadReturns(p, Req(p), ret)
    BY <1>4 DEF GetReturns
  <2>2. pc'[p] = "idle"
    BY <1>1, <1>2, <1>4 DEF GetReturns
  <2> QED BY <1>4, <2>1, <2>2, ReadEffect DEF GetReturns
<1> QED BY <1>3, <1>4

\* An operation begins, with a sector to get only if it is cached.
LEMMA StartEffect ==
  ASSUME IInv, NEW p \in Client, Start(p)
  PROVE  /\ disk' = disk /\ handle' = handle /\ locker' = locker
         /\ sector_Key' = sector_Key /\ sector_CheckSum' = sector_CheckSum
         /\ pc'[p] \in {"is_UKey", "create.check", "delete.check", "getKey.check",
                        "getCheckSum.check", "getKey.read", "getCheckSum.read"}
         /\ pc'[p] = "create.check" => arg'[p].key \in Keys /\ arg'[p].sum \in Sums
         /\ pc'[p] = "getKey.read" => sector_Key[p] # 0
         /\ pc'[p] = "getCheckSum.read" => sector_CheckSum[p] # 0
<1>1. ASSUME NEW l, NEW a, Call(p, l, a)
      PROVE  /\ disk' = disk /\ handle' = handle /\ locker' = locker
             /\ sector_Key' = sector_Key /\ sector_CheckSum' = sector_CheckSum
             /\ pc'[p] = l /\ arg'[p] = a
  BY <1>1, Functions DEF Call, ioVars
<1>2. CASE createUKey(p)
  <2>1. PICK k \in Keys, c \in Sums : Call(p, "create.check", [key |-> k, sum |-> c])
    BY <1>2 DEF createUKey
  <2>2. arg'[p] = [key |-> k, sum |-> c] /\ pc'[p] = "create.check"
    BY <1>1, <2>1
  <2>3. disk' = disk /\ handle' = handle /\ locker' = locker
        /\ sector_Key' = sector_Key /\ sector_CheckSum' = sector_CheckSum
    BY <1>1, <2>1
  <2> QED BY <2>2, <2>3 DEF CheckLabel
<1>3. CASE is_UKey(p) \/ deleteUkey(p)
  BY <1>1, <1>3 DEF is_UKey, deleteUkey, CheckLabel
<1>4. CASE getKey(p)
  BY <1>1, <1>4 DEF getKey, CheckLabel
<1>5. CASE getCheckSum(p)
  BY <1>1, <1>5 DEF getCheckSum, CheckLabel
<1> QED BY <1>2, <1>3, <1>4, <1>5 DEF Start

\* An object is made or gone.
LEMMA ForgetEffect ==
  ASSUME IInv, NEW p \in Client, Construct(p) \/ Destroy(p) \/ Dies(p)
  PROVE  /\ disk' = disk /\ pc'[p] = "idle"
         /\ sector_Key'[p] = 0 /\ sector_CheckSum'[p] = 0
BY Functions DEF Construct, Destroy, Dies, OpenDevice, CloseHandle, Forget

-----------------------------------------------------------------------------
(* What a write changes.                                                   *)

\* A client that writes under a handle that reaches the stick has loaded what
\* is there: with one program, nothing changes it behind its back.
WriterIsCurrent ==
  \A p \in Client :
    pc[p] \in WriteLabel /\ io[p] = "loaded" /\ handle[p] = "open"
      => \A i \in 0 .. 1 : i < Span(Req(p)) => buf[p][i] = disk[Req(p).sector + i]

\* The sector that a write asks for, as it is afterwards.
Overlaid(p, d) ==
  [q \in Part |-> IF Covers(Req(p), Req(p).sector, q) THEN d[q]
                                                      ELSE disk[Req(p).sector][q]]

\* No request runs over the end of its sector, although UsbIo transfers the
\* next one too.
LEMMA WithinOneSector ==
  ASSUME IInv, NEW p \in Client, pc[p] \in WriteLabel
  PROVE  /\ Req(p).off \in Nat /\ Req(p).n \in Nat /\ Req(p).off + Req(p).n <= 512
         /\ Req(p).sector \in 1 .. ScanEnd - 1
         /\ Span(Req(p)) \in {1, 2}
<1>1. Req(p).sector \in 1 .. ScanEnd - 1 /\ Span(Req(p)) \in {1, 2}
  BY RequestInRange, Numbers DEF WriteLabel
<1>2. CASE pc[p] \in {"create.mark", "delete.mark"}
  BY <1>1, <1>2, MarkRequests
<1>3. CASE pc[p] \in {"create.key", "delete.key"}
  BY <1>1, <1>3 DEF Req, CheckLabel, At, KeySize
<1>4. CASE pc[p] = "create.sum"
  BY <1>1, <1>4 DEF Req, CheckLabel, At, CheckSumSize
<1>5. CASE pc[p] = "delete.sum"
  BY <1>1, <1>5 DEF Req, CheckLabel, At, perSectorSize
<1>6. CASE pc[p] = "delete.undo"
  BY <1>1, <1>6, FixedRequests DEF Req, CheckLabel
<1> QED BY <1>2, <1>3, <1>4, <1>5, <1>6 DEF WriteLabel

\* With one program the sectors handed to WriteFile differ from those of the
\* stick in the bytes that were asked for, which lie in one sector: that the
\* next one is written too (UsbIo.cpp:184,224) changes nothing.
LEMMA SoloMerged ==
  ASSUME IInv, WriterIsCurrent, NEW p \in Client, pc[p] \in WriteLabel, io[p] = "loaded",
         handle[p] = "open", NEW d \in Block
  PROVE  Merged(p, Req(p), d) = [disk EXCEPT ![Req(p).sector] = Overlaid(p, d)]
<1> DEFINE s == Req(p).sector
           M == Merged(p, Req(p), d)
<1>1. /\ disk \in [SectorNo -> Block] /\ s \in SectorNo /\ s \in Nat
      /\ SectorNo = 0 .. LastSector /\ Span(Req(p)) \in {1, 2}
  BY DataFacts, WithinOneSector, Numbers
<1>2. Touches(Req(p), s)
  BY <1>1 DEF Touches
<1>3. s - s = 0
  BY <1>1
<1>4. buf[p][0] = disk[s]
  <2>1. 0 \in 0 .. 1 /\ 0 < Span(Req(p)) /\ s + 0 = s
    BY <1>1
  <2> QED BY <2>1 DEF WriterIsCurrent
<1>5. M[s] = Overlaid(p, d)
  BY <1>1, <1>2, <1>3, <1>4 DEF Merged, Overlaid
<1>6. ASSUME NEW t \in SectorNo, t # s PROVE M[t] = disk[t]
  <2>1. CASE ~Touches(Req(p), t)
    BY <1>6, <2>1 DEF Merged
  <2>2. CASE Touches(Req(p), t)
    <3>1. t = s + 1 /\ Span(Req(p)) = 2
      BY <1>1, <1>6, <2>2 DEF Touches
    <3>2. t - s = 1
      BY <1>1, <3>1
    <3>3. buf[p][1] = disk[t]
      <4>1. 1 \in 0 .. 1 /\ 1 < Span(Req(p))
        BY <3>1
      <4> QED BY <3>1, <4>1 DEF WriterIsCurrent
    <3>4. ASSUME NEW q \in Part PROVE ~Covers(Req(p), t, q)
      <4>1. LastByte[q] \in Nat
        BY DEF Part, LastByte
      <4>2. (t - s) * perSectorSize = 512
        BY <3>2 DEF perSectorSize
      <4>3. Req(p).off + Req(p).n <= 512 /\ Req(p).off \in Nat /\ Req(p).n \in Nat
        BY WithinOneSector
      <4>4. ~(512 + LastByte[q] < Req(p).off + Req(p).n)
        BY <4>1, <4>3
      <4> QED BY <4>2, <4>4 DEF Covers
    <3>5. M[t] = [q \in Part |-> disk[t][q]]
      BY <1>6, <2>2, <3>2, <3>3, <3>4 DEF Merged
    <3>6. disk[t] \in Block
      BY <1>1, <1>6
    <3> QED BY <3>5, <3>6 DEF Block
  <2> QED BY <2>1, <2>2
<1>7. M = [t \in SectorNo |-> M[t]]
  BY DEF Merged
<1> HIDE DEF M
<1>8. M = [disk EXCEPT ![s] = Overlaid(p, d)]
  BY <1>1, <1>5, <1>6, <1>7
<1> QED BY <1>8 DEF M

\* The parts that a request covers.
LEMMA CoveredParts ==
  ASSUME IInv, NEW p \in Client
  PROVE  /\ pc[p] \in {"create.key", "delete.key", "delete.sum"} =>
              \A q \in Part : Covers(Req(p), Req(p).sector, q)
         /\ pc[p] = "create.sum" =>
              \A q \in Part : Covers(Req(p), Req(p).sector, q) <=> q = "head"
         /\ pc[p] \in {"create.mark", "delete.mark"} =>
              \A q \in Part : Covers(Req(p), Req(p).sector, q) <=> q \notin {"head", "mid"}
<1> DEFINE Within(o, l) == \A q \in Part :
      Covers(Req(p), Req(p).sector, q) <=> o <= FirstByte[q] /\ LastByte[q] < o + l
<1>1. ASSUME NEW o \in Nat, NEW l \in Nat, NEW s \in Nat, NEW b,
             Req(p) = [seek |-> b, sector |-> s, from |-> s, off |-> o, n |-> l]
      PROVE  Within(o, l)
  <2>1. (s - s) * perSectorSize = 0
    BY DEF perSectorSize
  <2>2. /\ Req(p).sector = s /\ Req(p).off = o /\ Req(p).n = l
    BY <1>1
  <2>3. \A q \in Part : FirstByte[q] \in Nat /\ LastByte[q] \in Nat
    BY DEF Part, FirstByte, LastByte
  <2> QED BY <2>1, <2>2, <2>3 DEF Covers
<1> HIDE DEF Within
<1>2. sector_Key[p] \in Nat /\ sector_CheckSum[p] \in Nat
  BY Numbers
<1>3. CASE pc[p] \in {"create.key", "delete.key", "delete.sum"}
  <2>1. ASSUME pc[p] \in {"create.key", "delete.key"} PROVE Within(0, 512)
    <3>1. Req(p) = [seek |-> FALSE, sector |-> sector_Key[p], from |-> sector_Key[p], off |-> 0, n |-> 512]
      BY <2>1 DEF Req, CheckLabel, At, KeySize
    <3> QED BY <1>1, <1>2, <3>1
  <2>2. ASSUME pc[p] = "delete.sum" PROVE Within(0, 512)
    <3>1. Req(p) = [seek |-> FALSE, sector |-> sector_CheckSum[p], from |-> sector_CheckSum[p], off |-> 0, n |-> 512]
      BY <2>2 DEF Req, CheckLabel, At, perSectorSize
    <3> QED BY <1>1, <1>2, <3>1
  <2>3. Within(0, 512)
    BY <1>3, <2>1, <2>2
  <2> QED BY <1>3, <2>3 DEF Within, Part, FirstByte, LastByte
<1>4. CASE pc[p] = "create.sum"
  <2>1. Within(0, 32)
    BY <1>1, <1>2, <1>4 DEF Req, CheckLabel, At, CheckSumSize
  <2> QED BY <1>4, <2>1 DEF Within, Part, FirstByte, LastByte
<1>5. CASE pc[p] \in {"create.mark", "delete.mark"}
  <2>1. Within(507, 5)
    BY <1>1, <1>5, MarkRequests
  <2> QED BY <1>5, <2>1 DEF Within, Part, FirstByte, LastByte
<1> QED BY <1>3, <1>4, <1>5

\* The sector that each write asks for, and what it makes of it.
LEMMA WhatIsWritten ==
  ASSUME IInv, NEW p \in Client
  PROVE  /\ pc[p] = "create.key" =>
              Req(p).sector = sector_Key[p] /\ Overlaid(p, Data(p)) = arg[p].key
         /\ pc[p] = "create.sum" =>
              /\ Req(p).sector = sector_CheckSum[p]
              /\ Overlaid(p, Data(p)) = [disk[sector_CheckSum[p]] EXCEPT !["head"] = arg[p].sum]
         /\ pc[p] = "create.mark" =>
              /\ Req(p).sector = 1 /\ Marked(Overlaid(p, Data(p)))
              /\ Overlaid(p, Data(p))["kptr"] = sector_Key[p]
              /\ Overlaid(p, Data(p))["cptr"] = sector_CheckSum[p]
         /\ pc[p] = "delete.key" =>
              Req(p).sector = sector_Key[p] /\ Overlaid(p, Data(p)) = ZeroBlock
         /\ pc[p] = "delete.sum" =>
              Req(p).sector = sector_CheckSum[p] /\ Overlaid(p, Data(p)) = ZeroBlock
         /\ pc[p] = "delete.mark" =>
              Req(p).sector = 1 /\ ~Marked(Overlaid(p, Data(p)))
<1>1. ZeroBlock \in Block /\ arg[p].key \in Block
  BY ZeroBlockIsTyped, DataFacts
<1>2. CASE pc[p] = "create.key"
  <2>1. Overlaid(p, Data(p)) = [q \in Part |-> arg[p].key[q]]
    BY <1>2, CoveredParts DEF Overlaid, Data
  <2> QED BY <1>1, <1>2, <2>1 DEF Block, Req, CheckLabel, At
<1>3. CASE pc[p] = "create.sum"
  <2>1. Req(p).sector = sector_CheckSum[p]
    BY <1>3 DEF Req, CheckLabel, At
  <2>2. Data(p)["head"] = arg[p].sum
    BY <1>3 DEF Data, ZeroBlock, Part
  <2>3. disk[sector_CheckSum[p]] \in Block
    BY DataFacts, Numbers
  <2>4. Overlaid(p, Data(p)) = [q \in Part |-> IF q = "head" THEN arg[p].sum
                                               ELSE disk[sector_CheckSum[p]][q]]
    BY <1>3, <2>1, <2>2, CoveredParts DEF Overlaid
  <2> QED BY <1>3, <2>1, <2>3, <2>4 DEF Block
<1>4. CASE pc[p] \in {"create.mark", "delete.mark"}
  <2>1. Req(p).sector = 1
    BY <1>4, MarkRequests
  <2>2. \A q \in Part \ {"head", "mid"} : Overlaid(p, Data(p))[q] = Data(p)[q]
    BY <1>4, CoveredParts DEF Overlaid
  <2>3. \A q \in {"kptr", "cptr", "mark", "sig"} : Overlaid(p, Data(p))[q] = Data(p)[q]
    BY <2>2 DEF Part
  <2>4. CASE pc[p] = "delete.mark"
    BY <2>1, <2>3, <2>4 DEF Data, ZeroBlock, Part, Marked, MarkAA
  <2>5. CASE pc[p] = "create.mark"
    <3>1. /\ sector_Key[p] % ByteSize = sector_Key[p]
          /\ sector_CheckSum[p] % ByteSize = sector_CheckSum[p]
      BY Numbers
    <3>2. /\ Data(p)["kptr"] = sector_Key[p] /\ Data(p)["cptr"] = sector_CheckSum[p]
          /\ Data(p)["mark"] = MarkAA /\ Data(p)["sig"] = Sig55AA
      BY <2>5, <3>1 DEF Data, NewMark, ZeroBlock, Part
    <3> QED BY <2>1, <2>3, <2>5, <3>2 DEF Marked
  <2> QED BY <1>4, <2>4, <2>5
<1>5. CASE pc[p] = "delete.key"
  <2>1. Overlaid(p, Data(p)) = [q \in Part |-> 0]
    BY <1>5, CoveredParts DEF Overlaid, Data, ZeroBlock
  <2> QED BY <1>5, <2>1 DEF ZeroBlock, Req, CheckLabel, At
<1>6. CASE pc[p] = "delete.sum"
  <2>1. Overlaid(p, Data(p)) = [q \in Part |-> 0]
    BY <1>6, CoveredParts DEF Overlaid, Data, ZeroBlock
  <2> QED BY <1>6, <2>1 DEF ZeroBlock, Req, CheckLabel, At
<1> QED BY <1>2, <1>3, <1>4, <1>5, <1>6

\* With one program a write of createUKey or deleteUkey changes the sector it
\* asks for as it should, or nothing; nothing only if it fails.
LEMMA PutWrites ==
  ASSUME IInv, WriterIsCurrent, NEW p \in Client, Client = {p}, PutReturns(p)
  PROVE  \/ /\ handle[p] = "open"
            /\ disk' = [disk EXCEPT ![Req(p).sector] = Overlaid(p, Data(p))]
            /\ pc'[p] \in {"create.sum", "create.mark", "create.verify",
                           "delete.sum", "delete.mark", "idle"}
         \/ /\ disk' = disk
            /\ handle[p] # "open" \/ "write" \in Faults
                 \/ pc'[p] \in {"idle", "delete.undo"}
<1>1. CASE /\ disk' = disk
           /\ pc'[p] = "idle" \/ (pc[p] = "delete.sum" /\ pc'[p] = "delete.undo")
  BY <1>1
<1>2. CASE /\ io[p] = "loaded" /\ Store(p, Req(p), Data(p))
           /\ pc'[p] \in {"create.sum", "create.mark", "create.verify",
                          "delete.sum", "delete.mark", "idle"}
  <2>1. pc[p] \in WriteLabel
    BY PutEffect
  <2>2. CASE disk' = disk /\ (~Reaches(p) \/ "write" \in Faults)
    <3>1. Reaches(p) \/ handle[p] # "open"
      BY DataFacts DEF Reaches
    <3> QED BY <2>2, <3>1
  <2>3. CASE Reaches(p)
    <3> DEFINE M == Merged(p, Req(p), Data(p))
    <3>1. \/ disk' = M
          \/ disk' = [disk EXCEPT ![Req(p).sector] = M[Req(p).sector]]
          \/ disk' = disk /\ "write" \in Faults
      BY <1>2, <2>3 DEF Store
    <3>2. M = [disk EXCEPT ![Req(p).sector] = Overlaid(p, Data(p))]
      BY <1>2, <2>1, <2>3, DataIsTyped, SoloMerged DEF Reaches
    <3>3. disk \in [SectorNo -> Block] /\ Req(p).sector \in SectorNo
      BY <2>1, DataFacts, WithinOneSector, Numbers
    <3>4. M[Req(p).sector] = Overlaid(p, Data(p))
      BY <3>2, <3>3
    <3> HIDE DEF M
    <3>5. \/ disk' = [disk EXCEPT ![Req(p).sector] = Overlaid(p, Data(p))]
          \/ disk' = disk /\ "write" \in Faults
      BY <3>1, <3>2, <3>4, Zenon
    <3> QED BY <1>2, <2>3, <3>5 DEF Reaches
  <2> QED BY <1>2, <2>2, <2>3 DEF Store
<1> QED BY <1>1, <1>2, PutEffect

-----------------------------------------------------------------------------
(* One program on a stick whose ReadFile works.                            *)

CreateLabel == {"create.check", "create.boot", "create.scan", "create.key", "create.sum",
                "create.mark", "create.verify"}

\* createUKey works with the key and checksum it was called with.
ArgsGiven ==
  \A p \in Client : pc[p] \in CreateLabel => arg[p].key \in Keys /\ arg[p].sum \in Sums

\* deleteUkey works on the UKey that is on the stick.
DeletesItsOwn ==
  \A p \in Client :
    pc[p] \in {"delete.key", "delete.sum", "delete.undo", "delete.mark"} => CacheCurrent(p)

\* The inductive invariant of one program on a stick whose ReadFile works.
SoloInv ==
  /\ LockInv
  /\ WriterIsCurrent
  /\ ArgsGiven
  /\ DeletesItsOwn

LEMMA SoloInvInit == Init => SoloInv
<1> SUFFICES ASSUME Init PROVE SoloInv
  OBVIOUS
<1>1. \A p \in Client : pc[p] = "idle"
  BY DEF Init
<1> QED BY <1>1, LockInvInit DEF SoloInv, WriterIsCurrent, ArgsGiven, DeletesItsOwn,
                                 WriteLabel, CreateLabel

\* The arguments stay until the operation returns.
LEMMA ArgsStay ==
  ASSUME IInv, NEW p \in Client, Advance(p)
  PROVE  arg'[p] = arg[p] \/ pc'[p] = "idle"
<1>1. ASSUME NEW l, Goto(p, l) PROVE arg'[p] = arg[p]
  BY <1>1 DEF Goto
<1>2. ASSUME NEW r, NEW o, ReturnWith(p, r, o) PROVE pc'[p] = "idle"
  BY <1>2, Functions DEF ReturnWith
<1>3. ASSUME NEW r, Return(p, r) PROVE pc'[p] = "idle"
  BY <1>2, <1>3 DEF Return
<1>4. CASE BeginIo(p)
  BY <1>4, BeginEffect
<1>5. CASE CheckReturns(p)
  <2>1. Recognised(p) \/ NotRecognised(p)
    BY <1>5 DEF CheckReturns
  <2> QED BY <1>1, <1>3, <2>1 DEF Recognised, NotRecognised
<1>6. CASE BootReturns(p)
  BY <1>1, <1>3, <1>6 DEF BootReturns
<1>7. CASE findNullSector(p)
  <2>1. ScanOn(p) \/ Goto(p, "create.key")
    BY <1>7 DEF findNullSector
  <2> QED BY <1>1, <1>3, <2>1 DEF ScanOn
<1>8. CASE PutReturns(p)
  <2>1. Written(p) \/ NotWritten(p)
    BY <1>8 DEF PutReturns
  <2> QED BY <1>1, <1>3, <2>1 DEF Written, NotWritten
<1>9. CASE UndoReturns(p)
  BY <1>3, <1>9 DEF UndoReturns
<1>10. CASE GetReturns(p)
  BY <1>2, <1>3, <1>10 DEF GetReturns
<1> QED BY <1>4, <1>5, <1>6, <1>7, <1>8, <1>9, <1>10 DEF Advance

\* A label of createUKey is reached from createUKey.
LEMMA CreateGoesOn ==
  ASSUME LockInv, NEW p \in Client, Advance(p), pc'[p] \in CreateLabel
  PROVE  pc[p] \in CreateLabel
<1>1. IInv
  BY DEF LockInv
<1>2. CASE BeginIo(p)
  BY <1>1, <1>2, BeginEffect
<1>3. CASE CheckReturns(p)
  BY <1>3, CheckEffect DEF CreateLabel
<1>4. CASE BootReturns(p)
  BY <1>1, <1>4, BootEffect DEF CreateLabel
<1>5. CASE findNullSector(p)
  BY <1>1, <1>5, ScanEffect DEF CreateLabel
<1>6. CASE PutReturns(p)
  BY <1>1, <1>6, PutEffect DEF CreateLabel
<1>7. CASE UndoReturns(p) \/ GetReturns(p)
  BY <1>1, <1>7, LastCallEffect DEF CreateLabel
<1> QED BY <1>2, <1>3, <1>4, <1>5, <1>6, <1>7 DEF Advance

LEMMA ArgsGivenStep ==
  ASSUME LockInv, ArgsGiven, NEW p \in Client, Client = {p}, StepOf(p)
  PROVE  ArgsGiven'
<1> SUFFICES ASSUME pc'[p] \in CreateLabel
             PROVE  arg'[p].key \in Keys /\ arg'[p].sum \in Sums
  BY DEF ArgsGiven
<1>1. IInv
  BY DEF LockInv
<1>2. CASE Start(p)
  <2>1. pc'[p] = "create.check"
    BY <1>1, <1>2, StartEffect DEF CreateLabel
  <2> QED BY <1>1, <1>2, <2>1, StartEffect
<1>3. CASE Advance(p)
  <2>1. pc'[p] # "idle"
    BY DEF CreateLabel
  <2> QED BY <1>1, <1>3, <2>1, ArgsStay, CreateGoesOn DEF ArgsGiven
<1>4. CASE Construct(p) \/ Destroy(p) \/ Dies(p)
  BY <1>1, <1>4, ForgetEffect DEF CreateLabel
<1> QED BY <1>2, <1>3, <1>4 DEF StepOf

\* Under an open handle, ReadFile loads for a write what the stick holds.
LEMMA BeginLoads ==
  ASSUME IInv, NEW p \in Client, Client = {p}, "read" \notin Faults,
         BeginIo(p), pc[p] \in WriteLabel, handle[p] = "open",
         NEW i \in 0 .. 1, i < Span(Req(p))
  PROVE  buf'[p][i] = disk[Req(p).sector + i]
<1>1. WriteBegins(p, Req(p))
  BY DEF BeginIo, ReadLabel, CheckLabel, WriteLabel
<1>2. Reaches(p)
  BY DataFacts DEF Reaches
<1>3. buf' = [buf EXCEPT ![p] =
             [j \in 0 .. 1 |-> IF j < Span(Req(p)) THEN disk[Req(p).sector + j]
                                                   ELSE ZeroBlock]]
  BY <1>1, <1>2, WritesLoadTheirSectors DEF Load, WriteLabel
<1> QED BY <1>3, Functions

LEMMA WriterIsCurrentStep ==
  ASSUME IInv, WriterIsCurrent, NEW p \in Client, Client = {p}, "read" \notin Faults,
         StepOf(p)
  PROVE  WriterIsCurrent'
<1> SUFFICES ASSUME pc'[p] \in WriteLabel, io'[p] = "loaded", handle'[p] = "open",
                    NEW i \in 0 .. 1, i < Span(Req(p))'
             PROVE  buf'[p][i] = disk'[Req(p)'.sector + i]
  BY DEF WriterIsCurrent
<1>1. BeginIo(p)
  BY NothingLoaded
<1>2. disk' = disk /\ handle' = handle /\ UNCHANGED <<pc, sector_Key, sector_CheckSum, scan>>
  BY <1>1, BeginEffect
<1>3. Req(p)' = Req(p)
  BY <1>2 DEF Req, MarkBytes
<1>4. Span(Req(p))' = Span(Req(p))
  BY <1>3 DEF Span
<1> QED BY <1>1, <1>2, <1>3, <1>4, BeginLoads

\* What is true of the sectors a write may be about, before it.
LEMMA BeforeAPut ==
  ASSUME SoloInv, NEW p \in Client, pc[p] \in WriteLabel
  PROVE  /\ sector_Key[p] \in 2 .. LastSector /\ sector_CheckSum[p] \in 2 .. LastSector
         /\ sector_Key[p] # sector_CheckSum[p]
         /\ pc[p] \in {"delete.key", "delete.sum", "delete.undo", "delete.mark"}
              => CacheCurrent(p)
<1>1. IInv
  BY DEF SoloInv, LockInv
<1>2. /\ 2 <= sector_Key[p] /\ sector_Key[p] < sector_CheckSum[p]
  BY <1>1 DEF IInv, WritersHaveSectors
<1> QED BY <1>1, <1>2, Numbers DEF SoloInv, DeletesItsOwn

\* A write of createUKey or deleteUkey changes the key sector or the checksum
\* sector of its client; sector 1 apart, it changes nothing else.
LEMMA OnlyItsSectors ==
  ASSUME SoloInv, NEW p \in Client, Client = {p}, PutReturns(p),
         NEW s \in SectorNo \ {1}, disk'[s] # disk[s]
  PROVE  \/ pc[p] = "create.key" /\ s = sector_Key[p] /\ disk'[s] = arg[p].key
         \/ /\ pc[p] = "create.sum" /\ s = sector_CheckSum[p]
            /\ disk'[s] = [disk[s] EXCEPT !["head"] = arg[p].sum]
         \/ pc[p] = "delete.key" /\ s = sector_Key[p] /\ disk'[s] = ZeroBlock
         \/ pc[p] = "delete.sum" /\ s = sector_CheckSum[p] /\ disk'[s] = ZeroBlock
<1>1. IInv /\ WriterIsCurrent /\ pc[p] \in WriteLabel /\ pc[p] # "delete.undo"
  BY PutEffect DEF SoloInv, LockInv
<1>2. /\ disk' = [disk EXCEPT ![Req(p).sector] = Overlaid(p, Data(p))]
      /\ disk \in [SectorNo -> Block]
  BY <1>1, PutWrites, DataFacts
<1>3. s = Req(p).sector /\ disk'[s] = Overlaid(p, Data(p))
  BY <1>2
<1>4. pc[p] \in {"create.key", "create.sum", "delete.key", "delete.sum"}
  BY <1>1, <1>3, WhatIsWritten DEF WriteLabel
<1> QED BY <1>1, <1>3, <1>4, WhatIsWritten

\* The undo of deleteUkey writes back what it has loaded.
LEMMA UndoWritesNothing ==
  ASSUME SoloInv, NEW p \in Client, Client = {p}, UndoReturns(p)
  PROVE  disk' = disk
<1>1. IInv /\ WriterIsCurrent
  BY DEF SoloInv, LockInv
<1> SUFFICES ASSUME pc[p] = "delete.undo", io[p] = "loaded", Store(p, Req(p), buf[p][0])
             PROVE  disk' = disk
  BY <1>1, LastCallEffect
<1>2. pc[p] \in WriteLabel /\ disk \in [SectorNo -> Block] /\ buf[p][0] \in Block
  BY <1>1, DataFacts DEF WriteLabel
<1>3. Req(p).sector = 1 /\ 1 \in SectorNo /\ 0 < Span(Req(p)) /\ 1 + 0 = 1
  BY <1>1, <1>2, DataFacts, WithinOneSector, FixedRequests DEF Req, CheckLabel
<1>4. ASSUME handle[p] = "open" PROVE Merged(p, Req(p), buf[p][0]) = disk
  <2>1. Merged(p, Req(p), buf[p][0]) = [disk EXCEPT ![1] = Overlaid(p, buf[p][0])]
    BY <1>1, <1>2, <1>3, <1>4, SoloMerged
  <2>2. buf[p][0] = disk[1]
    BY <1>1, <1>2, <1>3, <1>4 DEF WriterIsCurrent
  <2>3. Overlaid(p, buf[p][0]) = [q \in Part |-> disk[1][q]]
    BY <1>3, <2>2 DEF Overlaid
  <2>4. disk[1] \in Block
    BY <1>2, <1>3
  <2>5. Overlaid(p, buf[p][0]) = disk[1]
    BY <2>3, <2>4 DEF Block
  <2> QED BY <1>2, <2>1, <2>5
<1> QED BY <1>2, <1>3, <1>4 DEF Store, Reaches

\* The writes of createUKey and deleteUkey are all that changes the stick.
LEMMA OnlyPutsWrite ==
  ASSUME SoloInv, NEW p \in Client, Client = {p}, StepOf(p), ~PutReturns(p)
  PROVE  disk' = disk
<1>1. IInv /\ LockInv
  BY DEF SoloInv, LockInv
<1>2. CASE Construct(p) \/ Destroy(p) \/ Dies(p)
  BY <1>1, <1>2, ForgetEffect
<1>3. CASE Start(p)
  BY <1>1, <1>3, StartEffect
<1>4. CASE UndoReturns(p)
  BY <1>4, UndoWritesNothing
<1>5. CASE BeginIo(p) \/ CheckReturns(p) \/ BootReturns(p) \/ findNullSector(p)
  BY <1>1, <1>5, BeginEffect, CheckEffect, BootEffect, ScanEffect
<1>6. CASE GetReturns(p)
  BY <1>1, <1>6, LastCallEffect DEF GetReturns
<1> QED BY <1>2, <1>3, <1>4, <1>5, <1>6 DEF StepOf, Advance

\* The mark is as it was after a write to another sector.
LEMMA MarkStays ==
  ASSUME SoloInv, NEW p \in Client, Client = {p}, PutReturns(p),
         pc[p] \notin {"create.mark", "delete.mark"}
  PROVE  disk'[1] = disk[1]
<1>1. IInv /\ WriterIsCurrent /\ pc[p] \in WriteLabel \ {"delete.undo"}
  BY PutEffect DEF SoloInv, LockInv
<1>2. Req(p).sector >= 2
  BY <1>1, OtherRequests DEF WriteLabel
<1>3. disk \in [SectorNo -> Block] /\ 1 \in SectorNo /\ Req(p).sector # 1
  BY <1>1, <1>2, DataFacts
<1>4. CASE disk' = disk
  BY <1>4
<1>5. CASE disk' = [disk EXCEPT ![Req(p).sector] = Overlaid(p, Data(p))]
  BY <1>3, <1>5
<1> QED BY <1>1, <1>4, <1>5, PutWrites

LEMMA DeletesItsOwnStep ==
  ASSUME SoloInv, NEW p \in Client, Client = {p}, StepOf(p)
  PROVE  DeletesItsOwn'
<1> USE DEF SoloInv, LockInv
<1> SUFFICES ASSUME pc'[p] \in {"delete.key", "delete.sum", "delete.undo", "delete.mark"}
             PROVE  CacheCurrent(p)'
  BY DEF DeletesItsOwn
<1>1. ~Construct(p) /\ ~Destroy(p) /\ ~Dies(p)
  BY ForgetEffect
<1>2. ~Start(p)
  BY StartEffect
<1>3. CASE BeginIo(p)
  BY <1>3, BeginEffect DEF DeletesItsOwn, CacheCurrent
<1>4. CASE CheckReturns(p)
  BY <1>4, CheckEffect DEF CacheCurrent
<1>5. ~BootReturns(p)
  BY BootEffect
<1>6. ~findNullSector(p)
  BY ScanEffect
<1>7. CASE PutReturns(p)
  <2>1. /\ pc[p] \in {"delete.key", "delete.sum"}
        /\ sector_Key' = sector_Key /\ sector_CheckSum' = sector_CheckSum
    BY <1>7, PutEffect
  <2>2. disk'[1] = disk[1]
    BY <1>7, <2>1, MarkStays
  <2> QED BY <2>1, <2>2 DEF DeletesItsOwn, CacheCurrent
<1>8. ~UndoReturns(p) /\ ~GetReturns(p)
  BY LastCallEffect
<1> QED BY <1>1, <1>2, <1>3, <1>4, <1>5, <1>6, <1>7, <1>8 DEF StepOf, Advance

\* Pulling the stick out, or doing nothing, changes nothing of this.
LEMMA QuietSteps ==
  ASSUME Pulled \/ UNCHANGED vars
  PROVE  /\ UNCHANGED <<disk, io, buf, pc, sector_Key, sector_CheckSum, arg, scan>>
         /\ \A p \in Client : handle'[p] = "open" => handle[p] = "open"
         /\ Pulled => \A p \in Client : handle'[p] # "open"
BY DEF Pulled, Unplug, vars

LEMMA SoloInvQuiet ==
  ASSUME SoloInv, LockInv', Pulled \/ UNCHANGED vars
  PROVE  SoloInv'
<1>1. \A p \in Client : Req(p)' = Req(p)
  BY QuietSteps DEF Req, MarkBytes
<1>2. \A p \in Client : Span(Req(p))' = Span(Req(p))
  BY <1>1 DEF Span
<1>3. WriterIsCurrent'
  BY <1>1, <1>2, QuietSteps DEF SoloInv, WriterIsCurrent
<1>4. ArgsGiven' /\ DeletesItsOwn'
  BY QuietSteps DEF SoloInv, ArgsGiven, DeletesItsOwn, CacheCurrent
<1> QED BY <1>3, <1>4 DEF SoloInv

LEMMA SoloInvStep ==
  ASSUME NEW p, Client = {p}, "read" \notin Faults
  PROVE  SoloInv /\ [Next]_vars => SoloInv'
<1> SUFFICES ASSUME SoloInv, [Next]_vars PROVE SoloInv'
  OBVIOUS
<1>1. LockInv' /\ LockInv /\ IInv
  BY LockInvStep DEF SoloInv, LockInv
<1>2. CASE StepOf(p)
  BY <1>1, <1>2, WriterIsCurrentStep, ArgsGivenStep, DeletesItsOwnStep DEF SoloInv
<1>3. CASE Pulled \/ UNCHANGED vars
  BY <1>1, <1>3, SoloInvQuiet
<1> QED BY <1>2, <1>3 DEF Next, StepOf

-----------------------------------------------------------------------------
(* Foreign data: what one program may overwrite.                           *)

\* Nothing on the sticks at first, and no key, looks unused to the scan and is
\* not: the scan does not look at the last byte (usbModel.cpp:133).
NothingHidden ==
  /\ \A d \in InitialDisks : \A s \in 2 .. LastSector :
       ScansAsNull(d[s]) => d[s] = ZeroBlock
  /\ \A k \in Keys : ScansAsNull(k) => k = ZeroBlock

\* The same of the stick as it is.
UnusedIsZero == \A s \in 2 .. LastSector : ScansAsNull(disk[s]) => disk[s] = ZeroBlock

\* What the scan has found is unused until it is written.
ScannedIsFree ==
  \A p \in Client :
    /\ pc[p] \in {"create.scan", "create.key"} =>
         sector_Key[p] = 0 \/ disk[sector_Key[p]] = ZeroBlock
    /\ pc[p] \in {"create.key", "create.sum"} => disk[sector_CheckSum[p]] = ZeroBlock

ForeignInv == SoloInv /\ UnusedIsZero /\ ScannedIsFree

\* The scan finds sectors that are unused.
LEMMA ScanFindsUnused ==
  ASSUME SoloInv, UnusedIsZero, NEW p \in Client, "read" \notin Faults, pc[p] = "create.scan",
         ReadReturns(p, Req(p), perSectorSize), ScansAsNull(buf[p][0])
  PROVE  disk[scan[p]] = ZeroBlock
<1>1. IInv /\ LockInv
  BY DEF SoloInv, LockInv
<1>2. Req(p) = [seek |-> FALSE, sector |-> scan[p], from |-> scan[p], off |-> 0, n |-> 512]
  BY DEF Req, CheckLabel, At, perSectorSize
<1>3. ~MayFail(p)
  BY <1>2 DEF MayFail
<1>4. buf[p][0] = disk[scan[p]]
  <2>1. perSectorSize # ReadFailed /\ pc[p] \in ReadLabel
    BY DEF perSectorSize, ReadFailed, ReadLabel
  <2>2. buf[p][0] = disk[Req(p).sector]
    BY <1>1, <1>3, <2>1, SuccessfulRead
  <2> QED BY <1>2, <2>2
<1>5. scan[p] \in 2 .. LastSector
  BY <1>1, Numbers
<1> QED BY <1>4, <1>5 DEF UnusedIsZero

LEMMA UnusedIsZeroStep ==
  ASSUME ForeignInv, NEW p \in Client, Client = {p}, NothingHidden, StepOf(p)
  PROVE  UnusedIsZero'
<1> SUFFICES ASSUME NEW s \in 2 .. LastSector, ScansAsNull(disk'[s])
             PROVE  disk'[s] = ZeroBlock
  BY DEF UnusedIsZero
<1>1. IInv /\ SoloInv /\ UnusedIsZero /\ ScannedIsFree /\ ArgsGiven
  BY DEF ForeignInv, SoloInv, LockInv
<1>2. CASE disk'[s] = disk[s]
  BY <1>1, <1>2 DEF UnusedIsZero
<1>3. CASE disk'[s] # disk[s]
  <2>1. PutReturns(p) /\ s \in SectorNo \ {1}
    BY <1>1, <1>3, OnlyPutsWrite, DataFacts
  <2>2. CASE pc[p] = "create.key" /\ disk'[s] = arg[p].key
    BY <1>1, <2>2 DEF ArgsGiven, CreateLabel, NothingHidden
  <2>3. CASE /\ pc[p] = "create.sum" /\ s = sector_CheckSum[p]
             /\ disk'[s] = [disk[s] EXCEPT !["head"] = arg[p].sum]
    <3>1. disk[s] = ZeroBlock
      BY <1>1, <2>3 DEF ScannedIsFree
    <3>2. arg[p].sum = 0
      BY <2>3, <3>1 DEF ScansAsNull, ZeroBlock, Part
    <3> QED BY <2>3, <3>1, <3>2 DEF ZeroBlock, Part
  <2> QED BY <1>1, <1>3, <2>1, <2>2, <2>3, OnlyItsSectors
<1> QED BY <1>2, <1>3

LEMMA ScannedIsFreeStep ==
  ASSUME ForeignInv, NEW p \in Client, Client = {p}, "read" \notin Faults, StepOf(p)
  PROVE  ScannedIsFree'
<1> SUFFICES /\ pc'[p] \in {"create.scan", "create.key"} =>
                  sector_Key'[p] = 0 \/ disk'[sector_Key'[p]] = ZeroBlock
             /\ pc'[p] \in {"create.key", "create.sum"} =>
                  disk'[sector_CheckSum'[p]] = ZeroBlock
  BY DEF ScannedIsFree
<1>1. IInv /\ LockInv /\ SoloInv /\ UnusedIsZero /\ ScannedIsFree
  BY DEF ForeignInv, SoloInv, LockInv
<1>2. CASE Construct(p) \/ Destroy(p) \/ Dies(p)
  BY <1>1, <1>2, ForgetEffect
<1>3. CASE Start(p)
  BY <1>1, <1>3, StartEffect
<1>4. CASE BeginIo(p)
  BY <1>1, <1>4, BeginEffect DEF ScannedIsFree
<1>5. CASE CheckReturns(p)
  BY <1>1, <1>5, CheckEffect
<1>6. CASE BootReturns(p)
  BY <1>1, <1>6, BootEffect
<1>7. CASE findNullSector(p)
  <2>1. ReadReturns(p, Req(p), perSectorSize) /\ ScansAsNull(buf[p][0])
          => disk[scan[p]] = ZeroBlock
    BY <1>1, <1>7, ScanFindsUnused, ScanEffect
  <2>2. sector_Key[p] = 0 \/ disk[sector_Key[p]] = ZeroBlock
    BY <1>1, <1>7, ScanEffect DEF ScannedIsFree
  <2> QED BY <1>1, <1>7, <2>1, <2>2, ScanEffect
<1>8. CASE PutReturns(p)
  <2> SUFFICES ASSUME pc'[p] = "create.sum"
               PROVE  disk'[sector_CheckSum'[p]] = ZeroBlock
    BY <1>1, <1>8, PutEffect
  <2>1. pc[p] = "create.key" /\ pc[p] \in WriteLabel /\ sector_CheckSum' = sector_CheckSum
    BY <1>1, <1>8, PutEffect DEF WriteLabel
  <2>2. disk[sector_CheckSum[p]] = ZeroBlock
    BY <1>1, <2>1 DEF ScannedIsFree
  <2>3. sector_Key[p] # sector_CheckSum[p] /\ sector_CheckSum[p] \in SectorNo \ {1}
    BY <1>1, <2>1, BeforeAPut, DataFacts
  <2> QED BY <1>1, <1>8, <2>1, <2>2, <2>3, OnlyItsSectors
<1>9. CASE UndoReturns(p) \/ GetReturns(p)
  BY <1>1, <1>9, LastCallEffect
<1> QED BY <1>2, <1>3, <1>4, <1>5, <1>6, <1>7, <1>8, <1>9 DEF StepOf, Advance

LEMMA ForeignInvInit ==
  ASSUME NothingHidden
  PROVE  Init => ForeignInv
<1> SUFFICES ASSUME Init PROVE ForeignInv
  OBVIOUS
<1>1. /\ \A p \in Client : pc[p] = "idle"
      /\ UnusedIsZero
  BY DEF Init, NothingHidden, UnusedIsZero
<1> QED BY <1>1, SoloInvInit DEF ForeignInv, ScannedIsFree

LEMMA ForeignInvStep ==
  ASSUME NEW p, Client = {p}, NothingHidden, "read" \notin Faults
  PROVE  ForeignInv /\ [Next]_vars => ForeignInv'
<1> SUFFICES ASSUME ForeignInv, [Next]_vars PROVE ForeignInv'
  OBVIOUS
<1>1. SoloInv'
  BY SoloInvStep DEF ForeignInv
<1>2. CASE StepOf(p)
  BY <1>1, <1>2, UnusedIsZeroStep, ScannedIsFreeStep DEF ForeignInv
<1>3. CASE Pulled \/ UNCHANGED vars
  BY <1>1, <1>3, QuietSteps DEF ForeignInv, UnusedIsZero, ScannedIsFree
<1> QED BY <1>2, <1>3 DEF Next, StepOf

\* One program changes no sector that was in use, the mark's and those of the
\* UKey on the stick apart, whatever fails but ReadFile: for every stick on
\* which what looks unused is, every scan limit and every key.
THEOREM ForeignDataIsKept ==
  ASSUME NEW p, Client = {p}, NothingHidden, "read" \notin Faults
  PROVE  Spec => ForeignDataKept
<1> DEFINE Kept == \A s \in SectorNo \ {1} :
       disk'[s] # disk[s] =>
         \/ disk[s] = ZeroBlock
         \/ Marked(disk[1]) /\ s \in {disk[1]["kptr"], disk[1]["cptr"]}
<1>1. ASSUME ForeignInv, Next PROVE Kept
  <2> SUFFICES ASSUME NEW s \in SectorNo \ {1}, disk'[s] # disk[s]
               PROVE  \/ disk[s] = ZeroBlock
                      \/ Marked(disk[1]) /\ s \in {disk[1]["kptr"], disk[1]["cptr"]}
    OBVIOUS
  <2>1. SoloInv /\ IInv
    BY <1>1 DEF ForeignInv, SoloInv, LockInv
  <2>2. StepOf(p)
    BY <1>1, QuietSteps DEF Next, StepOf
  <2>3. PutReturns(p)
    BY <2>1, <2>2, OnlyPutsWrite
  <2>4. pc[p] \in WriteLabel
    BY <2>1, <2>3, PutEffect
  <2>5. /\ pc[p] = "create.key" => disk[sector_Key[p]] = ZeroBlock
        /\ pc[p] = "create.sum" => disk[sector_CheckSum[p]] = ZeroBlock
        /\ pc[p] \in {"delete.key", "delete.sum"} => CacheCurrent(p)
    BY <1>1, <2>1, <2>4, BeforeAPut DEF ForeignInv, ScannedIsFree
  <2> QED BY <2>1, <2>3, <2>5, OnlyItsSectors DEF CacheCurrent
<1>2. ForeignInv /\ [Next]_vars => [Kept]_vars
  BY <1>1
<1> QED BY <1>2, ForeignInvInit, ForeignInvStep, PTL DEF Spec, ForeignDataKept

-----------------------------------------------------------------------------
(* The cache: what one program remembers of the stick.                     *)

\* createUKey has found no UKey, or cannot read the stick at all.
CreatesOnUnmarked ==
  \A p \in Client :
    /\ pc[p] = "create.boot" =>
         ~Marked(disk[1]) \/ (io[p] = "entry" /\ ~CanLock(p))
    /\ pc[p] \in {"create.scan", "create.key", "create.sum", "create.mark"} =>
         ~Marked(disk[1])

\* Busy or not, an object that has cached sectors has those of the UKey on the
\* stick; it has both or none.
Coherent ==
  \A p \in Client :
    /\ Marked(disk[1]) => sector_Key[p] = 0 \/ CacheCurrent(p)
    /\ sector_Key[p] = 0 => sector_CheckSum[p] = 0
    /\ pc[p] = "getKey.read" => sector_Key[p] # 0
    /\ pc[p] = "getCheckSum.read" => sector_CheckSum[p] # 0

CacheInv == SoloInv /\ CreatesOnUnmarked /\ Coherent

\* Locks are granted, ReadFile works and memory suffices.
ReadsWork == Faults \cap {"lock", "read", "alloc"} = {}

LEMMA CacheInvInit == Init => CacheInv
<1> SUFFICES ASSUME Init PROVE CacheInv
  OBVIOUS
<1>1. \A p \in Client : pc[p] = "idle" /\ sector_Key[p] = 0 /\ sector_CheckSum[p] = 0
  BY DEF Init
<1> QED BY <1>1, SoloInvInit DEF CacheInv, CreatesOnUnmarked, Coherent

\* What one program reads is what the stick holds.
LEMMA ReadsAreTrue ==
  ASSUME LockInv, ReadsWork, NEW p \in Client, pc[p] \in ReadLabel,
         NEW ret, ret # ReadFailed, ReadReturns(p, Req(p), ret)
  PROVE  buf[p][0] = disk[Req(p).sector]
<1>1. ~MayFail(p)
  BY DEF MayFail, ReadsWork
<1> QED BY <1>1, SuccessfulRead

\* A read fails only on a stick that cannot be read any more.
LEMMA FailedRead ==
  ASSUME LockInv, ReadsWork, NEW p \in Client, Client = {p}, pc[p] \in ReadLabel,
         ReadReturns(p, Req(p), ReadFailed)
  PROVE  ~CanLock(p)'
<1>1. IInv
  BY DEF LockInv
<1>2. NoClient # p
  BY UsbIoAssumption
<1>3. CASE ReadRefused(p, ReadFailed)
  BY <1>3 DEF ReadRefused, CanLock, ioVars, ReadsWork
<1>4. ~ReadOutOfMemory(p, Req(p), ReadFailed)
  BY DEF ReadOutOfMemory, ReadsWork
<1>5. CASE ReadEnds(p, Req(p), ReadFailed)
  <2>1. Req(p).n # ReadFailed
    BY <1>1, RequestInRange DEF ReadFailed, ReadLabel, CheckLabel
  <2>2. io[p] = "loaded" /\ locker' = locker /\ handle' = handle
    BY <1>5, <2>1 DEF ReadEnds
  <2>3. locker = p \/ handle[p] # "open"
    BY <2>2 DEF LockInv, ReaderHolds
  <2> QED BY <1>2, <2>2, <2>3 DEF CanLock
<1> QED BY <1>3, <1>4, <1>5 DEF ReadReturns

\* createUKey goes on only if there is no UKey, or nothing can be read.
LEMMA CheckFindsNothing ==
  ASSUME LockInv, ReadsWork, NEW p \in Client, Client = {p}, CheckReturns(p),
         pc'[p] = "create.boot"
  PROVE  io'[p] = "entry" /\ (~Marked(disk'[1]) \/ ~CanLock(p)')
<1>1. IInv
  BY DEF LockInv
<1>2. PICK ret \in {ReadFailed, 5} :
        /\ ReadReturns(p, Req(p), ret)
        /\ ret = 5 /\ Marked(buf[p][0]) => Recognised(p)
  BY DEF CheckReturns
<1>3. ~Recognised(p)
  <2>1. ASSUME NEW r, Return(p, r) PROVE FALSE
    BY <1>1, <2>1, Functions DEF Return, ReturnWith
  <2>2. ASSUME NEW l, l # "create.boot", Goto(p, l) PROVE FALSE
    BY <1>1, <2>2, Functions DEF Goto
  <2> QED BY <2>1, <2>2 DEF Recognised
<1>4. disk' = disk /\ io'[p] = "entry"
  BY <1>1, <1>2, ReadEffect, Functions
<1>5. Req(p).sector = 1 /\ pc[p] \in ReadLabel
  BY MarkRequests DEF CheckReturns, ReadLabel
<1>6. CASE ret = 5
  <2>1. buf[p][0] = disk[1]
    BY <1>2, <1>5, <1>6, ReadsAreTrue DEF ReadFailed
  <2> QED BY <1>2, <1>3, <1>4, <1>6, <2>1
<1>7. CASE ret = ReadFailed
  BY <1>2, <1>4, <1>5, <1>7, FailedRead
<1> QED BY <1>6, <1>7

LEMMA CreatesOnUnmarkedStep ==
  ASSUME CacheInv, ReadsWork, NEW p \in Client, Client = {p}, StepOf(p)
  PROVE  CreatesOnUnmarked'
<1> SUFFICES /\ pc'[p] = "create.boot" =>
                  ~Marked(disk'[1]) \/ (io'[p] = "entry" /\ ~CanLock(p)')
             /\ pc'[p] \in {"create.scan", "create.key", "create.sum", "create.mark"} =>
                  ~Marked(disk'[1])
  BY DEF CreatesOnUnmarked
<1>1. IInv /\ LockInv /\ SoloInv /\ CreatesOnUnmarked
  BY DEF CacheInv, SoloInv, LockInv
<1>2. CASE Construct(p) \/ Destroy(p) \/ Dies(p)
  BY <1>1, <1>2, ForgetEffect
<1>3. CASE Start(p)
  BY <1>1, <1>3, StartEffect
<1>4. CASE BeginIo(p)
  <2>1. pc[p] = "create.boot" => CanLock(p)
    BY <1>1, <1>4, BeginEffect DEF ReadLabel
  <2> QED BY <1>1, <1>4, <2>1, BeginEffect DEF CreatesOnUnmarked
<1>5. CASE CheckReturns(p)
  BY <1>1, <1>5, CheckEffect, CheckFindsNothing
<1>6. CASE BootReturns(p)
  BY <1>1, <1>6, BootEffect DEF CreatesOnUnmarked
<1>7. CASE findNullSector(p)
  BY <1>1, <1>7, ScanEffect DEF CreatesOnUnmarked
<1>8. CASE PutReturns(p)
  <2> SUFFICES ASSUME pc'[p] \in {"create.sum", "create.mark"} PROVE ~Marked(disk'[1])
    BY <1>1, <1>8, PutEffect
  <2>1. pc[p] \in {"create.key", "create.sum"}
    BY <1>1, <1>8, PutEffect
  <2> QED BY <1>1, <1>8, <2>1, MarkStays DEF CreatesOnUnmarked
<1>9. CASE UndoReturns(p) \/ GetReturns(p)
  BY <1>1, <1>9, LastCallEffect
<1> QED BY <1>2, <1>3, <1>4, <1>5, <1>6, <1>7, <1>8, <1>9 DEF StepOf, Advance

\* The part of Coherent that the stick has a part in.
LEMMA CoherentWrite ==
  ASSUME CacheInv, NEW p \in Client, Client = {p}, PutReturns(p), Marked(disk'[1])
  PROVE  sector_Key'[p] = 0 \/ CacheCurrent(p)'
<1>1. IInv /\ SoloInv /\ WriterIsCurrent /\ Coherent
  BY DEF CacheInv, SoloInv, LockInv
<1>2. /\ sector_Key' = sector_Key /\ sector_CheckSum' = sector_CheckSum
      /\ disk \in [SectorNo -> Block] /\ 1 \in SectorNo
  BY <1>1, PutEffect, DataFacts
<1>3. CASE disk'[1] = disk[1]
  BY <1>1, <1>2, <1>3 DEF Coherent, CacheCurrent
<1>4. CASE disk'[1] # disk[1]
  <2>1. pc[p] \in {"create.mark", "delete.mark"}
    BY <1>1, <1>4, MarkStays
  <2>2. disk' = [disk EXCEPT ![Req(p).sector] = Overlaid(p, Data(p))] /\ Req(p).sector = 1
    BY <1>1, <1>4, <2>1, PutWrites, WhatIsWritten
  <2>3. disk'[1] = Overlaid(p, Data(p))
    BY <1>2, <2>2
  <2> QED BY <1>1, <1>2, <2>1, <2>3, WhatIsWritten DEF CacheCurrent
<1> QED BY <1>3, <1>4

LEMMA CoherentStep ==
  ASSUME CacheInv, NEW p \in Client, Client = {p}, StepOf(p)
  PROVE  Coherent'
<1> SUFFICES /\ Marked(disk'[1]) => sector_Key'[p] = 0 \/ CacheCurrent(p)'
             /\ sector_Key'[p] = 0 => sector_CheckSum'[p] = 0
             /\ pc'[p] = "getKey.read" => sector_Key'[p] # 0
             /\ pc'[p] = "getCheckSum.read" => sector_CheckSum'[p] # 0
  BY DEF Coherent
<1>1. IInv /\ LockInv /\ SoloInv /\ CreatesOnUnmarked /\ Coherent
  BY DEF CacheInv, SoloInv, LockInv
<1>2. CASE Construct(p) \/ Destroy(p) \/ Dies(p)
  BY <1>1, <1>2, ForgetEffect
<1>3. CASE Start(p)
  BY <1>1, <1>3, StartEffect DEF Coherent, CacheCurrent
<1>4. CASE BeginIo(p)
  BY <1>1, <1>4, BeginEffect DEF Coherent, CacheCurrent
<1>5. CASE CheckReturns(p)
  <2>1. Marked(disk[1]) => disk[1]["kptr"] # 0 /\ disk[1]["cptr"] # 0
    <3>1. disk[1] \in [Part -> Byte] /\ {"kptr", "cptr"} \subseteq Part
      BY <1>1, DataFacts DEF Block, Part
    <3>2. disk[1]["kptr"] \in Byte /\ disk[1]["cptr"] \in Byte
      BY <3>1
    <3>3. disk[1]["kptr"] \in Nat /\ disk[1]["cptr"] \in Nat
      BY <3>2, ByteSizeAssumption DEF Byte
    <3>4. Marked(disk[1]) => 2 <= disk[1]["kptr"] /\ disk[1]["kptr"] < disk[1]["cptr"]
      BY <1>1 DEF IInv, MarkSane, SaneMark
    <3> QED BY <3>3, <3>4
  <2>2. CASE /\ Marked(disk[1])
             /\ sector_Key'[p] = disk[1]["kptr"] /\ sector_CheckSum'[p] = disk[1]["cptr"]
             /\ disk' = disk
    BY <2>1, <2>2 DEF CacheCurrent
  <2>3. CASE /\ sector_Key'[p] = sector_Key[p] /\ sector_CheckSum'[p] = sector_CheckSum[p]
             /\ disk' = disk /\ pc'[p] \in {"idle", "create.boot"}
    BY <1>1, <2>3 DEF Coherent, CacheCurrent
  <2> QED BY <1>5, <2>2, <2>3, CheckEffect, <1>1
<1>6. CASE BootReturns(p)
  BY <1>1, <1>6, BootEffect DEF Coherent, CacheCurrent
<1>7. CASE findNullSector(p)
  <2>1. ~Marked(disk'[1]) /\ scan[p] # 0 /\ pc'[p] \notin {"getKey.read", "getCheckSum.read"}
    BY <1>1, <1>7, ScanEffect, Numbers DEF CreatesOnUnmarked
  <2>2. sector_Key'[p] = 0 => sector_CheckSum'[p] = 0
    BY <1>1, <1>7, <2>1, ScanEffect DEF Coherent
  <2> QED BY <2>1, <2>2
<1>8. CASE PutReturns(p)
  <2>1. /\ sector_Key' = sector_Key /\ sector_CheckSum' = sector_CheckSum
        /\ pc'[p] \notin {"getKey.read", "getCheckSum.read"}
    BY <1>1, <1>8, PutEffect
  <2> QED BY <1>1, <1>8, <2>1, CoherentWrite DEF Coherent
<1>9. CASE UndoReturns(p) \/ GetReturns(p)
  <2>1. disk' = disk
    BY <1>1, <1>9, UndoWritesNothing, LastCallEffect DEF GetReturns
  <2> QED BY <1>1, <1>9, <2>1, LastCallEffect DEF Coherent, CacheCurrent
<1> QED BY <1>2, <1>3, <1>4, <1>5, <1>6, <1>7, <1>8, <1>9 DEF StepOf, Advance

LEMMA CacheInvStep ==
  ASSUME NEW p, Client = {p}, ReadsWork
  PROVE  CacheInv /\ [Next]_vars => CacheInv'
<1> SUFFICES ASSUME CacheInv, [Next]_vars PROVE CacheInv'
  OBVIOUS
<1>1. SoloInv'
  BY SoloInvStep DEF CacheInv, ReadsWork
<1>2. CASE StepOf(p)
  BY <1>1, <1>2, CreatesOnUnmarkedStep, CoherentStep DEF CacheInv
<1>3. CASE Pulled \/ UNCHANGED vars
  <2>1. ~CanLock(p) => ~CanLock(p)'
    BY <1>3 DEF Pulled, Unplug, vars, CanLock
  <2> QED BY <1>1, <1>3, <2>1, QuietSteps
          DEF CacheInv, CreatesOnUnmarked, Coherent, CacheCurrent
<1> QED BY <1>2, <1>3 DEF Next, StepOf

\* The cache of one program's objects is that of the UKey on the stick, or
\* empty, through crashes, unpluggings, writes that fail or are torn and
\* unlocks that fail, for every stick, key and scan limit.
THEOREM TheCacheIsCoherent ==
  ASSUME NEW p, Client = {p}, ReadsWork
  PROVE  Spec => []CacheCoherent
<1>1. CacheInv => CacheCoherent
  BY DEF CacheInv, Coherent, CacheCoherent
<1> QED BY <1>1, CacheInvInit, CacheInvStep, PTL DEF Spec

-----------------------------------------------------------------------------
(* The gets.                                                               *)

\* A get that succeeds hands out the sector it was sent to.
LEMMA GetEffect ==
  ASSUME CacheInv, ReadsWork, NEW p \in Client, StepOf(p),
         pc[p] \in {"getKey.read", "getCheckSum.read"},
         answer'.to = p, answer'.ret = 1
  PROVE  /\ pc[p] = "getKey.read" => answer'.out = disk[sector_Key[p]]
         /\ pc[p] = "getCheckSum.read" =>
              answer'.out["head"] = disk[sector_CheckSum[p]]["head"]
<1>1. /\ IInv /\ LockInv
      /\ NoAnswer.to = NoClient /\ NoClient \notin Client
  BY UsbIoAssumption DEF CacheInv, SoloInv, LockInv, NoAnswer
<1>2. Advance(p) /\ ~BeginIo(p)
  BY <1>1, ControlEffect, BeginEffect
<1>3. GetReturns(p)
  BY <1>2 DEF Advance, CheckReturns, CheckLabel, BootReturns, findNullSector, PutReturns,
              WriteLabel, UndoReturns
<1>4. PICK ret \in {ReadFailed, Req(p).n} :
        /\ ReadReturns(p, Req(p), ret)
        /\ IF ret = Req(p).n THEN ReturnWith(p, 1, Got(p)) ELSE Return(p, 0)
  BY <1>3 DEF GetReturns
<1>5. ~Return(p, 0)
  BY DEF Return, ReturnWith
<1>6. ret = Req(p).n /\ answer'.out = Got(p)
  BY <1>4, <1>5 DEF ReturnWith
<1>7. ret # ReadFailed /\ pc[p] \in ReadLabel
  BY <1>1, <1>6, RequestInRange DEF ReadFailed, ReadLabel
<1>8. buf[p][0] = disk[Req(p).sector]
  BY <1>1, <1>4, <1>7, ReadsAreTrue
<1>9. CASE pc[p] = "getKey.read"
  BY <1>6, <1>8, <1>9 DEF Got, Req, CheckLabel, At
<1>10. CASE pc[p] = "getCheckSum.read"
  BY <1>6, <1>8, <1>10 DEF Got, Req, CheckLabel, At, ZeroBlock, Part
<1> QED BY <1>9, <1>10

\* In the same setting a successful getKey or getCheckSum on a UKey hands out
\* what is stored there (usbModel.cpp:101-108,114-121).
THEOREM GetsAreTrue ==
  ASSUME NEW user, Client = {user}, ReadsWork
  PROVE  Spec => GetsWhatIsStored
<1> DEFINE Given == \A p \in Client :
       /\ answer'.to = p /\ answer'.ret = 1 /\ Marked(disk[1])
       => /\ pc[p] = "getKey.read" => answer'.out = disk[disk[1]["kptr"]]
          /\ pc[p] = "getCheckSum.read" =>
               answer'.out["head"] = disk[disk[1]["cptr"]]["head"]
<1>1. ASSUME CacheInv, Next PROVE Given
  <2> SUFFICES ASSUME answer'.to = user, answer'.ret = 1, Marked(disk[1]),
                      pc[user] \in {"getKey.read", "getCheckSum.read"}
               PROVE  /\ pc[user] = "getKey.read" => answer'.out = disk[disk[1]["kptr"]]
                      /\ pc[user] = "getCheckSum.read" =>
                           answer'.out["head"] = disk[disk[1]["cptr"]]["head"]
    OBVIOUS
  <2>1. NoAnswer.to = NoClient /\ NoClient \notin Client
    BY UsbIoAssumption DEF NoAnswer
  <2>2. StepOf(user)
    BY <1>1, <2>1 DEF Next, StepOf, Pulled
  <2>3. CacheCurrent(user)
    BY <1>1 DEF CacheInv, Coherent
  <2> QED BY <1>1, <2>2, <2>3, GetEffect DEF CacheCurrent
<1>2. CacheInv /\ [Next]_vars => [Given]_vars
  BY <1>1
<1>3. Init => CacheInv
  BY CacheInvInit
<1>4. CacheInv /\ [Next]_vars => CacheInv'
  BY CacheInvStep
<1> QED BY <1>2, <1>3, <1>4, PTL DEF Spec, GetsWhatIsStored

-----------------------------------------------------------------------------
(* The abstract store.                                                     *)

\* The UKeys on the sticks at first hold a key and a checksum that programs
\* are given, or what a deletion that was cut short has left of them.
UKeysAreKnown ==
  \A d \in InitialDisks : Marked(d[1]) =>
    /\ d[d[1]["kptr"]] \in Keys \cup {ZeroBlock}
    /\ d[d[1]["cptr"]]["head"] \in Sums \cup {0}

\* What createUKey and deleteUkey have done so far, on a stick that was there
\* all the time.
WrittenSoFar ==
  \A p \in Client : handle[p] = "open" =>
    /\ pc[p] \in {"delete.sum", "delete.mark"} => disk[sector_Key[p]] = ZeroBlock
    /\ pc[p] = "delete.mark" => disk[sector_CheckSum[p]]["head"] = 0
    /\ pc[p] \in {"create.sum", "create.mark"} => disk[sector_Key[p]] = arg[p].key
    /\ pc[p] = "create.mark" => disk[sector_CheckSum[p]]["head"] = arg[p].sum

StoreInv == CacheInv /\ WrittenSoFar

\* What a write that goes on to the next one has done.
LEMMA PutIsDone ==
  ASSUME SoloInv, NEW p \in Client, Client = {p}, "write" \notin Faults, PutReturns(p),
         handle[p] = "open", pc'[p] \notin {"idle", "delete.undo"}
  PROVE  /\ disk' = [disk EXCEPT ![Req(p).sector] = Overlaid(p, Data(p))]
         /\ disk \in [SectorNo -> Block]
         /\ {sector_Key[p], sector_CheckSum[p]} \subseteq SectorNo \ {1}
         /\ sector_Key[p] # sector_CheckSum[p]
<1>1. IInv /\ WriterIsCurrent /\ pc[p] \in WriteLabel
  BY PutEffect DEF SoloInv, LockInv
<1>2. disk' = [disk EXCEPT ![Req(p).sector] = Overlaid(p, Data(p))]
  BY <1>1, PutWrites
<1>3. sector_Key[p] \in 2 .. LastSector /\ sector_CheckSum[p] \in 2 .. LastSector
      /\ sector_Key[p] # sector_CheckSum[p]
  BY <1>1, BeforeAPut
<1> QED BY <1>1, <1>2, <1>3, DataFacts

\* The writes of one operation add up.
LEMMA PutAdds ==
  ASSUME StoreInv, NEW p \in Client, Client = {p}, "write" \notin Faults, PutReturns(p),
         handle[p] = "open"
  PROVE  /\ pc'[p] \in {"delete.sum", "delete.mark"} => disk'[sector_Key[p]] = ZeroBlock
         /\ pc'[p] = "delete.mark" => disk'[sector_CheckSum[p]]["head"] = 0
         /\ pc'[p] \in {"create.sum", "create.mark"} => disk'[sector_Key[p]] = arg[p].key
         /\ pc'[p] = "create.mark" => disk'[sector_CheckSum[p]]["head"] = arg[p].sum
<1>1. SoloInv /\ IInv /\ WrittenSoFar
  BY DEF StoreInv, CacheInv, SoloInv, LockInv
<1>2. CASE pc'[p] = "create.sum"
  <2>1. pc[p] = "create.key"
    BY <1>1, <1>2, PutEffect
  <2>2. Req(p).sector = sector_Key[p] /\ Overlaid(p, Data(p)) = arg[p].key
    BY <1>1, <2>1, WhatIsWritten
  <2> QED BY <1>1, <1>2, <2>2, PutIsDone
<1>3. CASE pc'[p] = "create.mark"
  <2>1. pc[p] = "create.sum"
    BY <1>1, <1>3, PutEffect
  <2>2. /\ Req(p).sector = sector_CheckSum[p]
        /\ Overlaid(p, Data(p)) = [disk[sector_CheckSum[p]] EXCEPT !["head"] = arg[p].sum]
    BY <1>1, <2>1, WhatIsWritten
  <2>3. disk[sector_Key[p]] = arg[p].key
    BY <1>1, <2>1 DEF WrittenSoFar
  <2>4. /\ disk'[sector_CheckSum[p]] = [disk[sector_CheckSum[p]] EXCEPT !["head"] = arg[p].sum]
        /\ disk[sector_CheckSum[p]] \in Block
        /\ disk'[sector_Key[p]] = disk[sector_Key[p]]
    BY <1>1, <1>3, <2>2, PutIsDone
  <2>5. disk'[sector_CheckSum[p]]["head"] = arg[p].sum
    BY <2>4 DEF Block, Part
  <2> QED BY <1>3, <2>3, <2>4, <2>5
<1>4. CASE pc'[p] = "delete.sum"
  <2>1. pc[p] = "delete.key"
    BY <1>1, <1>4, PutEffect
  <2>2. Req(p).sector = sector_Key[p] /\ Overlaid(p, Data(p)) = ZeroBlock
    BY <1>1, <2>1, WhatIsWritten
  <2> QED BY <1>1, <1>4, <2>2, PutIsDone
<1>5. CASE pc'[p] = "delete.mark"
  <2>1. pc[p] = "delete.sum"
    BY <1>1, <1>5, PutEffect
  <2>2. Req(p).sector = sector_CheckSum[p] /\ Overlaid(p, Data(p)) = ZeroBlock
    BY <1>1, <2>1, WhatIsWritten
  <2>3. disk[sector_Key[p]] = ZeroBlock
    BY <1>1, <2>1 DEF WrittenSoFar
  <2>4. disk'[sector_CheckSum[p]] = ZeroBlock /\ disk'[sector_Key[p]] = disk[sector_Key[p]]
    BY <1>1, <1>5, <2>2, PutIsDone
  <2>5. ZeroBlock["head"] = 0
    BY DEF ZeroBlock, Part
  <2> QED BY <1>5, <2>3, <2>4, <2>5
<1> QED BY <1>2, <1>3, <1>4, <1>5

LEMMA WrittenSoFarStep ==
  ASSUME StoreInv, NEW p \in Client, Client = {p}, "write" \notin Faults, StepOf(p)
  PROVE  WrittenSoFar'
<1> DEFINE Late == {"delete.sum", "delete.mark", "create.sum", "create.mark"}
<1> SUFFICES ASSUME handle'[p] = "open", pc'[p] \in Late
    PROVE  /\ pc'[p] \in {"delete.sum", "delete.mark"} => disk'[sector_Key'[p]] = ZeroBlock
           /\ pc'[p] = "delete.mark" => disk'[sector_CheckSum'[p]]["head"] = 0
           /\ pc'[p] \in {"create.sum", "create.mark"} => disk'[sector_Key'[p]] = arg'[p].key
           /\ pc'[p] = "create.mark" => disk'[sector_CheckSum'[p]]["head"] = arg'[p].sum
  BY DEF WrittenSoFar
<1>1. IInv /\ LockInv /\ SoloInv /\ WrittenSoFar
  BY DEF StoreInv, CacheInv, SoloInv, LockInv
<1>2. CASE BeginIo(p)
  BY <1>1, <1>2, BeginEffect DEF WrittenSoFar
<1>3. CASE PutReturns(p)
  <2>1. /\ sector_Key' = sector_Key /\ sector_CheckSum' = sector_CheckSum /\ handle' = handle
    BY <1>1, <1>3, PutEffect
  <2>2. arg'[p] = arg[p]
    BY <1>1, <1>3, ArgsStay DEF Advance
  <2> QED BY <1>3, <2>1, <2>2, PutAdds
<1>4. ~Construct(p) /\ ~Destroy(p) /\ ~Dies(p)
  BY <1>1, ForgetEffect
<1>5. ~Start(p)
  BY <1>1, StartEffect
<1>6. ~CheckReturns(p)
  BY <1>1, CheckEffect
<1>7. ~BootReturns(p) /\ ~findNullSector(p)
  BY <1>1, BootEffect, ScanEffect
<1>8. ~UndoReturns(p) /\ ~GetReturns(p)
  BY <1>1, LastCallEffect
<1> QED BY <1>2, <1>3, <1>4, <1>5, <1>6, <1>7, <1>8 DEF StepOf, Advance

LEMMA StoreInvInit == Init => StoreInv
<1> SUFFICES ASSUME Init PROVE StoreInv
  OBVIOUS
<1>1. \A p \in Client : pc[p] = "idle"
  BY DEF Init
<1> QED BY <1>1, CacheInvInit DEF StoreInv, WrittenSoFar

LEMMA StoreInvStep ==
  ASSUME NEW p, Client = {p}, ReadsWork, "write" \notin Faults
  PROVE  StoreInv /\ [Next]_vars => StoreInv'
<1> SUFFICES ASSUME StoreInv, [Next]_vars PROVE StoreInv'
  OBVIOUS
<1>1. CacheInv'
  BY CacheInvStep DEF StoreInv
<1>2. CASE StepOf(p)
  BY <1>1, <1>2, WrittenSoFarStep DEF StoreInv
<1>3. CASE Pulled \/ UNCHANGED vars
  BY <1>1, <1>3, QuietSteps DEF StoreInv, WrittenSoFar
<1> QED BY <1>2, <1>3 DEF Next, StepOf

\* A write that creates: nothing is there until the mark is written, and then
\* all of it.
LEMMA CreateRefines ==
  ASSUME StoreInv, NEW p \in Client, Client = {p}, PutReturns(p), handle[p] = "open",
         disk' = [disk EXCEPT ![Req(p).sector] = Overlaid(p, Data(p))],
         pc[p] \in {"create.key", "create.sum", "create.mark"}
  PROVE  Keeper!Create \/ Stored' = Stored
<1>1. /\ IInv /\ SoloInv /\ WrittenSoFar
      /\ disk \in [SectorNo -> Block] /\ 1 \in SectorNo
  BY DataFacts DEF StoreInv, CacheInv, SoloInv, LockInv
<1>2. ~Marked(disk[1])
  BY DEF StoreInv, CacheInv, CreatesOnUnmarked
<1>3. CASE pc[p] \in {"create.key", "create.sum"}
  <2>1. ~Marked(disk'[1])
    BY <1>1, <1>2, <1>3, MarkStays
  <2> QED BY <1>2, <2>1 DEF Stored
<1>4. CASE pc[p] = "create.mark"
  <2>1. /\ Req(p).sector = 1 /\ Marked(Overlaid(p, Data(p)))
        /\ Overlaid(p, Data(p))["kptr"] = sector_Key[p]
        /\ Overlaid(p, Data(p))["cptr"] = sector_CheckSum[p]
    BY <1>1, <1>4, WhatIsWritten
  <2>2. disk'[1] = Overlaid(p, Data(p)) /\ \A s \in SectorNo \ {1} : disk'[s] = disk[s]
    BY <1>1, <2>1
  <2>3. {sector_Key[p], sector_CheckSum[p]} \subseteq SectorNo \ {1}
    BY <1>1, <1>4, BeforeAPut, DataFacts DEF WriteLabel
  <2>4. disk'[sector_Key[p]] = arg[p].key /\ disk'[sector_CheckSum[p]]["head"] = arg[p].sum
    BY <1>1, <1>4, <2>2, <2>3 DEF WrittenSoFar
  <2>5. Stored' = [present |-> TRUE, key |-> arg[p].key, sum |-> arg[p].sum]
    BY <2>1, <2>2, <2>4 DEF Stored
  <2>6. Stored = Keeper!Absent
    BY <1>2 DEF Stored, Keeper!Absent
  <2>7. arg[p].key \in Keys /\ arg[p].sum \in Sums
    BY <1>1, <1>4 DEF SoloInv, ArgsGiven, CreateLabel
  <2> QED BY <2>5, <2>6, <2>7 DEF Keeper!Create
<1> QED BY <1>3, <1>4

\* A record of the store with one field replaced.
StoreRecord(K, C) == [present : BOOLEAN, key : K, sum : C]

LEMMA ReplacedFields ==
  ASSUME NEW K, NEW C, NEW r \in StoreRecord(K, C), NEW t \in StoreRecord(K, C)
  PROVE  /\ t.present = r.present /\ t.sum = r.sum => t = [r EXCEPT !.key = t.key]
         /\ t.present = r.present /\ t.key = r.key => t = [r EXCEPT !.sum = t.sum]
         /\ t.key = r.key /\ t.sum = r.sum => t = [r EXCEPT !.present = t.present]
<1>1. t.present = r.present /\ t.sum = r.sum => t = [r EXCEPT !.key = t.key]
  BY DEF StoreRecord
<1>2. t.present = r.present /\ t.key = r.key => t = [r EXCEPT !.sum = t.sum]
  BY DEF StoreRecord
<1>3. t.key = r.key /\ t.sum = r.sum => t = [r EXCEPT !.present = t.present]
  BY DEF StoreRecord
<1> QED BY <1>1, <1>2, <1>3

\* A write that deletes: the key, the checksum, the mark, in this order.
LEMMA DeleteRefines ==
  ASSUME StoreInv, NEW p \in Client, Client = {p}, PutReturns(p), handle[p] = "open",
         disk' = [disk EXCEPT ![Req(p).sector] = Overlaid(p, Data(p))],
         pc[p] \in {"delete.key", "delete.sum", "delete.mark"}
  PROVE  Keeper!WipeKey \/ Keeper!WipeCheckSum \/ Keeper!Clear
<1> DEFINE K == {ZeroBlock, disk[sector_Key[p]]}
           C == {0, disk[sector_CheckSum[p]]["head"]}
<1>1. /\ IInv /\ SoloInv /\ WrittenSoFar
      /\ disk \in [SectorNo -> Block] /\ 1 \in SectorNo
  BY DataFacts DEF StoreInv, CacheInv, SoloInv, LockInv
<1>2. /\ Marked(disk[1])
      /\ sector_Key[p] = disk[1]["kptr"] /\ sector_CheckSum[p] = disk[1]["cptr"]
      /\ {sector_Key[p], sector_CheckSum[p]} \subseteq SectorNo \ {1}
      /\ sector_Key[p] # sector_CheckSum[p]
  BY <1>1, BeforeAPut, DataFacts DEF WriteLabel, CacheCurrent
<1>3. Stored = [present |-> TRUE, key |-> disk[sector_Key[p]],
                sum |-> disk[sector_CheckSum[p]]["head"]]
  BY <1>2 DEF Stored
<1>4. ASSUME disk'[1] = disk[1]
      PROVE  Stored' = [present |-> TRUE, key |-> disk'[sector_Key[p]],
                        sum |-> disk'[sector_CheckSum[p]]["head"]]
  BY <1>2, <1>4 DEF Stored
<1>5. CASE pc[p] = "delete.key"
  <2>1. Req(p).sector = sector_Key[p] /\ Overlaid(p, Data(p)) = ZeroBlock
    BY <1>1, <1>5, WhatIsWritten
  <2>2. /\ disk'[1] = disk[1] /\ disk'[sector_Key[p]] = ZeroBlock
        /\ disk'[sector_CheckSum[p]] = disk[sector_CheckSum[p]]
    BY <1>1, <1>2, <2>1
  <2>3. Stored' = [present |-> TRUE, key |-> ZeroBlock,
                   sum |-> disk[sector_CheckSum[p]]["head"]]
    BY <1>4, <2>2
  <2>4. Stored \in StoreRecord(K, C) /\ Stored' \in StoreRecord(K, C)
    BY <1>3, <2>3 DEF StoreRecord
  <2>5. /\ Stored.present = TRUE /\ Stored'.present = Stored.present
        /\ Stored'.key = ZeroBlock /\ Stored'.sum = Stored.sum
    BY <1>3, <2>3
  <2>6. Stored' = [Stored EXCEPT !.key = Stored'.key]
    BY <2>4, <2>5, ReplacedFields
  <2> QED BY <2>5, <2>6 DEF Keeper!WipeKey
<1>6. CASE pc[p] = "delete.sum"
  <2>1. Req(p).sector = sector_CheckSum[p] /\ Overlaid(p, Data(p)) = ZeroBlock
    BY <1>1, <1>6, WhatIsWritten
  <2>2. /\ disk'[1] = disk[1] /\ disk'[sector_CheckSum[p]] = ZeroBlock
        /\ disk'[sector_Key[p]] = disk[sector_Key[p]]
    BY <1>1, <1>2, <2>1
  <2>3. disk[sector_Key[p]] = ZeroBlock /\ ZeroBlock["head"] = 0
    BY <1>1, <1>6 DEF WrittenSoFar, ZeroBlock, Part
  <2>4. Stored' = [present |-> TRUE, key |-> disk[sector_Key[p]], sum |-> 0]
    BY <1>4, <2>2, <2>3
  <2>5. Stored \in StoreRecord(K, C) /\ Stored' \in StoreRecord(K, C)
    BY <1>3, <2>4 DEF StoreRecord
  <2>6. /\ Stored.present = TRUE /\ Stored'.present = Stored.present
        /\ Stored.key = ZeroBlock /\ Stored'.key = Stored.key /\ Stored'.sum = 0
    BY <1>3, <2>3, <2>4
  <2>7. Stored' = [Stored EXCEPT !.sum = Stored'.sum]
    BY <2>5, <2>6, ReplacedFields
  <2> QED BY <2>6, <2>7 DEF Keeper!WipeCheckSum
<1>7. CASE pc[p] = "delete.mark"
  <2>1. Req(p).sector = 1 /\ ~Marked(Overlaid(p, Data(p)))
    BY <1>1, <1>7, WhatIsWritten
  <2>2. ~Marked(disk'[1])
    BY <1>1, <2>1
  <2>3. disk[sector_Key[p]] = ZeroBlock /\ disk[sector_CheckSum[p]]["head"] = 0
    BY <1>1, <1>7 DEF WrittenSoFar
  <2>4. Stored' = Keeper!Absent
    BY <2>2 DEF Stored, Keeper!Absent
  <2>5. Stored = [present |-> TRUE, key |-> ZeroBlock, sum |-> 0]
    BY <1>3, <2>3
  <2>6. /\ Stored.present = TRUE /\ Stored.key = Keeper!Absent.key
        /\ Stored.sum = Keeper!Absent.sum
    BY <2>5 DEF Keeper!Absent
  <2>7. Stored \in StoreRecord({ZeroBlock}, {0}) /\ Keeper!Absent \in StoreRecord({ZeroBlock}, {0})
    BY <2>5 DEF Keeper!Absent, StoreRecord
  <2>8. Stored = [Keeper!Absent EXCEPT !.present = Stored.present]
    BY <2>6, <2>7, ReplacedFields
  <2> QED BY <2>4, <2>6, <2>8 DEF Keeper!Clear
<1> QED BY <1>5, <1>6, <1>7

\* Each step of one program is a step of the abstract store, or none.
LEMMA StepRefines ==
  ASSUME StoreInv, NEW p \in Client, Client = {p}, StepOf(p)
  PROVE  Keeper!Next \/ Stored' = Stored
<1>1. IInv /\ SoloInv /\ WriterIsCurrent
  BY DEF StoreInv, CacheInv, SoloInv, LockInv
<1>2. CASE disk' = disk
  BY <1>2 DEF Stored
<1>3. CASE disk' # disk
  <2>1. PutReturns(p)
    BY <1>1, <1>3, OnlyPutsWrite
  <2>2. /\ handle[p] = "open"
        /\ disk' = [disk EXCEPT ![Req(p).sector] = Overlaid(p, Data(p))]
    BY <1>1, <1>3, <2>1, PutWrites
  <2>3. pc[p] \in WriteLabel \ {"delete.undo"}
    BY <1>1, <2>1, PutEffect
  <2>4. CASE pc[p] \in {"create.key", "create.sum", "create.mark"}
    BY <2>1, <2>2, <2>4, CreateRefines DEF Keeper!Next
  <2>5. CASE pc[p] \in {"delete.key", "delete.sum", "delete.mark"}
    BY <2>1, <2>2, <2>5, DeleteRefines DEF Keeper!Next
  <2> QED BY <2>3, <2>4, <2>5 DEF WriteLabel
<1> QED BY <1>2, <1>3

\* At first the stick is a store.
LEMMA InitRefines ==
  ASSUME UKeysAreKnown, Init
  PROVE  Keeper!Init
<1>1. CASE ~Marked(disk[1])
  BY <1>1 DEF Stored, Keeper!Init, Keeper!Absent
<1>2. CASE Marked(disk[1])
  <2>1. /\ disk[disk[1]["kptr"]] \in Keys \cup {ZeroBlock}
        /\ disk[disk[1]["cptr"]]["head"] \in Sums \cup {0}
    BY <1>2 DEF Init, UKeysAreKnown
  <2>2. Stored = [present |-> TRUE, key |-> disk[disk[1]["kptr"]],
                  sum |-> disk[disk[1]["cptr"]]["head"]]
    BY <1>2 DEF Stored
  <2> QED BY <2>1, <2>2 DEF Keeper!Init
<1> QED BY <1>1, <1>2

\* The sectors, marks and caches of one program implement the abstract store,
\* with a crash, a torn write, an unplugging or a failed unlock between any two
\* steps, for every stick whose UKeys hold what programs are given, every scan
\* limit and every key (usbModel.cpp:43-98).
THEOREM TheStoreIsImplemented ==
  ASSUME NEW user, Client = {user}, ReadsWork, "write" \notin Faults, UKeysAreKnown
  PROVE  Spec => ImplementsStore
<1>1. Init => StoreInv
  BY StoreInvInit
<1>2. StoreInv /\ [Next]_vars => StoreInv'
  BY StoreInvStep
<1>3. Init => Keeper!Init
  BY InitRefines
<1>4. StoreInv /\ [Next]_vars => [Keeper!Next]_Stored
  <2> SUFFICES ASSUME StoreInv, [Next]_vars PROVE Keeper!Next \/ Stored' = Stored
    OBVIOUS
  <2>1. CASE StepOf(user)
    BY <2>1, StepRefines
  <2>2. CASE Pulled \/ UNCHANGED vars
    BY <2>2, QuietSteps DEF Stored
  <2> QED BY <2>1, <2>2 DEF Next, StepOf
<1> QED BY <1>1, <1>2, <1>3, <1>4, PTL DEF Spec, ImplementsStore, Keeper!Spec
=============================================================================
