------------------------------- MODULE Sector -------------------------------
(***************************************************************************)
(* The 512-byte sector as the UKey code looks at it.                       *)
(*                                                                         *)
(* Every access of usbModel.cpp starts and ends at one of six boundaries,  *)
(* so a sector is abstracted to six parts, each holding one value:         *)
(*                                                                         *)
(*   head   bytes   0 ..  31   what a checksum occupies                    *)
(*   mid    bytes  32 .. 506   the rest of the body                        *)
(*   kptr   byte  507          in sector 1: number of the key sector       *)
(*   cptr   byte  508          in sector 1: number of the checksum sector  *)
(*   mark   byte  509          0xAA in sector 1 of a UKey                  *)
(*   sig    bytes 510 .. 511   55 AA on a partitioned or formatted disk    *)
(*                                                                         *)
(* Value 0 of a part means that all its bytes are zero.                    *)
(***************************************************************************)
EXTENDS Integers

CONSTANT
  ByteSize    \* number of values of a BYTE (256 in the code)

\* A BYTE tells zero, the mark, the boot signature and other contents apart.
ASSUME ByteSizeAssumption == ByteSize \in Nat /\ ByteSize >= 4

perSectorSize == 512
KeySize       == 512
CheckSumSize  == 32

Byte  == 0 .. ByteSize - 1
Part  == {"head", "mid", "kptr", "cptr", "mark", "sig"}
Block == [Part -> Byte]

FirstByte == [head |-> 0,  mid |-> 32,  kptr |-> 507, cptr |-> 508, mark |-> 509, sig |-> 510]
LastByte  == [head |-> 31, mid |-> 506, kptr |-> 507, cptr |-> 508, mark |-> 509, sig |-> 511]

MarkAA   == 1    \* value of "mark": the byte 0xAA
Sig55AA  == 1    \* value of "sig": the bytes 55 AA
LastOnly == 2    \* value of "sig": byte 510 zero, byte 511 not

ZeroBlock == [q \in Part |-> 0]

\* is_UKey: the last three bytes of the sector are AA 55 AA.
Marked(b) == b["mark"] = MarkAA /\ b["sig"] = Sig55AA

\* createUKey: the last two bytes of the sector are 55 AA.
Bootable(b) == b["sig"] = Sig55AA

\* Mutant: the scan gives up after a checksum's length.
ScansAsNull_HeadOnly(b) == b["head"] = 0

(***************************************************************************)
(* findNullSector runs `while(!pData[i++] && i<512){}` and accepts the     *)
(* sector when i = 512.  i reaches 512 as soon as bytes 0 .. 510 are zero, *)
(* whatever byte 511 holds.                                                *)
(***************************************************************************)
ScansAsNull(b) ==
  /\ \A q \in Part \ {"sig"} : b[q] = 0
  /\ b["sig"] \in {0, LastOnly}

-----------------------------------------------------------------------------
(* Requests to the sector layer: a first sector, an offset in it and a     *)
(* length in bytes.  `seek` tells the overload that takes a byte distance  *)
(* from the one that takes a sector number; `from` is where a write first  *)
(* reads the sectors it is going to write, if it moves there at all.       *)

Unmoved == -1

Request == [seek : BOOLEAN, sector : Nat, from : Nat \cup {Unmoved},
            off : 0 .. 511, n : 1 .. 512]

\* The overloads by distance, from the beginning and below 2 GB
\* (dwMoveMethod = FILE_BEGIN, 0 <= DistanceToMoveLow, *DistanceToMoveHigh = 0).
Seek(low, n) ==
  [seek |-> TRUE, sector |-> low \div perSectorSize, from |-> low \div perSectorSize,
   off |-> low % perSectorSize, n |-> n]

\* The overloads (sectorNumber, offest = 0, ...).
At(s, n) == [seek |-> FALSE, sector |-> s, from |-> s, off |-> 0, n |-> n]

\* A write reads its sectors where it writes them.
ReadWhereWritten(req) == req.from = req.sector

\* `number`: how many whole sectors the call transfers.
Span(req) == (req.n + req.off) \div perSectorSize + 1

Touches(req, s) == req.sector <= s /\ s < req.sector + Span(req)

\* Part q of sector s lies in the bytes the caller asked for.
Covers(req, s, q) ==
  LET base == (s - req.sector) * perSectorSize
  IN  req.off <= base + FirstByte[q] /\ base + LastByte[q] < req.off + req.n
=============================================================================
