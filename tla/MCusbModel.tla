----------------------------- MODULE MCusbModel -----------------------------
(***************************************************************************)
(* Small sticks for TLC: six sectors, of which createUKey scans 2, 3 and 4 *)
(* (ScanEnd = 5), and a BYTE of five values.  One with a sector more has   *)
(* room for two UKeys.                                                     *)
(***************************************************************************)
EXTENDS usbModelProperties, TLC

MC_ByteSize == 5
MC_SixBytes == 6

Fill(v) == [q \in Part |-> v]

\* Sector 0 of a formatted stick; sector 1 unused, or the FSInfo sector of FAT32.
BootSector == [Fill(4) EXCEPT !["sig"] = Sig55AA]
FSInfo     == [Fill(4) EXCEPT !["kptr"] = 0, !["cptr"] = 0, !["mark"] = 0,
                              !["sig"] = Sig55AA]

FileData == Fill(4)
TailData == [ZeroBlock EXCEPT !["mid"] = 4]    \* data behind 32 zeros

Stick(one, two, three, four) ==
  [s \in SectorNo |-> CASE s = 0 -> BootSector [] s = 1 -> one   [] s = 2 -> two
                        [] s = 3 -> three      [] s = 4 -> four  [] OTHER -> FileData]

Formatted  == Stick(ZeroBlock, ZeroBlock, ZeroBlock, ZeroBlock)
SecondUsed == Stick(FSInfo, ZeroBlock, FileData, ZeroBlock)
FirstUsed  == Stick(ZeroBlock, TailData, ZeroBlock, ZeroBlock)
OneFree    == Stick(ZeroBlock, FileData, ZeroBlock, FileData)
RawStick   == [Formatted EXCEPT ![0] = ZeroBlock]
\* A UKey made by an earlier program.
OldUKey == [Stick([FSInfo EXCEPT !["kptr"] = 2, !["cptr"] = 4, !["mark"] = MarkAA],
                  Fill(3), FileData, [ZeroBlock EXCEPT !["head"] = 3]) EXCEPT ![5] = FileData]

MC_Keys == {Fill(3)}
MC_TwoKeys == {Fill(3), [ZeroBlock EXCEPT !["mid"] = 2]}
MC_Sums == {3}

MC_Uninit == {Fill(2)}

MC_Sticks    == {Formatted, SecondUsed, FirstUsed, OneFree, RawStick, OldUKey}
MC_OneStick  == {Formatted}
MC_LargerStick == {[Formatted EXCEPT ![5] = ZeroBlock]}

\* Clients run the same code and no constant names one of them.
MC_Symmetry == Permutations(Client)
=============================================================================
