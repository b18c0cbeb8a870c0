---------------------------- MODULE MCUsbIoCalls ----------------------------
(***************************************************************************)
(* A volume of a few sectors, and ranges of the kinds that the code asks   *)
(* for: the end of a sector, a whole sector, a checksum; then one that is  *)
(* counted from the end of the volume.                                     *)
(***************************************************************************)
EXTENDS UsbIoCalls, TLC

MC_ByteSize == 4

MC_TwoRequests == {Seek(507, 5), At(1, 512)}
MC_ThreeRequests == {SeekFrom(FILE_BEGIN, 0, 507, 5), At(1, 32), SeekFrom(FILE_END, -1, -1024, 32)}
MC_Contents == {[q \in Part |-> 2]}
MC_Uninit   == {[q \in Part |-> 3]}
MC_Disk     == [s \in SectorNo |-> [q \in Part |-> IF s = 1 THEN 0 ELSE 1]]

\* Clients run the same code and no constant names one of them.
MC_Symmetry == Permutations(Client)
=============================================================================
