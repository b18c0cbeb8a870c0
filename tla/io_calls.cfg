CONSTANTS
  c1 = c1
  c2 = c2
  Client = {c1, c2}
  NoClient = none
  LastSector = 2
  SectorsPerHigh = 4
  ByteSize <- MC_ByteSize
  UninitBlocks <- MC_Uninit
  Requests <- MC_ThreeRequests
  Contents <- MC_Contents
  InitialDisk <- MC_Disk
  Faults = {"lock","unlock","write","torn","open","unplug","crash"}
SYMMETRY MC_Symmetry
SPECIFICATION Spec
INVARIANT TypeOK
PROPERTIES AloneWritesOnlyItsBytes ReadsWhatIsThere
