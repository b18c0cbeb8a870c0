CONSTANTS
  Client = {c1}
  NoClient = none
  LastSector = 5
  ScanEnd = 5
  ByteSize <- MC_ByteSize
  UninitBlocks <- MC_Uninit
  Keys <- MC_Keys
  Sums <- MC_Sums
  InitialDisks <- MC_Sticks
  Faults = {"lock","unlock","write","torn","alloc","open","unplug","crash"}
SPECIFICATION FairSpec
INVARIANT TypeOK
PROPERTIES ForeignDataKept CallsReturn
