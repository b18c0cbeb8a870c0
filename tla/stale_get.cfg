CONSTANTS
  Client = {c1}
  NoClient = none
  LastSector = 5
  ScanEnd = 5
  ByteSize <- MC_ByteSize
  UninitBlocks <- MC_Uninit
  Keys <- MC_Keys
  Sums <- MC_Sums
  InitialDisks <- MC_OneStick
  Faults = {}
SPECIFICATION Spec
PROPERTY GetsOnlyFromUKey
