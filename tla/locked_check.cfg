CONSTANTS
  Client = {c1}
  NoClient = none
  LastSector = 6
  ScanEnd = 6
  ByteSize <- MC_SixBytes
  UninitBlocks <- MC_Uninit
  Keys <- MC_Keys
  Sums <- MC_Sums
  InitialDisks <- MC_LargerStick
  Faults = {"lock"}
SPECIFICATION Spec
PROPERTY NeverReplaces
