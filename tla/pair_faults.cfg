CONSTANTS
  c1 = c1
  c2 = c2
  Client = {c1, c2}
  NoClient = none
  LastSector = 4
  ScanEnd = 4
  ByteSize <- MC_ByteSize
  UninitBlocks <- MC_Uninit
  Keys <- MC_Keys
  Sums <- MC_Sums
  InitialDisks <- MC_OneStick
  Faults = {"lock","read","write","torn","crash"}
SYMMETRY MC_Symmetry
SPECIFICATION Spec
INVARIANTS MarkSane LockFreeBetweenCalls IInv
PROPERTIES SuccessIsVerified BootSectorKept
