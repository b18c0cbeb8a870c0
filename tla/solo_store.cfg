CONSTANTS
  Client = {c1}
  NoClient = none
  LastSector = 5
  ScanEnd = 5
  ByteSize <- MC_ByteSize
  UninitBlocks <- MC_Uninit
  Keys <- MC_TwoKeys
  Sums <- MC_Sums
  InitialDisks <- MC_Sticks
  Faults = {"torn", "unlock", "open", "unplug", "crash"}
SPECIFICATION Spec
INVARIANT CacheCoherent
PROPERTIES ImplementsStore GetsWhatIsStored
