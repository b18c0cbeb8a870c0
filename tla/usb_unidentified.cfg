CONSTANTS
  Worlds <- MC_NoSerial
  NoPID = none
SPECIFICATION Spec
INVARIANT TrueMeansIdentified
