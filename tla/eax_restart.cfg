CONSTANTS
  IVs = {"v1", "v2"}
  HeaderBlock = 2
  MaxHeader = 2
  MaxMessageLength = 3
SPECIFICATION Spec
INVARIANT RestartDiscards
