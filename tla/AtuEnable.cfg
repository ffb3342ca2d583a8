SPECIFICATION Spec
CONSTANTS
  Setups <- OnePerPort
  ResetStates <- AllZero
  ErrorBits = {28}
  Half = 16
  AddrStart = 64
  MemSize = 32
  CfgSize = 4
  Cfg1Target = 16
  Cfg0Target = 48
  MemTarget = 200
INVARIANT EnabledBeforeAccess
