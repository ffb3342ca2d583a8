SPECIFICATION Spec
CONSTANTS
  Setups <- MCSetups
  ResetStates <- Alternations
  ErrorBits = {28, 29}
  Half = 16
  AddrStart = 64
  MemSize = 32
  CfgSize = 4
  Cfg1Target = 16
  Cfg0Target = 48
  MemTarget = 200
INVARIANTS
  TypeOK
  ReadyAtReturn
  BothRatesSet
  InUseIsComplete
  ApertureTranslated
PROPERTIES
  SpeedChangeWhenReady
  KeepsOtherBits
  LateErrorsSurvive
CHECK_DEADLOCK FALSE
