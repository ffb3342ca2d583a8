SPECIFICATION SystemSpec
CONSTANTS
  Builds <- SomeBuilds
  Modulus = 1
  TicksPerUs = 0
  MaxGap = 0
  Ticks100ns = 0
  Ticks300ns = 0
  ResetStates <- EvenBits
  Half = 16
  AddrStart = 64
  MemSize = 32
  CfgSize = 4
  Cfg1Target = 16
  Cfg0Target = 48
  MemTarget = 200
INVARIANT EnabledIsWhole
PROPERTIES
  LinkFieldsStable
  StartsReadyPorts
  SpeedChangeWhenInPlace
