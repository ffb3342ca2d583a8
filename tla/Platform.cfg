SPECIFICATION Spec
CONSTANTS
  Builds <- AllBuilds
  Modulus = 8
  TicksPerUs = 2
  MaxGap = 2
  Ticks100ns = 1
  Ticks300ns = 1
INVARIANTS
  TypeOK
  ConfiguredIsActivePrefix
  StartedAreActive
  LanesDivide
PROPERTIES
  SetupAfterReset
  DelaysHonoured
  BringUpEnds
  ImplementsBringUp
