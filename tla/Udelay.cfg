SPECIFICATION Spec
CONSTANTS
  Modulus = 16
  TicksPerUs = 4
  Times = {1, 2, 5}
  MaxGap = 3
INVARIANTS
  TypeOK
  WaitsLongEnough
  OvershootBounded
PROPERTY
  DelayEnds
