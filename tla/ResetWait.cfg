SPECIFICATION Spec
CONSTANTS
  Builds <- Default
  Modulus = 8
  TicksPerUs = 2
  MaxGap = 2
  Ticks100ns = 1
  Ticks300ns = 1
INVARIANT ResetWaits100ns
