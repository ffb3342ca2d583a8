SPECIFICATION Spec
CONSTANTS
  Builds <- Server_8_4_0_4
  Modulus = 8
  TicksPerUs = 2
  MaxGap = 2
  Ticks100ns = 1
  Ticks300ns = 1
INVARIANT TrainsOnlyConfigured
