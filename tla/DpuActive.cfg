SPECIFICATION Spec
CONSTANTS
  Builds <- Dpu_X4_1
  Modulus = 8
  TicksPerUs = 2
  MaxGap = 2
  Ticks100ns = 1
  Ticks300ns = 1
INVARIANT DpuControllerActive
