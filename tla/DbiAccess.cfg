SPECIFICATION Spec
CONSTANTS
  Requests <- MCRequests
  Writes <- MCWrites
  Byte = {0, 255}
  MaxWords = 2
PROPERTY ImplementsByteSpace
