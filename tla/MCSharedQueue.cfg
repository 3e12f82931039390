SPECIFICATION Spec
CONSTANTS
  OpIds = {1, 2}
  Bytes = {0, 1}
  MaxRecords = 3
  Capacity = 14
  Records <- MCRecords
INVARIANTS
  TypeOK
  BufferIntact
PROPERTIES
  IsOpQueue
