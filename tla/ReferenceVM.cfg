CONSTANTS
  BufferIds <- SampleBufferIds
  CounterIds <- SampleCounterIds
  Opcodes <- SampleOpcodes
  ABI_MAX_WAITS = 2
  PROVENANCE_MAX_TASKS = 8
  NoSM = NoSM
  Cols = {0, 1}
  Programs <- MCPrograms
  MaxRuns = 2
SPECIFICATION FairSpec
INVARIANTS
  ReadsSettled
  StuckIsDeadlock
PROPERTIES
  RunEnds
  ImplementsTaskGraph
CHECK_DEADLOCK FALSE
