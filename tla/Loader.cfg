CONSTANTS
  BufferIds <- SampleBufferIds
  CounterIds <- SampleCounterIds
  Opcodes <- SampleOpcodes
  ABI_MAX_WAITS = 2
  PROVENANCE_MAX_TASKS = 8
  NoSM = NoSM
  Cols = {0, 1}
  SAFE_MAX_TPB = 256
  Jobs <- MCJobs
SPECIFICATION FairSpec
INVARIANTS
  KahnIsSound
  LoadedTablesKeepContract
  Balanced
PROPERTY LoadEnds
CHECK_DEADLOCK FALSE
