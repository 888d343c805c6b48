CONSTANTS
  BufferIds <- SampleBufferIds
  CounterIds <- SampleCounterIds
  Opcodes <- SampleOpcodes
  ABI_MAX_WAITS = 2
  PROVENANCE_MAX_TASKS = 8
  NoSM = NoSM
  Cols = {0, 1}
  Simulated <- MCPrograms
SPECIFICATION SimSpec
INVARIANTS
  StuckIsUnavoidable
  AcceptedNeverStuck
  FlagsOnlyInPlace
CHECK_DEADLOCK FALSE
