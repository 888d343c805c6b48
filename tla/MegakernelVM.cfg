CONSTANTS
  BufferIds <- SampleBufferIds
  CounterIds <- SampleCounterIds
  Opcodes <- SampleOpcodes
  ABI_MAX_WAITS = 2
  PROVENANCE_MAX_TASKS = 8
  NoSM = NoSM
  Cols = {0, 1}
  MaxPasses = 2
  Launches <- MCLaunches
  DeviceOps <- MCDeviceOps
SPECIFICATION FairSpec
INVARIANTS
  ReadsSettled
  RaceFree
  SomeBlockCanMove
  ResultsComplete
PROPERTIES
  ImplementsTaskGraph
  LaunchEnds
CHECK_DEADLOCK FALSE
