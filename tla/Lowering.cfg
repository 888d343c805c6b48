CONSTANTS
  BufferIds <- MCIds
  CounterIds <- MCIds
  Opcodes <- MCOpcodes
  ABI_MAX_WAITS = 4
  ABI_MAX_INPUTS = 4
  PROVENANCE_MAX_TASKS = 200
  NoSM = NoSM
  None = None
  Cols = {0, 1, 2, 3, 4, 5, 6}
  Requests <- MCRequests
  Dims <- MCDims
  DEFAULT_WIDTH = 2
  MIN_AUTO_TILE = 2
  MAX_TILES = 4
  ATTN_PMAX = 4
  ATTN_MIN_KV_PER_SHARD = 2
  TaskTime <- MCTaskTime
SPECIFICATION LowerSpec
INVARIANTS
  ReadyMeansWritten
  LoweredIsAccepted
  ShardsCoverWindow
  PredictionInBounds
CHECK_DEADLOCK FALSE
