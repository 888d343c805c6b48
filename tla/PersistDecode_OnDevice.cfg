CONSTANTS
  BufferIds <- MCBufferIds
  CounterIds = {1, 2, 3, 4, 5, 6, 7, 8}
  Opcodes <- MCOpcodes
  ABI_MAX_WAITS = 2
  PROVENANCE_MAX_TASKS = 10
  NoSM = NoSM
  Cols = {0, 1}
  Tokens <- MCTokens
  Right <- MCRight
  Argmax <- MCArgmax
  Result <- MCResult
  Keys <- MCKeys
  LoweredAt = 1
  TokenCell = "token"
  PosCell = "pos"
  Garbage = Garbage
  Nothing = Nothing
  MaxSeq = 3
  StepProgram <- MCStepProgram
  Wide <- MCWide
  Narrow <- MCNarrow
  Regrids = FALSE
  Resident = TRUE
  Prompts <- MCTwoCaches
  Lengths = {1}
  MaxCalls = 3
SPECIFICATION Spec
INVARIANT StartsFromCleanPrefill
CHECK_DEADLOCK FALSE
