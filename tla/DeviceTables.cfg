CONSTANTS
  Names <- MCNames
  KVCaches = {"k"}
  Tensors <- MCTensors
  Shape <- MCShape
  Dtype <- MCDtype
  BufferShape = "kv"
  Resident <- MCResident
  Zeros = "zeros"
  Garbage = "garbage"
  Requests <- MCRequests
  DisablePersistent = FALSE
  MaxCalls = 3
SPECIFICATION Spec
INVARIANTS
  ForwardOfThisCall
  SteadyCopyFits
CHECK_DEADLOCK FALSE
