CONSTANTS
  builtin = builtin
  wide = wide
  narrow = narrow
  small = small
  large = large
  tiny = tiny
  Gpu = "rtx5090"
  WeightKB = 358400
  ModelTasks <- MCModelTasks
  Searched <- MCSearched
  SearchedKnobs <- MCSearchedKnobs
  Unsound <- MCUnsound
  Malformed = Malformed
  None = None
  Edits <- MCEdits
  Wrong <- MCWrong
  Predicted <- MCPredicted
  Variants <- MCVariants
  Grid <- MCGrid
  Shapes = {small, large}
  Asked = {large, tiny}
  Shipped <- MCShipped
  Distance <- MCDistance
  Radius = 1000000
  SeedsWanted = 3
  Tools <- MCTools
  Latencies = {300, 450, 503}
  Budgets = {3}
  MaxRows = 4
  MaxSessions = 2
SPECIFICATION Spec
INVARIANTS
  TrailIsTheRun
  LatencyEarned
  PointsHaveReceipts
  NothingLeft
  SeedsAreSound
CHECK_DEADLOCK FALSE
