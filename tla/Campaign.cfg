CONSTANTS
  default = default
  seed = seed
  racy = racy
  wrong = wrong
  Campaigns = {llama, qwen}
  Candidates <- MCCandidates
  Default = default
  Arguments <- MCArguments
  WarmStarts <- MCWarmStarts
  Accepted = {default, seed, wrong}
  Correct = {default, seed, racy}
  Latencies = {300, 430, 500}
  Predicted <- MCPredicted
  BoundUs = 400
  FloorUs = 398
  SustainedUs = 420
  MarginPct = 2
  GainPct = 1
  PlateauAt = 2
  NearPct = 110
  SpeedupPct = 116
  RestartAfter = 1
  MaxExperiments = 3
  MaxStarts = 2
  MaxSkipped = 1
  None = None
  Corrupt = Corrupt
SPECIFICATION Spec
INVARIANTS
  BestIsHonest
  EveryExperimentLogged
  ResidentIsReported
PROPERTIES
  ProgressIsDurable
CHECK_DEADLOCK FALSE
