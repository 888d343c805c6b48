CONSTANTS
  Fields = {"n_tile", "threads"}
  FieldChoices <- MCKnobChoices
  StartConfigs <- MCStartConfigs
  Valid <- MCValid
  PredictedUs <- MCPredicted
  MeasuredUs = {80, 95, 120}
  SearchBudgets = {1, 3, 4}
  TopKs = {0, 1, 2}
  NoValue = NoValue
SPECIFICATION SearchSpec
INVARIANTS
  ReturnsTheLeast
CHECK_DEADLOCK FALSE
