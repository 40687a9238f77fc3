SPECIFICATION Spec
CONSTANTS
  Names = {1, 2, 3}
  Weights = {0, 30, 45, 90}
  Equities = {0, 74, 75, 94, 95, 96, 110}
  Ages = {0, 4, 5}
  Values <- TheValues
  Vols = {0, 1, 2, 4}
  MaxDays = 40
  MaxWindows = 4
  Percents = {5, 20, 50}
  MaxPositionWeight = 60
  MaxGrossExposure = 100
  MaxDailyLoss = 5
  MaxDrawdown = 25
  MaxStaleness = 4
  MinPositions = 2
  MaxPositions = 2
  LookbackDays = 2
  SkipDays = 1
  ReversalDays = 2
  RegimeLookback = 2
  Benchmark = 1
  TopN = 2
  Unit = 1200
INVARIANTS OnlyReduces HaltsHold PassesAgain NamesDoNotMatter WeightingOnlySizes HoldoutIsUntouched MissingDataNeverHelps
CHECK_DEADLOCK FALSE
