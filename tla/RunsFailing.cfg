SPECIFICATION FairSpec
CONSTANTS
  Runs = {scheduler}
  Schedulers = {scheduler}
  Failures = {"raise", "save", "append", "die", "ingest"}
  Baseline = TRUE
  PriceLists <- EvenOrSag
  QuoteLists <- NoQuotes
  CashBuffer = 20
  Wants <- UpToTwo
  LastDay = 2
  MaxRecords = 4
  MaxFaults = 2
  MaxDrift = 0
  Symbols = {1, 2}
  InitialCash = 32
  HalfSpread = 1
  PerShare = 0
  MinPerOrder = 1
  ValueDivisor = 4
  ShareTolerance = 0
  CashTolerance = 0
  MaxPositionWeight = 100
  MaxGrossExposure = 100
  MaxDailyLoss = 30
  MaxDrawdown = 40
  MaxStaleness = 1
  MinPositions = 2
  MaxPositions = 2
  MinTradeValue = 1
INVARIANTS OncePerDate BeliefIsTruth PlansAreFunded
PROPERTIES TradesOnlyReconciled RunsEnd LatestDayIsRecorded
CHECK_DEADLOCK FALSE
