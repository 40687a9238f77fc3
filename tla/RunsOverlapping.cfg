SPECIFICATION Spec
CONSTANTS
  Runs = {scheduler, cycle}
  Schedulers = {scheduler}
  Failures = {"die", "save", "ingest"}
  Baseline = FALSE
  PriceLists <- CalmOrGap
  QuoteLists <- OneQuoted
  CashBuffer = 0
  Wants <- UpToOne
  LastDay = 1
  MaxRecords = 2
  MaxFaults = 1
  MaxDrift = 1
  Symbols = {1, 2}
  InitialCash = 16
  HalfSpread = 1
  PerShare = 0
  MinPerOrder = 1
  ValueDivisor = 4
  ShareTolerance = 0
  CashTolerance = 0
  MaxPositionWeight = 100
  MaxGrossExposure = 100
  MaxDailyLoss = 30
  MaxDrawdown = 40
  MaxStaleness = 1
  MinPositions = 1
  MaxPositions = 2
  MinTradeValue = 1
INVARIANTS TypeOK LongOnly
CHECK_DEADLOCK FALSE
