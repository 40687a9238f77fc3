SPECIFICATION Spec
CONSTANTS
  Runs = {scheduler}
  Schedulers = {scheduler}
  Failures = {}
  Baseline = TRUE
  PriceLists <- CalmOnly
  QuoteLists <- NoQuotes
  CashBuffer = 40
  Wants <- UpToOne
  LastDay = 3
  MaxRecords = 4
  MaxFaults = 0
  MaxDrift = 1
  Symbols = {1, 2}
  InitialCash = 16
  HalfSpread = 1
  PerShare = 0
  MinPerOrder = 1
  ValueDivisor = 4
  ShareTolerance = 0
  CashTolerance = 0
  MaxPositionWeight = 100
  MaxGrossExposure = 100
  MaxDailyLoss = 30
  MaxDrawdown = 40
  MaxStaleness = 1
  MinPositions = 1
  MaxPositions = 2
  MinTradeValue = 1
INVARIANT BreaksHoldTrading
CHECK_DEADLOCK FALSE
