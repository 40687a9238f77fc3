SPECIFICATION Spec
CONSTANTS
  Runs = {scheduler}
  Schedulers = {scheduler}
  Failures = {}
  Baseline = TRUE
  PriceLists <- Sliding
  QuoteLists <- NoQuotes
  CashBuffer = 0
  Wants <- UpToTwo
  LastDay = 4
  MaxRecords = 5
  MaxFaults = 0
  MaxDrift = 0
  Symbols = {1, 2}
  InitialCash = 16
  HalfSpread = 0
  PerShare = 0
  MinPerOrder = 0
  ValueDivisor = 4
  ShareTolerance = 0
  CashTolerance = 0
  MaxPositionWeight = 100
  MaxGrossExposure = 100
  MaxDailyLoss = 40
  MaxDrawdown = 40
  MaxStaleness = 1
  MinPositions = 1
  MaxPositions = 2
  MinTradeValue = 1
INVARIANT DrawdownHalts
CHECK_DEADLOCK FALSE
