SPECIFICATION Spec
CONSTANTS
  Runs = {scheduler1, scheduler2}
  Schedulers = {scheduler1, scheduler2}
  Failures = {}
  Baseline = TRUE
  PriceLists <- CalmOnly
  QuoteLists <- NoQuotes
  CashBuffer = 40
  Wants <- UpToOne
  LastDay = 1
  MaxRecords = 3
  MaxFaults = 0
  MaxDrift = 0
  Symbols = {1, 2}
  InitialCash = 16
  HalfSpread = 1
  PerShare = 0
  MinPerOrder = 1
  ValueDivisor = 4
  ShareTolerance = 0
  CashTolerance = 0
  MaxPositionWeight = 100
  MaxGrossExposure = 100
  MaxDailyLoss = 30
  MaxDrawdown = 40
  MaxStaleness = 1
  MinPositions = 1
  MaxPositions = 2
  MinTradeValue = 1
INVARIANT OncePerDate
CHECK_DEADLOCK FALSE
