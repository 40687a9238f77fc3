SPECIFICATION Spec
CONSTANTS
  Worlds = {1, 2}
  Hold = Hold
  Days = {1, 2, 3, 4, 5}
  Histories <- PairsOfHistories
  NumSymbols = 3
  Bar <- TheBars
  Membership <- TheMembers
  FirstDay = 2
  LastDay = 5
  Modes <- TheModes
  InitialCash = 1000
  RebalanceEvery = 2
  StaleDays = 2
  CashBuffer = 0
  MinTradeValue = 30
  LookbackDays = 2
  SkipDays = 0
  ReversalDays = 3
  RegimeLookback = 2
  Benchmark = 1
  TopN = 2
  Unit = 1200
  HalfSpread = 1
  PerShare = 1
  MinPerOrder = 2
  ValueDivisor = 10
  MaxPositionWeight = 60
  MaxGrossExposure = 100
  MaxDailyLoss = 10
  MaxDrawdown = 25
  MaxStaleness = 4
  MinPositions = 1
  MaxPositions = 2
INVARIANTS NoLookahead NeverOverdrawn NothingCarried
PROPERTY TradesFollowDecisions
CHECK_DEADLOCK FALSE
