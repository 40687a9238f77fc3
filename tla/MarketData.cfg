SPECIFICATION Spec
CONSTANTS
  Symbols = {1, 2, 3}
  Days = {1, 2, 3, 4}
  Bar = {3, 4, 5, 6, 7, 8, 9}
  Ratios = {2}
  Fact <- TheFilings
  LastDay = 4
  MaxJobs = 3
  Window = 2
  MonthDays = 2
  Benchmark = 3
  Reach = 3
  Traded <- ThePrices
  SplitOn <- TheSplits
  Filings <- TheFilings
  Members <- TheMembers
INVARIANTS TypeOK CacheAgreesFromItsStart CapIsReal UniverseIsDated CoverageIsHonest
PROPERTY PointInTimeReads
CHECK_DEADLOCK FALSE
