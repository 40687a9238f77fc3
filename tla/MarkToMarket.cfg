SPECIFICATION TrackSpec
CONSTANTS
  Runs = {run}
  Symbols = {1, 2}
  InitialCash = 11
  HalfSpread = 1
  PerShare = 1
  MinPerOrder = 2
  ValueDivisor = 5
  Quotes = {0, 3, 5}
  Sizes = {0, 1, 2}
  MaxCash = 12
  Marks = {3, 5}
  MaxSamples = 2
INVARIANTS LongOnly FileFollowsMemory PnlIsPrices
PROPERTY FillsNeverProfit
