SPECIFICATION FairSpec
CONSTANTS
  Symbols = {1, 2}
  InitialCash = 4
  FillPrices = {1}
  MinTradeValue = 1
  Closes <- OneEach
  Wants <- Rotations
  MaxOrders = 3
  MaxStops = 1
  ShareTolerance = 0
  CashTolerance = 0
INVARIANTS TypeOK ErrorIsWhatWasLeft FillsExplainAccount BeliefIsTruth
PROPERTY CyclesEnd
CHECK_DEADLOCK FALSE
