SPECIFICATION Spec
CONSTANTS
  Record <- TheRecords
  Garbage = Garbage
  MaxAppends = 5
  From = 1
  To = 2
INVARIANTS LossIsBounded ObserversAgree
PROPERTY ImplementsDecisionLog
CHECK_DEADLOCK FALSE
