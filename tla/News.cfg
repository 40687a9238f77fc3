SPECIFICATION Spec
CONSTANTS
  Symbols = {1, 2}
  Texts = {t1, t2}
  Lookback = 1
  MaxNewsAge = 1
  FeedAge = 1
  Verdicts <- TheVerdicts
  LastDay = 3
  MaxItems = 3
  Torn = Torn
  Down = Down
PROPERTIES PastIsSettled ScoresRepeat
SYMMETRY TextSymmetry
