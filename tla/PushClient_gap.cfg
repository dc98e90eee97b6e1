SPECIFICATION Spec
CONSTANTS
  Tickers = {a}
  MaxStamp = 2
  MaxGets = 2
  MaxDrops = 1
  Faults = {}
INVARIANT NoGap
