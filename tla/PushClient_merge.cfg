SPECIFICATION Spec
CONSTANTS
  Tickers = {a}
  MaxStamp = 3
  MaxGets = 2
  MaxDrops = 1
  Faults = {"drop", "remount", "fail", "lost", "expire", "redis"}
INVARIANT TypeOK
INVARIANT ScreenConverges
INVARIANT ChannelsFollowRows
PROPERTY RowsMoveForward
