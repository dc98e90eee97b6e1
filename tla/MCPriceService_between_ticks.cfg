SPECIFICATION FeedFairSpec
CONSTANTS
  a = a
  b = b
  p = p
  q = q
  None = None
  Tickers <- MCTickers
  Prices <- MCPrices
  Sources <- BothSources
  Faults = {"cache", "stop", "loss"}
  MaxStamp = 3
  PerSecond = 2
INVARIANT CachePicture
INVARIANT FeedCurrent
INVARIANT CacheProvenance
PROPERTY PublishDespiteStall
PROPERTY TickEnds
PROPERTY CacheRefills
