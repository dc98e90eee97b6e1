SPECIFICATION Spec
CONSTANTS
  a = a
  b = b
  p = p
  q = q
  None = None
  Tickers <- MCOneTicker
  Prices <- MCPrices
  Sources <- BothSources
  Faults = {"cache", "table", "feed", "raise", "crash", "stop"}
  MaxStamp = 3
  PerSecond = 2
INVARIANT TypeOK
INVARIANT CacheNotBehind
INVARIANT TableProvenance
PROPERTY StoresPromise
