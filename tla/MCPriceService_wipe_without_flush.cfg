SPECIFICATION Spec
CONSTANTS
  a = a
  b = b
  p = p
  q = q
  None = None
  Tickers <- MCOneTicker
  Prices <- MCPrices
  Sources <- BothSources
  Faults = {"crash", "stop"}
  MaxStamp = 3
  PerSecond = 2
INVARIANT CacheProvenance
SYMMETRY Symmetry
