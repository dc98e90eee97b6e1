SPECIFICATION Spec
CONSTANTS
  a = a
  b = b
  p = p
  q = q
  None = None
  Tickers <- MCTickers
  Prices <- MCPrices
  Sources <- Vendor
  Faults = {"cache", "feed", "crash", "stop", "loss"}
  MaxStamp = 3
  PerSecond = 2
INVARIANT StampIdentifiesPrice
INVARIANT TableCurrent
PROPERTY RowsRecordChanges
