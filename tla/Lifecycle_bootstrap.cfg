SPECIFICATION FairSpec
CONSTANTS
  Listed = {r, n}
  Seed = {r, d}
  Synthetic = {y}
  Interval = 1
  Upstream = 4
  PollEvery = 1
  Deadline = 2
  Limit = 4
  QueryMax = 1
  SyncMax = 1
  FetchMax = 2
  WriteMax = 1
  Jitter = 1
  RestartMax = 1
  MaxMissed = 2
INVARIANT TypeOK
INVARIANT PaddingNotAsked
INVARIANT StallsAreSeen
INVARIANT ReadInTime
PROPERTY Bootstrapped
PROPERTY PricesComeBack
