SPECIFICATION FairSpec
CONSTANTS
  Securities = {s}
  GetSlots = {p1, p2}
  ActSlot = a
  PoolSize = 2
  MaxStamp = 1
  Queries = {"n", "nv"}
  MaxTypes = 2
  Hung = p1
  Faults = {"lost"}
INVARIANT TypeOK
INVARIANT OneWatchlist
PROPERTY FlashesWhatMoved
PROPERTY LateAnswersDropped
PROPERTY PollConverges
PROPERTY RequestsServed
