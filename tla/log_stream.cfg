\* One worker beside the gateway: the log as it is meant to be.
SPECIFICATION FairSpec
CONSTANTS
  Workers = {w1}
  Gateway = gw
  Clients = {c1}
  Buffer = 2
  HistoryLimit = 8
  MaxEvents = 4
  MaxFragments = 1
  MaxDrops = 1
INVARIANTS  FeedInOrder FeedHasNoGaps
PROPERTY FeedTellsTheEnd
CHECK_DEADLOCK FALSE
