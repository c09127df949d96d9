SPECIFICATION FairSpecOffers
CONSTANTS
  NumOffers = 2
  NumStreams = 1
  requestedSharedMemory = 4
  requestedTimeslices = 1
  Runtime = 0
  Payloads = {1, 3, 5}
  maxAvailable <- LimitOne
  maxQuantum <- LargestOffer
  minQuantum <- SmallestOffer
  metricOfferScaleFactor <- TwoBytes
  MaxUnread = 1
INVARIANTS
  MemoryNeverOvercommitted
PROPERTIES
  MemoryKeepsComing
