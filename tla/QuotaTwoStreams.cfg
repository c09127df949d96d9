SPECIFICATION FairSpec
CONSTANTS
  NumOffers = 3
  NumStreams = 2
  requestedSharedMemory = 2
  requestedTimeslices = 1
  Runtime = 1
  SignalledMemory = 3
  OfferSizes = {1, 2}
  Payloads = {1, 3}
  MayBeIdle = TRUE
  MaxReceived = 4
  MaxSignals = 1
INVARIANTS
  NoResourceInvented
  RunningOwnsEnough
PROPERTIES
  MemoryGoesBack
