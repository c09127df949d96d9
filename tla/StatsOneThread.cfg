SPECIFICATION FairSpec
CONSTANTS
  Threads = {main}
  MainThread = main
  main = main
  MaxCmds = 2
  Metrics <- AllMetrics
  Rates = {"rate"}
  Commands <- AllCommands
  sendInitialValue <- Initially
  minPublishInterval <- Interval
  maxRefreshLatency <- Latency
  MaxUpdates = 3
  LastUpdateTime = 2
INVARIANTS
  OverflowIsHandled
  EveryUpdateCounts
PROPERTIES
  LastValuePublished
