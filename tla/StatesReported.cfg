SPECIFICATION FairSpec
CONSTANTS
  States = {"relayer", "context"}
  Cells = {"a", "b"}
  Reports <- AllReports
  HeaderSize = 1
  StatesBufferSize = 5
  MinCapacity = 2
  minPublishInterval <- Interval
  maxRefreshLatency <- Latency
  sendInitialValue <- AllSent
  MaxReports = 4
  MaxPasses = 2
  LastReportTime = 1
INVARIANTS
  StateWasReported
PROPERTIES
  ChangesArePublished
