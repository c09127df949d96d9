CONSTANTS
  Workers = {w1, w2}
  Batches <- TwoEvents
  MaxParts = 1
  AsService = FALSE
  SendMayFail = TRUE
  WorkersMayCrash = TRUE
  Stop = FALSE
  Word = 65536
  MaxEventID = 2
  FilterNoHits = FALSE
SPECIFICATION FairSpec
CHECK_DEADLOCK FALSE
INVARIANTS NeverAborts FlushedInOrder FinishedIsWritten
PROPERTIES RunSpec RunEnds
