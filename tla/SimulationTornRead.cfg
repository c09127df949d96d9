CONSTANTS
  Workers = {w1, w2}
  Batches <- TwoEvents
  MaxParts = 1
  AsService = FALSE
  SendMayFail = FALSE
  WorkersMayCrash = FALSE
  Stop = FALSE
  Word = 65536
  MaxEventID = 2
  FilterNoHits = FALSE
SPECIFICATION Spec
CHECK_DEADLOCK FALSE
INVARIANT StoppedMeansServed
