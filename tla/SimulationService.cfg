CONSTANTS
  Workers = {w1, w2}
  Batches <- TwoBatches
  MaxParts = 2
  AsService = TRUE
  SendMayFail = FALSE
  WorkersMayCrash = FALSE
  Stop = TRUE
  Word = 65536
  MaxEventID = 1
  FilterNoHits = TRUE
SPECIFICATION Spec
CHECK_DEADLOCK FALSE
SYMMETRY WorkerSymmetry
INVARIANTS OnlyCompleteEvents BatchesNeverMix
PROPERTY HandedOutInSequence
