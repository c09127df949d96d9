------------------------ MODULE MCParallelSimulation -------------------------
(* The batches of the TLC runs of ParallelSimulation.                      *)
EXTENDS ParallelSimulation, TLC

WorkerSymmetry == Permutations(Workers)

TwoEvents == <<2>>
TwoBatches == <<1, 1>>
=============================================================================
