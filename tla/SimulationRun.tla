---------------------------- MODULE SimulationRun ----------------------------
(***************************************************************************)
(* What a run of o2-sim promises to the one who started it: the output     *)
(* file grows, event by event, and the run is reported successful only     *)
(* when it holds every event that was asked for.                           *)
(***************************************************************************)
EXTENDS Naturals

CONSTANT NEvents

VARIABLES
  written,  \* how many events the output file holds
  outcome   \* "running", "ok" or "failed"

Init == written = 0 /\ outcome = "running"

Write ==
  /\ outcome = "running"
  /\ written' \in written + 1 .. NEvents
  /\ UNCHANGED outcome

Succeed ==
  /\ outcome = "running" /\ written = NEvents
  /\ outcome' = "ok"
  /\ UNCHANGED written

Fail ==
  /\ outcome = "running"
  /\ outcome' = "failed"
  /\ UNCHANGED written

Next == Write \/ Succeed \/ Fail

Spec == Init /\ [][Next]_<<written, outcome>>
=============================================================================
