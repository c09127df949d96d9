--------------------------- MODULE MCDecongestion ---------------------------
(* Instances of Decongestion for TLC. *)
EXTENDS Decongestion

CONSTANTS a, b, chA, chB, junk

TwoInputs == {a, b}

(* Each input on a channel of its own, or both on the same. *)
TwoChannels == {chA, chB}
TwoInputsChannelOf == [i \in {a, b} |-> IF i = a THEN chA ELSE chB]
OneChannel == {chA}
OneChannelOf == [i \in {a, b} |-> chA]

(* One message per timeslice and input; the last record stays incomplete. *)
ThreeTimeslices ==
  [ts : 0 .. 1, input : {a, b}, part : {1}] \cup {[ts |-> 2, input |-> a, part |-> 1]}
(* The last timeslice is never completed, and something nobody asked for. *)
PartAndJunk ==
  {[ts |-> 1, input |-> a, part |-> 1], [ts |-> 1, input |-> b, part |-> 1],
   [ts |-> 2, input |-> a, part |-> 1], [ts |-> 1, input |-> junk, part |-> 1]}

policyAnswers == [p \in SUBSET {a, b} |-> answers(p)]
===============================================================================
