------------------------ MODULE MCDataProcessingStats ------------------------
(* Instances of DataProcessingStats for TLC: a counter, a gauge and a rate. *)
EXTENDS DataProcessingStats

AllMetrics == {"counter", "gauge", "rate"}

command(metric, operation, amount) == [id |-> metric, op |-> operation, value |-> amount]

AllCommands ==
  {command("counter", "Add", 1), command("counter", "Sub", 2), command("gauge", "Set", 1),
   command("gauge", "Max", 3), command("gauge", "Min", 2), command("gauge", "SetIfPositive", 2),
   command("rate", "CumulativeRate", 1), command("rate", "InstantaneousRate", 2)}

Initially == [m \in AllMetrics |-> m = "gauge"]
Interval == [m \in AllMetrics |-> IF m = "counter" THEN 0 ELSE 1]
Latency == [m \in AllMetrics |-> IF m = "counter" THEN -1 ELSE 2]
===============================================================================
