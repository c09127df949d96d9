------------------------ MODULE MCDataProcessingStates ------------------------
(* Instances of DataProcessingStates for TLC: two states, reports of one   *)
(* and three cells, and room for two cells in a fresh view.            *)
EXTENDS DataProcessingStates

AllReports == {<<"a">>, <<"b">>, <<"b", "b", "a">>}

AllSent == [s \in States |-> TRUE]
Interval == [s \in States |-> IF s = "relayer" THEN 1 ELSE 0]
Latency == [s \in States |-> IF s = "relayer" THEN -1 ELSE 1]
===============================================================================
