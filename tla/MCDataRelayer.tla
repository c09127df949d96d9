---------------------------- MODULE MCDataRelayer ----------------------------
(* An instance of DataRelayer for TLC: an input of data, one that expires  *)
(* when the data is there, on the same channel, and a timer on its own.    *)
EXTENDS DataRelayer

CONSTANTS a, b, c, chA, chC, junk

DataOptionalTimer == {a, b, c}
TwoChannels == {chA, chC}
ChannelOfInput == [i \in {a, b, c} |-> IF i = c THEN chC ELSE chA]

(* Two timeslices of the data, one of them in two parts, and something     *)
(* nobody asked for.                                                       *)
PartsAndJunk ==
  {[ts |-> 1, input |-> a, part |-> 1], [ts |-> 1, input |-> a, part |-> 2],
   [ts |-> 2, input |-> a, part |-> 1], [ts |-> 1, input |-> junk, part |-> 1]}

(* A user's policy that looks at the data on its own, keeps its headers    *)
(* until the record is complete, and takes whatever is there when the      *)
(* timer fires.                                                            *)
existingThenAll ==
  [p \in SUBSET {a, b, c} |->
     CASE {a, b} \subseteq p -> {"Consume"}
       [] c \in p            -> {"Consume"}
       [] p = {a}            -> {"ConsumeExisting"}
       [] OTHER              -> {"Wait"}]
===============================================================================
