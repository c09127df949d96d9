--------------------------- MODULE MCResourceOffers ---------------------------
(* Instances of ResourceOffers for TLC. *)
EXTENDS ResourceOffers

units(memory, slices) == [r \in Resources |-> IF r = "timeslices" THEN slices ELSE memory]

TwoBytes == units(2, 1)
LargestOffer == units(2, 1)
SmallestOffer == units(1, 1)
LimitOne == units(2, 1)
===============================================================================
