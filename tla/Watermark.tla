------------------------------ MODULE Watermark ------------------------------
(***************************************************************************)
(* What a device promises the ones downstream about the oldest timeslice   *)
(* it may still send, and what it assumes of the ones upstream: the same.  *)
(* Nothing is said of how the device keeps its data or computes the value. *)
(***************************************************************************)
EXTENDS Integers

CONSTANT Upstream   (* the channels on which the device is promised things  *)

VARIABLES
  promised,   (* channel -> nothing older will arrive on it                 *)
  held,       (* the timeslices of the data the device has to pass on       *)
  announced   (* nothing older will be sent                                 *)

contractVars == <<promised, held, announced>>

ContractInit ==
  /\ promised = [c \in Upstream |-> 0]
  /\ held = {}
  /\ announced = 0

(* Data arrives that respects what was promised, data is passed on. *)
Transfer ==
  /\ \E c \in Upstream : \A t \in held' \ held : t >= promised[c]
  /\ UNCHANGED <<promised, announced>>

Promise ==
  /\ \E c \in Upstream :
       /\ promised'[c] > promised[c]
       /\ promised' = [promised EXCEPT ![c] = promised'[c]]
  /\ UNCHANGED <<held, announced>>

Announce ==
  /\ announced' > announced
  /\ \A t \in held : announced' <= t
  /\ \A c \in Upstream : announced' <= promised[c]
  /\ UNCHANGED <<promised, held>>

Restart ==
  /\ promised' = [c \in Upstream |-> 0]
  /\ announced' = 0
  /\ UNCHANGED held

ContractNext == Transfer \/ Promise \/ Announce \/ Restart

Contract == ContractInit /\ [][ContractNext]_contractVars
===============================================================================
