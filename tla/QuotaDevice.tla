------------------------------ MODULE QuotaDevice ------------------------------
(***************************************************************************)
(* A device with its quota alone: the driver offers what it likes, and     *)
(* `given` accounts for what the device got and has not reported back as   *)
(* consumed or expired.                                                    *)
(***************************************************************************)
EXTENDS ComputingQuota

CONSTANTS
  SignalledMemory,  (* what a SIGUSR1 offers                                 *)
  OfferSizes,       (* sizes of the offers of shared memory                  *)
  MayBeIdle,        (* whether a stream may find nothing to compute          *)
  MaxReceived,      (* bound on the number of offers received                *)
  MaxSignals        (* bound on the number of SIGUSR1                        *)

ASSUME DeviceAssumption ==
  /\ SignalledMemory \in Nat
  /\ OfferSizes \subseteq Nat \ {0}
  /\ MayBeIdle \in BOOLEAN
  /\ MaxReceived \in Nat
  /\ MaxSignals \in Nat

VARIABLES
  given,     (* resource -> received and not yet reported back               *)
  received,  (* number of offers received                                    *)
  signals    (* number of SIGUSR1                                            *)

vars == <<quotaVars, given, received, signals>>

Init ==
  /\ InitQuota
  /\ given = nothing
  /\ received = 0
  /\ signals = 0

ReceiveOffer(offer) ==
  /\ received < MaxReceived
  /\ Receive(offer)
  /\ received' = received + 1
  /\ given' = [r \in Resources |-> given[r] + offer[r]]
  /\ UNCHANGED signals

ReceiveSharedMemory == \E bytes \in OfferSizes : ReceiveOffer(newOffer(bytes, 0))

ReceiveTimeslice == ReceiveOffer(newOffer(0, 1))

ReceiveSignal ==
  /\ signals < MaxSignals
  /\ Signal(SignalledMemory)
  /\ signals' = signals + 1
  /\ given' = [given EXCEPT !["sharedMemory"] = @ + SignalledMemory]
  /\ UNCHANGED received

TimePasses == AdvanceClock /\ UNCHANGED <<given, received, signals>>

LoopStores == StoreOffers /\ UNCHANGED <<given, received, signals>>

LoopSchedules ==
  /\ Iterate
  /\ given' = [r \in Resources |-> given[r] - iterationReturns[r]]
  /\ UNCHANGED <<received, signals>>

StreamWorks(s) ==
  /\ \/ \E bytes \in Payloads : Compute(s, bytes)
     \/ MayBeIdle /\ FindNothing(s)
  /\ UNCHANGED <<given, received, signals>>

StreamCompletes(s) ==
  /\ Complete(s)
  /\ given' = [r \in Resources |->
                 given[r] - completionConsumes(s)[r] - completionReturns(s)[r]]
  /\ UNCHANGED <<received, signals>>

Next ==
  \/ ReceiveSharedMemory
  \/ ReceiveTimeslice
  \/ ReceiveSignal
  \/ TimePasses
  \/ LoopStores
  \/ LoopSchedules
  \/ \E s \in Streams : StreamWorks(s) \/ StreamCompletes(s)

Spec == Init /\ [][Next]_vars

(* The loop turns for ever (a timer is set for the next offer to expire),  *)
(* computations end and complete, time passes.                             *)
FairSpec ==
  /\ Spec
  /\ SF_vars(TimePasses)
  /\ WF_loop(LoopTurns)
  /\ \A s \in Streams : WF_phase(StreamAdvances(s))
-------------------------------------------------------------------------------
(* The device never reports back, consumes or holds more than it was       *)
(* offered: whatever streams, expirations and signals do, the offers it    *)
(* can still use are covered by what the driver has not got back.          *)
NoResourceInvented == \A r \in Resources : held(r) + waiting(r) <= given[r]

(* A stream that was let run keeps the offers that satisfied its request   *)
(* until it completes: no other stream selects them, and neither the       *)
(* completion of another stream nor an expiration takes them away.         *)
RunningOwnsEnough ==
  \A s \in Streams : phase[s] # "free" =>
    LET own == {i \in Slots : mOffers[i].valid /\ mOffers[i].user = s}
    IN  /\ sumOf(mOffers, own, "sharedMemory") >= requestedSharedMemory
        /\ sumOf(mOffers, own, "timeslices") >= requestedTimeslices

(* Once the driver offers nothing more, the shared memory in the device is *)
(* in the end used or given back, because it expires; what an earlier      *)
(* stream has selected is the exception, as only the last free stream is   *)
(* ever tried and selectOffer() passes over the offers of the others.      *)
MemoryGoesBack ==
  LET reachable == {i \in Slots : mOffers[i].valid /\ mOffers[i].user \in {Nobody, Max(Streams)}}
  IN  <>[](/\ pendingOffers = <<>>
           /\ \A i \in reachable : mOffers[i].sharedMemory <= 0)
===============================================================================
