---------------------------- MODULE ComputingQuota ----------------------------
(***************************************************************************)
(* The ComputingQuotaEvaluator of a device and the part of the main loop   *)
(* that uses it.  The driver sends offers of shared memory or of           *)
(* timeslices; the loop stores them in a fixed array of offers, and before *)
(* it lets a stream compute it looks for offers that satisfy the request   *)
(* of the device (the policy of the rate limited reader).  What was        *)
(* selected belongs to the stream; what the computation used is taken off  *)
(* when it completes; what stays unused too long goes back to the driver.  *)
(*                                                                         *)
(* cpu, memory and the scores play no role under this policy and are left  *)
(* out.  Time is the age of each offer in ticks; the clock of the code is  *)
(* uv_now().  mExpiredOffers is a set: a second entry of an index is       *)
(* skipped by handleExpired.                                               *)
(***************************************************************************)
EXTENDS Integers, Sequences, FiniteSetsExt

CONSTANTS
  NumOffers,              (* size of mOffers                                 *)
  NumStreams,             (* size of mStreams                                *)
  requestedSharedMemory,  (* the request of the device, in bytes             *)
  requestedTimeslices,
  Payloads,               (* bytes one computation may create                *)
  Runtime                 (* runtime of an offer, in ticks                   *)

ASSUME QuotaAssumption ==
  /\ NumOffers \in Nat \ {0}
  /\ NumStreams \in Nat \ {0}
  /\ requestedSharedMemory \in Nat
  /\ requestedTimeslices \in Nat
  /\ Payloads \subseteq Nat
  /\ Runtime \in Nat

Slots == 0 .. NumOffers - 1
Streams == 0 .. NumStreams - 1
Nobody == -1
Resources == {"sharedMemory", "timeslices"}

VARIABLES
  mOffers,         (* slot -> offer                                          *)
  pendingOffers,   (* DeviceState::pendingOffers                             *)
  loop,            (* the main thread: "poll" in uv_run, where its callbacks *)
                   (* are called, or "schedule"                              *)
  mExpiredOffers,  (* slots a selection found expired                        *)
  phase,           (* stream -> "free", "running", or "done": computed, its  *)
                   (* run_completion not called yet                          *)
  offerConsumers   (* DeviceState::offerConsumers                            *)

quotaVars == <<mOffers, pendingOffers, loop, mExpiredOffers, phase, offerConsumers>>

nothing == [r \in Resources |-> 0]

(* The offer that is always there holds nothing and never expires; the     *)
(* others are as default constructed: invalid, with a runtime of zero.     *)
emptyOffer(i) ==
  [sharedMemory |-> 0, timeslices |-> 0, age |-> Runtime + 1,
   runtime |-> IF i = 0 THEN -1 ELSE 0, user |-> Nobody, valid |-> i = 0]

newOffer(bytes, timeslices) ==
  [sharedMemory |-> bytes, timeslices |-> timeslices, age |-> 0,
   runtime |-> Runtime, user |-> Nobody, valid |-> TRUE]

InitQuota ==
  /\ mOffers = [i \in Slots |-> emptyOffer(i)]
  /\ pendingOffers = <<>>
  /\ loop = "poll"
  /\ mExpiredOffers = {}
  /\ phase = [s \in Streams |-> "free"]
  /\ offerConsumers = <<>>
-------------------------------------------------------------------------------
(***************************************************************************)
(* The policy: ratelimited-shm-bound.                                      *)
(***************************************************************************)
score(offer, accumulated) ==
  LET memory == accumulated.sharedMemory
      slices == accumulated.timeslices
      unneeded == \/ memory >= requestedSharedMemory /\ offer.timeslices = 0
                  \/ slices >= requestedTimeslices /\ offer.sharedMemory = 0
                  \/ offer.sharedMemory = 0 /\ offer.timeslices = 0
      enough == /\ memory + offer.sharedMemory >= requestedSharedMemory
                /\ slices + offer.timeslices >= requestedTimeslices
  IN  IF unneeded THEN "Unneeded" ELSE IF enough THEN "Enough" ELSE "More"

(* Mutant: an offer that was selected does not expire any more. *)
isExpiredUnlessSelected(offer) ==
  offer.user = Nobody /\ offer.runtime >= 0 /\ offer.age > offer.runtime

isExpired(offer) == offer.runtime >= 0 /\ offer.age > offer.runtime

(* Mutant: the offers of other users are not skipped. *)
usableByAnyone(offer, task) == offer.valid

usable(offer, task) == offer.valid /\ offer.user \in {Nobody, task}

(* selectOffer(): one pass over the array, up to the offer that completes  *)
(* the request.                                                            *)
selection(offers, task) ==
  LET visit(r, i) ==
        LET offer == offers[i]
            s == score(offer, r)
        IN  IF r.enough \/ ~ usable(offer, task) THEN r
            ELSE IF isExpired(offer) THEN [r EXCEPT !.expired = @ \cup {i}]
            ELSE IF s = "Unneeded" THEN r
            ELSE [r EXCEPT !.sharedMemory = @ + offer.sharedMemory,
                           !.timeslices = @ + offer.timeslices,
                           !.selected = @ \cup {i},
                           !.enough = s = "Enough"]
      after[n \in 0 .. NumOffers] ==
        IF n = 0 THEN [sharedMemory |-> 0, timeslices |-> 0, selected |-> {},
                       expired |-> {}, enough |-> FALSE]
        ELSE visit(after[n - 1], n - 1)
  IN  after[NumOffers]

select(offers, task, selected) ==
  [i \in Slots |-> IF i \in selected THEN [offers[i] EXCEPT !.user = task] ELSE offers[i]]

addTo(offer, extra) ==
  [offer EXCEPT !.sharedMemory = @ + extra.sharedMemory,
                !.timeslices = @ + extra.timeslices,
                !.runtime = IF @ < Runtime THEN Runtime ELSE @]

(* What some offers hold of a resource. *)
sumOf(offers, some, r) == SumFunctionOnSet([i \in some |-> offers[i][r]], some)

(* updateOffers(): the invalid slots are filled from the back of the list; *)
(* what is left is added to the last slot that was valid already, if there *)
(* was one, and stays pending otherwise.                                   *)
updateOffers(offers, pending) ==
  LET valid == {i \in Slots : offers[i].valid}
      rank(i) == Cardinality({j \in Slots \ valid : j <= i})
      left == 1 .. Len(pending) - Cardinality(Slots \ valid)
      extra == [r \in Resources |-> sumOf(pending, left, r)]
  IN  [i \in Slots |->
         IF i \notin valid
         THEN IF rank(i) <= Len(pending) THEN pending[Len(pending) + 1 - rank(i)]
              ELSE offers[i]
         ELSE IF left # {} /\ i = Max(valid) THEN addTo(offers[i], extra) ELSE offers[i]]

stillPending(offers, pending) ==
  IF \E i \in Slots : offers[i].valid THEN <<>> ELSE SubSeq(pending, 1, Len(pending) - NumOffers)

(* handleExpired(): what the expired offers still hold, and the offers     *)
(* after it.  The user of an expired offer stays.                          *)
positive(n) == IF n > 0 THEN n ELSE 0

expiredAmount(offers, expired) ==
  [r \in Resources |-> SumFunctionOnSet([i \in expired |-> positive(offers[i][r])], expired)]

(* Mutant: the offers that were given back stay valid. *)
keepExpired(offers, expired) == offers

handleExpired(offers, expired) ==
  [i \in Slots |->
     IF i \notin expired THEN offers[i]
     ELSE [offers[i] EXCEPT !.sharedMemory = IF @ < 0 /\ offers[i].timeslices < 0 THEN @ ELSE -1,
                            !.timeslices = IF @ < 0 /\ offers[i].sharedMemory < 0 THEN @ ELSE -1,
                            !.valid = FALSE]]

(***************************************************************************)
(* A consumer takes an amount of one resource off the offers of a task,    *)
(* the invalid ones included, and reports how much it took.                *)
(***************************************************************************)
consume(offers, task, consumer) ==
  LET r == consumer.resource
      visit(c, i) ==
        LET toRemove == IF c.left < c.offers[i][r] THEN c.left ELSE c.offers[i][r]
        IN  IF c.stop \/ c.offers[i].user # task THEN c
            ELSE [offers |-> [c.offers EXCEPT ![i][r] = @ - toRemove],
                  left |-> c.left - toRemove,
                  disposed |-> c.disposed + toRemove,
                  stop |-> c.left - toRemove <= 0]
      after[n \in 0 .. NumOffers] ==
        IF n = 0 THEN [offers |-> offers, left |-> consumer.amount, disposed |-> 0, stop |-> FALSE]
        ELSE visit(after[n - 1], n - 1)
  IN  after[NumOffers]

(* All consumers, in the order they were registered; the number of         *)
(* timeslices reported is at most one for each.                            *)
consumeAll(offers, task) ==
  LET apply(c, consumer) ==
        LET result == consume(c.offers, task, consumer)
            reported == IF consumer.resource = "timeslices" /\ result.disposed > 1
                        THEN 1 ELSE result.disposed
        IN  [offers |-> result.offers,
             consumed |-> [c.consumed EXCEPT ![consumer.resource] = @ + reported]]
      after[n \in 0 .. Len(offerConsumers)] ==
        IF n = 0 THEN [offers |-> offers, consumed |-> nothing]
        ELSE apply(after[n - 1], offerConsumers[n])
  IN  after[Len(offerConsumers)]

(* dispose(): the loop ends at the first slot when the task owns that one. *)
dispose(offers, task) ==
  IF offers[0].user = task
  THEN [offers EXCEPT ![0].user = Nobody]
  ELSE [i \in Slots |->
          IF offers[i].user = task
          THEN [offers[i] EXCEPT !.user = Nobody, !.valid = @ /\ offers[i].sharedMemory > 0]
          ELSE offers[i]]
-------------------------------------------------------------------------------
(***************************************************************************)
(* What happens in uv_run: an offer of the driver arrives, a signal, time  *)
(* passes (uv_now() moves on only between two iterations).                 *)
(***************************************************************************)
Receive(offer) ==
  /\ loop = "poll"
  /\ pendingOffers' = Append(pendingOffers, offer)
  /\ UNCHANGED <<mOffers, loop, mExpiredOffers, phase, offerConsumers>>

(* on_signal_callback(): only the shared memory, the validity and the user *)
(* of the slot are set.  Without an invalid slot nothing happens.          *)
Signal(bytes) ==
  /\ loop = "poll"
  /\ \A i \in Slots : mOffers[i].valid => mOffers[i].sharedMemory = 0
  /\ \E i \in Slots :
       /\ ~ mOffers[i].valid
       /\ \A j \in 0 .. i - 1 : mOffers[j].valid
       /\ mOffers' = [mOffers EXCEPT ![i].sharedMemory = bytes, ![i].valid = TRUE,
                                     ![i].user = Nobody]
  /\ UNCHANGED <<pendingOffers, loop, mExpiredOffers, phase, offerConsumers>>

AdvanceClock ==
  /\ loop = "poll"
  /\ \E i \in Slots : mOffers[i].age <= Runtime
  /\ mOffers' = [i \in Slots |-> [mOffers[i] EXCEPT !.age = IF @ <= Runtime THEN @ + 1 ELSE @]]
  /\ UNCHANGED <<pendingOffers, loop, mExpiredOffers, phase, offerConsumers>>

(***************************************************************************)
(* One iteration of the loop of Run(): the pending offers are stored, then *)
(* the last stream that is not running gets its chance.                    *)
(***************************************************************************)
StoreOffers ==
  /\ loop = "poll"
  /\ loop' = "schedule"
  /\ mOffers' = updateOffers(mOffers, pendingOffers)
  /\ pendingOffers' = stillPending(mOffers, pendingOffers)
  /\ UNCHANGED <<mExpiredOffers, phase, offerConsumers>>

freeStreams == {s \in Streams : phase[s] = "free"}

NoFreeStream ==
  /\ freeStreams = {}
  /\ UNCHANGED <<mOffers, mExpiredOffers, phase>>

(* Not enough resources: the partial offers stay with the stream. *)
Skip(s, chosen) ==
  /\ ~ chosen.enough
  /\ mOffers' = handleExpired(select(mOffers, s, chosen.selected), mExpiredOffers \cup chosen.expired)
  /\ mExpiredOffers' = {}
  /\ UNCHANGED phase

Schedule(s, chosen) ==
  /\ chosen.enough
  /\ mOffers' = select(mOffers, s, chosen.selected)
  /\ mExpiredOffers' = mExpiredOffers \cup chosen.expired
  /\ phase' = [phase EXCEPT ![s] = "running"]

Iterate ==
  /\ loop = "schedule"
  /\ loop' = "poll"
  /\ \/ NoFreeStream
     \/ /\ freeStreams # {}
        /\ LET s == Max(freeStreams)
               chosen == selection(mOffers, s)
           IN  Skip(s, chosen) \/ Schedule(s, chosen)
  /\ UNCHANGED <<pendingOffers, offerConsumers>>

(* Mutant: the loop that finds nothing to run reports nothing. *)
iterationKeeps == nothing

(* What an iteration reports as expired. *)
iterationReturns ==
  IF freeStreams = {} THEN nothing
  ELSE LET chosen == selection(mOffers, Max(freeStreams))
       IN  IF chosen.enough THEN nothing
           ELSE expiredAmount(mOffers, mExpiredOffers \cup chosen.expired)

(***************************************************************************)
(* run_callback() on a worker thread: a computation registers what it has  *)
(* used; or there is nothing to compute, at the end of the stream of data  *)
(* or because another stream has dispatched the only record.               *)
(***************************************************************************)
consumersOf(bytes) ==
  <<[resource |-> "timeslices", amount |-> 1], [resource |-> "sharedMemory", amount |-> bytes]>>

Compute(s, bytes) ==
  /\ phase[s] = "running"
  /\ phase' = [phase EXCEPT ![s] = "done"]
  /\ offerConsumers' = offerConsumers \o consumersOf(bytes)
  /\ UNCHANGED <<mOffers, pendingOffers, loop, mExpiredOffers>>

FindNothing(s) ==
  /\ phase[s] = "running"
  /\ phase' = [phase EXCEPT ![s] = "done"]
  /\ UNCHANGED <<mOffers, pendingOffers, loop, mExpiredOffers, offerConsumers>>

(* run_completion() on the main thread: every registered consumer is       *)
(* applied to the offers of the stream that completes.                     *)
Complete(s) ==
  /\ loop = "poll"
  /\ phase[s] = "done"
  /\ phase' = [phase EXCEPT ![s] = "free"]
  /\ mOffers' = dispose(handleExpired(consumeAll(mOffers, s).offers, mExpiredOffers), s)
  /\ offerConsumers' = <<>>
  /\ mExpiredOffers' = {}
  /\ UNCHANGED <<pendingOffers, loop>>

(* What a completion reports as consumed, and as expired. *)
completionConsumes(s) == consumeAll(mOffers, s).consumed

completionReturns(s) == expiredAmount(consumeAll(mOffers, s).offers, mExpiredOffers)

(***************************************************************************)
(* Steps named by the variable that only they change, to state fairness:   *)
(* the first is StoreOffers or Iterate, the second Compute, FindNothing or *)
(* Complete.                                                               *)
(***************************************************************************)
LoopTurns == loop' = IF loop = "poll" THEN "schedule" ELSE "poll"

StreamAdvances(s) ==
  /\ phase[s] # "free"
  /\ phase' = [phase EXCEPT ![s] = IF @ = "running" THEN "done" ELSE "free"]
-------------------------------------------------------------------------------
(* What the valid offers hold, and what the pending ones bring. *)
held(r) ==
  SumFunction([i \in Slots |-> IF mOffers[i].valid THEN positive(mOffers[i][r]) ELSE 0])

waiting(r) == sumOf(pendingOffers, 1 .. Len(pendingOffers), r)
===============================================================================
