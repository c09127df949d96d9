---------------------------- MODULE ResourceOffers ----------------------------
(***************************************************************************)
(* The rate limiting of an analysis workflow: the driver, the reader (a    *)
(* device with the quota of ComputingQuota), the tasks that use what it    *)
(* reads and the sink.  The driver knows the others only through the       *)
(* metrics they send, and offers what it believes to be available.         *)
(*                                                                         *)
(* The metrics are cumulative in the code; here a message carries the      *)
(* increment, and the driver drops the whole units it has both offered and *)
(* got back, because only their difference enters its formulas.            *)
(***************************************************************************)
EXTENDS ComputingQuota

CONSTANTS
  maxAvailable,            (* resource -> units the workflow may use         *)
  maxQuantum, minQuantum,  (* resource -> largest and smallest offer         *)
  metricOfferScaleFactor,  (* resource -> units of the metrics in one of the *)
                           (* offers                                         *)
  MaxUnread                (* bound on the metrics of the reader not read    *)

ASSUME OffersAssumption ==
  /\ maxAvailable \in [Resources -> Nat]
  /\ maxQuantum \in [Resources -> Nat \ {0}]
  /\ minQuantum \in [Resources -> Nat \ {0}]
  /\ metricOfferScaleFactor \in [Resources -> Nat \ {0}]
  /\ metricOfferScaleFactor["timeslices"] = 1
  /\ MaxUnread \in Nat \ {0}

VARIABLES
  available,      (* ResourceState::available                                *)
  offered,        (* ResourceState::offered                                  *)
  returned,       (* expired and consumed, as far as the driver knows        *)
  balance,        (* disposed minus acquired, as far as the driver knows     *)
  overAllocated,  (* history: bytes created beyond the request of the device *)
                  (* that the last offer of memory did not take into account *)
  messages,       (* offers on their way to the reader                       *)
  readerMetrics,  (* metrics of the reader on their way to the driver        *)
  taskMetrics,    (* ... of the tasks                                        *)
  sinkMetrics,    (* ... of the sink                                         *)
  inFlight,       (* sizes of the timeslices the tasks have not used yet     *)
  toSink          (* number of timeslices only the sink has to see           *)

driverVars == <<available, offered, returned, balance, overAllocated>>
metricVars == <<readerMetrics, taskMetrics, sinkMetrics>>
dataVars == <<inFlight, toSink>>
allVars == <<quotaVars, driverVars, messages, metricVars, dataVars>>

only(resource, amount) == [nothing EXCEPT ![resource] = amount]

InitOffers ==
  /\ InitQuota
  /\ available = maxAvailable
  /\ offered = nothing
  /\ returned = nothing
  /\ balance = nothing
  /\ overAllocated = 0
  /\ messages = <<>>
  /\ readerMetrics = <<>>
  /\ taskMetrics = <<>>
  /\ sinkMetrics = <<>>
  /\ inFlight = <<>>
  /\ toSink = 0
-------------------------------------------------------------------------------
(***************************************************************************)
(* The driver.                                                             *)
(***************************************************************************)
(* Integer division of C++. *)
divide(a, b) == IF a >= 0 THEN a \div b ELSE - ((- a) \div b)

availableNow(r, unused, difference) ==
  maxAvailable[r] + divide(difference, metricOfferScaleFactor[r]) - unused

possibleOffer(r) ==
  IF available[r] < minQuantum[r] THEN 0
  ELSE IF available[r] < maxQuantum[r] THEN available[r] ELSE maxQuantum[r]

(* The code divides all that ever came back and `returned` is what is left *)
(* of it, so that the division rounds down, as that of a positive total.   *)
unusedOffered(r, given1, returned1) == given1 - (returned1 \div metricOfferScaleFactor[r])

(* A computation may create more than the offers it was given for its      *)
(* request: only what is covered by the request is sure to be charged.     *)
covered(bytes) == IF bytes < requestedSharedMemory THEN bytes ELSE requestedSharedMemory

excess(bytes) == bytes - covered(bytes)

(* The excess the driver has not heard of. *)
unseen ==
  SumFunctionOnSet([j \in 1 .. Len(readerMetrics) |-> excess(readerMetrics[j].acquired["sharedMemory"])],
                   1 .. Len(readerMetrics))

(* offerResources() for both resources: the offers are made of what was    *)
(* available at the end of the previous call.                              *)
offerResources(returnedNow, balanceNow) ==
  LET made == [r \in Resources |-> possibleOffer(r)]
      bytes == made["sharedMemory"] * metricOfferScaleFactor["sharedMemory"]
      unused == [r \in Resources |-> unusedOffered(r, offered[r] + made[r], returnedNow[r])]
  IN  /\ messages' = messages
           \o (IF made["timeslices"] > 0 THEN <<newOffer(0, made["timeslices"])>> ELSE <<>>)
           \o (IF bytes > 0 THEN <<newOffer(bytes, 0)>> ELSE <<>>)
      /\ available' = [r \in Resources |-> availableNow(r, unused[r], balanceNow[r])]
      /\ offered' = unused
      /\ returned' = [r \in Resources |-> returnedNow[r] % metricOfferScaleFactor[r]]
      /\ balance' = balanceNow
      /\ overAllocated' = IF made["sharedMemory"] > 0 THEN unseen ELSE overAllocated

(* What some metrics add up to. *)
total(chunk, field, r) ==
  SumFunctionOnSet([j \in 1 .. Len(chunk) |-> chunk[j][field][r]], 1 .. Len(chunk))

(* metricHandling() after a chunk of metrics of one device. *)
metricHandling(chunk) ==
  offerResources(
    [r \in Resources |-> returned[r] + total(chunk, "returned", r)],
    [r \in Resources |-> balance[r] + total(chunk, "disposed", r) - total(chunk, "acquired", r)])

metric(back, disposed, acquired) ==
  [returned |-> back, disposed |-> disposed, acquired |-> acquired]

readerChunk(n) ==
  /\ readerMetrics # <<>>
  /\ metricHandling(SubSeq(readerMetrics, 1, n))
  /\ readerMetrics' = SubSeq(readerMetrics, n + 1, Len(readerMetrics))
  /\ UNCHANGED <<quotaVars, taskMetrics, sinkMetrics, dataVars>>

DriverHandlesReader == \E n \in 1 .. Len(readerMetrics) : readerChunk(n)

DriverHandlesTask ==
  /\ taskMetrics # <<>>
  /\ metricHandling(<<Head(taskMetrics)>>)
  /\ taskMetrics' = Tail(taskMetrics)
  /\ UNCHANGED <<quotaVars, readerMetrics, sinkMetrics, dataVars>>

DriverHandlesSink ==
  /\ sinkMetrics # <<>>
  /\ metricHandling(<<Head(sinkMetrics)>>)
  /\ sinkMetrics' = Tail(sinkMetrics)
  /\ UNCHANGED <<quotaVars, readerMetrics, taskMetrics, dataVars>>

(* Any other metric of any device. *)
DriverHandlesOther ==
  /\ metricHandling(<<>>)
  /\ UNCHANGED <<quotaVars, metricVars, dataVars>>

(***************************************************************************)
(* The reader.                                                             *)
(***************************************************************************)
DeliverOffer ==
  /\ messages # <<>>
  /\ Receive(Head(messages))
  /\ messages' = Tail(messages)
  /\ UNCHANGED <<driverVars, metricVars, dataVars>>

report(amount) ==
  IF amount = nothing THEN <<>> ELSE <<metric(amount, nothing, nothing)>>

ReaderClock == AdvanceClock /\ UNCHANGED <<driverVars, messages, metricVars, dataVars>>

ReaderStoresOffers == StoreOffers /\ UNCHANGED <<driverVars, messages, metricVars, dataVars>>

ReaderIterates ==
  /\ Iterate
  /\ readerMetrics' = readerMetrics \o report(iterationReturns)
  /\ UNCHANGED <<driverVars, messages, taskMetrics, sinkMetrics, dataVars>>

(* The metrics are sent after the data. *)
ReaderComputes(s, bytes) ==
  /\ Len(readerMetrics) < MaxUnread
  /\ Compute(s, bytes)
  /\ inFlight' = Append(inFlight, bytes)
  /\ readerMetrics' = Append(readerMetrics,
       metric(nothing, nothing, [r \in Resources |-> IF r = "timeslices" THEN 1 ELSE bytes]))
  /\ overAllocated' = overAllocated + excess(bytes)
  /\ UNCHANGED <<available, offered, returned, balance, messages, taskMetrics, sinkMetrics, toSink>>

(* What the completion consumed and what it found expired; the timeslices  *)
(* it consumed do not reach the accounting of the driver.                  *)
ReaderCompletes(s) ==
  /\ Complete(s)
  /\ readerMetrics' = readerMetrics
       \o report(only("sharedMemory", completionConsumes(s)["sharedMemory"]))
       \o report(completionReturns(s))
  /\ UNCHANGED <<driverVars, messages, taskMetrics, sinkMetrics, dataVars>>

(***************************************************************************)
(* The tasks give the memory back; the sink counts what is past.           *)
(***************************************************************************)
(* Mutant: forwarded memory is given back by every task. *)
TaskDisposesTwice ==
  /\ inFlight # <<>>
  /\ inFlight' = Tail(inFlight)
  /\ toSink' = toSink + 1
  /\ taskMetrics' = Append(taskMetrics, metric(nothing, only("sharedMemory", 2 * Head(inFlight)), nothing))
  /\ UNCHANGED <<quotaVars, driverVars, messages, readerMetrics, sinkMetrics>>

TaskDisposes ==
  /\ inFlight # <<>>
  /\ inFlight' = Tail(inFlight)
  /\ toSink' = toSink + 1
  /\ taskMetrics' = Append(taskMetrics, metric(nothing, only("sharedMemory", Head(inFlight)), nothing))
  /\ UNCHANGED <<quotaVars, driverVars, messages, readerMetrics, sinkMetrics>>

(* CONSUMED_TIMEFRAMES and TIMESLICE_NUMBER_DONE are the same number. *)
SinkIsPast ==
  /\ toSink > 0
  /\ toSink' = toSink - 1
  /\ sinkMetrics' = Append(sinkMetrics, metric(only("timeslices", 1), only("timeslices", 1), nothing))
  /\ UNCHANGED <<quotaVars, driverVars, messages, readerMetrics, taskMetrics, inFlight>>

DriverStep == DriverHandlesReader \/ DriverHandlesTask \/ DriverHandlesSink \/ DriverHandlesOther

ReaderStep ==
  \/ DeliverOffer
  \/ ReaderClock
  \/ ReaderStoresOffers
  \/ ReaderIterates
  \/ \E s \in Streams : ReaderCompletes(s) \/ \E bytes \in Payloads : ReaderComputes(s, bytes)

NextOffers == DriverStep \/ ReaderStep \/ TaskDisposes \/ SinkIsPast

SpecOffers == InitOffers /\ [][NextOffers]_allVars
-------------------------------------------------------------------------------
(* Bytes created and sure to be charged to the offers, but not yet. *)
uncharged ==
  SumFunctionOnSet([j \in 1 .. Len(offerConsumers) |->
                      IF offerConsumers[j].resource = "sharedMemory"
                      THEN covered(offerConsumers[j].amount) ELSE 0],
                   1 .. Len(offerConsumers))

memoryInUse == SumFunctionOnSet(inFlight, 1 .. Len(inFlight))

onTheWay(r) == sumOf(messages, 1 .. Len(messages), r)

memoryPromised ==
  onTheWay("sharedMemory") + waiting("sharedMemory") + held("sharedMemory") - uncharged

(* The memory in use and the memory promised exceed the limit by less than *)
(* a unit and what the computations have created beyond their request      *)
(* without the driver knowing of it at its last offer, however late the    *)
(* metrics arrive and in whatever order: the driver rounds, and takes an   *)
(* over-allocation into account as soon as it hears of it, but does not    *)
(* offer the same memory twice.                                            *)
MemoryNeverOvercommitted ==
  memoryInUse + memoryPromised
    < (maxAvailable["sharedMemory"] + 1) * metricOfferScaleFactor["sharedMemory"] + overAllocated

(* The driver never stops offering memory: all it has offered comes back   *)
(* to it, disposed of by the tasks or expired in the reader.               *)
MemoryKeepsComing == []<>(\E j \in DOMAIN messages : messages[j].sharedMemory > 0)

(* The loop of the reader turns for ever and polls its connections, and    *)
(* computations end; the driver handles what it receives, and its own      *)
(* metrics and timers make it go through the offers again and again; tasks *)
(* and sink make progress; time passes.  The subscripts name the variable  *)
(* that tells the step from the others.                                    *)
FairSpecOffers ==
  /\ SpecOffers
  /\ SF_mOffers(AdvanceClock)
  /\ WF_loop(LoopTurns)
  /\ \A s \in Streams : WF_phase(StreamAdvances(s))
  /\ SF_messages(DeliverOffer)
  /\ WF_readerMetrics(DriverHandlesReader)
  /\ WF_taskMetrics(DriverHandlesTask)
  /\ WF_sinkMetrics(DriverHandlesSink)
  /\ WF_allVars(DriverHandlesOther)
  /\ WF_inFlight(TaskDisposes)
  /\ WF_toSink(SinkIsPast)
===============================================================================
