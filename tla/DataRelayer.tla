------------------------------ MODULE DataRelayer ------------------------------
(***************************************************************************)
(* The DataRelayer of a DPL device, with the loop that drives it: messages *)
(* are relayed into the slot of their timeslice, the completion policy     *)
(* decides what to do with the slots that changed, and the records it      *)
(* releases are dispatched one by one.  Upstream devices announce on every *)
(* channel the oldest timeslice they can still send; slots older than that *)
(* are invalidated at once and pruned later, in the main loop.             *)
(*                                                                         *)
(* A message is what a header with its payloads means to the relayer: a    *)
(* timeslice, the input route that matches it, and an identity.            *)
(***************************************************************************)
EXTENDS TimesliceIndex

CONSTANTS
  Inputs,             (* mDistinctRoutesIndex: the inputs of the device      *)
  NoRoute,            (* what matchToContext gives for an unknown header     *)
  Messages,           (* everything upstream may send                        *)
  ChannelOf,          (* input -> the DPL channel it arrives on              *)
  CalibrationInputs,  (* inputs whose data has KEEP_AT_EOS_FLAG              *)
  OptionalInputs,     (* inputs with a data driven expiration handler        *)
  TimerInputs,        (* inputs with a time driven expiration handler        *)
  TimerValues,        (* the instants at which a timer can fire              *)
  Policy,             (* mCompletionPolicy: inputs present -> allowed ops    *)
  Streams,            (* mStreams                                            *)
  ThreadPool,         (* DPL_THREADPOOL_SIZE > 0                             *)
  MaxTimeslice,       (* bound of the announced timeslices                   *)
  MaxStops            (* bound on the number of stop/start cycles            *)

CompletionOps ==
  {"Consume", "Process", "Wait", "Discard", "ConsumeExisting",
   "ConsumeAndRescan", "Retry"}

(* Only DPL channels are polled; a timer's channel has nobody behind it. *)
DataChannels == DPLChannels \ {ChannelOf[i] : i \in TimerInputs}

(* What an expiration handler stores in the cell it fills. *)
generated(t, i) == [ts |-> t, input |-> i, part |-> 0]

Generated == [ts : Nat, input : OptionalInputs \cup TimerInputs, part : {0}]

RecordActions ==
  [slot : Slots, timeslice : Nat,
   op : {"Consume", "Process", "Discard", "ConsumeExisting"}]

ASSUME RelayerAssumption ==
  /\ NoRoute \notin Inputs
  /\ Messages \subseteq
       [ts : Nat, input : (Inputs \ TimerInputs) \cup {NoRoute}, part : Nat \ {0}]
  /\ ChannelOf \in [Inputs -> DPLChannels]
  /\ CalibrationInputs \subseteq Inputs
  /\ OptionalInputs \cup TimerInputs \subseteq Inputs
  /\ Inputs \ TimerInputs # {}      (* isFirstInTopology is false           *)
  /\ TimerValues \subseteq Nat
  /\ Policy \in [SUBSET Inputs -> SUBSET CompletionOps]
  /\ ThreadPool \in BOOLEAN
  /\ MaxTimeslice \in Nat
  /\ MaxStops \in Nat

VARIABLES
  cache,              (* mCache: slot -> the messages in its cells           *)
  payloadMoved,       (* cached messages of which only the header is left    *)
  pruneOps,           (* mPruneOps                                           *)
  completed,          (* StreamContext::completed, the actions yet to run    *)
  allowedProcessing,  (* DeviceState::allowedProcessing                      *)
  streaming,          (* DeviceState::streaming                              *)
  stops,              (* stop/start cycles so far                            *)
  nextEnumeration,    (* DecongestionService::nextEnumerationTimeslice       *)
  upstream            (* messages that have not arrived yet                  *)

relayerVars ==
  <<cache, payloadMoved, pruneOps, completed, allowedProcessing, streaming,
    stops, nextEnumeration, upstream>>
vars == <<indexVars, relayerVars>>

(* The shape of the state: slots hold messages, actions name slots. *)
TypeOK ==
  /\ IndexTypeOK
  /\ cache \in [Slots -> SUBSET (Messages \cup Generated)]
  /\ payloadMoved \subseteq (Messages \cup Generated)
  /\ pruneOps \subseteq Slots
  /\ completed \in [Streams -> SUBSET RecordActions]
  /\ allowedProcessing \in {"Any", "CalibrationOnly"}
  /\ streaming \in {"Streaming", "Idle"}
  /\ stops \in 0 .. MaxStops
  /\ nextEnumeration \in Nat
  /\ upstream \subseteq Messages

Init ==
  /\ IndexInit
  /\ cache = [s \in Slots |-> {}]
  /\ payloadMoved = {}
  /\ pruneOps = {}
  /\ completed = [st \in Streams |-> {}]
  /\ allowedProcessing = "Any"
  /\ streaming = "Streaming"
  /\ stops = 0
  /\ nextEnumeration = 0
  /\ upstream = Messages

(* The inputs of a slot with a header, all the completion policy looks at. *)
present(s) == {m.input : m \in cache[s]}

(* Without a thread pool run_callback is a plain call of the main loop, so *)
(* nothing else happens until the actions it found have been executed.     *)
mainThreadFree == ThreadPool \/ \A st \in Streams : completed[st] = {}

(* A stream starts a step of doRun(). *)
streamFree(st) == mainThreadFree /\ completed[st] = {} /\ streaming = "Streaming"
-------------------------------------------------------------------------------
(***************************************************************************)
(* relay().  An upstream device does not send a timeslice after it has     *)
(* announced, on the same channel, that it is past it.                     *)
(***************************************************************************)
arrives(m) ==
  /\ mainThreadFree
  /\ m \in upstream
  /\ m.input \in Inputs => m.ts >= oldestForChannel[ChannelOf[m.input]]
  /\ upstream' = upstream \ {m}

matchingSlots(m) ==
  {s \in laneOf(m.ts) : variables[s] = m.ts}

(* saveInSlot refuses data once only calibration is being processed. *)
saveInSlot(m) ==
  IF allowedProcessing = "Any" \/ m.input \in CalibrationInputs THEN {m} ELSE {}

(* Mutant: the data of a slot that is reused or pruned is left behind. *)
pruneNothing(slots) == cache

pruneCache(slots) == [s \in Slots |-> IF s \in slots THEN {} ELSE cache[s]]

(* A slot of the lane already collects this timeslice. *)
RelayToMatchingSlot(m) ==
  /\ arrives(m)
  /\ m.input # NoRoute
  /\ matchingSlots(m) # {}
  /\ LET s == Min(matchingSlots(m)) IN
       /\ cache' = [cache EXCEPT ![s] = @ \cup saveInSlot(m)]
       /\ dirty' = markAsDirty(dirty, {r \in {s} : saveInSlot(m) # {}})
  /\ UNCHANGED <<variables, oldestForChannel, oldestPossibleInput,
                 oldestPossibleOutput, payloadMoved, pruneOps, completed,
                 allowedProcessing, streaming, stops, nextEnumeration>>

(* A free slot is bound to the timeslice; what it still holds is pruned    *)
(* first.  The slot stays bound even if the message is then not stored.    *)
RelayToFreeSlot(m) ==
  /\ arrives(m)
  /\ m.input # NoRoute
  /\ matchingSlots(m) = {}
  /\ freeSlots(variables, m.ts) # {}
  /\ LET s == Min(freeSlots(variables, m.ts)) IN
       /\ variables' = [variables EXCEPT ![s] = m.ts]
       /\ cache' = [pruneCache({s}) EXCEPT ![s] = @ \cup saveInSlot(m)]
       /\ payloadMoved' = payloadMoved \ cache[s]
       /\ pruneOps' = pruneOps \ {s}
       /\ dirty' = markAsDirty(dirty, {r \in {s} : saveInSlot(m) # {}})
  /\ UNCHANGED <<oldestForChannel, oldestPossibleInput, oldestPossibleOutput,
                 completed, allowedProcessing, streaming, stops,
                 nextEnumeration>>

(* No input route wants the message: RelayChoice::Invalid.  When there is  *)
(* no slot either (Backpressured) the message stays where it is and relay  *)
(* is called again later, which is no step at all.                         *)
RelayInvalid(m) ==
  /\ arrives(m)
  /\ m.input = NoRoute
  /\ UNCHANGED <<indexVars, cache, payloadMoved, pruneOps, completed,
                 allowedProcessing, streaming, stops, nextEnumeration>>
-------------------------------------------------------------------------------
(***************************************************************************)
(* The handler of a DomainInfo message: announce on channel c that nothing *)
(* older than t will come.  Slots that are now too old are invalidated and *)
(* queued for pruning; their content stays in the cache.                   *)
(***************************************************************************)
DomainInfoUpdated(c, t) ==
  /\ mainThreadFree
  /\ t > oldestForChannel[c]
  /\ LET ofc    == [oldestForChannel EXCEPT ![c] = t]
         oldest == minOverChannels(ofc, t)
         gone   == obsoleteSlots(variables, dirty, oldest)
         vs     == markAsInvalid(variables, gone)
     IN  /\ oldestForChannel' = ofc
         /\ oldestPossibleInput' = oldest
         /\ variables' = vs
         /\ pruneOps' = pruneOps \cup gone
         /\ oldestPossibleOutput' = minOverSlots(vs, oldest)
  /\ UNCHANGED <<dirty, cache, payloadMoved, completed, allowedProcessing,
                 streaming, stops, nextEnumeration, upstream>>

(* Mutant: mPruneOps is not cleared. *)
PruneKeepsQueue ==
  /\ mainThreadFree
  /\ pruneOps # {}
  /\ cache' = pruneCache(pruneOps)
  /\ payloadMoved' = payloadMoved \ UNION {cache[s] : s \in pruneOps}
  /\ UNCHANGED <<indexVars, pruneOps, completed, allowedProcessing, streaming,
                 stops, nextEnumeration, upstream>>

(* prunePending, at the top of the main loop. *)
PrunePending ==
  /\ mainThreadFree
  /\ pruneOps # {}
  /\ cache' = pruneCache(pruneOps)
  /\ payloadMoved' = payloadMoved \ UNION {cache[s] : s \in pruneOps}
  /\ pruneOps' = {}
  /\ UNCHANGED <<indexVars, completed, allowedProcessing, streaming, stops,
                 nextEnumeration, upstream>>

(* Out of band activity: everything is looked at again. *)
Rescan ==
  /\ mainThreadFree
  /\ dirty' = rescan
  /\ UNCHANGED <<variables, oldestForChannel, oldestPossibleInput,
                 oldestPossibleOutput, relayerVars>>

(* The same from the asynchronous queue, when the completion policy waits  *)
(* for the oldest possible timeslice: the output watermark is updated too. *)
RescanPastOldest ==
  /\ mainThreadFree
  /\ dirty' = rescan
  /\ oldestPossibleOutput' = minOverSlots(variables, oldestPossibleInput)
  /\ UNCHANGED <<variables, oldestForChannel, oldestPossibleInput, relayerVars>>

(* The data processing grace period of a stop transition is over. *)
DataProcessingExpired ==
  /\ mainThreadFree
  /\ allowedProcessing = "Any"
  /\ allowedProcessing' = "CalibrationOnly"
  /\ UNCHANGED <<indexVars, cache, payloadMoved, pruneOps, completed,
                 streaming, stops, nextEnumeration, upstream>>

(* The stop callback of the decongestion service, followed by a new start. *)
(* The watermarks are reset, the cache and its slots are not.              *)
StopStart ==
  /\ \A st \in Streams : completed[st] = {}
  /\ stops < MaxStops
  /\ stops' = stops + 1
  /\ reset
  /\ nextEnumeration' = 0
  /\ allowedProcessing' = "Any"
  /\ streaming' = "Streaming"
  /\ UNCHANGED <<variables, dirty, cache, payloadMoved, pruneOps, completed,
                 upstream>>
-------------------------------------------------------------------------------
(***************************************************************************)
(* processDanglingInputs with createNew.                                   *)
(***************************************************************************)

(* dataDrivenCreation with expireIfPresent: once every other input of a    *)
(* valid slot is there, the missing optional ones are filled in.           *)
missingOptional(s) ==
  IF isValid(variables, s) /\ (Inputs \ OptionalInputs) \subseteq present(s)
    THEN OptionalInputs \ present(s)
    ELSE {}

ExpireOptional(st) ==
  /\ streamFree(st)
  /\ \E s \in Slots : missingOptional(s) # {}
  /\ cache' = [s \in Slots |->
                 cache[s] \cup {generated(variables[s], i) : i \in missingOptional(s)}]
  /\ dirty' = markAsDirty(dirty, {s \in Slots : missingOptional(s) # {}})
  /\ UNCHANGED <<variables, oldestForChannel, oldestPossibleInput,
                 oldestPossibleOutput, payloadMoved, pruneOps, completed,
                 allowedProcessing, streaming, stops, nextEnumeration,
                 upstream>>

(* timeDrivenCreation moves the timer's channel to nextEnumerationTimeslice, *)
(* which all the timers of the device share.                                 *)
timerChannelAt(i, t, vs) ==
  LET ofc    == [oldestForChannel EXCEPT ![ChannelOf[i]] = t]
      oldest == minOverChannels(ofc, t)
  IN  /\ nextEnumeration' = t
      /\ oldestForChannel' = ofc
      /\ oldestPossibleInput' = oldest
      /\ oldestPossibleOutput' = minOverSlots(vs, oldest)

(* No slot for the timer, because it has not fired or because the current  *)
(* time already has one.  The first call after a start sets the timers to  *)
(* a time in the past.                                                     *)
TimerIdle(st, i, start) ==
  /\ streamFree(st)
  /\ timerChannelAt(i, IF nextEnumeration = 0 THEN start ELSE nextEnumeration, variables)
  /\ UNCHANGED <<variables, dirty, cache, payloadMoved, pruneOps, completed,
                 allowedProcessing, streaming, stops, upstream>>

(* Mutant: two timers that fire together each take a slot. *)
neverBound(t) == FALSE

alreadyBound(t) == \E s \in Slots : variables[s] = t

(* A timer fires at `now`.  If a slot can be had the handler fills the     *)
(* cell of the timer, unless there already is something in it.             *)
TimerFired(st, i, now) ==
  LET free  == replaceLRUWith(variables, now)
      taken == {s \in Slots : free.action = "ReplaceUnused" /\ s = free.slot}
      vs    == [s \in Slots |-> IF s \in taken THEN now ELSE variables[s]]
      fired == {s \in taken : i \notin present(s)}
  IN  /\ streamFree(st)
      /\ now >= nextEnumeration
      /\ ~ alreadyBound(now)
      /\ variables' = vs
      /\ dirty' = markAsDirty(dirty, taken)
      /\ cache' = [s \in Slots |->
                     IF s \in fired THEN cache[s] \cup {generated(now, i)} ELSE cache[s]]
      /\ timerChannelAt(i, now, vs)
      /\ UNCHANGED <<payloadMoved, pruneOps, completed, allowedProcessing,
                     streaming, stops, upstream>>
-------------------------------------------------------------------------------
(***************************************************************************)
(* getReadyToProcess, for the stream st.  Slots are visited from the last  *)
(* to the first; ConsumeAndRescan marks every slot dirty, so it also makes *)
(* the loop visit the slots that were clean.                               *)
(***************************************************************************)
visited(ops) ==
  {s \in Slots : \/ dirty[s]
                 \/ \E r \in Slots : r > s /\ dirty[r] /\ ops[r] = "ConsumeAndRescan"}

(* Mutant: Retry is treated like Wait. *)
forgetRetry(ops, s) ==
  \E r \in visited(ops) : r <= s /\ ops[r] = "ConsumeAndRescan"

stillDirty(ops, s) ==
  \/ s \in visited(ops) /\ ops[s] = "Retry"
  \/ \E r \in visited(ops) : r <= s /\ ops[r] = "ConsumeAndRescan"

(* Mutant: ConsumeAndRescan is handed on as it is. *)
rawRecordAction(ops, s) == [slot |-> s, timeslice |-> variables[s], op |-> ops[s]]

recordAction(ops, s) ==
  [slot |-> s, timeslice |-> variables[s],
   op |-> IF ops[s] = "ConsumeAndRescan" THEN "Consume" ELSE ops[s]]

readySlots(ops) ==
  {s \in visited(ops) : isValid(variables, s) /\ ops[s] \notin {"Wait", "Retry"}}

(* One visit of the slots, with the answers of the completion policy. *)
readyWith(st, ops) ==
  /\ streamFree(st)
  /\ \A s \in Slots : ops[s] \in Policy[present(s)]
  /\ completed' = [completed EXCEPT
                      ![st] = {recordAction(ops, s) : s \in readySlots(ops)}]
  /\ dirty' = [s \in Slots |-> stillDirty(ops, s)]
  /\ oldestPossibleOutput' = minOverSlots(variables, oldestPossibleInput)
  /\ UNCHANGED <<variables, oldestForChannel, oldestPossibleInput, cache,
                 payloadMoved, pruneOps, allowedProcessing, streaming, stops,
                 nextEnumeration, upstream>>

(* What the policy may answer, for some slot. *)
possibleOps == {op \in CompletionOps : \E s \in Slots : op \in Policy[present(s)]}

GetReadyToProcess(st) == \E ops \in [Slots -> possibleOps] : readyWith(st, ops)

(* If the user's code asked for the end of the stream, the device is Idle  *)
(* after the last of the actions, without a clear().                       *)
mayEndStream(st, a) ==
  \/ streaming' = streaming
  \/ completed[st] = {a} /\ streaming' = "Idle"

(* tryDispatchComputation runs an action that takes the record over:       *)
(* consumeAllInputsForTimeslice, processing, forwarding.                   *)
DispatchConsume(st, a) ==
  /\ a \in completed[st]
  /\ a.op \in {"Consume", "Discard"}
  /\ completed' = [completed EXCEPT ![st] = @ \ {a}]
  /\ cache' = [cache EXCEPT ![a.slot] = {}]
  /\ payloadMoved' = payloadMoved \ cache[a.slot]
  /\ variables' = [variables EXCEPT ![a.slot] = NoTimeslice]
  /\ mayEndStream(st, a)
  /\ UNCHANGED <<dirty, oldestForChannel, oldestPossibleInput,
                 oldestPossibleOutput, pruneOps, allowedProcessing,
                 stops, nextEnumeration, upstream>>

(* The other actions use consumeExistingInputsForTimeslice: the payloads   *)
(* leave the cache with the record, the headers keep the slot busy.        *)
DispatchExisting(st, a) ==
  /\ a \in completed[st]
  /\ a.op \in {"Process", "ConsumeExisting"}
  /\ completed' = [completed EXCEPT ![st] = @ \ {a}]
  /\ payloadMoved' = payloadMoved \cup cache[a.slot]
  /\ mayEndStream(st, a)
  /\ UNCHANGED <<indexVars, cache, pruneOps, allowedProcessing,
                 stops, nextEnumeration, upstream>>

(* doRun() has handled the end of stream: clear(), and nothing is          *)
(* processed any more.  mPruneOps and mDirty keep what they hold.          *)
EndOfStream(st) ==
  /\ streamFree(st)
  /\ streaming' = "Idle"
  /\ variables' = markAsInvalid(variables, Slots)
  /\ cache' = [s \in Slots |-> {}]
  /\ payloadMoved' = {}
  /\ UNCHANGED <<dirty, oldestForChannel, oldestPossibleInput,
                 oldestPossibleOutput, pruneOps, completed, allowedProcessing,
                 stops, nextEnumeration, upstream>>
-------------------------------------------------------------------------------
Next ==
  \/ \E m \in Messages : RelayToMatchingSlot(m)
  \/ \E m \in Messages : RelayToFreeSlot(m)
  \/ \E m \in Messages : RelayInvalid(m)
  \/ \E c \in DataChannels, t \in 0 .. MaxTimeslice : DomainInfoUpdated(c, t)
  \/ PrunePending
  \/ Rescan
  \/ RescanPastOldest
  \/ DataProcessingExpired
  \/ StopStart
  \/ \E st \in Streams : ExpireOptional(st)
  \/ \E st \in Streams, i \in TimerInputs, t \in TimerValues : TimerIdle(st, i, t)
  \/ \E st \in Streams, i \in TimerInputs, t \in TimerValues : TimerFired(st, i, t)
  \/ \E st \in Streams : GetReadyToProcess(st)
  \/ \E st \in Streams : \E a \in completed[st] : DispatchConsume(st, a)
  \/ \E st \in Streams : \E a \in completed[st] : DispatchExisting(st, a)
  \/ \E st \in Streams : EndOfStream(st)

Spec == Init /\ [][Next]_vars

(* Run() loops for as long as the device is in the RUNNING state: every    *)
(* turn prunes, looks at the slots that changed and runs what it found.    *)
(* No turn leaves out prunePending, although it is not possible between    *)
(* getReadyToProcess and the last of its actions: hence strong fairness.   *)
LoopFairness ==
  /\ SF_vars(PrunePending)
  /\ \A st \in Streams : WF_vars(GetReadyToProcess(st))
  /\ \A st \in Streams : WF_vars(\E a \in completed[st] : DispatchConsume(st, a))
  /\ \A st \in Streams : WF_vars(\E a \in completed[st] : DispatchExisting(st, a))

FairSpec == Spec /\ LoopFairness
-------------------------------------------------------------------------------
(***************************************************************************)
(* What the relayer promises.                                              *)
(***************************************************************************)

(* The record of a slot never mixes timeslices: whatever order data,       *)
(* announcements, pruning and stop/start come in, what relay() leaves in a *)
(* bound slot belongs to the timeslice the slot is bound to.               *)
SlotHomogeneous ==
  \A s \in Slots : isValid(variables, s) => \A m \in cache[s] : m.ts = variables[s]

(* A timeslice is collected in one slot only, and in a slot of its lane,   *)
(* or its record could never be completed.                                 *)
UniqueSlot ==
  /\ \A s, r \in Slots :
       isValid(variables, s) /\ variables[s] = variables[r] => s = r
  /\ \A s \in Slots : isValid(variables, s) => s \in laneOf(variables[s])

(* The deferred pruning of setOldestPossibleInput / prunePending: a bound  *)
(* slot is never queued, and no data is left in a slot that is not bound   *)
(* unless that slot is queued.                                             *)
PruneOnlyStale ==
  \A s \in Slots : IF isValid(variables, s) THEN s \notin pruneOps
                                           ELSE cache[s] # {} => s \in pruneOps

(* The operations after which a record leaves its slot or is looked at     *)
(* again, as opposed to waiting for more input.                            *)
ReleaseOps == {"Consume", "ConsumeAndRescan", "Discard", "Retry"}

(* No lost wake-up: a slot is looked at only while it is dirty, so a       *)
(* record which the policy wants to release, now or at a later look, is    *)
(* either dirty or already among the actions to run.                       *)
NoLostWakeup ==
  \A s \in Slots :
    isValid(variables, s) /\ Policy[present(s)] \subseteq ReleaseOps =>
      \/ dirty[s]
      \/ \E st \in Streams : \E a \in completed[st] : a.slot = s

(* What this device tells the ones downstream is true: nothing it holds,   *)
(* and nothing it can still receive, is older than oldestPossibleOutput.   *)
OutputBound ==
  /\ oldestPossibleOutput <= oldestPossibleInput
  /\ \A s \in Slots : isValid(variables, s) => oldestPossibleOutput <= variables[s]

(* "DPL internal error - oldestPossibleOutput decreased" is never logged:  *)
(* updateOldestPossibleOutput only moves the watermark up within a run.    *)
OutputNeverDecreases ==
  [][stops' = stops => oldestPossibleOutput' >= oldestPossibleOutput]_vars

(* A bound slot is released only when its own action runs, at the end of   *)
(* the stream, or because the record is incomplete and older than anything *)
(* that can arrive ("Dropping incomplete ... as it can never be            *)
(* completed").                                                            *)
ReleasedBy(s) ==
  \/ \E st \in Streams : \E a \in completed[st] \ completed'[st] :
       a.slot = s /\ a.timeslice = variables[s]
  \/ streaming = "Streaming" /\ streaming' = "Idle"
  \/ variables[s] < oldestPossibleInput' /\ ~ (Policy[present(s)] \subseteq ReleaseOps)

OnlyHopelessDropped ==
  [][\A s \in Slots : isValid(variables, s) /\ variables'[s] # variables[s]
                        => ReleasedBy(s)]_vars

(* A record that its policy wants to release is dispatched, however many   *)
(* other messages, timers and announcements come in meanwhile, although    *)
(* the loop looks only at dirty slots; or it loses its data, when a timer  *)
(* took a slot whose pruning was still pending.                            *)
releasable(s) == Policy[present(s)] \subseteq ReleaseOps \ {"Retry"}

CompleteIsDispatched ==
  \A s \in Slots : \A t \in {m.ts : m \in Messages} \cup TimerValues :
    variables[s] = t /\ releasable(s)
      ~> variables[s] # t \/ streaming = "Idle" \/ ~releasable(s)

(* What is left in a slot that was invalidated is eventually given back.   *)
StaleIsPruned ==
  \A s \in Slots : s \in pruneOps ~> s \notin pruneOps
===============================================================================
