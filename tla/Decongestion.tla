----------------------------- MODULE Decongestion -----------------------------
(***************************************************************************)
(* The decongestion service of a DPL device, composed with its DataRelayer *)
(* and its asynchronous queue: what the device learns about the oldest     *)
(* timeslice on its input channels is turned into what it announces to the *)
(* devices downstream, from tasks that the main loop runs after pruning.   *)
(*                                                                         *)
(* The device has neither timers nor optional inputs nor a thread pool,    *)
(* and it forwards its inputs.  Every task has the same id and a negative  *)
(* debounce value, so run() calls all those whose timeslice is past.       *)
(***************************************************************************)
EXTENDS DataRelayer

CONSTANTS
  PolicyName,  (* the completion policy of the device                        *)
  FirstInput   (* the input the policy looks at first                        *)

All == "consumeWhenAll"
Ordered == "consumeWhenAllOrdered"
PastOldest == "consumeWhenPastOldestPossibleTimeframe"

(* What CompletionPolicyHelpers may answer, given the inputs present. *)
answers(p) ==
  CASE PolicyName = All        -> IF p = Inputs THEN {"Consume"} ELSE {"Wait"}
    [] PolicyName = Ordered    -> IF p = Inputs THEN {"Retry", "ConsumeAndRescan"}
                               ELSE IF FirstInput \in p THEN {"Retry", "Wait"}
                               ELSE {"Wait"}
    [] PolicyName = PastOldest -> IF p = {} THEN {"Retry"} ELSE {"Retry", "Consume"}

ASSUME DecongestionAssumption ==
  /\ PolicyName \in {All, Ordered, PastOldest}
  /\ FirstInput \in Inputs
  /\ Policy = [p \in SUBSET Inputs |-> answers(p)]
  /\ TimerInputs = {} /\ OptionalInputs = {}
  /\ ~ ThreadPool

VARIABLES
  tasks,          (* AsyncQueue: the tasks posted and not yet run            *)
  lastTimeslice,  (* DecongestionService::lastTimeslice                      *)
  announced,      (* ForwardChannelState::oldestForChannel                   *)
  nextTimeslice,  (* DecongestionService::nextTimeslice                      *)
  policyActive,   (* ordered... or consumeWhenPastOldest...Active            *)
  lastConsumed,   (* history: the last timeslice consumed in this run, or -1 *)
  missed          (* history: the greatest watermark for which the task of   *)
                  (* the policy was not posted, or -1                        *)

historyVars == <<lastConsumed, missed>>
serviceVars == <<tasks, lastTimeslice, announced, nextTimeslice, policyActive, historyVars>>
allVars == <<vars, serviceVars>>

Tasks ==
  [timeslice : Nat, output : Nat,
   callback : {"decongestion", "ordered", "pastOldest", "late"}]

ServiceTypeOK ==
  /\ tasks \subseteq Tasks
  /\ lastTimeslice \in Nat
  /\ announced \in Nat
  /\ nextTimeslice \in Nat
  /\ policyActive \in BOOLEAN
  /\ lastConsumed \in Nat \cup {-1}
  /\ missed \in Nat \cup {-1}

DecongestionInit ==
  /\ Init
  /\ tasks = {}
  /\ lastTimeslice = 0
  /\ announced = 0
  /\ nextTimeslice = 0
  /\ policyActive = FALSE
  /\ lastConsumed = -1
  /\ missed = -1
-------------------------------------------------------------------------------
task(t, out, callback) == [timeslice |-> t, output |-> out, callback |-> callback]

(* forwardInputs sends the messages of the slots on and leaves a task that *)
(* announces the output watermark of this moment.                          *)
forwardInputs(slots) ==
  IF \A s \in slots : cache[s] = {} THEN {}
    ELSE {task(oldestPossibleOutput, oldestPossibleOutput, "late")}

Relay(m) ==
  /\ RelayToMatchingSlot(m) \/ RelayToFreeSlot(m) \/ RelayInvalid(m)
  /\ tasks' = tasks \cup forwardInputs({s \in Slots : variables'[s] # variables[s]})
  /\ UNCHANGED <<lastTimeslice, announced, nextTimeslice, policyActive, historyVars>>

(* Mutant: the tasks of the policies are forgotten. *)
postsNoPolicy(t, out) == {k \in {task(t, out, "decongestion")} : out > lastTimeslice}

(* Mutant: nothing is posted unless the output watermark moved. *)
postsWhenNew(t, out) ==
  {k \in {task(t, out, "pastOldest"), task(t, out, "decongestion")} :
     /\ k.callback = "pastOldest" => policyActive /\ PolicyName = PastOldest
     /\ out > lastTimeslice}

(* What domainInfoUpdated posts when t was announced and the device's own  *)
(* output watermark is now out.                                            *)
posts(t, out) ==
  {k \in {task(t, out, "pastOldest")} : policyActive /\ PolicyName = PastOldest}
    \cup {k \in {task(t, out, "decongestion")} : out > lastTimeslice}
    \cup {k \in {task(out, out, "ordered")} :
            out > lastTimeslice /\ policyActive /\ PolicyName = Ordered}

(* The watermarks, out of the output and in of the inputs, for which the   *)
(* task of the policy is not posted since the policy was not called yet.   *)
unposted(in, out) ==
  IF policyActive THEN {}
    ELSE {v \in {out} : PolicyName = Ordered /\ out > lastTimeslice}
           \cup {v \in {in} : PolicyName = PastOldest}

Announcement(c, t) ==
  /\ DomainInfoUpdated(c, t)
  /\ tasks' = tasks \cup posts(t, oldestPossibleOutput')
  /\ missed' = Max({missed} \cup unposted(oldestPossibleInput', oldestPossibleOutput'))
  /\ UNCHANGED <<lastTimeslice, announced, nextTimeslice, policyActive, lastConsumed>>

(* onDrop forwards what is pruned. *)
Prune ==
  /\ PrunePending
  /\ tasks' = tasks \cup forwardInputs(pruneOps)
  /\ UNCHANGED <<lastTimeslice, announced, nextTimeslice, policyActive, historyVars>>

(* Mutant: the queue is run without pruning first. *)
anytime == TRUE

(* The main loop prunes right before it runs the queue. *)
hasPruned == pruneOps = {}

(* Mutant: the timeslice of a task is ignored. *)
everyTask == tasks

dueTasks == {k \in tasks : k.timeslice <= oldestPossibleOutput}

due(callback) == {k \in dueTasks : k.callback = callback}

(* run(): the callbacks only move values up, so their order does not       *)
(* matter.  decongestionCallbackPastOldest recomputes the watermark.       *)
RunTasks ==
  LET out  == IF due("pastOldest") = {} THEN oldestPossibleOutput
              ELSE minOverSlots(variables, oldestPossibleInput)
      news == {k.output : k \in due("decongestion")}
                \cup {v \in {out} : due("pastOldest") # {}}
      late == {v \in {k.output : k \in due("late")} : v > lastTimeslice}
  IN  /\ mainThreadFree
      /\ hasPruned
      /\ dueTasks # {}
      /\ tasks' = tasks \ dueTasks
      /\ lastTimeslice' = Max({lastTimeslice} \cup news)
      /\ announced' = Max({announced} \cup news \cup late)
      /\ nextTimeslice' = Max({nextTimeslice} \cup {k.output : k \in due("ordered")})
      /\ oldestPossibleOutput' = out
      /\ dirty' = IF nextTimeslice' # nextTimeslice \/ due("pastOldest") # {}
                    THEN rescan ELSE dirty
      /\ UNCHANGED <<variables, oldestForChannel, oldestPossibleInput,
                     relayerVars, policyActive, historyVars>>
-------------------------------------------------------------------------------
(***************************************************************************)
(* The completion policies.  All the messages of a slot have the same      *)
(* timeslice.                                                              *)
(***************************************************************************)
startTime(s) == (CHOOSE m \in cache[s] : TRUE).ts

(* Mutant: the timeslice of a complete record is not looked at. *)
unorderedOp(s, n) == IF present(s) = Inputs THEN "ConsumeAndRescan" ELSE "Wait"

(* consumeWhenAllOrdered, when n is the next timeslice to consume. *)
orderedOp(s, n) ==
  IF FirstInput \in present(s) /\ startTime(s) \notin {0, n} THEN "Retry"
  ELSE IF present(s) = Inputs THEN "ConsumeAndRescan" ELSE "Wait"

nextAfter(s, n) ==
  IF orderedOp(s, n) = "ConsumeAndRescan" THEN startTime(s) + 1
  ELSE IF FirstInput \in present(s) /\ startTime(s) = 0 THEN 0
  ELSE n

(* The state of the service once the slots s, s + 1, ... have been visited *)
(* (from the last one down).                                               *)
orderedScan[s \in 0 .. NumSlots] ==
  IF s = NumSlots THEN [next |-> nextTimeslice, rescanned |-> FALSE]
  ELSE LET after == orderedScan[s + 1] IN
       IF ~ (dirty[s] \/ after.rescanned) THEN after
       ELSE [next |-> nextAfter(s, after.next),
             rescanned |-> after.rescanned
                             \/ orderedOp(s, after.next) = "ConsumeAndRescan"]

pastOldestOp(s) ==
  IF cache[s] = {} \/ startTime(s) >= oldestPossibleInput THEN "Retry" ELSE "Consume"

policyOps ==
  [s \in Slots |->
     CASE PolicyName = Ordered    -> orderedOp(s, orderedScan[s + 1].next)
       [] PolicyName = PastOldest -> pastOldestOp(s)
       [] OTHER -> IF present(s) = Inputs THEN "Consume" ELSE "Wait"]

GetReady(st) ==
  /\ readyWith(st, policyOps)
  /\ nextTimeslice' = IF PolicyName = Ordered THEN orderedScan[0].next ELSE nextTimeslice
  /\ policyActive' = (policyActive \/ \E s \in Slots : dirty[s])
  /\ UNCHANGED <<tasks, lastTimeslice, announced, historyVars>>

(* The actions run in the order in which the slots were visited. *)
Dispatch(st, a) ==
  /\ DispatchConsume(st, a)
  /\ \A b \in completed[st] : b.slot <= a.slot
  /\ tasks' = tasks \cup forwardInputs({a.slot})
  /\ lastConsumed' = a.timeslice
  /\ UNCHANGED <<lastTimeslice, announced, nextTimeslice, policyActive, missed>>

(* Nothing of the service changes. *)
Other ==
  /\ \/ Rescan
     \/ DataProcessingExpired
     \/ \E st \in Streams : EndOfStream(st)
  /\ UNCHANGED serviceVars

(* A stop clears the queue but not its inbox; the flag of the policy stays *)
(* set.  The next start binds the channels anew.                           *)
StopAndStart ==
  /\ StopStart
  /\ tasks' \in SUBSET tasks
  /\ lastTimeslice' = 0
  /\ announced' = 0
  /\ nextTimeslice' = 0
  /\ lastConsumed' = -1
  /\ UNCHANGED <<policyActive, missed>>

DecongestionNext ==
  \/ \E m \in Messages : Relay(m)
  \/ \E c \in DataChannels, t \in 0 .. MaxTimeslice : Announcement(c, t)
  \/ Prune
  \/ RunTasks
  \/ \E st \in Streams : GetReady(st)
  \/ \E st \in Streams : \E a \in completed[st] : Dispatch(st, a)
  \/ Other
  \/ StopAndStart

DecongestionSpec == DecongestionInit /\ [][DecongestionNext]_allVars

(* Run() keeps looping: every turn prunes, runs the queue, looks at the    *)
(* slots and dispatches what it found.                                     *)
DecongestionFairSpec ==
  /\ DecongestionSpec
  /\ WF_allVars(Prune)
  /\ WF_allVars(RunTasks)
  /\ \A st \in Streams : WF_allVars(GetReady(st))
  /\ \A st \in Streams : WF_allVars(\E a \in completed[st] : Dispatch(st, a))
-------------------------------------------------------------------------------
(* The timeslices of what is in the cache, records in the making as well   *)
(* as dropped data which is still to be pruned and forwarded.              *)
heldTimeslices == {m.ts : m \in UNION {cache[s] : s \in Slots}}

W == INSTANCE Watermark WITH
       Upstream <- DataChannels,
       promised <- [c \in DataChannels |-> oldestForChannel[c]],
       held <- heldTimeslices

(* The device is a correct link of the chain: if what it is told upstream  *)
(* is true, then so is what decongestionCallback and the like announce     *)
(* downstream, at every moment of every run.                               *)
MeetsContract == W!Contract

(* What the device has announced is true of what it still holds, and of    *)
(* what a channel can still deliver.                                       *)
AnnouncedIsTrue ==
  /\ \A t \in heldTimeslices : announced <= t
  /\ \A c \in DataChannels : announced <= oldestForChannel[c]

(* "We are trying to send an oldest possible timeslice that is older than  *)
(* the last one we sent" is never logged, and the tasks which survive a    *)
(* stop do not make the next run announce too much.                        *)
NeverAhead == lastTimeslice <= oldestPossibleOutput /\ lastTimeslice <= announced

(* consumeWhenAllOrdered "ensures that records are processed with          *)
(* incremental timeSlice": within a run every record that is dispatched is *)
(* newer than the ones before.                                             *)
DispatchInOrder ==
  [][stops' = stops /\ lastConsumed' # lastConsumed => lastConsumed' > lastConsumed]_allVars

(* Once the device has announced that t is the oldest timeslice it can     *)
(* still emit, a complete record of t is dispatched, since nothing older   *)
(* can precede it; unless t was announced before the ordered policy was    *)
(* called for the first time, when nextTimeslice is not moved with it.     *)
OldestIsDispatched ==
  \A s \in Slots, n \in 0 .. MaxStops : \A t \in {m.ts : m \in Messages} :
    variables[s] = t /\ present(s) = Inputs /\ lastTimeslice = t /\ t > missed /\ stops = n
      ~> variables[s] # t \/ streaming = "Idle" \/ stops # n

(* A stop under way, or a slot that is bound although its data was refused *)
(* during an earlier one, holds the watermark back.                        *)
heldBack ==
  \/ streaming = "Idle"
  \/ \E s \in Slots : isValid(variables, s) /\ cache[s] = {}

(* decongestionCallbackPastOldest forwards the up-to-date watermark: what  *)
(* the input channels announce reaches the devices downstream once the     *)
(* records held back have been consumed; unless it was announced before    *)
(* the policy was called for the first time, when that task is not posted. *)
AnnouncementPropagates ==
  \A t \in 1 .. MaxTimeslice :
    oldestPossibleInput = t /\ t > missed
      ~> lastTimeslice >= t \/ oldestPossibleInput < t \/ heldBack
===============================================================================
