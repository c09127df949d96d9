------------------------- MODULE DataProcessingStats -------------------------
(***************************************************************************)
(* The metrics of a device.  updateStats() puts a command in a fixed array *)
(* without a lock; processCommandQueue() applies the commands to the       *)
(* metrics and empties the array, when a thread asks for it or when the    *)
(* array is full; flushChangedMetrics() publishes what has changed.  The   *)
(* service is global: with a thread pool the main thread and the streams   *)
(* all use the one instance.                                               *)
(*                                                                         *)
(* The accesses to the three atomic counters are steps of their own, but   *)
(* for two loads, and two stores, in a row; the application of the         *)
(* commands and the publication are one step each.  The formula of a       *)
(* published rate is left out.                                             *)
(***************************************************************************)
EXTENDS Integers, Sequences, FiniteSetsExt

CONSTANTS
  Threads,             (* users of the service                               *)
  MainThread,          (* the one that publishes                             *)
  MaxCmds,             (* MAX_CMDS                                           *)
  Metrics,             (* registered metrics                                 *)
  Rates,               (* the metrics of kind Rate                           *)
  Commands,            (* what may be asked of updateStats()                 *)
  sendInitialValue,    (* metric -> BOOLEAN                                  *)
  minPublishInterval,  (* metric -> ticks                                    *)
  maxRefreshLatency,   (* metric -> ticks, or -1: never                      *)
  MaxUpdates,          (* bound on the number of updates                     *)
  LastUpdateTime       (* no update begins after it                          *)

Operations == {"Set", "SetIfPositive", "CumulativeRate", "InstantaneousRate",
               "Add", "Sub", "Max", "Min"}

ASSUME StatsAssumption ==
  /\ MainThread \in Threads
  /\ MaxCmds \in Nat \ {0}
  /\ Rates \subseteq Metrics
  /\ Commands \subseteq [id : Metrics, op : Operations, value : Int]
  /\ \A c \in Commands : c.op \in {"CumulativeRate", "InstantaneousRate"} => c.id \in Rates
  /\ sendInitialValue \in [Metrics -> BOOLEAN]
  /\ minPublishInterval \in [Metrics -> Nat]
  /\ maxRefreshLatency \in [Metrics -> Int]
  /\ MaxUpdates \in Nat
  /\ LastUpdateTime \in Nat

Slots == 0 .. MaxCmds - 1

stamped(c, time) == [id |-> c.id, op |-> c.op, value |-> c.value, timestamp |-> time]

VARIABLES
  cmds,           (* slot -> command with its time stamp                     *)
  nextCmd,        (* insertion point of the next command                     *)
  insertedCmds,   (* commands committed to the queue                         *)
  pendingCmds,    (* commands in flight                                      *)
  metrics,        (* metric -> value                                         *)
  updated,        (* metric -> whether it has to be published                *)
  timestamp,      (* UpdateInfo::timestamp                                   *)
  lastPublished,  (* UpdateInfo::lastPublished                               *)
  lastPublishedMetrics,
  now,            (* the clock                                               *)
  pc,             (* thread -> where it is, "idle" outside of the service    *)
  local,          (* thread -> its command, the index it has reserved, the   *)
                  (* range it processes and where it returns to              *)
  updates,        (* number of calls of updateStats() that ended             *)
  counted         (* metric -> sum of what they have added and subtracted    *)

calls == <<updates, counted>>
counters == <<nextCmd, insertedCmds, pendingCmds>>
metricVars == <<metrics, updated, timestamp>>
publishedVars == <<lastPublished, lastPublishedMetrics>>
vars == <<cmds, counters, metricVars, publishedVars, now, pc, local, calls>>

NoCommand == [id |-> CHOOSE m \in Metrics : TRUE, op |-> "Nop", value |-> 0]

(* All metrics are registered before anything else happens. *)
Init ==
  /\ cmds = [i \in Slots |-> stamped(NoCommand, 0)]
  /\ nextCmd = 0 /\ insertedCmds = 0 /\ pendingCmds = 0
  /\ metrics = [m \in Metrics |-> 0]
  /\ updated = sendInitialValue
  /\ timestamp = [m \in Metrics |-> 1]
  /\ lastPublished = [m \in Metrics |-> 1]
  /\ lastPublishedMetrics = [m \in Metrics |-> 0]
  /\ now = 1
  /\ pc = [t \in Threads |-> "idle"]
  /\ local = [t \in Threads |-> [cmd |-> NoCommand, idx |-> 0, range |-> 0, caller |-> "idle"]]
  /\ updates = 0
  /\ counted = [m \in Metrics |-> 0]

(* What a command adds to a counter. *)
change(c) == IF c.op = "Add" THEN c.value ELSE IF c.op = "Sub" THEN - c.value ELSE 0

(* Thread t goes from one place to the next. *)
Step(t, from, to) == pc[t] = from /\ pc' = [pc EXCEPT ![t] = to]
-------------------------------------------------------------------------------
(***************************************************************************)
(* updateStats().  A command for a metric that is disabled, unregistered   *)
(* or out of range is turned down before anything has changed.             *)
(***************************************************************************)
Begin(t, c) ==
  /\ updates + Cardinality({u \in Threads : pc[u] # "idle"}) < MaxUpdates
  /\ now <= LastUpdateTime
  /\ Step(t, "idle", "reserve")
  /\ pendingCmds' = pendingCmds + 1
  /\ local' = [local EXCEPT ![t].cmd = c]
  /\ UNCHANGED <<cmds, nextCmd, insertedCmds, metricVars, publishedVars, now, calls>>

(* Mutant: the slot past the end is taken for one of the array. *)
whereToLate(i) == IF i <= MaxCmds THEN "save" ELSE "abort"

(* The thread that finds the array full flushes it.  One that comes after  *)
(* it stays in "spin": the condition of its loop is the size of the array. *)
whereTo(i) == IF i < MaxCmds THEN "save" ELSE IF i = MaxCmds THEN "abort" ELSE "spin"

fetchAdd(t) ==
  /\ local' = [local EXCEPT ![t].idx = nextCmd]
  /\ nextCmd' = nextCmd + 1
  /\ UNCHANGED <<cmds, insertedCmds, pendingCmds, metricVars, publishedVars, now, calls>>

Reserve(t) == Step(t, "reserve", whereTo(nextCmd)) /\ fetchAdd(t)

Abort(t) ==
  /\ Step(t, "abort", "drain")
  /\ pendingCmds' = pendingCmds - 1
  /\ UNCHANGED <<cmds, nextCmd, insertedCmds, metricVars, publishedVars, now, local, calls>>

(* Mutant: the queue is not processed before it is reset. *)
DrainedOnly(t) ==
  /\ pendingCmds <= 0
  /\ Step(t, "drain", "reset")
  /\ UNCHANGED <<cmds, counters, metricVars, publishedVars, now, local, calls>>

Drained(t) ==
  /\ pendingCmds <= 0
  /\ Step(t, "drain", "load")
  /\ local' = [local EXCEPT ![t].caller = "reset"]
  /\ UNCHANGED <<cmds, counters, metricVars, publishedVars, now, calls>>

Reset(t) ==
  /\ Step(t, "reset", "retry")
  /\ insertedCmds' = 0 /\ nextCmd' = 0
  /\ UNCHANGED <<cmds, pendingCmds, metricVars, publishedVars, now, local, calls>>

Retry(t) ==
  /\ Step(t, "retry", "reserveAgain")
  /\ pendingCmds' = pendingCmds + 1
  /\ UNCHANGED <<cmds, nextCmd, insertedCmds, metricVars, publishedVars, now, local, calls>>

ReserveAgain(t) == Step(t, "reserveAgain", "save") /\ fetchAdd(t)

(* Past the end of the array the program is undefined: it stops here. *)
Save(t) ==
  /\ local[t].idx \in Slots
  /\ Step(t, "save", "insert")
  /\ cmds' = [cmds EXCEPT ![local[t].idx] = stamped(local[t].cmd, now)]
  /\ UNCHANGED <<counters, metricVars, publishedVars, now, local, calls>>

Insert(t) ==
  /\ Step(t, "insert", "leave")
  /\ insertedCmds' = insertedCmds + 1
  /\ UNCHANGED <<cmds, nextCmd, pendingCmds, metricVars, publishedVars, now, local, calls>>

Leave(t) ==
  /\ Step(t, "leave", "idle")
  /\ pendingCmds' = pendingCmds - 1
  /\ updates' = updates + 1
  /\ counted' = [counted EXCEPT ![local[t].cmd.id] = @ + change(local[t].cmd)]
  /\ UNCHANGED <<cmds, nextCmd, insertedCmds, metricVars, publishedVars, now, local>>
-------------------------------------------------------------------------------
(***************************************************************************)
(* processCommandQueue().                                                  *)
(***************************************************************************)
StartProcessing(t) ==
  /\ Step(t, "idle", "load")
  /\ local' = [local EXCEPT ![t].caller = "idle"]
  /\ UNCHANGED <<cmds, counters, metricVars, publishedVars, now, calls>>

Load(t) ==
  /\ Step(t, "load", IF insertedCmds = 0 THEN local[t].caller ELSE "apply")
  /\ local' = [local EXCEPT ![t].range = insertedCmds]
  /\ UNCHANGED <<cmds, counters, metricVars, publishedVars, now, calls>>

(* Whether a command is pushed, and what it makes of a metric. *)
pushes(c, value, stamp) ==
  CASE c.op = "Set" -> c.value # value /\ c.timestamp >= stamp
    [] c.op \in {"Add", "Sub"} -> c.value # 0
    [] c.op = "Max" -> c.value > value
    [] c.op = "Min" -> c.value < value
    [] c.op = "SetIfPositive" -> c.value > 0 /\ c.timestamp >= stamp
    [] c.op \in {"InstantaneousRate", "CumulativeRate"} -> TRUE
    [] OTHER -> FALSE

newValue(c, value) ==
  CASE c.op \in {"Add", "CumulativeRate"} -> value + c.value
    [] c.op = "Sub" -> value - c.value
    [] OTHER -> c.value

newStamp(c, stamp) ==
  IF c.op \in {"InstantaneousRate", "CumulativeRate"} /\ stamp # 0 THEN stamp ELSE c.timestamp

apply(state, c) ==
  IF ~ pushes(c, state.metrics[c.id], state.timestamp[c.id]) THEN state
  ELSE [metrics |-> [state.metrics EXCEPT ![c.id] = newValue(c, @)],
        updated |-> [state.updated EXCEPT ![c.id] = TRUE],
        timestamp |-> [state.timestamp EXCEPT ![c.id] = newStamp(c, @)]]

(* The commands of a sequence, applied one after the other. *)
applyAll(sequence) ==
  LET after[n \in 0 .. Len(sequence)] ==
        IF n = 0 THEN [metrics |-> metrics, updated |-> updated, timestamp |-> timestamp]
        ELSE apply(after[n - 1], sequence[n])
  IN  after[Len(sequence)]

(* The loop takes the slots as they come, and not in the order that was    *)
(* computed from the time stamps.                                          *)
inserted(n) == [i \in 1 .. n |-> cmds[i - 1]]

Apply(t) ==
  /\ local[t].range <= MaxCmds
  /\ Step(t, "apply", "check")
  /\ LET result == applyAll(inserted(local[t].range))
     IN  /\ metrics' = result.metrics
         /\ updated' = result.updated
         /\ timestamp' = result.timestamp
  /\ UNCHANGED <<cmds, counters, publishedVars, now, local, calls>>

EmptyNext(t) ==
  /\ Step(t, "check", "empty")
  /\ nextCmd' = 0
  /\ UNCHANGED <<cmds, insertedCmds, pendingCmds, metricVars, publishedVars, now, local, calls>>

EmptyInserted(t) ==
  /\ Step(t, "empty", local[t].caller)
  /\ insertedCmds' = 0
  /\ UNCHANGED <<cmds, nextCmd, pendingCmds, metricVars, publishedVars, now, local, calls>>
-------------------------------------------------------------------------------
(***************************************************************************)
(* flushChangedMetrics(), on the main thread only.                         *)
(***************************************************************************)
refreshed(m) ==
  ~ updated[m] /\ maxRefreshLatency[m] >= 0 /\ now - timestamp[m] > maxRefreshLatency[m]

published(m) ==
  /\ updated[m] \/ refreshed(m)
  /\ now - lastPublished[m] >= minPublishInterval[m]

(* Mutant: a metric that is too young to be published is forgotten. *)
stillUpdatedNever(m) == FALSE

stillUpdated(m) == (updated[m] \/ refreshed(m)) /\ ~ published(m)

flushChangedMetrics ==
  /\ pc[MainThread] = "idle"
  /\ timestamp' = [m \in Metrics |->
       IF refreshed(m) \/ (published(m) /\ m \in Rates) THEN now ELSE timestamp[m]]
  /\ updated' = [m \in Metrics |-> stillUpdated(m)]
  /\ lastPublished' = [m \in Metrics |-> IF published(m) THEN now ELSE lastPublished[m]]
  /\ lastPublishedMetrics' =
       [m \in Metrics |-> IF published(m) THEN metrics[m] ELSE lastPublishedMetrics[m]]
  /\ UNCHANGED <<cmds, counters, metrics, now, pc, local, calls>>

(* Time has a meaning as long as updates come or a metric is too young.    *)
Tick ==
  /\ \/ now < LastUpdateTime
     \/ \E m \in Metrics : stillUpdated(m)
  /\ now' = now + 1
  /\ UNCHANGED <<cmds, counters, metricVars, publishedVars, pc, local, calls>>

updateStats(t) ==
  \/ \E c \in Commands : Begin(t, c)
  \/ Reserve(t) \/ Abort(t) \/ Drained(t) \/ Reset(t) \/ Retry(t) \/ ReserveAgain(t)
  \/ Save(t) \/ Insert(t) \/ Leave(t)

processCommandQueue(t) ==
  StartProcessing(t) \/ Load(t) \/ Apply(t) \/ EmptyNext(t) \/ EmptyInserted(t)

Next ==
  \/ \E t \in Threads : updateStats(t) \/ processCommandQueue(t)
  \/ flushChangedMetrics
  \/ Tick

Spec == Init /\ [][Next]_vars

(* A thread inside the service goes on, the loop of the main thread        *)
(* processes the queue and publishes again and again, and time passes.     *)
FairSpec ==
  /\ Spec
  /\ \A t \in Threads :
       WF_pc(pc[t] # "idle" /\ (updateStats(t) \/ processCommandQueue(t)))
  /\ SF_pc(StartProcessing(MainThread))
  /\ SF_publishedVars(flushChangedMetrics)
  /\ WF_now(Tick)
-------------------------------------------------------------------------------
Quiet == \A t \in Threads : pc[t] = "idle"

Places == {"idle", "reserve", "abort", "drain", "spin", "reset", "retry", "reserveAgain",
           "save", "insert", "leave", "load", "apply", "check", "empty"}

(* The overflow of the array: a command is saved inside of it ("assert(idx *)
(* < cmds.size())"), never over one that waits to be processed, and no     *)
(* thread enters the loop that waits for a flush, which has no end.        *)
OverflowIsHandled ==
  \A t \in Threads :
    /\ pc[t] = "save" => insertedCmds <= local[t].idx /\ local[t].idx < MaxCmds
    /\ pc[t] # "spin"

(* The metrics that are only counted up and down. *)
Counted == {m \in Metrics : \A c \in Commands : c.id = m => c.op \in {"Add", "Sub"}}

queued(m) ==
  SumFunctionOnSet([i \in Slots |-> IF cmds[i].id = m THEN change(cmds[i]) ELSE 0],
                   0 .. insertedCmds - 1)

(* No update is lost and none counts twice, also when the array overflows: *)
(* a counter and what is queued for it make up all updates so far.         *)
EveryUpdateCounts ==
  Quiet => \A m \in Counted :
    metrics[m] + queued(m) = counted[m]

(* In the end the last value of every metric has been published. *)
LastValuePublished ==
  <>[](insertedCmds = 0 /\ \A m \in Metrics : lastPublishedMetrics[m] = metrics[m])
===============================================================================
