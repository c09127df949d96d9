---------------------- MODULE DataProcessingStatsProofs ----------------------
(***************************************************************************)
(* As long as one thread uses the service, every command finds a free slot *)
(* of the array, nobody waits for a flush and every update counts once,    *)
(* whatever the size of the array, the metrics and the commands.           *)
(***************************************************************************)
EXTENDS DataProcessingStats, Induction

Full == nextCmd = MaxCmds + 1 /\ insertedCmds = MaxCmds
Level == nextCmd = insertedCmds

(* What the counters are at every place of the only thread. *)
CountersAt(place, l) ==
  /\ place \in {"idle", "drain", "load", "apply", "check", "empty", "reset", "retry"} => pendingCmds = 0
  /\ place \in {"reserve", "abort", "reserveAgain", "save", "insert", "leave"} => pendingCmds = 1
  /\ place \in {"idle", "reserve", "leave"} => Level
  /\ place \in {"abort", "drain"} => Full
  /\ place \in {"load", "apply", "check"} => IF l.caller = "reset" THEN Full ELSE Level
  /\ place \in {"apply", "check"} => l.range = insertedCmds
  /\ place = "empty" => nextCmd = 0
  /\ place \in {"retry", "reserveAgain"} => nextCmd = 0 /\ insertedCmds = 0
  /\ place \in {"save", "insert"} =>
       /\ l.idx = insertedCmds
       /\ insertedCmds < MaxCmds
       /\ nextCmd = insertedCmds + 1

Locals == [cmd : Commands \cup {NoCommand}, idx : Nat, range : Nat, caller : {"idle", "reset"}]

OneThreadInv ==
  /\ nextCmd \in Nat
  /\ insertedCmds \in 0 .. MaxCmds
  /\ pendingCmds \in Nat
  /\ pc \in [Threads -> Places \ {"spin"}]
  /\ local \in [Threads -> Locals]
  /\ CountersAt(pc[MainThread], local[MainThread])

(* Registration leaves an empty queue: the constructor and registerMetric(). *)
LEMMA OneThreadInit ==
  ASSUME Threads = {MainThread}, Init
  PROVE  OneThreadInv
BY StatsAssumption DEF Init, OneThreadInv, CountersAt, Level, Full, Locals, Places

(* No step of updateStats(), processCommandQueue() or                      *)
(* flushChangedMetrics() leaves the invariant.                             *)
LEMMA OneThreadStep ==
  ASSUME Threads = {MainThread}, OneThreadInv, [Next]_vars
  PROVE  OneThreadInv'
<1> DEFINE m == MainThread
<1> USE StatsAssumption DEF OneThreadInv, CountersAt, Level, Full, Locals, Places
<1>1. ASSUME NEW c \in Commands, Begin(m, c) PROVE OneThreadInv'
  BY <1>1 DEF Begin, Step
<1>2. CASE Reserve(m)
  BY <1>2 DEF Reserve, Step, fetchAdd, whereTo
<1>3. CASE Abort(m)
  BY <1>3 DEF Abort, Step
<1>4. CASE Drained(m)
  BY <1>4 DEF Drained, Step, counters
<1>5. CASE Reset(m)
  BY <1>5 DEF Reset, Step
<1>6. CASE Retry(m)
  BY <1>6 DEF Retry, Step
<1>7. CASE ReserveAgain(m)
  BY <1>7 DEF ReserveAgain, Step, fetchAdd
<1>8. CASE Save(m)
  BY <1>8 DEF Save, Step, counters
<1>9. CASE Insert(m)
  BY <1>9 DEF Insert, Step
<1>10. CASE Leave(m)
  BY <1>10 DEF Leave, Step
<1>11. CASE StartProcessing(m)
  BY <1>11 DEF StartProcessing, Step, counters
<1>12. CASE Load(m)
  BY <1>12 DEF Load, Step, counters
<1>13. CASE Apply(m)
  BY <1>13 DEF Apply, Step, counters
<1>14. CASE EmptyNext(m)
  BY <1>14 DEF EmptyNext, Step
<1>15. CASE EmptyInserted(m)
  BY <1>15 DEF EmptyInserted, Step
<1>16. CASE UNCHANGED <<counters, pc, local>>
  BY <1>16 DEF counters
<1> QED
  BY <1>1, <1>2, <1>3, <1>4, <1>5, <1>6, <1>7, <1>8, <1>9, <1>10, <1>11, <1>12, <1>13,
     <1>14, <1>15, <1>16
  DEF Next, updateStats, processCommandQueue, flushChangedMetrics, Tick, vars, counters

(* A free slot inside the array follows from the invariant. *)
LEMMA OneThreadFits ==
  ASSUME Threads = {MainThread}, OneThreadInv
  PROVE  OverflowIsHandled
BY StatsAssumption DEF OneThreadInv, CountersAt, OverflowIsHandled, Locals

(* In a device without a thread pool updateStats() saves its command in a  *)
(* free slot of the array, through any number of overflows.                *)
THEOREM OneThreadIsSafe ==
  ASSUME Threads = {MainThread}
  PROVE  Spec => []OverflowIsHandled
<1>1. Init => OneThreadInv
  BY OneThreadInit
<1>2. OneThreadInv /\ [Next]_vars => OneThreadInv'
  BY OneThreadStep
<1>3. OneThreadInv => OverflowIsHandled
  BY OneThreadFits
<1> QED
  BY <1>1, <1>2, <1>3, PTL DEF Spec
-------------------------------------------------------------------------------
(***************************************************************************)
(* What the queue holds is counted.                                        *)
(***************************************************************************)
Stamped == [id : Metrics, op : Operations, value : Int, timestamp : Nat]

(* The commands that are in flight or committed. *)
Asked(c) == c \in Stamped /\ \E d \in Commands : c.id = d.id /\ c.op = d.op

(* The share of one slot in a counter. *)
share(m) == [i \in Slots |-> IF cmds[i].id = m THEN change(cmds[i]) ELSE 0]

StatsTypes ==
  /\ \A i \in Slots : cmds[i].value \in Int
  /\ cmds = [i \in Slots |-> cmds[i]]
  /\ \A i \in 0 .. insertedCmds - 1 : Asked(cmds[i])
  /\ metrics \in [Metrics -> Int]
  /\ updated \in [Metrics -> BOOLEAN]
  /\ timestamp \in [Metrics -> Nat]
  /\ now \in Nat
  /\ counted \in [Metrics -> Int]

(* What the only thread has in its hands. *)
InHand(place, l) ==
  /\ place \in Places \ {"idle", "load", "apply", "check", "empty"} => l.cmd \in Commands
  /\ place \in {"load", "apply", "check", "empty"} /\ l.caller = "reset" => l.cmd \in Commands
  /\ place = "insert" => /\ cmds[l.idx].timestamp \in Nat
                         /\ cmds[l.idx] = stamped(l.cmd, cmds[l.idx].timestamp)

(* The metric and what is queued for it make up the updates, but for the   *)
(* one that is inserted and not yet counted; what is applied and not yet   *)
(* taken out of the queue is in the metric.                                *)
Balance(place, l) ==
  \A m \in Counted :
    metrics[m] + (IF place \in {"check", "empty", "reset"} THEN 0 ELSE queued(m))
      = counted[m] + (IF place = "leave" /\ l.cmd.id = m THEN change(l.cmd) ELSE 0)

CountInv ==
  /\ StatsTypes
  /\ InHand(pc[MainThread], local[MainThread])
  /\ Balance(pc[MainThread], local[MainThread])

States == [metrics : [Metrics -> Int], updated : [Metrics -> BOOLEAN], timestamp : [Metrics -> Nat]]

(* What one command does to the metrics, and to a counter. *)
LEMMA ApplyOne ==
  ASSUME NEW st \in States, NEW c \in Stamped
  PROVE  /\ apply(st, c) \in States
         /\ \A m \in Metrics :
              c.id # m \/ c.op \in {"Add", "Sub"} =>
                apply(st, c).metrics[m] = st.metrics[m] + (IF c.id = m THEN change(c) ELSE 0)
<1>1. /\ c.id \in Metrics /\ c.value \in Int /\ c.timestamp \in Nat
      /\ st.metrics \in [Metrics -> Int] /\ st.updated \in [Metrics -> BOOLEAN]
      /\ st.timestamp \in [Metrics -> Nat]
  BY DEF States, Stamped
<1>2. newValue(c, st.metrics[c.id]) \in Int /\ newStamp(c, st.timestamp[c.id]) \in Nat
  BY <1>1 DEF newValue, newStamp
<1>3. CASE ~ pushes(c, st.metrics[c.id], st.timestamp[c.id])
  <2>1. apply(st, c) = st
    BY <1>3 DEF apply
  <2>2. c.op \in {"Add", "Sub"} => change(c) = 0
    BY <1>1, <1>3 DEF pushes, change
  <2> QED
    BY <1>1, <2>1, <2>2
<1>4. CASE pushes(c, st.metrics[c.id], st.timestamp[c.id])
  <2> DEFINE M == [st.metrics EXCEPT ![c.id] = newValue(c, @)]
             U == [st.updated EXCEPT ![c.id] = TRUE]
             T == [st.timestamp EXCEPT ![c.id] = newStamp(c, @)]
  <2>1. apply(st, c) = [metrics |-> M, updated |-> U, timestamp |-> T]
    BY <1>4 DEF apply
  <2>2. M \in [Metrics -> Int] /\ U \in [Metrics -> BOOLEAN] /\ T \in [Metrics -> Nat]
    BY <1>1, <1>2
  <2>3. c.op \in {"Add", "Sub"} => M[c.id] = st.metrics[c.id] + change(c)
    BY <1>1 DEF newValue, change
  <2>4. \A m \in Metrics : m # c.id => M[m] = st.metrics[m]
    BY <1>1
  <2> HIDE DEF M, U, T
  <2>5. apply(st, c) \in States /\ apply(st, c).metrics = M
    BY <2>1, <2>2 DEF States
  <2> QED
    BY <1>1, <2>3, <2>4, <2>5
<1> QED
  BY <1>3, <1>4

Applied(g, first, sequence) ==
  g = [n \in 0 .. Len(sequence) |-> IF n = 0 THEN first ELSE apply(g[n - 1], sequence[n])]

(* The commands of a sequence, applied one after the other. *)
LEMMA ApplyAll ==
  ASSUME NEW sequence \in Seq(Stamped), StatsTypes
  PROVE  \E g \in [0 .. Len(sequence) -> States] :
            /\ g[0].metrics = metrics
            /\ \A n \in 1 .. Len(sequence) : g[n] = apply(g[n - 1], sequence[n])
            /\ applyAll(sequence) = g[Len(sequence)]
<1> DEFINE N == Len(sequence)
           first == [metrics |-> metrics, updated |-> updated, timestamp |-> timestamp]
           G == [n \in 1 .. N |-> [st \in States |-> apply(st, sequence[n])]]
           after == CHOOSE g : Applied(g, first, sequence)
<1>1. N \in Nat /\ first \in States /\ \A n \in 1 .. N : sequence[n] \in Stamped
  BY DEF States, StatsTypes
<1>2. \A st \in States, n \in 1 .. N : apply(st, sequence[n]) \in States
  BY <1>1, ApplyOne
<1>3. G \in [1 .. N -> [States -> States]]
  BY <1>2
<1>4. \A st \in States, n \in 1 .. N : G[n][st] = apply(st, sequence[n])
  OBVIOUS
<1> HIDE DEF G, N, first
<1>5. PICK f : Iterates(f, N, States, first, G)
  BY <1>1, <1>3, Recursion
<1>6. Applied(f, first, sequence)
  <2>1. \A n \in 1 .. N : n - 1 \in 0 .. N
    BY <1>1
  <2>2. \A n \in 1 .. N : f[n - 1] \in States
    BY <1>5, <2>1 DEF Iterates
  <2>3. \A n \in 1 .. N : f[n] = apply(f[n - 1], sequence[n])
    BY <1>4, <1>5, <2>2 DEF Iterates
  <2>4. \A n \in 0 .. N : f[n] = IF n = 0 THEN first ELSE apply(f[n - 1], sequence[n])
    BY <1>1, <1>5, <2>3 DEF Iterates
  <2> QED
    BY <1>5, <2>4 DEF Applied, Iterates, N
<1>7. Applied(after, first, sequence)
  BY <1>6
<1>8. applyAll(sequence) = after[N]
  BY DEF applyAll, Applied, first, N
<1> HIDE DEF after
<1>9. /\ DOMAIN after = 0 .. N /\ after = [n \in 0 .. N |-> after[n]]
      /\ after[0] = first /\ \A n \in 1 .. N : after[n] = apply(after[n - 1], sequence[n])
  BY <1>1, <1>7 DEF Applied, N
<1>10. \A n \in 0 .. N : after[n] \in States
  <2> DEFINE W == {n \in 0 .. N : after[n] \in States}
  <2>1. 0 \in W
    BY <1>1, <1>9
  <2>2. ASSUME NEW n \in 0 .. N - 1, n \in W PROVE n + 1 \in W
    <3>1. n + 1 \in 1 .. N /\ (n + 1) - 1 = n
      BY <1>1
    <3>2. after[n + 1] = apply(after[n], sequence[n + 1])
      BY <1>9, <3>1
    <3> QED
      BY <1>1, <1>2, <2>2, <3>1, <3>2
  <2>3. 0 .. N \subseteq W
    <3> HIDE DEF W
    <3> QED
      BY <1>1, <2>1, <2>2, IntervalInduct
  <2> QED
    BY <2>3
<1>11. after \in [0 .. N -> States]
  BY <1>9, <1>10
<1>12. after[0].metrics = metrics
  BY <1>9 DEF first
<1> QED
  BY <1>8, <1>9, <1>11, <1>12 DEF N

(* The slots that take part are numbers, and a share is one. *)
LEMMA Shares ==
  ASSUME OneThreadInv, StatsTypes, NEW m
  PROVE  /\ 0 .. insertedCmds - 1 \subseteq Slots
         /\ \A i \in Slots : share(m)[i] \in Int
         /\ queued(m) = SumFunctionOnSet(share(m), 0 .. insertedCmds - 1)
         /\ queued(m) \in Int
<1>1. 0 .. insertedCmds - 1 \subseteq Slots
  BY StatsAssumption DEF OneThreadInv, Slots
<1>2. \A i \in Slots : share(m)[i] \in Int
  BY DEF share, change, StatsTypes
<1>3. queued(m) = SumFunctionOnSet(share(m), 0 .. insertedCmds - 1)
  BY DEF queued, share
<1>4. insertedCmds \in Int
  BY DEF OneThreadInv
<1> QED
  BY <1>1, <1>2, <1>3, <1>4, FS_Interval, SumType

LEMMA ApplyQueueType ==
  ASSUME OneThreadInv, StatsTypes
  PROVE  applyAll(inserted(insertedCmds)) \in States
<1>1. insertedCmds \in Nat
  BY StatsAssumption DEF OneThreadInv
<1>2. \A n \in 1 .. insertedCmds : n - 1 \in 0 .. insertedCmds - 1 /\ cmds[n - 1] \in Stamped
  BY <1>1 DEF StatsTypes, Asked
<1>3. inserted(insertedCmds) \in Seq(Stamped) /\ Len(inserted(insertedCmds)) = insertedCmds
  BY <1>1, <1>2 DEF inserted
<1>4. PICK g \in [0 .. insertedCmds -> States] : applyAll(inserted(insertedCmds)) = g[insertedCmds]
  BY <1>3, ApplyAll
<1> QED
  BY <1>1, <1>4

(* The commands in the queue change a counter by what is queued for it. *)
LEMMA ApplyQueue ==
  ASSUME OneThreadInv, StatsTypes, NEW m \in Counted
  PROVE  /\ applyAll(inserted(insertedCmds)) \in States
         /\ applyAll(inserted(insertedCmds)).metrics[m] = metrics[m] + queued(m)
<1> DEFINE N == insertedCmds
           sequence == inserted(N)
           sum(n) == SumFunctionOnSet(share(m), 0 .. n - 1)
<1>1. N \in Nat /\ 0 .. N - 1 \subseteq Slots /\ \A i \in Slots : share(m)[i] \in Int
  BY Shares, StatsAssumption DEF OneThreadInv
<1>2. sequence \in Seq(Stamped) /\ Len(sequence) = N /\ \A n \in 1 .. N : sequence[n] = cmds[n - 1]
  <2>1. \A n \in 1 .. N : n - 1 \in 0 .. N - 1 /\ cmds[n - 1] \in Stamped
    BY <1>1 DEF StatsTypes, Asked
  <2> QED
    BY <1>1, <2>1 DEF inserted
<1>3. PICK g \in [0 .. N -> States] :
            /\ g[0].metrics = metrics
            /\ \A n \in 1 .. N : g[n] = apply(g[n - 1], sequence[n])
            /\ applyAll(sequence) = g[N]
  BY <1>2, ApplyAll
<1> HIDE DEF sequence, N
<1> DEFINE W == {n \in 0 .. N : g[n].metrics[m] = metrics[m] + sum(n)}
<1>4. m \in Metrics /\ metrics[m] \in Int
  BY DEF Counted, StatsTypes
<1>5. 0 \in W
  <2>1. 0 .. 0 - 1 = {}
    OBVIOUS
  <2> QED
    BY <1>1, <1>3, <1>4, <2>1, SumOfNone
<1>6. ASSUME NEW n \in 0 .. N - 1, n \in W PROVE n + 1 \in W
  <2>1. n + 1 \in 1 .. N /\ (n + 1) - 1 = n /\ n \in Nat
    BY <1>1
  <2>2. g[n + 1] = apply(g[n], cmds[n])
    BY <1>2, <1>3, <2>1
  <2>3. cmds[n] \in Stamped /\ (cmds[n].id # m \/ cmds[n].op \in {"Add", "Sub"})
    BY <1>1 DEF StatsTypes, Asked, Counted, N
  <2>4. g[n + 1].metrics[m] = g[n].metrics[m] + (IF cmds[n].id = m THEN change(cmds[n]) ELSE 0)
    <3>1. g[n] \in States
      BY <1>1, <1>3, <2>1
    <3> QED
      BY <1>4, <2>2, <2>3, <3>1, ApplyOne
  <2>5. n \in Slots /\ share(m)[n] = (IF cmds[n].id = m THEN change(cmds[n]) ELSE 0)
    BY <1>1 DEF share
  <2>6. sum(n + 1) = sum(n) + share(m)[n] /\ sum(n) \in Int
    <3>1. /\ 0 .. (n + 1) - 1 = (0 .. n - 1) \cup {n} /\ n \notin 0 .. n - 1
          /\ 0 .. n - 1 \subseteq Slots
      BY <1>1, <2>1
    <3>2. IsFiniteSet(0 .. n - 1)
      BY <2>1, FS_Interval
    <3> DEFINE f == share(m)
               S == 0 .. n - 1
    <3>3. \A i \in S \cup {n} : f[i] \in Int
      BY <1>1, <2>5, <3>1
    <3>4. SumFunctionOnSet(f, S) \in Int
      BY <3>2, <3>3, SumType
    <3> HIDE DEF f, S
    <3>5. SumFunctionOnSet(f, S \cup {n}) = SumFunctionOnSet(f, S) + f[n]
      BY <3>1, <3>2, <3>3, SumWith DEF S
    <3> QED
      BY <3>1, <3>4, <3>5 DEF f, S
  <2> HIDE DEF sum
  <2> QED
    BY <1>4, <1>6, <1>1, <2>1, <2>4, <2>5, <2>6
<1>7. 0 .. N \subseteq W
  <2> HIDE DEF W
  <2> QED
    BY <1>1, <1>5, <1>6, IntervalInduct
<1>8. g[N].metrics[m] = metrics[m] + sum(N) /\ g[N] \in States
  BY <1>1, <1>3, <1>7
<1> QED
  BY <1>3, <1>8, Shares DEF sequence, N

LEMMA CountInit ==
  ASSUME Threads = {MainThread}, Init
  PROVE  CountInv
<1>1. OneThreadInv
  BY OneThreadInit
<1>2. StatsTypes
  BY StatsAssumption DEF Init, StatsTypes, NoCommand, stamped
<1>3. \A m : queued(m) = 0
  <2>1. 0 .. insertedCmds - 1 = {}
    BY DEF Init
  <2> QED
    BY <2>1, SumOfNone DEF queued
<1>4. InHand(pc[MainThread], local[MainThread]) /\ Balance(pc[MainThread], local[MainThread])
  BY <1>3, StatsAssumption DEF Init, InHand, Balance, Places, Counted
<1> QED
  BY <1>2, <1>4 DEF CountInv

(* Steps that leave the queue and the metrics alone. *)
LEMMA CountLeft ==
  ASSUME Threads = {MainThread}, OneThreadInv, CountInv,
         UNCHANGED <<cmds, insertedCmds, metrics, updated, timestamp, counted>>,
         now' \in Nat,
         pc[MainThread] \in {"check", "empty", "reset"} <=>
           pc'[MainThread] \in {"check", "empty", "reset"},
         pc[MainThread] # "leave", pc'[MainThread] # "leave",
         InHand(pc'[MainThread], local'[MainThread])
  PROVE  CountInv'
<1>1. \A m : queued(m)' = queued(m)
  BY DEF queued
<1>2. StatsTypes'
  BY DEF CountInv, StatsTypes, Asked
<1>3. Balance(pc[MainThread], local[MainThread])'
  BY <1>1 DEF CountInv, Balance
<1>4. InHand(pc[MainThread], local[MainThread])'
  BY DEF InHand
<1> QED
  BY <1>2, <1>3, <1>4 DEF CountInv

LEMMA CountSteps ==
  ASSUME Threads = {MainThread}, OneThreadInv, OneThreadInv', CountInv, [Next]_vars
  PROVE  CountInv'
<1> DEFINE t == MainThread
           place == pc[t]
           l == local[t]
<1>1. /\ pc \in [Threads -> Places] /\ t \in Threads /\ Threads = {t}
      /\ local \in [Threads -> Locals] /\ now \in Nat
      /\ InHand(place, l) /\ StatsTypes /\ Balance(place, l)
      /\ insertedCmds \in 0 .. MaxCmds /\ MaxCmds \in Nat \ {0}
  BY StatsAssumption DEF OneThreadInv, CountInv, StatsTypes
<1>2. ASSUME NEW c \in Commands, Begin(t, c) PROVE CountInv'
  BY <1>1, <1>2, CountLeft DEF Begin, Step, InHand, Locals, metricVars, calls, Places
<1>3. CASE Reserve(t)
  BY <1>1, <1>3, CountLeft
  DEF Reserve, Step, fetchAdd, whereTo, InHand, Locals, metricVars, calls, Places
<1>4. CASE Abort(t)
  BY <1>1, <1>4, CountLeft DEF Abort, Step, InHand, Locals, metricVars, calls, Places
<1>5. CASE Drained(t)
  BY <1>1, <1>5, CountLeft
  DEF Drained, Step, InHand, Locals, metricVars, calls, Places, counters
<1>6. CASE Retry(t)
  BY <1>1, <1>6, CountLeft DEF Retry, Step, InHand, Locals, metricVars, calls, Places
<1>7. CASE ReserveAgain(t)
  BY <1>1, <1>7, CountLeft
  DEF ReserveAgain, Step, fetchAdd, InHand, Locals, metricVars, calls, Places
<1>8. CASE StartProcessing(t)
  BY <1>1, <1>8, CountLeft
  DEF StartProcessing, Step, InHand, Locals, metricVars, calls, Places, counters
<1>9. CASE Load(t)
  <2>1. l.caller = "reset" => insertedCmds # 0
    BY <1>1, <1>9 DEF Load, Step, OneThreadInv, CountersAt, Full
  <2>2. l.caller \in {"idle", "reset"}
    BY <1>1 DEF Locals
  <2> QED
    BY <1>1, <1>9, <2>1, <2>2, CountLeft
    DEF Load, Step, InHand, Locals, metricVars, calls, Places, counters
<1>10. CASE EmptyNext(t)
  BY <1>1, <1>10, CountLeft DEF EmptyNext, Step, InHand, Locals, metricVars, calls, Places
<1>11. CASE Tick \/ UNCHANGED vars
  <2>1. /\ UNCHANGED <<cmds, insertedCmds, metrics, updated, timestamp, counted, pc, local>>
        /\ now' \in Nat
    BY <1>1, <1>11 DEF Tick, vars, metricVars, calls, counters
  <2>2. \A m : queued(m)' = queued(m)
    BY <2>1 DEF queued
  <2> QED
    BY <1>1, <2>1, <2>2 DEF CountInv, StatsTypes, Asked, InHand, Balance
<1>12. CASE flushChangedMetrics
  <2>1. UNCHANGED <<cmds, insertedCmds, metrics, counted, pc, local, now>>
    BY <1>12 DEF flushChangedMetrics, calls, counters
  <2>2. timestamp' \in [Metrics -> Nat]
    BY <1>1, <1>12 DEF flushChangedMetrics, StatsTypes
  <2>3. updated' \in [Metrics -> BOOLEAN]
    <3>1. \A m \in Metrics : stillUpdated(m) \in BOOLEAN
      BY DEF stillUpdated
    <3> QED
      BY <1>12, <3>1 DEF flushChangedMetrics
  <2>4. \A m : queued(m)' = queued(m)
    BY <2>1 DEF queued
  <2> QED
    BY <1>1, <2>1, <2>2, <2>3, <2>4 DEF CountInv, StatsTypes, Asked, InHand, Balance
<1>13. CASE Save(t)
  <2> DEFINE i == l.idx
  <2>1. /\ place = "save" /\ pc'[t] = "insert" /\ l' = l /\ i \in Slots /\ l.cmd \in Commands
        /\ cmds' = [cmds EXCEPT ![i] = stamped(l.cmd, now)]
        /\ UNCHANGED <<counters, metricVars, now, calls>>
    BY <1>1, <1>13 DEF Save, Step, InHand, Places
  <2>2. i = insertedCmds
    BY <1>1, <2>1 DEF OneThreadInv, CountersAt
  <2>3. cmds'[i] = stamped(l.cmd, now) /\ \A j \in Slots \ {i} : cmds'[j] = cmds[j]
    BY <1>1, <2>1 DEF StatsTypes
  <2>4. stamped(l.cmd, now).value \in Int /\ stamped(l.cmd, now).timestamp = now
    BY <2>1, StatsAssumption DEF stamped
  <2>5. StatsTypes'
    <3>1. \A j \in 0 .. insertedCmds - 1 : j \in Slots \ {i}
      BY <1>1, <2>2 DEF Slots
    <3>2. \A j \in 0 .. insertedCmds - 1 : Asked(cmds[j])'
      BY <1>1, <2>3, <3>1 DEF StatsTypes, Asked
    <3>3. cmds' = [j \in Slots |-> cmds'[j]] /\ \A j \in Slots : cmds'[j].value \in Int
      BY <1>1, <2>1, <2>3, <2>4 DEF StatsTypes
    <3> QED
      BY <1>1, <2>1, <3>2, <3>3 DEF StatsTypes, metricVars, calls, counters
  <2>6. \A m : queued(m)' = queued(m)
    <3> TAKE m
    <3>1. 0 .. insertedCmds - 1 \subseteq Slots /\ \A j \in Slots : share(m)[j] \in Int
      BY <1>1, Shares
    <3>2. \A j \in 0 .. insertedCmds - 1 : share(m)[j] = share(m)'[j]
      BY <1>1, <2>2, <2>3, <3>1 DEF share
    <3>3. SumFunctionOnSet(share(m), 0 .. insertedCmds - 1)
            = SumFunctionOnSet(share(m)', 0 .. insertedCmds - 1)
      <4>1. IsFiniteSet(0 .. insertedCmds - 1)
        BY <1>1, FS_Interval
      <4> HIDE DEF share
      <4> QED
        BY <3>1, <3>2, <4>1, SumSame
    <3> QED
      BY <2>1, <3>3 DEF queued, share, counters
  <2>7. InHand(place, l)'
    BY <1>1, <2>1, <2>3, <2>4 DEF InHand, Places
  <2>8. Balance(place, l)'
    BY <1>1, <2>1, <2>6 DEF Balance, metricVars, calls
  <2> QED
    BY <2>5, <2>7, <2>8 DEF CountInv
<1>14. CASE Insert(t)
  <2>1. /\ place = "insert" /\ pc'[t] = "leave" /\ l' = l /\ l.cmd \in Commands
        /\ insertedCmds' = insertedCmds + 1
        /\ UNCHANGED <<cmds, metricVars, now, calls>>
    BY <1>1, <1>14 DEF Insert, Step, InHand, Places
  <2>2. l.idx = insertedCmds /\ insertedCmds \in Slots
    BY <1>1, <2>1 DEF OneThreadInv, CountersAt, Slots
  <2>3. cmds[insertedCmds] = stamped(l.cmd, cmds[insertedCmds].timestamp)
        /\ cmds[insertedCmds].timestamp \in Nat
    BY <1>1, <2>1, <2>2 DEF InHand
  <2>4. Asked(cmds[insertedCmds])
    BY <2>1, <2>3, StatsAssumption DEF Asked, Stamped, stamped
  <2>5. StatsTypes'
    <3>1. \A j \in 0 .. insertedCmds' - 1 : Asked(cmds[j])
      <4>1. \A j \in 0 .. insertedCmds - 1 : Asked(cmds[j])
        BY <1>1 DEF StatsTypes
      <4>2. \A j \in 0 .. insertedCmds' - 1 : j = insertedCmds \/ j \in 0 .. insertedCmds - 1
        BY <1>1, <2>1
      <4> QED
        BY <2>4, <4>1, <4>2
    <3> QED
      BY <1>1, <2>1, <3>1 DEF StatsTypes, Asked, metricVars, calls
  <2>6. \A m : queued(m)' = queued(m) + (IF l.cmd.id = m THEN change(l.cmd) ELSE 0)
    <3> TAKE m
    <3> DEFINE f == share(m)
               S == 0 .. insertedCmds - 1
    <3>1. S \subseteq Slots /\ \A j \in Slots : f[j] \in Int
      BY <1>1, Shares
    <3>2. IsFiniteSet(S) /\ insertedCmds \notin S /\ 0 .. insertedCmds' - 1 = S \cup {insertedCmds}
      BY <1>1, <2>1, FS_Interval
    <3>3. f[insertedCmds] = IF l.cmd.id = m THEN change(l.cmd) ELSE 0
      BY <2>2, <2>3 DEF share, stamped, change
    <3>4. queued(m)' = SumFunctionOnSet(f, 0 .. insertedCmds' - 1)
      BY <2>1 DEF queued, share
    <3>5. queued(m) = SumFunctionOnSet(f, S)
      BY DEF queued, share
    <3> HIDE DEF f, S
    <3>6. SumFunctionOnSet(f, S \cup {insertedCmds}) = SumFunctionOnSet(f, S) + f[insertedCmds]
      BY <2>2, <3>1, <3>2, SumWith
    <3> QED
      BY <3>2, <3>3, <3>4, <3>5, <3>6
  <2>7. InHand(place, l)'
    BY <2>1 DEF InHand, Places
  <2>8. Balance(place, l)'
    <3> SUFFICES ASSUME NEW m \in Counted
                 PROVE  metrics[m] + queued(m)' = counted[m] + (IF l.cmd.id = m THEN change(l.cmd) ELSE 0)
      BY <2>1 DEF Balance, metricVars, calls
    <3>1. metrics[m] + queued(m) = counted[m]
      BY <1>1, <2>1 DEF Balance, Counted, StatsTypes
    <3>2. metrics[m] \in Int /\ counted[m] \in Int
      BY <1>1 DEF StatsTypes, Counted
    <3>3. queued(m) \in Int
      BY <1>1, Shares
    <3>4. change(l.cmd) \in Int
      BY <2>1, StatsAssumption DEF change
    <3> QED
      BY <2>6, <3>1, <3>2, <3>3, <3>4
  <2> QED
    BY <2>5, <2>7, <2>8 DEF CountInv
<1>15. CASE Leave(t)
  <2>1. /\ place = "leave" /\ pc'[t] = "idle" /\ l' = l /\ l.cmd \in Commands
        /\ counted' = [counted EXCEPT ![l.cmd.id] = @ + change(l.cmd)]
        /\ UNCHANGED <<cmds, insertedCmds, metricVars, now>>
    BY <1>1, <1>15 DEF Leave, Step, InHand, Places
  <2>2. l.cmd.id \in Metrics /\ change(l.cmd) \in Int
    BY <2>1, StatsAssumption DEF change
  <2>3. StatsTypes'
    <3>1. counted' \in [Metrics -> Int]
      BY <1>1, <2>1, <2>2 DEF StatsTypes
    <3> QED
      BY <1>1, <2>1, <3>1 DEF StatsTypes, Asked, metricVars
  <2>4. \A m : queued(m)' = queued(m)
    BY <2>1 DEF queued
  <2>5. Balance(place, l)'
    <3> SUFFICES ASSUME NEW m \in Counted PROVE metrics[m] + queued(m) = counted'[m]
      BY <1>1, <2>1, <2>3, <2>4 DEF Balance, metricVars, Counted, StatsTypes
    <3>1. metrics[m] + queued(m) = counted[m] + (IF l.cmd.id = m THEN change(l.cmd) ELSE 0)
      BY <1>1, <2>1 DEF Balance
    <3>2. counted'[m] = counted[m] + (IF l.cmd.id = m THEN change(l.cmd) ELSE 0)
      BY <1>1, <2>1, <2>2 DEF StatsTypes, Counted
    <3> QED
      BY <3>1, <3>2
  <2>6. InHand(place, l)'
    BY <2>1 DEF InHand, Places
  <2> QED
    BY <2>3, <2>5, <2>6 DEF CountInv
<1>16. CASE Apply(t)
  <2> DEFINE result == applyAll(inserted(l.range))
  <2>1. /\ place = "apply" /\ pc'[t] = "check" /\ l' = l
        /\ metrics' = result.metrics /\ updated' = result.updated /\ timestamp' = result.timestamp
        /\ UNCHANGED <<cmds, insertedCmds, now, calls>>
    BY <1>1, <1>16 DEF Apply, Step, counters, Places
  <2>2. l.range = insertedCmds
    BY <2>1 DEF OneThreadInv, CountersAt
  <2>3. result \in States
    BY <1>1, <2>2, ApplyQueueType
  <2>4. \A m \in Counted : result.metrics[m] = metrics[m] + queued(m)
    BY <1>1, <2>2, ApplyQueue
  <2> HIDE DEF result
  <2>5. StatsTypes'
    BY <1>1, <2>1, <2>3 DEF StatsTypes, Asked, States, calls
  <2>6. Balance(place, l)'
    <3> SUFFICES ASSUME NEW m \in Counted PROVE result.metrics[m] = counted[m]
      BY <2>1, <2>5 DEF Balance, calls, StatsTypes, Counted
    <3> QED
      BY <1>1, <2>1, <2>4 DEF Balance, StatsTypes, Counted
  <2>7. InHand(place, l)'
    BY <1>1, <2>1 DEF InHand, Places
  <2> QED
    BY <2>5, <2>6, <2>7 DEF CountInv
<1>17. CASE EmptyInserted(t) \/ Reset(t)
  <2>1. /\ place \in {"empty", "reset"} /\ insertedCmds' = 0 /\ l' = l
        /\ pc'[t] \in {"idle", "reset", "retry"}
        /\ place = "empty" => pc'[t] = l.caller
        /\ UNCHANGED <<cmds, metricVars, now, calls>>
    BY <1>1, <1>17 DEF EmptyInserted, Reset, Step, Locals, Places
  <2>2. StatsTypes'
    BY <1>1, <2>1 DEF StatsTypes, Asked, metricVars, calls
  <2>3. \A m : queued(m)' = 0
    <3>1. 0 .. insertedCmds' - 1 = {}
      BY <2>1
    <3> QED
      BY <3>1, SumOfNone DEF queued
  <2>4. Balance(place, l)'
    <3> SUFFICES ASSUME NEW m \in Counted PROVE metrics[m] = counted[m]
      BY <1>1, <2>1, <2>3 DEF Balance, metricVars, calls, StatsTypes, Counted
    <3> QED
      BY <1>1, <2>1 DEF Balance, StatsTypes, Counted
  <2>5. InHand(place, l)'
    <3>1. pc'[t] # "idle" => l.cmd \in Commands
      BY <1>1, <2>1 DEF InHand, Places, Locals
    <3>2. pc'[t] \notin {"load", "apply", "check", "empty", "insert"}
      BY <2>1
    <3> QED
      BY <2>1, <3>1, <3>2 DEF InHand
  <2> QED
    BY <2>2, <2>4, <2>5 DEF CountInv
<1> QED
  BY <1>1, <1>2, <1>3, <1>4, <1>5, <1>6, <1>7, <1>8, <1>9, <1>10, <1>11, <1>12, <1>13,
     <1>14, <1>15, <1>16, <1>17
  DEF Next, updateStats, processCommandQueue

(* With one thread no update is lost and none counts twice, whatever the   *)
(* size of the array, also when it overflows in the middle of an update.   *)
THEOREM OneThreadCounts ==
  ASSUME Threads = {MainThread}
  PROVE  Spec => []EveryUpdateCounts
<1>1. Init => OneThreadInv /\ CountInv
  BY OneThreadInit, CountInit
<1>2. (OneThreadInv /\ CountInv) /\ [Next]_vars => (OneThreadInv /\ CountInv)'
  BY OneThreadStep, CountSteps
<1>3. OneThreadInv /\ CountInv => EveryUpdateCounts
  <2> SUFFICES ASSUME OneThreadInv, CountInv, Quiet, NEW m \in Counted
               PROVE  metrics[m] + queued(m) = counted[m]
    BY DEF EveryUpdateCounts
  <2>1. pc[MainThread] = "idle"
    BY DEF Quiet
  <2>2. metrics[m] + queued(m) = counted[m] + 0
    BY <2>1 DEF CountInv, Balance
  <2> QED
    BY <2>2 DEF CountInv, StatsTypes, Counted
<1> QED
  BY <1>1, <1>2, <1>3, PTL DEF Spec
===============================================================================
