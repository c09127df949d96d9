-------------------------- MODULE DecongestionProofs --------------------------
(***************************************************************************)
(* Theorems about a device with its decongestion service, for each of the  *)
(* three completion policies and every number of slots, lanes, inputs,     *)
(* channels, messages and stops, and about the order in which records are  *)
(* dispatched with consumeWhenAllOrdered.                                  *)
(***************************************************************************)
EXTENDS Decongestion, DataRelayerProofs, Induction

(* The actions of the service, seen by the relayer: run() is one of the    *)
(* two rescans, or nothing.                                                *)
LEMMA RunTasksStep ==
  ASSUME RunTasks
  PROVE  \/ Rescan
         \/ RescanPastOldest
         \/ UNCHANGED vars
<1>1. CASE due("pastOldest") # {}
  BY <1>1 DEF RunTasks, RescanPastOldest
<1>2. CASE due("pastOldest") = {} /\ nextTimeslice' # nextTimeslice
  BY <1>2 DEF RunTasks, Rescan
<1>3. CASE due("pastOldest") = {} /\ nextTimeslice' = nextTimeslice
  BY <1>3 DEF RunTasks, vars, indexVars
<1> QED
  BY <1>1, <1>2, <1>3

(* The policies only give answers there are. *)
LEMMA PolicyOpsType == policyOps \in [Slots -> CompletionOps]
<1>1. ASSUME NEW s \in Slots, NEW n PROVE orderedOp(s, n) \in CompletionOps
  BY DEF orderedOp, CompletionOps
<1>2. ASSUME NEW s \in Slots PROVE pastOldestOp(s) \in CompletionOps
  BY DEF pastOldestOp, CompletionOps
<1> QED
  BY <1>1, <1>2 DEF policyOps, CompletionOps

(* Every step of the device is a step of its relayer. *)
LEMMA RelayerStep ==
  ASSUME [DecongestionNext]_allVars
  PROVE  [Next]_vars
<1>1. CASE \E m \in Messages : Relay(m)
  BY <1>1 DEF Relay, Next
<1>2. CASE \E c \in DataChannels, t \in 0 .. MaxTimeslice : Announcement(c, t)
  BY <1>2 DEF Announcement, Next
<1>3. CASE Prune
  BY <1>3 DEF Prune, Next
<1>4. CASE RunTasks
  BY <1>4, RunTasksStep DEF Next
<1>5. CASE \E st \in Streams : GetReady(st)
  <2> PICK st \in Streams : readyWith(st, policyOps)
    BY <1>5 DEF GetReady
  <2>1. policyOps \in [Slots -> possibleOps]
    BY PolicyOpsType DEF readyWith, possibleOps
  <2> QED
    BY <2>1 DEF GetReadyToProcess, Next
<1>6. CASE \E st \in Streams : \E a \in completed[st] : Dispatch(st, a)
  BY <1>6 DEF Dispatch, Next
<1>7. CASE Other
  BY <1>7 DEF Other, Next
<1>8. CASE StopAndStart
  BY <1>8 DEF StopAndStart, Next
<1>9. CASE UNCHANGED allVars
  BY <1>9 DEF allVars
<1> QED
  BY <1>1, <1>2, <1>3, <1>4, <1>5, <1>6, <1>7, <1>8, <1>9 DEF DecongestionNext

(* The device with its service implements the relayer, whose main loop is  *)
(* free to do its steps in any order; what was proved of it holds here.    *)
THEOREM DeviceImplementsRelayer == DecongestionSpec => Spec
<1>1. DecongestionInit => Init
  BY DEF DecongestionInit
<1>2. [DecongestionNext]_allVars => [Next]_vars
  BY RelayerStep
<1> QED
  BY <1>1, <1>2, PTL DEF DecongestionSpec, Spec
-------------------------------------------------------------------------------
(***************************************************************************)
(* What the service announces.  The invariant says that a task never       *)
(* carries a watermark beyond the timeslice it waits for: this is why a    *)
(* task that survives a stop cannot announce too much in the next run.     *)
(***************************************************************************)
TasksInv == tasks \subseteq Tasks /\ \A k \in tasks : k.output <= k.timeslice

ServiceInv ==
  /\ TasksInv
  /\ lastTimeslice \in Nat
  /\ announced \in Nat
  /\ NeverAhead
  /\ AnnouncedIsTrue

DeviceInv == SlotInv /\ WatermarkInv /\ ServiceInv

(* Max is the greatest element of a bounded set of naturals. *)
LEMMA MaxOfBounded ==
  ASSUME NEW S \in SUBSET Nat, S # {}, NEW b \in Nat, \A x \in S : x <= b
  PROVE  Max(S) \in S /\ \A y \in S : y <= Max(S)
<1> DEFINE D == {b - x : x \in S}
<1>0. ASSUME NEW x \in S PROVE b - x \in Nat
  <2>1. x \in Nat /\ x <= b
    OBVIOUS
  <2> QED
    BY <2>1
<1>1. D \in SUBSET Nat /\ D # {}
  BY <1>0
<1>2. Min(D) \in D /\ \A d \in D : Min(D) <= d
  <2> HIDE DEF D
  <2> QED
    BY <1>1, MinOfNats
<1>3. PICK x \in S : b - x = Min(D)
  BY <1>2
<1>4. \A y \in S : y <= x
  <2> TAKE y \in S
  <2>1. b - x <= b - y
    BY <1>2, <1>3
  <2>2. x \in Nat /\ y \in Nat
    OBVIOUS
  <2> HIDE DEF D
  <2> QED
    BY <2>1, <2>2
<1>5. \A y \in S : x >= y
  BY <1>4
<1>6. \E z \in S : \A y \in S : z >= y
  BY <1>5
<1>7. Max(S) \in S /\ \A y \in S : Max(S) >= y
  BY <1>6 DEF Max
<1> QED
  BY <1>7

(* In a device without timers every DPL channel has somebody behind it. *)
LEMMA AllChannelsCarryData == DataChannels = DPLChannels /\ DataChannels # {}
  BY DecongestionAssumption, RelayerAssumption DEF DataChannels

(* After the pruning, a bound of the input watermark and of the slots in   *)
(* use bounds all the device holds and all it can receive.                 *)
LEMMA PrunedBound ==
  ASSUME SlotInv, WatermarkInv, pruneOps = {}, NEW k \in Nat,
         k <= oldestPossibleInput,
         \A s \in Slots : isValid(variables, s) => k <= variables[s]
  PROVE  /\ \A t \in heldTimeslices : k <= t
         /\ \A c \in DataChannels : k <= oldestForChannel[c]
<1>1. ASSUME NEW s \in Slots, NEW m \in cache[s] PROVE k <= m.ts
  <2>1. isValid(variables, s)
    BY <1>1 DEF SlotInv, PruneOnlyStale
  <2>2. m.ts = variables[s]
    BY <1>1, <2>1 DEF SlotInv, SlotHomogeneous
  <2> QED
    BY <2>1, <2>2
<1>2. \A t \in heldTimeslices : k <= t
  BY <1>1 DEF heldTimeslices
<1>3. ASSUME NEW c \in DataChannels PROVE k <= oldestForChannel[c]
  <2>1. c \in DPLChannels /\ c \in Channels
    BY AllChannelsCarryData, IndexAssumption
  <2>2. oldestPossibleInput <= oldestForChannel[c]
    BY <2>1 DEF WatermarkInv, InputBound
  <2>3. oldestPossibleInput \in Nat /\ oldestForChannel[c] \in Nat
    BY <2>1 DEF WatermarkInv, TypeOK, IndexTypeOK
  <2> QED
    BY <2>2, <2>3
<1> QED
  BY <1>2, <1>3

(* run(): what the callbacks announce. *)
LEMMA RunTasksValues ==
  ASSUME SlotInv, WatermarkInv, ServiceInv, RunTasks
  PROVE  /\ announced' \in Nat /\ lastTimeslice' \in Nat
         /\ announced' >= announced
         /\ lastTimeslice' <= announced'
         /\ lastTimeslice' <= oldestPossibleOutput'
         /\ announced' # announced => announced' <= oldestPossibleOutput'
         /\ oldestPossibleOutput' \in Nat
         /\ oldestPossibleOutput' <= oldestPossibleInput
         /\ \A s \in Slots : isValid(variables, s) => oldestPossibleOutput' <= variables[s]
<1> DEFINE out  == IF due("pastOldest") = {} THEN oldestPossibleOutput
                   ELSE minOverSlots(variables, oldestPossibleInput)
           news == {k.output : k \in due("decongestion")}
                     \cup {v \in {out} : due("pastOldest") # {}}
           late == {v \in {k.output : k \in due("late")} : v > lastTimeslice}
<1>0. /\ variables \in [Slots -> Nat \cup {NoTimeslice}]
      /\ oldestPossibleInput \in Nat
      /\ oldestPossibleOutput \in Nat
  BY DEF WatermarkInv, TypeOK, IndexTypeOK
<1>1. /\ out \in Nat
      /\ out <= oldestPossibleInput
      /\ \A s \in Slots : isValid(variables, s) => out <= variables[s]
      /\ oldestPossibleOutput <= out
  BY <1>0, MinOverSlots DEF WatermarkInv, OutputBound
<1>2. /\ oldestPossibleOutput' = out
      /\ lastTimeslice' = Max({lastTimeslice} \cup news)
      /\ announced' = Max({announced} \cup news \cup late)
  BY DEF RunTasks
<1>3. ASSUME NEW k \in dueTasks PROVE k.output \in Nat /\ k.output <= out
  <2>1. k \in Tasks /\ k.output <= k.timeslice /\ k.timeslice <= oldestPossibleOutput
    BY <1>3 DEF dueTasks, ServiceInv, TasksInv
  <2>2. k.output \in Nat /\ k.timeslice \in Nat
    BY <2>1 DEF Tasks
  <2> HIDE DEF out
  <2> QED
    BY <1>0, <1>1, <2>1, <2>2
<1>4. \A v \in news \cup late : v \in Nat /\ v <= out
  BY <1>1, <1>3 DEF due
<1>5. /\ lastTimeslice \in Nat /\ announced \in Nat
      /\ lastTimeslice <= oldestPossibleOutput /\ lastTimeslice <= announced
  BY DEF ServiceInv, NeverAhead
<1> HIDE DEF out, news, late
<1>6. lastTimeslice <= out
  BY <1>0, <1>1, <1>5
<1>7. /\ lastTimeslice' \in {lastTimeslice} \cup news
      /\ \A y \in {lastTimeslice} \cup news : y <= lastTimeslice'
  <2>1. /\ {lastTimeslice} \cup news \in SUBSET Nat
        /\ {lastTimeslice} \cup news # {}
        /\ \A x \in {lastTimeslice} \cup news : x <= out
    BY <1>4, <1>5, <1>6
  <2> QED
    BY <1>1, <1>2, <2>1, MaxOfBounded
<1>8. /\ announced' \in {announced} \cup news \cup late
      /\ \A y \in {announced} \cup news \cup late : y <= announced'
  <2> DEFINE b == announced + out
  <2>0. b \in Nat /\ announced <= b /\ \A v \in Nat : v <= out => v <= b
    BY <1>1, <1>5
  <2>1. /\ {announced} \cup news \cup late \in SUBSET Nat
        /\ {announced} \cup news \cup late # {}
        /\ \A x \in {announced} \cup news \cup late : x <= b
    <3> HIDE DEF b
    <3> QED
      BY <1>4, <1>5, <2>0
  <2> HIDE DEF b
  <2> QED
    BY <1>2, <2>0, <2>1, MaxOfBounded
<1>9. lastTimeslice' \in Nat /\ announced' \in Nat
  BY <1>4, <1>5, <1>7, <1>8
<1>10. announced' >= announced
  BY <1>5, <1>8, <1>9
<1>11. lastTimeslice' <= announced'
  <2>1. CASE lastTimeslice' = lastTimeslice
    BY <2>1, <1>5, <1>9, <1>10
  <2>2. CASE lastTimeslice' \in news
    BY <2>2, <1>8
  <2> QED
    BY <2>1, <2>2, <1>7
<1>12. lastTimeslice' <= out
  BY <1>4, <1>6, <1>7
<1>13. announced' # announced => announced' <= out
  BY <1>4, <1>8
<1> QED
  BY <1>1, <1>2, <1>9, <1>10, <1>11, <1>12, <1>13
-------------------------------------------------------------------------------
(***************************************************************************)
(* The refinement of Watermark.                                            *)
(***************************************************************************)
Promised == [c \in DataChannels |-> oldestForChannel[c]]

(* A step that moves only data, and stores at most what arrives. *)
LEMMA TransferStep ==
  ASSUME UNCHANGED <<oldestForChannel, announced>>,
         NEW c \in DataChannels,
         \A t \in heldTimeslices' \ heldTimeslices : t >= oldestForChannel[c]
  PROVE  W!Transfer
  BY DEF W!Transfer

(* The relayer's part of the steps that move data. *)
LEMMA RelayTransfers ==
  ASSUME TypeOK, NEW m \in Messages,
         RelayToMatchingSlot(m) \/ RelayToFreeSlot(m) \/ RelayInvalid(m),
         announced' = announced
  PROVE  W!Transfer
<1>1. CASE RelayToMatchingSlot(m) \/ RelayToFreeSlot(m)
  <2>1. m.input \in Inputs /\ ChannelOf[m.input] \in DataChannels
    BY <1>1, RelayerAssumption, AllChannelsCarryData DEF RelayToMatchingSlot, RelayToFreeSlot
  <2>2. m.ts >= oldestForChannel[ChannelOf[m.input]]
    BY <1>1, <2>1 DEF RelayToMatchingSlot, RelayToFreeSlot, arrives
  <2>3. \A s \in Slots : cache'[s] \subseteq cache[s] \cup {m}
    BY ZenonT(60), <1>1 DEF RelayToMatchingSlot, RelayToFreeSlot, saveInSlot, pruneCache, TypeOK
  <2>4. heldTimeslices' \subseteq heldTimeslices \cup {m.ts}
    BY <2>3 DEF heldTimeslices
  <2>5. oldestForChannel' = oldestForChannel
    BY <1>1 DEF RelayToMatchingSlot, RelayToFreeSlot
  <2> QED
    BY <2>1, <2>2, <2>4, <2>5, TransferStep
<1>2. CASE RelayInvalid(m)
  <2>1. UNCHANGED <<cache, oldestForChannel>>
    BY <1>2 DEF RelayInvalid, indexVars
  <2>2. heldTimeslices' = heldTimeslices
    BY <2>1 DEF heldTimeslices
  <2> QED
    BY <2>1, <2>2, TransferStep, AllChannelsCarryData
<1> QED
  BY <1>1, <1>2

(* A step that only takes data out of the cache. *)
LEMMA ReleaseTransfers ==
  ASSUME UNCHANGED <<oldestForChannel, announced>>,
         \A s \in Slots : cache'[s] \subseteq cache[s]
  PROVE  W!Transfer
<1>1. heldTimeslices' \subseteq heldTimeslices
  BY DEF heldTimeslices
<1> QED
  BY <1>1, TransferStep, AllChannelsCarryData

(* Every step of the device is one its contract allows. *)
LEMMA ContractStep ==
  ASSUME SlotInv, WatermarkInv, ServiceInv, [DecongestionNext]_allVars
  PROVE  [W!ContractNext]_(W!contractVars)
<1> USE DEF W!ContractNext
<1>0. TypeOK /\ DataChannels \subseteq Channels
  BY AllChannelsCarryData, IndexAssumption DEF SlotInv
<1>1. CASE \E m \in Messages : Relay(m)
  BY <1>0, <1>1, RelayTransfers DEF Relay
<1>2. CASE \E c \in DataChannels, t \in 0 .. MaxTimeslice : Announcement(c, t)
  <2> PICK c \in DataChannels, t \in 0 .. MaxTimeslice : Announcement(c, t)
    BY <1>2
  <2>1. /\ t > oldestForChannel[c]
        /\ oldestForChannel' = [oldestForChannel EXCEPT ![c] = t]
        /\ UNCHANGED <<cache, announced>>
    BY DEF Announcement, DomainInfoUpdated
  <2>2. heldTimeslices' = heldTimeslices
    BY <2>1 DEF heldTimeslices
  <2>3. oldestForChannel \in [Channels -> Nat]
    BY <1>0 DEF TypeOK, IndexTypeOK
  <2>4. Promised'[c] > Promised[c] /\ Promised' = [Promised EXCEPT ![c] = Promised'[c]]
    BY <1>0, <2>1, <2>3 DEF Promised
  <2> QED
    BY <2>1, <2>2, <2>4 DEF W!Promise, Promised
<1>3. CASE Prune
  <2>1. \A s \in Slots : cache'[s] \subseteq cache[s]
    BY <1>0, <1>3 DEF Prune, PrunePending, pruneCache, TypeOK
  <2> QED
    BY <1>3, <2>1, ReleaseTransfers DEF Prune, PrunePending, indexVars
<1>4. CASE RunTasks
  <2>1. pruneOps = {} /\ UNCHANGED <<cache, oldestForChannel>>
    BY <1>4 DEF RunTasks, hasPruned, relayerVars
  <2>2. heldTimeslices' = heldTimeslices
    BY <2>1 DEF heldTimeslices
  <2>3. CASE announced' = announced
    BY <2>1, <2>2, <2>3 DEF W!contractVars
  <2>4. CASE announced' # announced
    <3>1. /\ announced' \in Nat /\ announced \in Nat
          /\ announced' > announced
          /\ announced' <= oldestPossibleOutput'
      BY <1>4, <2>4, RunTasksValues DEF ServiceInv
    <3>2. oldestPossibleOutput' \in Nat /\ oldestPossibleInput \in Nat
      BY <1>4, RunTasksValues DEF WatermarkInv, TypeOK, IndexTypeOK
    <3>3. announced' <= oldestPossibleInput
      BY <1>4, <3>1, <3>2, RunTasksValues
    <3>4. ASSUME NEW s \in Slots, isValid(variables, s) PROVE announced' <= variables[s]
      <4>1. variables[s] \in Nat /\ oldestPossibleOutput' <= variables[s]
        BY <1>4, <3>4, <1>0, RunTasksValues DEF isValid, TypeOK, IndexTypeOK
      <4> QED
        BY <3>1, <3>2, <4>1
    <3>5. /\ \A t \in heldTimeslices : announced' <= t
          /\ \A c \in DataChannels : announced' <= oldestForChannel[c]
      BY <2>1, <3>1, <3>3, <3>4, PrunedBound
    <3> QED
      BY <2>1, <2>2, <3>1, <3>5 DEF W!Announce
  <2> QED
    BY <2>3, <2>4
<1>5. CASE \E st \in Streams : GetReady(st)
  <2>1. UNCHANGED <<cache, oldestForChannel, announced>>
    BY <1>5 DEF GetReady, readyWith
  <2> QED
    BY <2>1, ReleaseTransfers
<1>6. CASE \E st \in Streams : \E a \in completed[st] : Dispatch(st, a)
  <2>1. /\ UNCHANGED <<oldestForChannel, announced>>
        /\ \A s \in Slots : cache'[s] \subseteq cache[s]
    BY <1>0, <1>6 DEF Dispatch, DispatchConsume, TypeOK
  <2> QED
    BY <2>1, ReleaseTransfers
<1>7. CASE Other
  <2>1. /\ UNCHANGED <<oldestForChannel, announced>>
        /\ \A s \in Slots : cache'[s] \subseteq cache[s]
    BY <1>0, <1>7 DEF Other, serviceVars, Rescan, relayerVars, DataProcessingExpired,
                      indexVars, EndOfStream, TypeOK
  <2> QED
    BY <2>1, ReleaseTransfers
<1>8. CASE StopAndStart
  <2>1. /\ announced' = 0 /\ cache' = cache
        /\ oldestForChannel' = [c \in Channels |-> 0]
    BY <1>8 DEF StopAndStart, StopStart, reset
  <2>2. heldTimeslices' = heldTimeslices
    BY <2>1 DEF heldTimeslices
  <2>3. Promised' = [c \in DataChannels |-> 0]
    BY <1>0, <2>1 DEF Promised
  <2> QED
    BY <2>1, <2>2, <2>3 DEF W!Restart, Promised
<1>9. CASE UNCHANGED allVars
  <2>1. UNCHANGED <<cache, oldestForChannel, announced>>
    BY <1>9 DEF allVars, vars, indexVars, relayerVars, serviceVars
  <2> QED
    BY <2>1, ReleaseTransfers
<1> QED
  BY <1>1, <1>2, <1>3, <1>4, <1>5, <1>6, <1>7, <1>8, <1>9 DEF DecongestionNext
-------------------------------------------------------------------------------
(* A step the contract allows keeps what was announced true. *)
LEMMA ContractKeepsTruth ==
  ASSUME TypeOK, TypeOK', announced \in Nat, AnnouncedIsTrue,
         [W!ContractNext]_(W!contractVars)
  PROVE  AnnouncedIsTrue'
<1>0. /\ \A c \in DataChannels : oldestForChannel[c] \in Nat /\ oldestForChannel'[c] \in Nat
      /\ \A t \in heldTimeslices \cup heldTimeslices' : t \in Nat
  <2>1. \A s \in Slots : \A m \in cache[s] \cup cache'[s] : m.ts \in Nat
    BY RelayerAssumption DEF TypeOK, Generated
  <2> QED
    BY <2>1, AllChannelsCarryData, IndexAssumption DEF TypeOK, IndexTypeOK, heldTimeslices
<1>1. CASE W!Transfer
  <2>1. PICK c \in DataChannels : \A t \in heldTimeslices' \ heldTimeslices :
                                    t >= Promised[c]
    BY <1>1 DEF W!Transfer, Promised
  <2>2. announced' = announced /\ Promised' = Promised
    BY <1>1 DEF W!Transfer, Promised
  <2>3. \A d \in DataChannels : oldestForChannel'[d] = oldestForChannel[d]
    BY <2>2 DEF Promised
  <2>4. ASSUME NEW t \in heldTimeslices' PROVE announced <= t
    <3>1. CASE t \in heldTimeslices
      BY <3>1 DEF AnnouncedIsTrue
    <3>2. CASE t \notin heldTimeslices
      <4>1. t >= oldestForChannel[c]
        BY <2>1, <2>4, <3>2 DEF Promised
      <4>2. announced <= oldestForChannel[c]
        BY DEF AnnouncedIsTrue
      <4>3. t \in Nat /\ oldestForChannel[c] \in Nat
        BY <1>0, <2>4
      <4> QED
        BY <4>1, <4>2, <4>3
    <3> QED
      BY <3>1, <3>2
  <2> QED
    BY <2>2, <2>3, <2>4 DEF AnnouncedIsTrue
<1>2. CASE W!Promise
  <2>1. /\ announced' = announced /\ heldTimeslices' = heldTimeslices
        /\ \E c \in DataChannels : /\ Promised'[c] > Promised[c]
                                   /\ Promised' = [Promised EXCEPT ![c] = Promised'[c]]
    BY <1>2 DEF W!Promise, Promised
  <2>2. ASSUME NEW d \in DataChannels PROVE announced <= oldestForChannel'[d]
    <3>1. oldestForChannel'[d] >= oldestForChannel[d]
      <4>1. PICK c \in DataChannels :
               /\ Promised'[c] > Promised[c]
               /\ Promised' = [Promised EXCEPT ![c] = Promised'[c]]
        BY <2>1
      <4>2. /\ Promised[d] = oldestForChannel[d] /\ Promised'[d] = oldestForChannel'[d]
            /\ DOMAIN Promised = DataChannels
        BY DEF Promised
      <4>3. CASE d = c
        BY <1>0, <4>1, <4>2, <4>3
      <4>4. CASE d # c
        <5>1. Promised'[d] = Promised[d]
          BY <4>1, <4>2, <4>4
        <5> QED
          BY <1>0, <4>2, <5>1
      <4> QED
        BY <4>3, <4>4
    <3>2. announced <= oldestForChannel[d]
      BY DEF AnnouncedIsTrue
    <3> QED
      BY <1>0, <3>1, <3>2
  <2> QED
    BY <2>1, <2>2 DEF AnnouncedIsTrue
<1>3. CASE W!Announce
  <2>1. /\ heldTimeslices' = heldTimeslices /\ Promised' = Promised
        /\ \A t \in heldTimeslices : announced' <= t
        /\ \A c \in DataChannels : announced' <= Promised[c]
    BY <1>3 DEF W!Announce, Promised
  <2>2. \A c \in DataChannels : announced' <= oldestForChannel'[c]
    BY <2>1 DEF Promised
  <2> QED
    BY <2>1, <2>2 DEF AnnouncedIsTrue
<1>4. CASE W!Restart
  <2>1. announced' = 0
    BY <1>4 DEF W!Restart
  <2> QED
    BY <1>0, <2>1 DEF AnnouncedIsTrue
<1>5. CASE UNCHANGED W!contractVars
  <2>1. announced' = announced /\ heldTimeslices' = heldTimeslices /\ Promised' = Promised
    BY <1>5 DEF W!contractVars, Promised
  <2>2. \A c \in DataChannels : oldestForChannel'[c] = oldestForChannel[c]
    BY <2>1 DEF Promised
  <2> QED
    BY <2>1, <2>2 DEF AnnouncedIsTrue
<1> QED
  BY <1>1, <1>2, <1>3, <1>4, <1>5 DEF W!ContractNext

(* What forwardInputs and domainInfoUpdated post. *)
LEMMA PostedTasks ==
  ASSUME WatermarkInv
  PROVE  \A slots : forwardInputs(slots) \subseteq Tasks
                      /\ \A k \in forwardInputs(slots) : k.output <= k.timeslice
  BY DEF forwardInputs, task, Tasks, WatermarkInv, TypeOK, IndexTypeOK

(* The invariant of the tasks. *)
LEMMA TasksNext ==
  ASSUME WatermarkInv, WatermarkInv', TasksInv, [DecongestionNext]_allVars
  PROVE  TasksInv'
<1>0. ASSUME tasks' \subseteq tasks PROVE TasksInv'
  BY <1>0 DEF TasksInv
<1>1. ASSUME NEW slots, tasks' = tasks \cup forwardInputs(slots) PROVE TasksInv'
  BY <1>1, PostedTasks DEF TasksInv
<1>2. CASE \E m \in Messages : Relay(m)
  BY <1>1, <1>2 DEF Relay
<1>3. CASE \E c \in DataChannels, t \in 0 .. MaxTimeslice : Announcement(c, t)
  <2> PICK c \in DataChannels, t \in 0 .. MaxTimeslice : Announcement(c, t)
    BY <1>3
  <2> DEFINE out == oldestPossibleOutput'
  <2>1. c \in DPLChannels /\ c \in Channels /\ t \in Nat
    BY AllChannelsCarryData, IndexAssumption, RelayerAssumption
  <2>2. oldestForChannel'[c] = t
    BY <2>1 DEF Announcement, DomainInfoUpdated, WatermarkInv, TypeOK, IndexTypeOK
  <2>3. out \in Nat /\ oldestPossibleInput' \in Nat
    BY DEF WatermarkInv, TypeOK, IndexTypeOK
  <2>4. out <= oldestPossibleInput' /\ oldestPossibleInput' <= t
    BY <2>1, <2>2 DEF WatermarkInv, OutputBound, InputBound
  <2>5. out <= t /\ out <= out
    BY <2>1, <2>3, <2>4
  <2>6. tasks' = tasks \cup posts(t, out)
    BY DEF Announcement
  <2> HIDE DEF out
  <2>7. /\ task(t, out, "pastOldest") \in Tasks
        /\ task(t, out, "decongestion") \in Tasks
        /\ task(out, out, "ordered") \in Tasks
    BY <2>1, <2>3 DEF task, Tasks
  <2>8. posts(t, out) \subseteq
          {task(t, out, "pastOldest"), task(t, out, "decongestion"), task(out, out, "ordered")}
    BY DEF posts
  <2>9. \A k \in posts(t, out) : k.output <= k.timeslice
    BY <2>5, <2>8 DEF task
  <2> QED
    BY <2>6, <2>7, <2>8, <2>9 DEF TasksInv
<1>4. CASE Prune
  BY <1>1, <1>4 DEF Prune
<1>5. CASE RunTasks
  BY <1>0, <1>5 DEF RunTasks
<1>6. CASE \E st \in Streams : GetReady(st)
  BY <1>0, <1>6 DEF GetReady
<1>7. CASE \E st \in Streams : \E a \in completed[st] : Dispatch(st, a)
  BY <1>1, <1>7 DEF Dispatch
<1>8. CASE Other
  BY <1>0, <1>8 DEF Other, serviceVars
<1>9. CASE StopAndStart
  BY <1>0, <1>9 DEF StopAndStart
<1>10. CASE UNCHANGED allVars
  BY <1>0, <1>10 DEF allVars, serviceVars
<1> QED
  BY <1>2, <1>3, <1>4, <1>5, <1>6, <1>7, <1>8, <1>9, <1>10 DEF DecongestionNext

(* The invariant of the service. *)
LEMMA ServiceNext ==
  ASSUME SlotInv, SlotInv', WatermarkInv, WatermarkInv', ServiceInv,
         stops' = stops => oldestPossibleOutput' >= oldestPossibleOutput,
         [DecongestionNext]_allVars
  PROVE  ServiceInv'
<1>0. TypeOK /\ TypeOK' /\ announced \in Nat /\ lastTimeslice \in Nat
  BY DEF SlotInv, ServiceInv
<1>1. TasksInv'
  BY TasksNext DEF ServiceInv
<1>2. AnnouncedIsTrue'
  BY <1>0, ContractStep, ContractKeepsTruth DEF ServiceInv
<1> DEFINE Rest == announced' \in Nat /\ lastTimeslice' \in Nat /\ NeverAhead'
<1> SUFFICES Rest
  BY <1>1, <1>2 DEF ServiceInv
<1>3. CASE RunTasks
  BY <1>3, RunTasksValues DEF NeverAhead
<1>4. CASE StopAndStart
  <2>1. announced' = 0 /\ lastTimeslice' = 0 /\ oldestPossibleOutput' \in Nat
    BY <1>0, <1>4 DEF StopAndStart, TypeOK, IndexTypeOK
  <2> QED
    BY <2>1 DEF NeverAhead
<1>5. ASSUME UNCHANGED <<lastTimeslice, announced, stops>> PROVE Rest
  <2>1. oldestPossibleOutput' >= oldestPossibleOutput
    BY <1>5
  <2>2. oldestPossibleOutput \in Nat /\ oldestPossibleOutput' \in Nat
    BY <1>0 DEF TypeOK, IndexTypeOK
  <2>3. lastTimeslice <= oldestPossibleOutput /\ lastTimeslice <= announced
    BY DEF ServiceInv, NeverAhead
  <2>4. lastTimeslice <= oldestPossibleOutput'
    BY <1>0, <2>1, <2>2, <2>3
  <2> QED
    BY <1>0, <1>5, <2>3, <2>4 DEF NeverAhead
<1>6. CASE ~ RunTasks /\ ~ StopAndStart
  <2>1. CASE \E m \in Messages : Relay(m)
    BY <1>5, <2>1 DEF Relay, RelayToMatchingSlot, RelayToFreeSlot, RelayInvalid
  <2>2. CASE \E c \in DataChannels, t \in 0 .. MaxTimeslice : Announcement(c, t)
    BY <1>5, <2>2 DEF Announcement, DomainInfoUpdated
  <2>3. CASE Prune
    BY <1>5, <2>3 DEF Prune, PrunePending
  <2>4. CASE \E st \in Streams : GetReady(st)
    BY <1>5, <2>4 DEF GetReady, readyWith
  <2>5. CASE \E st \in Streams : \E a \in completed[st] : Dispatch(st, a)
    BY <1>5, <2>5 DEF Dispatch, DispatchConsume
  <2>6. CASE Other
    BY <1>5, <2>6 DEF Other, serviceVars, Rescan, relayerVars, DataProcessingExpired, EndOfStream
  <2>7. CASE UNCHANGED allVars
    BY <1>5, <2>7 DEF allVars, serviceVars, vars, relayerVars
  <2> QED
    BY <1>6, <2>1, <2>2, <2>3, <2>4, <2>5, <2>6, <2>7 DEF DecongestionNext
<1> QED
  BY <1>3, <1>4, <1>6

(* The invariant of the whole device. *)
LEMMA DeviceInvariant == DecongestionSpec => []DeviceInv
<1>1. DecongestionInit => DeviceInv
  <2> SUFFICES ASSUME DecongestionInit PROVE DeviceInv
    OBVIOUS
  <2>1. SlotInv /\ WatermarkInv
    BY SlotInit, TypeInit, IndexAssumption, RelayerAssumption
       DEF DecongestionInit, Init, IndexInit, WatermarkInv, TimersBehind, InputBound,
           OutputBound, isValid
  <2>2. heldTimeslices = {}
    BY DEF DecongestionInit, Init, heldTimeslices
  <2>3. oldestPossibleOutput = 0 /\ \A c \in DataChannels : oldestForChannel[c] = 0
    BY AllChannelsCarryData, IndexAssumption DEF DecongestionInit, Init, IndexInit
  <2> QED
    BY <2>1, <2>2, <2>3
       DEF DecongestionInit, DeviceInv, ServiceInv, TasksInv, NeverAhead, AnnouncedIsTrue
<1>2. DeviceInv /\ [DecongestionNext]_allVars => DeviceInv'
  <2> SUFFICES ASSUME DeviceInv, [DecongestionNext]_allVars PROVE DeviceInv'
    OBVIOUS
  <2>1. [Next]_vars /\ TimerInputs = {}
    BY RelayerStep, DecongestionAssumption
  <2>2. SlotInv'
    BY <2>1, SlotNext DEF DeviceInv
  <2>3. WatermarkInv' /\ (stops' = stops => oldestPossibleOutput' >= oldestPossibleOutput)
    BY <2>1, WatermarkNext DEF DeviceInv
  <2>4. ServiceInv'
    BY <2>2, <2>3, ServiceNext DEF DeviceInv
  <2> QED
    BY <2>2, <2>3, <2>4 DEF DeviceInv
<1> QED
  BY <1>1, <1>2, PTL DEF DecongestionSpec
-------------------------------------------------------------------------------
(* The device, with its cache, its watermarks and its task queue,          *)
(* implements the contract of a link in the chain: what it announces       *)
(* downstream follows from what it was told upstream, for each of the      *)
(* three policies and across any number of stops.                          *)
THEOREM DeviceMeetsContract == DecongestionSpec => MeetsContract
<1>1. DecongestionInit => W!ContractInit
  <2> SUFFICES ASSUME DecongestionInit PROVE W!ContractInit
    OBVIOUS
  <2>1. heldTimeslices = {}
    BY DEF DecongestionInit, Init, heldTimeslices
  <2>2. \A c \in DataChannels : oldestForChannel[c] = 0
    BY AllChannelsCarryData, IndexAssumption DEF DecongestionInit, Init, IndexInit
  <2> QED
    BY <2>1, <2>2 DEF W!ContractInit, DecongestionInit
<1>2. DeviceInv /\ [DecongestionNext]_allVars => [W!ContractNext]_(W!contractVars)
  BY ContractStep DEF DeviceInv
<1> QED
  BY <1>1, <1>2, DeviceInvariant, PTL DEF DecongestionSpec, MeetsContract, W!Contract

(* What decongestionCallback and forwardInputs have announced is true of   *)
(* all that is in the cache and of all that can still arrive.              *)
THEOREM AnnouncementsAreTrue == DecongestionSpec => []AnnouncedIsTrue
<1>1. DeviceInv => AnnouncedIsTrue
  BY DEF DeviceInv, ServiceInv
<1> QED
  BY <1>1, DeviceInvariant, PTL

(* lastTimeslice is never ahead of the watermark, nor of what was sent:    *)
(* the tasks that a stop leaves in the queue are harmless.                 *)
THEOREM NothingSentAhead == DecongestionSpec => []NeverAhead
<1>1. DeviceInv => NeverAhead
  BY DEF DeviceInv, ServiceInv
<1> QED
  BY <1>1, DeviceInvariant, PTL
-------------------------------------------------------------------------------
(***************************************************************************)
(* consumeWhenAllOrdered.  The policy changes nextTimeslice while          *)
(* getReadyToProcess goes through the slots, and a header of timeslice 0   *)
(* sets it back: "startTime is 0, which means we have the first message".  *)
(***************************************************************************)
isFirst(m) == m.ts = 0 /\ m.input = FirstInput

holdsFirst(s) == \E m \in cache[s] : isFirst(m)

(* What the records in the cache are like, those queued for pruning        *)
(* included, and that the first message is delivered once.                 *)
RecordsInv ==
  /\ \A s \in Slots : \A m, k \in cache[s] : m.ts = k.ts
  /\ \A s \in Slots : ~ isValid(variables, s) => present(s) # Inputs
  /\ \A s \in Slots : \A m \in cache[s] : isFirst(m) => m \notin upstream
  /\ \A s, r \in Slots : holdsFirst(s) /\ holdsFirst(r) => s = r

LEMMA StartTime ==
  ASSUME TypeOK, RecordsInv, NEW s \in Slots, FirstInput \in present(s)
  PROVE  startTime(s) \in Nat /\ (startTime(s) = 0 => holdsFirst(s))
<1>1. PICK m \in cache[s] : m.input = FirstInput
  BY DEF present
<1> DEFINE c == CHOOSE k \in cache[s] : TRUE
<1>2. c \in cache[s]
  BY <1>1
<1>3. c.ts = m.ts /\ c \in Messages \cup Generated
  BY <1>1, <1>2 DEF RecordsInv, TypeOK
<1>4. c.ts \in Nat
  BY <1>3, RelayerAssumption DEF Generated
<1> QED
  BY <1>1, <1>3, <1>4 DEF startTime, holdsFirst, isFirst

Scans == [next : Nat, rescanned : BOOLEAN]

(* The visit of one slot. *)
scanOne(after, s) ==
  IF ~ (dirty[s] \/ after.rescanned) THEN after
  ELSE [next |-> nextAfter(s, after.next),
        rescanned |-> after.rescanned
                        \/ orderedOp(s, after.next) = "ConsumeAndRescan"]

IsScan(g) ==
  g = [s \in 0 .. NumSlots |->
         IF s = NumSlots THEN [next |-> nextTimeslice, rescanned |-> FALSE]
         ELSE scanOne(g[s + 1], s)]

LEMMA ScanOneType ==
  ASSUME TypeOK, RecordsInv, NEW c \in Scans, NEW s \in Slots
  PROVE  scanOne(c, s) \in Scans
<1>1. c.next \in Nat /\ c.rescanned \in BOOLEAN
  BY DEF Scans
<1>2. nextAfter(s, c.next) \in Nat
  <2>1. CASE orderedOp(s, c.next) = "ConsumeAndRescan"
    <3>1. FirstInput \in present(s)
      BY <2>1, DecongestionAssumption DEF orderedOp
    <3>2. startTime(s) \in Nat
      BY <3>1, StartTime
    <3> QED
      BY <2>1, <3>2 DEF nextAfter
  <2>2. CASE orderedOp(s, c.next) # "ConsumeAndRescan"
    BY <1>1, <2>2 DEF nextAfter
  <2> QED
    BY <2>1, <2>2
<1> QED
  BY <1>1, <1>2 DEF scanOne, Scans

(* The function that describes the scan is defined: the slots are visited  *)
(* from the last to the first.                                             *)
LEMMA OrderedScan ==
  ASSUME TypeOK, RecordsInv, nextTimeslice \in Nat
  PROVE  /\ orderedScan[NumSlots] = [next |-> nextTimeslice, rescanned |-> FALSE]
         /\ \A s \in 0 .. NumSlots : orderedScan[s] \in Scans
         /\ \A s \in Slots : orderedScan[s] = scanOne(orderedScan[s + 1], s)
<1> DEFINE N == NumSlots
           base == [next |-> nextTimeslice, rescanned |-> FALSE]
           G == [n \in 1 .. N |-> [c \in Scans |-> scanOne(c, N - n)]]
<1>1. N \in Nat /\ base \in Scans /\ \A n \in 1 .. N : N - n \in Slots
  BY IndexAssumption DEF Scans, Slots
<1>2. \A n \in 1 .. N, c \in Scans : scanOne(c, N - n) \in Scans
  BY <1>1, ScanOneType
<1>3. G \in [1 .. N -> [Scans -> Scans]]
  BY <1>2
<1>4. \A n \in 1 .. N, c \in Scans : G[n][c] = scanOne(c, N - n)
  OBVIOUS
<1> HIDE DEF G, base
<1>5. PICK f : Iterates(f, N, Scans, base, G)
  BY <1>1, <1>3, Recursion
<1> DEFINE g == [s \in 0 .. N |-> f[N - s]]
<1>6. IsScan(g)
  <2>1. g[N] = base
    BY <1>1, <1>5 DEF Iterates
  <2>2. ASSUME NEW s \in 0 .. N, s # N PROVE g[s] = scanOne(g[s + 1], s)
    <3>1. N - s \in 1 .. N /\ (N - s) - 1 \in 0 .. N /\ N - (N - s) = s
          /\ s + 1 \in 0 .. N /\ N - (s + 1) = (N - s) - 1
      BY <1>1, <2>2
    <3>2. f[N - s] = G[N - s][f[(N - s) - 1]] /\ f[(N - s) - 1] \in Scans
      BY <1>5, <3>1 DEF Iterates
    <3>3. f[N - s] = scanOne(f[(N - s) - 1], s)
      BY <1>4, <3>1, <3>2
    <3> QED
      BY <3>1, <3>3
  <2>3. \A s \in 0 .. N : g[s] = IF s = N THEN base ELSE scanOne(g[s + 1], s)
    BY <2>1, <2>2
  <2>4. g = [s \in 0 .. N |-> g[s]]
    OBVIOUS
  <2> HIDE DEF g
  <2> QED
    BY <2>3, <2>4 DEF IsScan, base
<1> HIDE DEF g
<1>7. orderedScan = CHOOSE h : IsScan(h)
  BY DEF orderedScan, IsScan, scanOne
<1>8. IsScan(orderedScan)
  BY <1>6, <1>7
<1>9. \A s \in 0 .. N : orderedScan[s] = IF s = N THEN base ELSE scanOne(orderedScan[s + 1], s)
  BY <1>8 DEF IsScan, base
<1>10. orderedScan[N] = base
  BY <1>1, <1>9
<1>11. \A s \in Slots : orderedScan[s] = scanOne(orderedScan[s + 1], s)
  BY <1>1, <1>9 DEF Slots
<1>12. 0 .. N \subseteq {s \in 0 .. N : orderedScan[s] \in Scans}
  <2> DEFINE S == {s \in 0 .. N : orderedScan[s] \in Scans}
  <2>1. N \in S
    BY <1>1, <1>10
  <2>2. ASSUME NEW n \in 0 .. N - 1, n + 1 \in S PROVE n \in S
    <3>1. n \in Slots /\ n \in 0 .. N
      BY <1>1 DEF Slots
    <3> QED
      BY <1>11, <2>2, <3>1, ScanOneType
  <2> HIDE DEF S
  <2>3. 0 .. N \subseteq S
    BY <1>1, <2>1, <2>2, DownwardInduct
  <2> QED
    BY <2>3 DEF S
<1> QED
  BY <1>10, <1>11, <1>12 DEF base

(* nextTimeslice before the visit of slot s - 1, and the slots whose record *)
(* the policy releases.                                                     *)
nextAt(s) == orderedScan[s].next

released(s) ==
  /\ dirty[s] \/ orderedScan[s + 1].rescanned
  /\ orderedOp(s, nextAt(s + 1)) = "ConsumeAndRescan"

ScanInv == TypeOK /\ RecordsInv /\ nextTimeslice \in Nat

(* What one visit does. *)
LEMMA ScanStep ==
  ASSUME ScanInv, NEW s \in Slots
  PROVE  /\ nextAt(s) \in Nat /\ nextAt(s + 1) \in Nat
         /\ s \in 0 .. NumSlots /\ s + 1 \in 0 .. NumSlots
         /\ released(s) =>
              /\ present(s) = Inputs /\ FirstInput \in present(s)
              /\ startTime(s) \in Nat /\ startTime(s) \in {0, nextAt(s + 1)}
              /\ nextAt(s) = startTime(s) + 1
         /\ ~ released(s) =>
              nextAt(s) = nextAt(s + 1) \/ (nextAt(s) = 0 /\ holdsFirst(s))
         /\ orderedScan[s].rescanned <=> orderedScan[s + 1].rescanned \/ released(s)
<1>1. s \in 0 .. NumSlots /\ s + 1 \in 0 .. NumSlots
  BY IndexAssumption DEF Slots
<1> DEFINE c == orderedScan[s + 1]
           d == orderedScan[s]
<1>2. c \in Scans /\ d \in Scans /\ d = scanOne(c, s)
  BY <1>1, OrderedScan DEF ScanInv
<1>3. nextAt(s) = d.next /\ nextAt(s + 1) = c.next
  BY DEF nextAt
<1>4. released(s) <=> (dirty[s] \/ c.rescanned) /\ orderedOp(s, c.next) = "ConsumeAndRescan"
  BY DEF released, nextAt
<1> HIDE DEF c, d
<1>5. c.next \in Nat /\ d.next \in Nat /\ c.rescanned \in BOOLEAN
  BY <1>2 DEF Scans
<1>6. CASE ~ (dirty[s] \/ c.rescanned)
  <2>0. ~ released(s)
    BY <1>4, <1>6
  <2>1. d = c
    BY <1>2, <1>6 DEF scanOne
  <2>2. nextAt(s) = nextAt(s + 1) /\ nextAt(s) \in Nat
    BY <1>3, <1>5, <2>1
  <2>3. ~ orderedScan[s].rescanned /\ ~ orderedScan[s + 1].rescanned
    BY <1>6, <2>1 DEF c, d
  <2> QED
    BY <1>1, <2>0, <2>2, <2>3
<1>7. CASE (dirty[s] \/ c.rescanned) /\ orderedOp(s, c.next) = "ConsumeAndRescan"
  <2>1. released(s)
    BY <1>4, <1>7
  <2>2. present(s) = Inputs /\ FirstInput \in present(s) /\ startTime(s) \in {0, c.next}
    BY <1>7, DecongestionAssumption DEF orderedOp
  <2>3. startTime(s) \in Nat
    BY <2>2, StartTime DEF ScanInv
  <2>4. d.next = startTime(s) + 1 /\ d.rescanned = TRUE
    BY <1>2, <1>7 DEF scanOne, nextAfter
  <2> QED
    BY <1>1, <1>3, <1>5, <2>1, <2>2, <2>3, <2>4 DEF c, d
<1>8. CASE (dirty[s] \/ c.rescanned) /\ orderedOp(s, c.next) # "ConsumeAndRescan"
  <2>1. ~ released(s)
    BY <1>4, <1>8
  <2>2. d.next = nextAfter(s, c.next)
    BY <1>2, <1>8 DEF scanOne
  <2>4. orderedScan[s].rescanned <=> orderedScan[s + 1].rescanned
    BY <1>2, <1>5, <1>8 DEF scanOne, c, d
  <2>3. d.next = c.next \/ (d.next = 0 /\ holdsFirst(s))
    <3>1. CASE FirstInput \in present(s) /\ startTime(s) = 0
      <4>1. holdsFirst(s)
        BY <3>1, StartTime DEF ScanInv
      <4> QED
        BY <1>8, <2>2, <3>1, <4>1 DEF nextAfter
    <3>2. CASE ~ (FirstInput \in present(s) /\ startTime(s) = 0)
      <4>1. nextAfter(s, c.next) = c.next
        BY <1>8, <3>2 DEF nextAfter
      <4> QED
        BY <2>2, <4>1
    <3> QED
      BY <3>1, <3>2
  <2> QED
    BY <1>1, <1>3, <1>5, <2>1, <2>3, <2>4
<1> QED
  BY <1>6, <1>7, <1>8

(* The scan starts with the value of the service. *)
LEMMA ScanStart ==
  ASSUME ScanInv
  PROVE  nextAt(NumSlots) = nextTimeslice /\ ~ orderedScan[NumSlots].rescanned
  BY OrderedScan DEF ScanInv, nextAt

(* nextTimeslice leaves 0 only when the record of timeslice 0 is released. *)
LEMMA LeavesZero ==
  ASSUME ScanInv, nextTimeslice = 0
  PROVE  \A j \in 0 .. NumSlots : nextAt(j) # 0 =>
            \E k \in Slots : k >= j /\ released(k) /\ holdsFirst(k)
<1> DEFINE P(j) == nextAt(j) # 0 => \E k \in Slots : k >= j /\ released(k) /\ holdsFirst(k)
           S == {j \in 0 .. NumSlots : P(j)}
<1>0. NumSlots \in Nat /\ Slots \subseteq Nat
  BY IndexAssumption, SlotsAreNats
<1>1. NumSlots \in S
  BY <1>0, ScanStart
<1>2. ASSUME NEW j \in 0 .. NumSlots - 1, j + 1 \in S PROVE j \in S
  <2>0. j \in Slots /\ j \in 0 .. NumSlots
    BY <1>0 DEF Slots
  <2> SUFFICES ASSUME nextAt(j) # 0
               PROVE  \E k \in Slots : k >= j /\ released(k) /\ holdsFirst(k)
    BY <2>0
  <2>1. CASE nextAt(j + 1) # 0
    <3>1. PICK k \in Slots : k >= j + 1 /\ released(k) /\ holdsFirst(k)
      BY <1>2, <2>1
    <3>2. k >= j
      BY <1>0, <3>1
    <3> QED
      BY <3>1, <3>2
  <2>2. CASE nextAt(j + 1) = 0
    <3>1. released(j)
      BY <2>0, <2>2, ScanStep
    <3>2. FirstInput \in present(j) /\ startTime(j) = 0
      BY <2>0, <2>2, <3>1, ScanStep
    <3>3. holdsFirst(j)
      BY <2>0, <3>2, StartTime DEF ScanInv
    <3> QED
      BY <2>0, <3>1, <3>3, <1>0
  <2> QED
    BY <2>1, <2>2
<1> HIDE DEF S
<1>3. 0 .. NumSlots \subseteq S
  BY <1>0, <1>1, <1>2, DownwardInduct
<1> QED
  BY <1>3 DEF S

(* If nothing has been consumed while the first record is in the cache     *)
(* then nextTimeslice never goes down within a scan, and what is released  *)
(* is what was next.                                                       *)
NothingBeforeFirst == (\E s \in Slots : holdsFirst(s)) => nextTimeslice = 0

LEMMA ScanGoesUp ==
  ASSUME ScanInv, NothingBeforeFirst, NEW s \in Slots
  PROVE  /\ nextAt(s + 1) <= nextAt(s)
         /\ released(s) => startTime(s) = nextAt(s + 1)
<1>0. Slots \subseteq Nat
  BY SlotsAreNats
<1>1. ASSUME holdsFirst(s) PROVE nextAt(s + 1) = 0
  <2>1. nextTimeslice = 0
    BY <1>1 DEF NothingBeforeFirst
  <2> SUFFICES ASSUME nextAt(s + 1) # 0 PROVE FALSE
    OBVIOUS
  <2>2. PICK k \in Slots : k >= s + 1 /\ holdsFirst(k)
    BY <2>1, ScanStep, LeavesZero
  <2>3. k = s
    BY <1>1, <2>2 DEF ScanInv, RecordsInv
  <2> QED
    BY <1>0, <2>2, <2>3
<1>2. CASE released(s)
  <2>1. /\ startTime(s) \in Nat /\ nextAt(s) = startTime(s) + 1 /\ nextAt(s + 1) \in Nat
        /\ startTime(s) \in {0, nextAt(s + 1)} /\ FirstInput \in present(s)
    BY <1>2, ScanStep
  <2>2. startTime(s) = nextAt(s + 1)
    BY <1>1, <2>1, StartTime DEF ScanInv
  <2> QED
    BY <2>1, <2>2
<1>3. CASE ~ released(s)
  <2>1. nextAt(s + 1) \in Nat /\ (nextAt(s) = nextAt(s + 1) \/ (nextAt(s) = 0 /\ holdsFirst(s)))
    BY <1>3, ScanStep
  <2>2. nextAt(s) = nextAt(s + 1)
    BY <1>1, <2>1
  <2> QED
    BY <1>3, <2>1, <2>2
<1> QED
  BY <1>2, <1>3

(* The same over several slots. *)
LEMMA ScanMonotone ==
  ASSUME ScanInv, NothingBeforeFirst, NEW r \in 0 .. NumSlots
  PROVE  \A s \in 0 .. NumSlots : s <= r =>
            /\ nextAt(r) <= nextAt(s)
            /\ orderedScan[r].rescanned => orderedScan[s].rescanned
<1> DEFINE P(s) == s <= r => /\ nextAt(r) <= nextAt(s)
                             /\ orderedScan[r].rescanned => orderedScan[s].rescanned
           S == {s \in 0 .. NumSlots : P(s)}
<1>0. NumSlots \in Nat /\ Slots \subseteq Nat
  BY IndexAssumption, SlotsAreNats
<1>1. \A s \in 0 .. NumSlots : nextAt(s) \in Nat
  BY OrderedScan DEF ScanInv, nextAt, Scans
<1>2. r \in S
  BY <1>1
<1>3. ASSUME NEW s \in 0 .. NumSlots, r <= s PROVE s \in S
  <2>1. CASE s = r
    BY <1>2, <2>1
  <2>2. CASE s # r
    BY <1>0, <1>3, <2>2
  <2> QED
    BY <2>1, <2>2
<1>4. NumSlots \in S
  BY <1>0, <1>3
<1>5. ASSUME NEW s \in 0 .. NumSlots - 1, s + 1 \in S PROVE s \in S
  <2>0. s \in Slots /\ s \in 0 .. NumSlots /\ s + 1 \in 0 .. NumSlots
    BY <1>0 DEF Slots
  <2>1. CASE r <= s
    BY <1>3, <2>0, <2>1
  <2>2. CASE ~ (r <= s)
    <3>1. s + 1 <= r
      BY <1>0, <2>0, <2>2
    <3>2. nextAt(r) <= nextAt(s + 1) /\ (orderedScan[r].rescanned => orderedScan[s + 1].rescanned)
      BY <1>5, <3>1
    <3>3. nextAt(s + 1) <= nextAt(s) /\ (orderedScan[s + 1].rescanned => orderedScan[s].rescanned)
      BY <2>0, ScanGoesUp, ScanStep
    <3>4. nextAt(r) \in Nat /\ nextAt(s) \in Nat /\ nextAt(s + 1) \in Nat
      BY <1>1, <2>0
    <3>5. nextAt(r) <= nextAt(s)
      BY <3>2, <3>3, <3>4
    <3> QED
      BY <2>0, <3>2, <3>3, <3>5
  <2> QED
    BY <2>1, <2>2
<1> HIDE DEF S
<1>6. 0 .. NumSlots \subseteq S
  BY <1>0, <1>4, <1>5, DownwardInduct
<1> QED
  BY <1>6 DEF S

(* A rescan begins at a slot that was dirty. *)
LEMMA RescannedFrom ==
  ASSUME ScanInv
  PROVE  \A j \in 0 .. NumSlots : orderedScan[j].rescanned =>
            \E k \in Slots : k >= j /\ dirty[k] /\ released(k)
<1> DEFINE P(j) == orderedScan[j].rescanned => \E k \in Slots : k >= j /\ dirty[k] /\ released(k)
           S == {j \in 0 .. NumSlots : P(j)}
<1>0. NumSlots \in Nat /\ Slots \subseteq Nat
  BY IndexAssumption, SlotsAreNats
<1>1. NumSlots \in S
  BY <1>0, ScanStart
<1>2. ASSUME NEW j \in 0 .. NumSlots - 1, j + 1 \in S PROVE j \in S
  <2>0. j \in Slots /\ j \in 0 .. NumSlots
    BY <1>0 DEF Slots
  <2> SUFFICES ASSUME orderedScan[j].rescanned
               PROVE  \E k \in Slots : k >= j /\ dirty[k] /\ released(k)
    BY <2>0
  <2>1. CASE orderedScan[j + 1].rescanned
    <3>1. PICK k \in Slots : k >= j + 1 /\ dirty[k] /\ released(k)
      BY <1>2, <2>1
    <3>2. k >= j
      BY <1>0, <3>1
    <3> QED
      BY <3>1, <3>2
  <2>2. CASE ~ orderedScan[j + 1].rescanned
    <3>1. released(j)
      BY <2>0, <2>2, ScanStep
    <3>2. dirty[j] /\ j >= j
      BY <1>0, <2>0, <2>2, <3>1 DEF released
    <3> QED
      BY <2>0, <3>1, <3>2
  <2> QED
    BY <2>1, <2>2
<1> HIDE DEF S
<1>3. 0 .. NumSlots \subseteq S
  BY <1>0, <1>1, <1>2, DownwardInduct
<1> QED
  BY <1>3 DEF S

(* The slots that getReadyToProcess finds ready are those released. *)
LEMMA ReadyIsReleased ==
  ASSUME ScanInv, NothingBeforeFirst, PolicyName = Ordered, NEW s \in Slots
  PROVE  s \in readySlots(policyOps) <=> isValid(variables, s) /\ released(s)
<1>0. Slots \subseteq Nat /\ s + 1 \in 0 .. NumSlots
  BY SlotsAreNats, ScanStep
<1>1. \A r \in Slots : policyOps[r] = orderedOp(r, nextAt(r + 1))
  <2>1. PolicyName = Ordered /\ PolicyName # PastOldest
    BY DEF Ordered, PastOldest
  <2> TAKE r \in Slots
  <2>2. policyOps[r] = orderedOp(r, orderedScan[r + 1].next)
    BY <2>1 DEF policyOps
  <2> QED
    BY <2>2 DEF nextAt
<1>2. \A r \in Slots : policyOps[r] \notin {"Wait", "Retry"} <=> policyOps[r] = "ConsumeAndRescan"
  BY <1>1 DEF orderedOp
<1>3. \A r \in Slots : dirty[r] /\ policyOps[r] = "ConsumeAndRescan" => released(r)
  BY <1>1 DEF released
<1>4. ASSUME s \in readySlots(policyOps) PROVE isValid(variables, s) /\ released(s)
  <2>1. isValid(variables, s) /\ s \in visited(policyOps) /\ policyOps[s] = "ConsumeAndRescan"
    BY <1>2, <1>4 DEF readySlots
  <2>2. CASE dirty[s]
    BY <1>3, <2>1, <2>2
  <2>3. CASE \E r \in Slots : r > s /\ dirty[r] /\ policyOps[r] = "ConsumeAndRescan"
    <3>1. PICK r \in Slots : r > s /\ released(r)
      BY <1>3, <2>3
    <3>2. orderedScan[r].rescanned /\ r \in 0 .. NumSlots
      BY <3>1, ScanStep
    <3>3. s + 1 <= r
      BY <1>0, <3>1
    <3>4. orderedScan[s + 1].rescanned
      BY <1>0, <3>2, <3>3, ScanMonotone
    <3> QED
      BY <1>1, <2>1, <3>4 DEF released
  <2> QED
    BY <2>1, <2>2, <2>3 DEF visited
<1>5. ASSUME isValid(variables, s), released(s) PROVE s \in readySlots(policyOps)
  <2>1. policyOps[s] = "ConsumeAndRescan"
    BY <1>1, <1>5 DEF released
  <2>2. s \in visited(policyOps)
    <3>1. CASE dirty[s]
      BY <3>1 DEF visited
    <3>2. CASE orderedScan[s + 1].rescanned
      <4>1. PICK k \in Slots : k >= s + 1 /\ dirty[k] /\ released(k)
        BY <1>0, <3>2, RescannedFrom
      <4>2. k > s /\ policyOps[k] = "ConsumeAndRescan"
        BY <1>0, <1>1, <4>1 DEF released
      <4> QED
        BY <4>1, <4>2 DEF visited
    <3> QED
      BY <1>5, <3>1, <3>2 DEF released
  <2> QED
    BY <1>2, <1>5, <2>1, <2>2 DEF readySlots
<1> QED
  BY <1>4, <1>5
-------------------------------------------------------------------------------
(* The first message of timeslice 0 comes once: after it the order would   *)
(* start again.                                                            *)
OneFirst == \A m, k \in Messages : isFirst(m) /\ isFirst(k) => m = k

(* The whole cache comes from upstream. *)
LEMMA OnlyMessages ==
  ASSUME TypeOK
  PROVE  \A s \in Slots : cache[s] \subseteq Messages
  BY DecongestionAssumption DEF TypeOK, Generated

(* A free main thread has no action left to run. *)
LEMMA FreeMeansNothingPending == mainThreadFree => NothingPending
  BY DecongestionAssumption DEF mainThreadFree, NothingPending

(* A step that stores nothing. *)
LEMMA RecordsLeave ==
  ASSUME RecordsInv, upstream' \subseteq upstream,
         \A s \in Slots : cache'[s] = cache[s] \/ cache'[s] = {},
         \A s \in Slots : ~ isValid(variables', s) /\ cache'[s] # {} /\ present(s) = Inputs
                            => ~ isValid(variables, s)
  PROVE  RecordsInv'
<1>1. ASSUME NEW s \in Slots, holdsFirst(s)' PROVE holdsFirst(s)
  BY <1>1 DEF holdsFirst
<1>2. ASSUME NEW s \in Slots, ~ isValid(variables', s), present(s)' = Inputs PROVE FALSE
  <2>1. FirstInput \in present(s)'
    BY <1>2, DecongestionAssumption
  <2>2. cache'[s] # {}
    BY <2>1 DEF present
  <2>3. cache'[s] = cache[s]
    BY <1>2, <2>2
  <2>4. present(s) = Inputs
    BY <1>2, <2>3 DEF present
  <2> QED
    BY <1>2, <2>2, <2>4 DEF RecordsInv
<1>3. \A s \in Slots : \A m \in cache'[s] : m \in cache[s]
  OBVIOUS
<1>4. \A s \in Slots : \A m, k \in cache'[s] : m.ts = k.ts
  BY <1>3 DEF RecordsInv
<1>5. \A s \in Slots : \A m \in cache'[s] : isFirst(m) => m \notin upstream'
  BY <1>3 DEF RecordsInv
<1>6. \A s, r \in Slots : holdsFirst(s)' /\ holdsFirst(r)' => s = r
  BY <1>1 DEF RecordsInv
<1> QED
  BY <1>2, <1>4, <1>5, <1>6 DEF RecordsInv, isFirst

(* A step that stores a message, in a slot that collects its timeslice or  *)
(* in one that was emptied for it.                                         *)
LEMMA RecordsStore ==
  ASSUME OneFirst, SlotInv, RecordsInv, NEW m \in Messages, NEW s \in Slots,
         m \in upstream, upstream' = upstream \ {m},
         \A r \in Slots : r # s => cache'[r] = cache[r] /\ variables'[r] = variables[r],
         isValid(variables', s),
         \/ cache'[s] \subseteq {m}
         \/ variables[s] = m.ts /\ cache'[s] \subseteq cache[s] \cup {m}
  PROVE  RecordsInv'
<1>0. TypeOK
  BY DEF SlotInv
<1>1. \A r \in Slots : cache[r] \subseteq Messages /\ cache'[r] \subseteq Messages
  BY <1>0, OnlyMessages
<1>2. \A r \in Slots : cache'[r] \subseteq cache[r] \cup {m}
  OBVIOUS
<1>3. \A r \in Slots : \A k, l \in cache'[r] : k.ts = l.ts
  <2> TAKE r \in Slots
  <2>1. CASE r # s
    BY <2>1 DEF RecordsInv
  <2>2. CASE r = s /\ cache'[s] \subseteq {m}
    BY <2>2
  <2>3. CASE r = s /\ variables[s] = m.ts /\ cache'[s] \subseteq cache[s] \cup {m}
    <3>1. m.ts \in Nat
      BY RelayerAssumption
    <3>2. isValid(variables, s)
      BY <2>3, <3>1, IndexAssumption DEF isValid
    <3>3. \A k \in cache[s] : k.ts = m.ts
      BY <2>3, <3>2 DEF SlotInv, SlotHomogeneous
    <3> QED
      BY <2>3, <3>3
  <2> QED
    BY <2>1, <2>2, <2>3
<1>4. \A r \in Slots : ~ isValid(variables', r) => present(r)' # Inputs
  BY DEF RecordsInv, isValid, present
<1>5. ASSUME isFirst(m), NEW r \in Slots, NEW k \in cache[r] PROVE ~ isFirst(k)
  BY <1>1, <1>5 DEF OneFirst, RecordsInv
<1>6. \A r \in Slots : \A k \in cache'[r] : isFirst(k) => k \notin upstream'
  BY <1>2 DEF RecordsInv
<1>7. \A r \in Slots : holdsFirst(r)' => holdsFirst(r) \/ (r = s /\ isFirst(m))
  BY <1>2 DEF holdsFirst, isFirst
<1>8. \A r, q \in Slots : holdsFirst(r)' /\ holdsFirst(q)' => r = q
  BY <1>5, <1>7 DEF RecordsInv, holdsFirst
<1> QED
  BY <1>3, <1>4, <1>6, <1>8 DEF RecordsInv, isFirst

(* In a device that is ordered a complete record that nobody is about to   *)
(* look at does not exist.                                                 *)
LEMMA CompleteIsDirty ==
  ASSUME PolicyName = Ordered, ActionInv, NothingPending, NEW s \in Slots,
         isValid(variables, s), present(s) = Inputs
  PROVE  dirty[s]
<1>1. Policy[Inputs] = answers(Inputs)
  BY DecongestionAssumption
<1>2. PolicyName # All /\ PolicyName = Ordered /\ PolicyName # PastOldest
  BY DEF Ordered, All, PastOldest
<1>3. answers(Inputs) = {"Retry", "ConsumeAndRescan"}
  BY <1>2 DEF answers
<1>4. Policy[present(s)] \subseteq ReleaseOps
  BY <1>1, <1>3 DEF ReleaseOps
<1> QED
  BY <1>4 DEF ActionInv, NoLostWakeup, NothingPending

LEMMA RecordsNext ==
  ASSUME OneFirst, PolicyName = Ordered, SlotInv, ActionInv, RecordsInv,
         [DecongestionNext]_allVars
  PROVE  RecordsInv'
<1>0. /\ cache \in [Slots -> SUBSET (Messages \cup Generated)]
      /\ variables \in [Slots -> Nat \cup {NoTimeslice}]
      /\ completed \in [Streams -> SUBSET RecordActions]
  BY DEF SlotInv, TypeOK, IndexTypeOK
<1>1. CASE \E m \in Messages : Relay(m)
  <2> PICK m \in Messages : Relay(m)
    BY <1>1
  <2>1. m.ts \in Nat
    BY RelayerAssumption
  <2>2. CASE RelayToMatchingSlot(m)
    <3> DEFINE s == Min(matchingSlots(m))
    <3>1. s \in matchingSlots(m)
      <4>1. matchingSlots(m) \in SUBSET Nat /\ matchingSlots(m) # {}
        BY <2>2, SlotsAreNats DEF RelayToMatchingSlot, matchingSlots, laneOf
      <4> QED
        BY <4>1, MinOfNats
    <3>2. s \in Slots /\ variables[s] = m.ts
      BY <3>1 DEF matchingSlots, laneOf
    <3>3. /\ cache' = [cache EXCEPT ![s] = @ \cup saveInSlot(m)] /\ variables' = variables
          /\ m \in upstream /\ upstream' = upstream \ {m}
      BY <2>2 DEF RelayToMatchingSlot, arrives
    <3> HIDE DEF s
    <3>4. /\ \A r \in Slots : r # s => cache'[r] = cache[r] /\ variables'[r] = variables[r]
          /\ cache'[s] \subseteq cache[s] \cup {m}
      BY <1>0, <3>2, <3>3 DEF saveInSlot
    <3>5. isValid(variables', s)
      BY <2>1, <3>2, <3>3, IndexAssumption DEF isValid
    <3> QED
      BY <3>2, <3>3, <3>4, <3>5, RecordsStore
  <2>3. CASE RelayToFreeSlot(m)
    <3> DEFINE s == Min(freeSlots(variables, m.ts))
    <3>1. s \in freeSlots(variables, m.ts)
      <4>1. freeSlots(variables, m.ts) \in SUBSET Nat /\ freeSlots(variables, m.ts) # {}
        BY <2>3, SlotsAreNats DEF RelayToFreeSlot, freeSlots, laneOf
      <4> QED
        BY <4>1, MinOfNats
    <3>2. s \in Slots
      BY <3>1 DEF freeSlots, laneOf
    <3>3. /\ cache' = [pruneCache({s}) EXCEPT ![s] = @ \cup saveInSlot(m)]
          /\ variables' = [variables EXCEPT ![s] = m.ts]
          /\ m \in upstream /\ upstream' = upstream \ {m}
      BY <2>3 DEF RelayToFreeSlot, arrives
    <3> HIDE DEF s
    <3>4. /\ \A r \in Slots : r # s => cache'[r] = cache[r] /\ variables'[r] = variables[r]
          /\ cache'[s] \subseteq {m}
      BY <1>0, <3>2, <3>3 DEF saveInSlot, pruneCache
    <3>5. isValid(variables', s)
      BY <1>0, <2>1, <3>2, <3>3, IndexAssumption DEF isValid
    <3> QED
      BY <3>2, <3>3, <3>4, <3>5, RecordsStore
  <2>4. CASE RelayInvalid(m)
    BY <2>4, RecordsLeave DEF RelayInvalid, arrives, indexVars
  <2> QED
    BY <2>2, <2>3, <2>4 DEF Relay
<1>2. CASE \E c \in DataChannels, t \in 0 .. MaxTimeslice : Announcement(c, t)
  <2> PICK c \in DataChannels, t \in 0 .. MaxTimeslice : Announcement(c, t)
    BY <1>2
  <2> DEFINE gone == obsoleteSlots(variables, dirty, oldestPossibleInput')
  <2>1. /\ variables' = markAsInvalid(variables, gone) /\ mainThreadFree
        /\ cache' = cache /\ upstream' = upstream
    BY DEF Announcement, DomainInfoUpdated
  <2>2. ASSUME NEW s \in Slots, ~ isValid(variables', s), present(s) = Inputs
        PROVE  ~ isValid(variables, s)
    <3>1. CASE s \in gone
      <4>1. ~ dirty[s] /\ isValid(variables, s)
        BY <3>1 DEF obsoleteSlots
      <4> QED
        BY <2>1, <2>2, <4>1, CompleteIsDirty, FreeMeansNothingPending
    <3>2. CASE s \notin gone
      <4> HIDE DEF gone
      <4> QED
        BY <2>1, <2>2, <3>2 DEF markAsInvalid, isValid
    <3> QED
      BY <3>1, <3>2
  <2> HIDE DEF gone
  <2> QED
    BY <2>1, <2>2, RecordsLeave
<1>3. CASE Prune
  <2>1. cache' = pruneCache(pruneOps) /\ variables' = variables /\ upstream' = upstream
    BY <1>3 DEF Prune, PrunePending, indexVars
  <2> QED
    BY <2>1, RecordsLeave DEF pruneCache
<1>4. CASE RunTasks
  BY <1>4, RecordsLeave DEF RunTasks, relayerVars
<1>5. CASE \E st \in Streams : GetReady(st)
  BY <1>5, RecordsLeave DEF GetReady, readyWith
<1>6. CASE \E st \in Streams : \E a \in completed[st] : Dispatch(st, a)
  <2> PICK st \in Streams : \E a \in completed[st] : Dispatch(st, a)
    BY <1>6
  <2> PICK a \in completed[st] : Dispatch(st, a)
    OBVIOUS
  <2>1. a.slot \in Slots
    BY <1>0 DEF RecordActions
  <2>2. /\ cache' = [cache EXCEPT ![a.slot] = {}] /\ upstream' = upstream
        /\ variables' = [variables EXCEPT ![a.slot] = NoTimeslice]
    BY DEF Dispatch, DispatchConsume
  <2>3. \A s \in Slots : IF s = a.slot THEN cache'[s] = {}
                         ELSE cache'[s] = cache[s] /\ variables'[s] = variables[s]
    BY <1>0, <2>1, <2>2
  <2> QED
    BY <2>2, <2>3, RecordsLeave DEF isValid
<1>7. CASE Other
  <2>1. CASE Rescan \/ DataProcessingExpired
    BY <2>1, RecordsLeave DEF Rescan, DataProcessingExpired, relayerVars, indexVars
  <2>2. CASE \E st \in Streams : EndOfStream(st)
    BY <2>2, RecordsLeave DEF EndOfStream
  <2> QED
    BY <1>7, <2>1, <2>2 DEF Other
<1>8. CASE StopAndStart
  BY <1>8, RecordsLeave DEF StopAndStart, StopStart
<1>9. CASE UNCHANGED allVars
  BY <1>9, RecordsLeave DEF allVars, vars, indexVars, relayerVars
<1> QED
  BY <1>1, <1>2, <1>3, <1>4, <1>5, <1>6, <1>7, <1>8, <1>9 DEF DecongestionNext
-------------------------------------------------------------------------------
(* The first message can still arrive, or is in the cache. *)
firstAlive ==
  \/ oldestForChannel[ChannelOf[FirstInput]] = 0 /\ \E m \in upstream : isFirst(m)
  \/ \E s \in Slots : holdsFirst(s)

SequenceInv ==
  nextTimeslice \in Nat /\ lastConsumed \in Nat \cup {-1} /\ lastConsumed < nextTimeslice

(* The actions of one turn, in the order of the visit. *)
PendingInOrder ==
  \A st, su \in Streams : \A a \in completed[st], b \in completed[su] :
    /\ st = su
    /\ lastConsumed < a.timeslice /\ a.timeslice < nextTimeslice
    /\ a.slot > b.slot => a.timeslice < b.timeslice

(* Nothing is consumed while the first message can still set nextTimeslice *)
(* back, and nextTimeslice is ahead of it only between the scan that       *)
(* releases its record and the dispatch.                                   *)
FirstComesFirst ==
  firstAlive =>
    /\ lastConsumed = -1
    /\ \/ nextTimeslice = 0
       \/ \E st \in Streams : \E a \in completed[st] : holdsFirst(a.slot)

OrderInv == SequenceInv /\ PendingInOrder /\ FirstComesFirst

(* A step that leaves the policy alone while nothing is pending. *)
LEMMA OrderQuiet ==
  ASSUME OrderInv, NothingPending, firstAlive' => firstAlive,
         UNCHANGED <<completed, nextTimeslice, lastConsumed>>
  PROVE  OrderInv'
<1>1. SequenceInv'
  BY DEF OrderInv, SequenceInv
<1>2. PendingInOrder'
  BY DEF NothingPending, PendingInOrder
<1>3. FirstComesFirst'
  BY DEF OrderInv, FirstComesFirst, NothingPending
<1> QED
  BY <1>1, <1>2, <1>3 DEF OrderInv

(* The first message is stored only when it could arrive. *)
LEMMA RelayKeepsFirst ==
  ASSUME TypeOK, NEW m \in Messages, Relay(m)
  PROVE  firstAlive' => firstAlive
<1>0. oldestForChannel[ChannelOf[FirstInput]] \in Nat
  BY IndexAssumption, RelayerAssumption, DecongestionAssumption DEF TypeOK, IndexTypeOK
<1>1. /\ oldestForChannel' = oldestForChannel /\ m \in upstream /\ upstream' \subseteq upstream
      /\ m.input \in Inputs => m.ts >= oldestForChannel[ChannelOf[m.input]]
  BY DEF Relay, RelayToMatchingSlot, RelayToFreeSlot, RelayInvalid, arrives, indexVars
<1>2. isFirst(m) => firstAlive
  BY <1>0, <1>1, DecongestionAssumption DEF isFirst, firstAlive
<1>3. \A s \in Slots : cache'[s] \subseteq cache[s] \cup {m}
  <2>0. cache \in [Slots -> SUBSET (Messages \cup Generated)]
    BY DEF TypeOK
  <2>1. CASE RelayToMatchingSlot(m)
    <3> PICK s : cache' = [cache EXCEPT ![s] = @ \cup saveInSlot(m)]
      BY <2>1 DEF RelayToMatchingSlot
    <3> QED
      BY <2>0 DEF saveInSlot
  <2>2. CASE RelayToFreeSlot(m)
    <3> PICK s : cache' = [pruneCache({s}) EXCEPT ![s] = @ \cup saveInSlot(m)]
      BY <2>2 DEF RelayToFreeSlot
    <3> QED
      BY <2>0 DEF saveInSlot, pruneCache
  <2>3. CASE RelayInvalid(m)
    BY <2>3 DEF RelayInvalid
  <2> QED
    BY <2>1, <2>2, <2>3 DEF Relay
<1>4. ASSUME NEW s \in Slots, holdsFirst(s)' PROVE firstAlive
  <2>1. PICK k \in cache'[s] : isFirst(k)
    BY <1>4 DEF holdsFirst, isFirst
  <2>2. CASE k = m
    BY <1>2, <2>1, <2>2
  <2>3. CASE k \in cache[s]
    BY <2>1, <2>3 DEF firstAlive, holdsFirst
  <2> QED
    BY <1>3, <2>1, <2>2, <2>3
<1> QED
  BY <1>1, <1>4 DEF firstAlive, isFirst

(* A step that stores nothing keeps the channel or moves it up. *)
LEMMA LeavingKeepsFirst ==
  ASSUME TypeOK, upstream' \subseteq upstream,
         \A s \in Slots : cache'[s] \subseteq cache[s],
         \/ oldestForChannel' = oldestForChannel
         \/ oldestForChannel'[ChannelOf[FirstInput]] = 0
              => oldestForChannel[ChannelOf[FirstInput]] = 0
  PROVE  firstAlive' => firstAlive
<1>1. \A s \in Slots : holdsFirst(s)' => holdsFirst(s)
  BY DEF holdsFirst, isFirst
<1> QED
  BY <1>1 DEF firstAlive, isFirst

(* run() moves nextTimeslice no further than the output watermark, which   *)
(* the first message holds at 0.                                           *)
LEMMA OrderRun ==
  ASSUME DeviceInv, OrderInv, RunTasks
  PROVE  OrderInv'
<1>0. NothingPending /\ pruneOps = {} /\ oldestPossibleOutput \in Nat
  BY FreeMeansNothingPending
     DEF RunTasks, hasPruned, DeviceInv, WatermarkInv, TypeOK, IndexTypeOK
<1> DEFINE V == {k.output : k \in due("ordered")}
           U == {nextTimeslice} \cup V
           b == nextTimeslice + oldestPossibleOutput
<1>1. nextTimeslice \in Nat /\ lastConsumed \in Nat \cup {-1} /\ lastConsumed < nextTimeslice
  BY DEF OrderInv, SequenceInv
<1>2. \A v \in V : v \in Nat /\ v <= oldestPossibleOutput
  <2>1. ASSUME NEW k \in due("ordered")
        PROVE  k.output \in Nat /\ k.output <= oldestPossibleOutput
    <3>1. k \in Tasks /\ k.output <= k.timeslice /\ k.timeslice <= oldestPossibleOutput
      BY DEF due, dueTasks, DeviceInv, ServiceInv, TasksInv
    <3>2. k.output \in Nat /\ k.timeslice \in Nat
      BY <3>1 DEF Tasks
    <3> QED
      BY <1>0, <3>1, <3>2
  <2> QED
    BY <2>1
<1>3. nextTimeslice' = Max(U)
  BY DEF RunTasks
<1> HIDE DEF V
<1>4. b \in Nat /\ nextTimeslice <= b /\ \A v \in Nat : v <= oldestPossibleOutput => v <= b
  BY <1>0, <1>1
<1> HIDE DEF b
<1>5. U \in SUBSET Nat /\ U # {} /\ \A u \in U : u <= b
  BY <1>1, <1>2, <1>4
<1>6. Max(U) \in U /\ \A u \in U : u <= Max(U)
  <2> HIDE DEF U
  <2> QED
    BY <1>4, <1>5, MaxOfBounded
<1>7. nextTimeslice' \in Nat /\ nextTimeslice <= nextTimeslice'
  BY <1>3, <1>5, <1>6
<1>8. nextTimeslice' = nextTimeslice \/ nextTimeslice' <= oldestPossibleOutput
  BY <1>2, <1>3, <1>6
<1> HIDE DEF U
<1>9. UNCHANGED <<completed, lastConsumed, cache, upstream, oldestForChannel>>
  BY DEF RunTasks, relayerVars, historyVars
<1>10. SequenceInv'
  BY <1>1, <1>7, <1>9 DEF SequenceInv
<1>11. PendingInOrder'
  BY <1>0, <1>9 DEF NothingPending, PendingInOrder
<1>12. firstAlive => oldestPossibleOutput = 0
  <2>1. /\ oldestPossibleOutput <= oldestPossibleInput
        /\ \A s \in Slots : isValid(variables, s) => oldestPossibleOutput <= variables[s]
    BY DEF DeviceInv, WatermarkInv, OutputBound
  <2>2. /\ \A t \in heldTimeslices : oldestPossibleOutput <= t
        /\ \A c \in DataChannels : oldestPossibleOutput <= oldestForChannel[c]
    BY <1>0, <2>1, PrunedBound DEF DeviceInv
  <2>3. CASE oldestForChannel[ChannelOf[FirstInput]] = 0
    <3>1. ChannelOf[FirstInput] \in DataChannels
      BY AllChannelsCarryData, RelayerAssumption, DecongestionAssumption
    <3> QED
      BY <1>0, <2>2, <2>3, <3>1
  <2>4. ASSUME NEW s \in Slots, holdsFirst(s) PROVE oldestPossibleOutput = 0
    <3>1. 0 \in heldTimeslices
      BY <2>4 DEF holdsFirst, isFirst, heldTimeslices
    <3> QED
      BY <1>0, <2>2, <3>1
  <2> QED
    BY <2>3, <2>4 DEF firstAlive
<1>13. FirstComesFirst'
  <2> SUFFICES ASSUME firstAlive' PROVE lastConsumed' = -1 /\ nextTimeslice' = 0
    BY DEF FirstComesFirst
  <2>1. firstAlive
    BY <1>9 DEF firstAlive, holdsFirst, isFirst
  <2>2. lastConsumed = -1 /\ nextTimeslice = 0
    BY <1>0, <2>1 DEF OrderInv, FirstComesFirst, NothingPending
  <2> QED
    BY <1>7, <1>8, <1>9, <1>12, <2>1, <2>2
<1> QED
  BY <1>10, <1>11, <1>13 DEF OrderInv

(* A turn of getReadyToProcess: the timeslices it releases follow what was *)
(* consumed, in the order of the visit, and nextTimeslice follows them.    *)
LEMMA OrderReady ==
  ASSUME PolicyName = Ordered, SlotInv, RecordsInv, OrderInv,
         NEW st \in Streams, GetReady(st)
  PROVE  OrderInv'
<1>0. NothingPending /\ TypeOK /\ completed \in [Streams -> SUBSET RecordActions]
  BY FreeMeansNothingPending DEF GetReady, readyWith, streamFree, SlotInv, TypeOK
<1>1. nextTimeslice \in Nat /\ lastConsumed \in Nat \cup {-1} /\ lastConsumed < nextTimeslice
  BY DEF OrderInv, SequenceInv
<1>2. firstAlive => lastConsumed = -1 /\ nextTimeslice = 0
  BY <1>0 DEF OrderInv, FirstComesFirst, NothingPending
<1>3. ScanInv /\ NothingBeforeFirst
  BY <1>0, <1>1, <1>2 DEF ScanInv, NothingBeforeFirst, firstAlive
<1>4. NumSlots \in Nat \ {0} /\ Slots \subseteq Nat /\ 0 \in 0 .. NumSlots /\ NumSlots \in 0 .. NumSlots
  BY IndexAssumption, SlotsAreNats
<1>5. \A s \in 0 .. NumSlots : nextAt(s) \in Nat
  BY <1>3, OrderedScan DEF ScanInv, nextAt, Scans
<1>6. nextTimeslice' = nextAt(0) /\ lastConsumed' = lastConsumed
  BY DEF GetReady, nextAt, historyVars
<1>7. /\ UNCHANGED <<cache, upstream, oldestForChannel, variables>>
      /\ completed' = [completed EXCEPT
                         ![st] = {recordAction(policyOps, s) : s \in readySlots(policyOps)}]
  BY DEF GetReady, readyWith
<1>8. ASSUME NEW s \in Slots, s \in readySlots(policyOps)
      PROVE  /\ recordAction(policyOps, s).slot = s
             /\ recordAction(policyOps, s).timeslice = nextAt(s + 1)
             /\ s \in 0 .. NumSlots /\ s + 1 \in 0 .. NumSlots
             /\ nextAt(s) = nextAt(s + 1) + 1
  <2>1. isValid(variables, s) /\ released(s)
    BY <1>3, <1>8, ReadyIsReleased
  <2>2. /\ startTime(s) = nextAt(s + 1) /\ nextAt(s) = startTime(s) + 1
        /\ s \in 0 .. NumSlots /\ s + 1 \in 0 .. NumSlots /\ FirstInput \in present(s)
    BY <1>3, <2>1, ScanStep, ScanGoesUp
  <2>3. startTime(s) = variables[s]
    <3>1. cache[s] # {}
      BY <2>2 DEF present
    <3> DEFINE c == CHOOSE k \in cache[s] : TRUE
    <3>2. c \in cache[s]
      BY <3>1
    <3>3. c.ts = variables[s]
      BY <2>1, <3>2 DEF SlotInv, SlotHomogeneous
    <3> QED
      BY <3>3 DEF startTime
  <2> QED
    BY <2>2, <2>3 DEF recordAction
<1>9. readySlots(policyOps) \subseteq Slots
  BY DEF readySlots, visited
<1>10. SequenceInv'
  <2>1. nextAt(NumSlots) <= nextAt(0) /\ nextAt(NumSlots) = nextTimeslice
    BY <1>3, <1>4, ScanMonotone, ScanStart
  <2> QED
    BY <1>1, <1>4, <1>5, <1>6, <2>1 DEF SequenceInv
<1>11. ASSUME NEW su \in Streams, NEW a \in completed'[su]
       PROVE  su = st /\ \E s \in readySlots(policyOps) : a = recordAction(policyOps, s)
  BY <1>0, <1>7, <1>11 DEF NothingPending
<1>12. PendingInOrder'
  <2> SUFFICES ASSUME NEW su \in Streams, NEW sv \in Streams,
                      NEW a \in completed'[su], NEW b \in completed'[sv]
               PROVE  /\ su = sv
                      /\ lastConsumed' < a.timeslice /\ a.timeslice < nextTimeslice'
                      /\ a.slot > b.slot => a.timeslice < b.timeslice
    BY DEF PendingInOrder
  <2>1. su = st /\ sv = st
    BY <1>11
  <2>2. PICK s \in readySlots(policyOps) : a = recordAction(policyOps, s)
    BY <1>11
  <2>3. PICK r \in readySlots(policyOps) : b = recordAction(policyOps, r)
    BY <1>11
  <2>4. /\ a.slot = s /\ a.timeslice = nextAt(s + 1)
        /\ s \in Slots /\ s \in 0 .. NumSlots /\ s + 1 \in 0 .. NumSlots /\ nextAt(s) = nextAt(s + 1) + 1
    BY <1>8, <1>9, <2>2
  <2>5. /\ b.slot = r /\ b.timeslice = nextAt(r + 1)
        /\ r \in Slots /\ r + 1 \in 0 .. NumSlots
    BY <1>8, <1>9, <2>3
  <2>6. /\ nextAt(NumSlots) <= nextAt(s + 1) /\ nextAt(NumSlots) = nextTimeslice
        /\ nextAt(s) <= nextAt(0)
    BY <1>3, <1>4, <2>4, ScanMonotone, ScanStart
  <2>7. nextAt(s + 1) \in Nat /\ nextAt(s) \in Nat /\ nextAt(0) \in Nat /\ nextAt(r + 1) \in Nat
    BY <1>4, <1>5, <2>4, <2>5
  <2>8. lastConsumed < a.timeslice
    BY <1>1, <2>4, <2>6, <2>7
  <2>9. a.timeslice < nextAt(0)
    BY <2>4, <2>6, <2>7
  <2>10. ASSUME a.slot > b.slot PROVE a.timeslice < b.timeslice
    <3>1. r + 1 <= s
      BY <1>4, <2>4, <2>5, <2>10
    <3>2. nextAt(s) <= nextAt(r + 1)
      BY <1>3, <2>4, <2>5, <3>1, ScanMonotone
    <3> QED
      BY <2>4, <2>5, <2>7, <3>2
  <2> QED
    BY <1>6, <2>1, <2>8, <2>9, <2>10
<1>13. FirstComesFirst'
  <2> SUFFICES ASSUME firstAlive'
               PROVE  /\ lastConsumed' = -1
                      /\ nextTimeslice' # 0 =>
                           \E su \in Streams : \E a \in completed'[su] : holdsFirst(a.slot)'
    BY DEF FirstComesFirst
  <2>1. firstAlive
    BY <1>7 DEF firstAlive, holdsFirst, isFirst
  <2>2. lastConsumed' = -1 /\ nextTimeslice = 0
    BY <1>2, <1>6, <2>1
  <2>3. ASSUME nextTimeslice' # 0
        PROVE  \E su \in Streams : \E a \in completed'[su] : holdsFirst(a.slot)'
    <3>1. PICK k \in Slots : released(k) /\ holdsFirst(k)
      BY <1>3, <1>4, <1>6, <2>2, <2>3, LeavesZero
    <3>2. present(k) = Inputs
      BY <1>3, <3>1, ScanStep
    <3>3. isValid(variables, k)
      BY <3>2 DEF RecordsInv
    <3>4. k \in readySlots(policyOps)
      BY <1>3, <3>1, <3>3, ReadyIsReleased
    <3>5. recordAction(policyOps, k) \in completed'[st]
      BY <1>0, <1>7, <3>4
    <3>6. recordAction(policyOps, k).slot = k
      BY <1>8, <3>4
    <3>7. holdsFirst(k)'
      BY <1>7, <3>1 DEF holdsFirst, isFirst
    <3> QED
      BY <3>5, <3>6, <3>7
  <2> QED
    BY <2>2, <2>3
<1> QED
  BY <1>10, <1>12, <1>13 DEF OrderInv

(* An action is dispatched: it is the next of those of its turn. *)
LEMMA OrderDispatch ==
  ASSUME OneFirst, SlotInv, ActionInv, RecordsInv, OrderInv,
         NEW st \in Streams, NEW a \in completed[st], Dispatch(st, a)
  PROVE  OrderInv' /\ lastConsumed' > lastConsumed
<1>0. /\ TypeOK /\ completed \in [Streams -> SUBSET RecordActions]
      /\ cache \in [Slots -> SUBSET (Messages \cup Generated)] /\ Slots \subseteq Nat
  BY SlotsAreNats DEF SlotInv, TypeOK
<1>1. nextTimeslice \in Nat /\ lastConsumed \in Nat \cup {-1} /\ lastConsumed < nextTimeslice
  BY DEF OrderInv, SequenceInv
<1>2. /\ a.slot \in Slots /\ a.timeslice \in Nat
      /\ lastConsumed < a.timeslice /\ a.timeslice < nextTimeslice
  BY <1>0 DEF OrderInv, PendingInOrder, RecordActions
<1>3. /\ completed' = [completed EXCEPT ![st] = @ \ {a}]
      /\ cache' = [cache EXCEPT ![a.slot] = {}]
      /\ \A b \in completed[st] : b.slot <= a.slot
      /\ lastConsumed' = a.timeslice
      /\ UNCHANGED <<nextTimeslice, upstream, oldestForChannel>>
  BY DEF Dispatch, DispatchConsume
<1>4. ASSUME NEW su \in Streams, NEW b \in completed[su], b # a
      PROVE  /\ su = st /\ b.timeslice \in Nat /\ a.timeslice < b.timeslice
             /\ b.timeslice < nextTimeslice
  <2>1. su = st /\ b.timeslice < nextTimeslice
    BY DEF OrderInv, PendingInOrder
  <2>2. b.slot \in Nat /\ a.slot \in Nat /\ b.timeslice \in Nat
    <3>1. b \in RecordActions
      BY <1>0
    <3>2. b.slot \in Slots /\ b.timeslice \in Nat
      BY <3>1 DEF RecordActions
    <3> QED
      BY <1>0, <1>2, <3>2
  <2>3. b.slot # a.slot
    BY <1>4 DEF ActionInv, OneActionPerSlot
  <2>4. b.slot <= a.slot
    BY <1>3, <2>1
  <2>5. a.slot > b.slot
    BY <2>2, <2>3, <2>4
  <2> QED
    BY <2>1, <2>2, <2>5 DEF OrderInv, PendingInOrder
<1>5. \A su \in Streams : \A b \in completed'[su] : b \in completed[su] /\ b # a
  <2> SUFFICES ASSUME NEW su \in Streams, NEW b \in completed'[su]
               PROVE  b \in completed[su] /\ b # a
    OBVIOUS
  <2>1. b \in completed[su]
    BY <1>0, <1>3
  <2>2. CASE su = st
    BY <1>0, <1>3, <2>2
  <2>3. CASE su # st
    BY <2>1, <2>3 DEF OrderInv, PendingInOrder
  <2> QED
    BY <2>1, <2>2, <2>3
<1>6. SequenceInv'
  BY <1>1, <1>2, <1>3 DEF SequenceInv
<1>7. PendingInOrder'
  <2> SUFFICES ASSUME NEW su \in Streams, NEW sv \in Streams,
                      NEW b \in completed'[su], NEW c \in completed'[sv]
               PROVE  /\ su = sv
                      /\ lastConsumed' < b.timeslice /\ b.timeslice < nextTimeslice'
                      /\ b.slot > c.slot => b.timeslice < c.timeslice
    BY DEF PendingInOrder
  <2>1. b \in completed[su] /\ c \in completed[sv] /\ b # a
    BY <1>5
  <2> QED
    BY <1>3, <1>4, <2>1 DEF OrderInv, PendingInOrder
<1>8. ~ firstAlive'
  <2> SUFFICES ASSUME firstAlive' PROVE FALSE
    OBVIOUS
  <2>1. \A s \in Slots : cache'[s] \subseteq cache[s]
    BY <1>0, <1>2, <1>3
  <2>2. firstAlive
    BY <1>0, <1>3, <2>1, LeavingKeepsFirst
  <2>3. PICK su \in Streams : \E c \in completed[su] : holdsFirst(c.slot)
    BY <1>1, <1>2, <2>2 DEF OrderInv, FirstComesFirst
  <2>4. PICK b \in completed[su] : holdsFirst(b.slot)
    BY <2>3
  <2>5. b.slot \in Slots
    BY <1>0 DEF RecordActions
  <2>6. PICK m \in cache[b.slot] : isFirst(m)
    BY <2>4 DEF holdsFirst
  <2>7. b = a
    <3>1. variables[b.slot] = b.timeslice
      BY DEF ActionInv, ActionsStayBound
    <3>2. b.timeslice \in Nat
      BY <1>0 DEF RecordActions
    <3>3. m.ts = b.timeslice
      BY <2>5, <2>6, <3>1, <3>2, IndexAssumption DEF SlotInv, SlotHomogeneous, isValid
    <3>4. b.timeslice = 0
      BY <2>6, <3>3 DEF isFirst
    <3> SUFFICES ASSUME b # a PROVE FALSE
      OBVIOUS
    <3>5. a.timeslice < b.timeslice
      BY <1>4
    <3> QED
      BY <1>2, <3>4, <3>5
  <2>8. m \in Messages /\ m \notin upstream
    BY <1>0, <2>5, <2>6, OnlyMessages DEF RecordsInv
  <2>9. ASSUME NEW k \in upstream', isFirst(k) PROVE FALSE
    <3>1. k \in Messages /\ k \in upstream
      BY <1>0, <1>3 DEF TypeOK
    <3> QED
      BY <2>6, <2>8, <2>9, <3>1 DEF OneFirst
  <2>10. ASSUME NEW s \in Slots, holdsFirst(s)' PROVE FALSE
    <3>1. holdsFirst(s)
      BY <2>1, <2>10 DEF holdsFirst, isFirst
    <3>2. s = a.slot
      BY <1>2, <2>4, <2>7, <3>1 DEF RecordsInv
    <3>3. cache'[s] = {}
      BY <1>0, <1>2, <1>3, <3>2
    <3> QED
      BY <2>10, <3>3 DEF holdsFirst
  <2> QED
    BY <2>9, <2>10 DEF firstAlive, isFirst
<1>9. OrderInv'
  BY <1>6, <1>7, <1>8 DEF OrderInv, FirstComesFirst
<1>10. lastConsumed' > lastConsumed
  BY <1>1, <1>2, <1>3
<1> QED
  BY <1>9, <1>10

LEMMA OrderNext ==
  ASSUME OneFirst, PolicyName = Ordered, DeviceInv, ActionInv, RecordsInv, OrderInv,
         [DecongestionNext]_allVars
  PROVE  /\ OrderInv'
         /\ stops' = stops /\ lastConsumed' # lastConsumed => lastConsumed' > lastConsumed
<1>0. SlotInv /\ TypeOK /\ stops \in Nat
  BY RelayerAssumption DEF DeviceInv, SlotInv, TypeOK
<1>1. CASE \E m \in Messages : Relay(m)
  <2> PICK m \in Messages : Relay(m)
    BY <1>1
  <2>1. /\ mainThreadFree /\ UNCHANGED <<completed, nextTimeslice, lastConsumed>>
    BY DEF Relay, RelayToMatchingSlot, RelayToFreeSlot, RelayInvalid, arrives, historyVars
  <2>2. OrderInv'
    BY <1>0, <2>1, FreeMeansNothingPending, RelayKeepsFirst, OrderQuiet
  <2> QED
    BY <2>1, <2>2
<1>2. CASE \E c \in DataChannels, t \in 0 .. MaxTimeslice : Announcement(c, t)
  <2> PICK c \in DataChannels, t \in 0 .. MaxTimeslice : Announcement(c, t)
    BY <1>2
  <2> DEFINE f == ChannelOf[FirstInput]
  <2>1. /\ mainThreadFree /\ UNCHANGED <<completed, nextTimeslice, lastConsumed, cache, upstream>>
        /\ oldestForChannel' = [oldestForChannel EXCEPT ![c] = t] /\ t > oldestForChannel[c]
    BY DEF Announcement, DomainInfoUpdated
  <2>2. f \in Channels /\ c \in Channels /\ t \in Nat /\ oldestForChannel \in [Channels -> Nat]
    BY <1>0, AllChannelsCarryData, IndexAssumption, RelayerAssumption, DecongestionAssumption
       DEF TypeOK, IndexTypeOK
  <2> HIDE DEF f
  <2>3. oldestForChannel'[f] = 0 => oldestForChannel[f] = 0
    BY <2>1, <2>2
  <2>4. firstAlive' => firstAlive
    BY <1>0, <2>1, <2>3, LeavingKeepsFirst DEF f
  <2>5. OrderInv'
    BY <2>1, <2>4, FreeMeansNothingPending, OrderQuiet
  <2> QED
    BY <2>1, <2>5
<1>3. CASE Prune
  <2>1. /\ mainThreadFree /\ UNCHANGED <<completed, nextTimeslice, lastConsumed, upstream, oldestForChannel>>
        /\ \A s \in Slots : cache'[s] \subseteq cache[s]
    BY <1>3 DEF Prune, PrunePending, pruneCache, indexVars, historyVars
  <2>2. OrderInv'
    BY <1>0, <2>1, LeavingKeepsFirst, FreeMeansNothingPending, OrderQuiet
  <2> QED
    BY <2>1, <2>2
<1>4. CASE RunTasks
  <2>1. lastConsumed' = lastConsumed
    BY <1>4 DEF RunTasks, historyVars
  <2> QED
    BY <1>4, <2>1, OrderRun
<1>5. CASE \E st \in Streams : GetReady(st)
  <2> PICK st \in Streams : GetReady(st)
    BY <1>5
  <2>1. lastConsumed' = lastConsumed
    BY DEF GetReady, historyVars
  <2> QED
    BY <1>0, <2>1, OrderReady
<1>6. CASE \E st \in Streams : \E a \in completed[st] : Dispatch(st, a)
  BY <1>0, <1>6, OrderDispatch
<1>7. CASE Other
  <2>1. /\ mainThreadFree /\ UNCHANGED <<completed, nextTimeslice, lastConsumed, upstream, oldestForChannel>>
        /\ \A s \in Slots : cache'[s] \subseteq cache[s]
    <3>1. CASE Rescan
      BY <1>7, <3>1 DEF Other, serviceVars, Rescan, relayerVars, historyVars
    <3>2. CASE DataProcessingExpired
      BY <1>7, <3>2 DEF Other, serviceVars, DataProcessingExpired, indexVars, historyVars
    <3>3. CASE \E st \in Streams : EndOfStream(st)
      BY <1>7, <3>3 DEF Other, serviceVars, EndOfStream, streamFree, historyVars
    <3> QED
      BY <1>7, <3>1, <3>2, <3>3 DEF Other
  <2>2. OrderInv'
    BY <1>0, <2>1, LeavingKeepsFirst, FreeMeansNothingPending, OrderQuiet
  <2> QED
    BY <2>1, <2>2
<1>8. CASE StopAndStart
  <2>1. /\ stops' = stops + 1 /\ nextTimeslice' = 0 /\ lastConsumed' = -1
        /\ completed' = completed /\ \A st \in Streams : completed[st] = {}
    BY <1>8 DEF StopAndStart, StopStart
  <2>2. stops' # stops
    BY <1>0, <2>1
  <2>3. OrderInv'
    BY <2>1 DEF OrderInv, SequenceInv, PendingInOrder, FirstComesFirst
  <2> QED
    BY <2>2, <2>3
<1>9. CASE UNCHANGED allVars
  <2>1. UNCHANGED <<completed, nextTimeslice, lastConsumed, cache, upstream, oldestForChannel>>
    BY <1>9 DEF allVars, vars, indexVars, relayerVars, serviceVars, historyVars
  <2>2. OrderInv'
    BY <2>1 DEF OrderInv, SequenceInv, PendingInOrder, FirstComesFirst, firstAlive, holdsFirst, isFirst
  <2> QED
    BY <2>1, <2>2
<1> QED
  BY <1>1, <1>2, <1>3, <1>4, <1>5, <1>6, <1>7, <1>8, <1>9 DEF DecongestionNext

(* consumeWhenAllOrdered "ensures that records are processed with          *)
(* incremental timeSlice": within a run every record that is dispatched is *)
(* newer than those before it, for every number of slots, lanes, inputs,   *)
(* messages and stops, although the policy moves nextTimeslice in the      *)
(* middle of a scan and the queue moves it between scans; if the first     *)
(* input of timeslice 0, which starts the order again, comes once.         *)
THEOREM OrderedDispatch ==
  ASSUME PolicyName = Ordered, OneFirst
  PROVE  DecongestionSpec => DispatchInOrder
<1>1. ~ ThreadPool /\ PolicyWaitsForInput
  <2>1. Policy[{}] = answers({}) /\ FirstInput \in Inputs /\ ~ ThreadPool
    BY DecongestionAssumption
  <2>2. PolicyName # All /\ PolicyName = Ordered /\ PolicyName # PastOldest
    BY DEF Ordered, All, PastOldest
  <2>3. answers({}) = {"Wait"}
    BY <2>1, <2>2 DEF answers
  <2> QED
    BY <2>1, <2>3 DEF PolicyWaitsForInput, ReleaseOps
<1>2. DecongestionInit => RecordsInv /\ OrderInv
  <2> SUFFICES ASSUME DecongestionInit PROVE RecordsInv /\ OrderInv
    OBVIOUS
  <2>1. /\ cache = [s \in Slots |-> {}] /\ completed = [st \in Streams |-> {}]
        /\ nextTimeslice = 0 /\ lastConsumed = -1
    BY DEF DecongestionInit, Init
  <2>2. \A s \in Slots : cache[s] = {} /\ present(s) = {}
    BY <2>1 DEF present
  <2>3. RecordsInv
    BY <2>2, DecongestionAssumption DEF RecordsInv, holdsFirst
  <2>4. OrderInv
    BY <2>1 DEF OrderInv, SequenceInv, PendingInOrder, FirstComesFirst
  <2> QED
    BY <2>3, <2>4
<1>3. DeviceInv /\ ActionInv /\ RecordsInv /\ OrderInv /\ [DecongestionNext]_allVars
        => RecordsInv' /\ OrderInv'
  BY RecordsNext, OrderNext DEF DeviceInv
<1>4. DeviceInv /\ ActionInv /\ RecordsInv /\ OrderInv /\ [DecongestionNext]_allVars
        => [stops' = stops /\ lastConsumed' # lastConsumed => lastConsumed' > lastConsumed]_allVars
  BY OrderNext
<1>5. Spec => []ActionInv
  BY <1>1, ActionInvariant
<1> QED
  BY <1>2, <1>3, <1>4, <1>5, DeviceInvariant, DeviceImplementsRelayer, PTL
     DEF DecongestionSpec, DispatchInOrder
===============================================================================
