-------------------------- MODULE DataRelayerProofs --------------------------
(***************************************************************************)
(* Theorems about the DataRelayer, for every number of slots, lanes,       *)
(* inputs, channels, streams and messages and every completion policy.     *)
(***************************************************************************)
EXTENDS DataRelayer, WellFoundedInduction, TLAPS

(***************************************************************************)
(* Facts about the operators of TimesliceIndex.                            *)
(***************************************************************************)

(* Min, which the index and the relayer use to pick slots and to compute   *)
(* watermarks, is the least element of any non-empty set of naturals.      *)
LEMMA MinOfNats ==
  ASSUME NEW S \in SUBSET Nat, S # {}
  PROVE  Min(S) \in S /\ \A y \in S : Min(S) <= y
<1> DEFINE less == {ss \in Nat \X Nat : ss[1] < ss[2]}
<1>1. IsWellFoundedOn(less, Nat)
  <2>1. less = OpToRel(<, Nat)
    BY DEF OpToRel
  <2> QED
    BY <2>1, NatLessThanWellFounded
<1>2. PICK x \in S : \A y \in S : ~ (<<y, x>> \in less)
  <2> HIDE DEF less
  <2> QED
    BY <1>1, WFMin
<1>3. ASSUME NEW y \in S PROVE x <= y
  <2>1. x \in Nat /\ y \in Nat
    OBVIOUS
  <2>2. <<y, x>> \notin less
    BY <1>2
  <2>3. ~ (y < x)
    BY <2>1, <2>2
  <2> QED
    BY <2>1, <2>3
<1> QED
  BY <1>3 DEF Min

(* Slots are numbered from 0, as in the vectors of the code. *)
LEMMA SlotsAreNats == Slots \subseteq Nat
  BY IndexAssumption DEF Slots

(* relay() picks the first slot of the lane that fits, if there is one. *)
LEMMA FirstSlot ==
  ASSUME NEW t, NEW S \in SUBSET laneOf(t), S # {}
  PROVE  Min(S) \in S /\ Min(S) \in Slots
  BY MinOfNats, SlotsAreNats DEF laneOf

(* setOldestPossibleInput computes a lower bound of what was announced on  *)
(* this channel and on every DPL channel, and the greatest one.            *)
LEMMA MinOverChannels ==
  ASSUME NEW ofc \in [Channels -> Nat], NEW t \in Nat
  PROVE  /\ minOverChannels(ofc, t) \in Nat
         /\ minOverChannels(ofc, t) <= t
         /\ \A c \in DPLChannels : minOverChannels(ofc, t) <= ofc[c]
         /\ \A k \in Nat : k <= t /\ (\A c \in DPLChannels : k <= ofc[c])
                             => k <= minOverChannels(ofc, t)
<1> DEFINE S == {t} \cup {ofc[c] : c \in DPLChannels}
<1>1. S \in SUBSET Nat /\ S # {}
  BY IndexAssumption
<1>2. Min(S) \in S /\ \A y \in S : Min(S) <= y
  <2> HIDE DEF S
  <2> QED
    BY <1>1, MinOfNats
<1>3. minOverChannels(ofc, t) = Min(S)
  BY DEF minOverChannels
<1> QED
  BY <1>1, <1>2, <1>3

(* updateOldestPossibleOutput computes a lower bound of the oldest input   *)
(* and of the timeslices in flight, and the greatest one.                  *)
LEMMA MinOverSlots ==
  ASSUME NEW vs \in [Slots -> Nat \cup {NoTimeslice}], NEW oldest \in Nat
  PROVE  /\ minOverSlots(vs, oldest) \in Nat
         /\ minOverSlots(vs, oldest) <= oldest
         /\ \A s \in Slots : isValid(vs, s) => minOverSlots(vs, oldest) <= vs[s]
         /\ \A k \in Nat : k <= oldest /\ (\A s \in Slots : isValid(vs, s) => k <= vs[s])
                             => k <= minOverSlots(vs, oldest)
<1> DEFINE S == {oldest} \cup {vs[s] : s \in {r \in Slots : isValid(vs, r)}}
<1>1. S \in SUBSET Nat /\ S # {}
  BY DEF isValid
<1>2. Min(S) \in S /\ \A y \in S : Min(S) <= y
  <2> HIDE DEF S
  <2> QED
    BY <1>1, MinOfNats
<1>3. minOverSlots(vs, oldest) = Min(S)
  BY DEF minOverSlots
<1> QED
  BY <1>1, <1>2, <1>3
-------------------------------------------------------------------------------
(***************************************************************************)
(* Type correctness.                                                       *)
(***************************************************************************)
LEMMA TypeInit == Init => TypeOK
  BY RelayerAssumption DEF Init, IndexInit, TypeOK, IndexTypeOK

(* The state a step of the timer's creator leaves in the index. *)
LEMMA TimerChannelType ==
  ASSUME TypeOK, NEW i \in TimerInputs, NEW t \in Nat,
         NEW vs \in [Slots -> Nat \cup {NoTimeslice}],
         timerChannelAt(i, t, vs)
  PROVE  /\ oldestForChannel' \in [Channels -> Nat]
         /\ oldestPossibleInput' \in Nat
         /\ oldestPossibleOutput' \in Nat
         /\ nextEnumeration' \in Nat
<1> DEFINE ofc == [oldestForChannel EXCEPT ![ChannelOf[i]] = t]
<1>1. ofc \in [Channels -> Nat]
  BY DEF TypeOK, IndexTypeOK
<1>2. minOverChannels(ofc, t) \in Nat
  BY <1>1, MinOverChannels
<1>3. minOverSlots(vs, minOverChannels(ofc, t)) \in Nat
  BY <1>2, MinOverSlots
<1> QED
  BY <1>1, <1>2, <1>3 DEF timerChannelAt

(* A slot that relay() binds and what it stores there. *)
LEMMA RelayTypes ==
  ASSUME TypeOK, NEW m \in Messages, m.input # NoRoute
  PROVE  /\ m.ts \in Nat /\ m.input \in Inputs
         /\ saveInSlot(m) \subseteq {m}
         /\ matchingSlots(m) \subseteq laneOf(m.ts)
         /\ freeSlots(variables, m.ts) \subseteq laneOf(m.ts)
  BY RelayerAssumption DEF saveInSlot, matchingSlots, freeSlots

LEMMA TypeNext ==
  ASSUME TypeOK, [Next]_vars
  PROVE  TypeOK'
<1> USE DEF TypeOK, IndexTypeOK
<1>1. CASE \E m \in Messages : RelayToMatchingSlot(m)
  <2> PICK m \in Messages : RelayToMatchingSlot(m)
    BY <1>1
  <2> DEFINE s == Min(matchingSlots(m))
  <2>1. s \in Slots
    BY FirstSlot, RelayTypes DEF RelayToMatchingSlot
  <2>2. cache' \in [Slots -> SUBSET (Messages \cup Generated)]
    BY <2>1, RelayTypes DEF RelayToMatchingSlot
  <2> QED
    BY <2>2 DEF RelayToMatchingSlot, arrives, markAsDirty
<1>2. CASE \E m \in Messages : RelayToFreeSlot(m)
  <2> PICK m \in Messages : RelayToFreeSlot(m)
    BY <1>2
  <2> DEFINE s == Min(freeSlots(variables, m.ts))
  <2>1. s \in Slots
    BY SMTT(30), FirstSlot, RelayTypes DEF RelayToFreeSlot
  <2>2. cache' \in [Slots -> SUBSET (Messages \cup Generated)]
    BY <2>1, RelayTypes DEF RelayToFreeSlot, pruneCache
  <2>3. variables' \in [Slots -> Nat \cup {NoTimeslice}]
    BY <2>1, RelayTypes DEF RelayToFreeSlot
  <2> QED
    BY <2>2, <2>3 DEF RelayToFreeSlot, arrives, markAsDirty
<1>3. CASE \E m \in Messages : RelayInvalid(m)
  BY <1>3 DEF RelayInvalid, arrives, indexVars
<1>4. CASE \E c \in DataChannels, t \in 0 .. MaxTimeslice : DomainInfoUpdated(c, t)
  <2> PICK c \in DataChannels, t \in 0 .. MaxTimeslice : DomainInfoUpdated(c, t)
    BY <1>4
  <2> DEFINE ofc    == [oldestForChannel EXCEPT ![c] = t]
             oldest == minOverChannels(ofc, t)
             gone   == obsoleteSlots(variables, dirty, oldest)
             vs     == markAsInvalid(variables, gone)
  <2>0. t \in Nat
    BY RelayerAssumption
  <2>1. t \in Nat /\ ofc \in [Channels -> Nat]
    BY <2>0
  <2>2. oldest \in Nat
    BY <2>1, MinOverChannels
  <2>3. gone \subseteq Slots /\ vs \in [Slots -> Nat \cup {NoTimeslice}]
    BY DEF obsoleteSlots, markAsInvalid
  <2>4. minOverSlots(vs, oldest) \in Nat
    BY <2>2, <2>3, MinOverSlots
  <2> QED
    BY <2>1, <2>2, <2>3, <2>4 DEF DomainInfoUpdated
<1>5. CASE PrunePending
  BY <1>5 DEF PrunePending, pruneCache, indexVars
<1>6. CASE Rescan
  BY <1>6 DEF Rescan, rescan, relayerVars
<1>17. CASE RescanPastOldest
  <2>1. oldestPossibleOutput' \in Nat
    BY <1>17, MinOverSlots DEF RescanPastOldest
  <2> QED
    BY <1>17, <2>1 DEF RescanPastOldest, rescan, relayerVars
<1>7. CASE DataProcessingExpired
  BY <1>7 DEF DataProcessingExpired, indexVars
<1>8. CASE StopStart
  BY <1>8, RelayerAssumption DEF StopStart, reset
<1>9. CASE \E st \in Streams : ExpireOptional(st)
  <2> PICK st \in Streams : ExpireOptional(st)
    BY <1>9
  <2>1. ASSUME NEW s \in Slots, NEW i \in missingOptional(s)
        PROVE  generated(variables[s], i) \in Generated
    BY <2>1 DEF missingOptional, isValid, generated, Generated
  <2>2. cache' \in [Slots -> SUBSET (Messages \cup Generated)]
    BY <2>1 DEF ExpireOptional
  <2> QED
    BY <2>2 DEF ExpireOptional, markAsDirty
<1>10. CASE \E st \in Streams, i \in TimerInputs, t \in TimerValues : TimerIdle(st, i, t)
  <2> PICK st \in Streams, i \in TimerInputs, t \in TimerValues : TimerIdle(st, i, t)
    BY <1>10
  <2> DEFINE next == IF nextEnumeration = 0 THEN t ELSE nextEnumeration
  <2>1. next \in Nat
    BY RelayerAssumption
  <2>2. timerChannelAt(i, next, variables)
    BY DEF TimerIdle
  <2> HIDE DEF next
  <2>3. /\ oldestForChannel' \in [Channels -> Nat]
        /\ oldestPossibleInput' \in Nat
        /\ oldestPossibleOutput' \in Nat
        /\ nextEnumeration' \in Nat
    BY <2>1, <2>2, TimerChannelType
  <2> QED
    BY <2>3 DEF TimerIdle
<1>11. CASE \E st \in Streams, i \in TimerInputs, t \in TimerValues : TimerFired(st, i, t)
  <2> PICK st \in Streams, i \in TimerInputs, t \in TimerValues : TimerFired(st, i, t)
    BY <1>11
  <2>1. t \in Nat /\ generated(t, i) \in Generated
    BY RelayerAssumption DEF generated, Generated
  <2>2. variables' \in [Slots -> Nat \cup {NoTimeslice}]
    BY <2>1 DEF TimerFired
  <2>3. timerChannelAt(i, t, variables')
    BY DEF TimerFired
  <2>4. cache' \in [Slots -> SUBSET (Messages \cup Generated)]
    BY <2>1 DEF TimerFired
  <2>5. /\ oldestForChannel' \in [Channels -> Nat]
        /\ oldestPossibleInput' \in Nat
        /\ oldestPossibleOutput' \in Nat
        /\ nextEnumeration' \in Nat
    BY <2>1, <2>2, <2>3, TimerChannelType
  <2> QED
    BY <2>2, <2>4, <2>5 DEF TimerFired, markAsDirty
<1>12. CASE \E st \in Streams : GetReadyToProcess(st)
  <2> PICK st \in Streams : GetReadyToProcess(st)
    BY <1>12
  <2> PICK ops \in [Slots -> possibleOps] :
        /\ completed' = [completed EXCEPT
                           ![st] = {recordAction(ops, s) : s \in readySlots(ops)}]
        /\ dirty' = [s \in Slots |-> stillDirty(ops, s)]
    BY DEF GetReadyToProcess, readyWith
  <2>1. ASSUME NEW s \in readySlots(ops)
        PROVE  recordAction(ops, s) \in RecordActions
    BY <2>1 DEF readySlots, visited, isValid, recordAction, RecordActions, CompletionOps, possibleOps
  <2>2. completed' \in [Streams -> SUBSET RecordActions]
    BY <2>1
  <2>3. dirty' \in [Slots -> BOOLEAN]
    BY DEF stillDirty
  <2>4. oldestPossibleOutput' \in Nat
    BY MinOverSlots DEF GetReadyToProcess, readyWith
  <2> QED
    BY <2>2, <2>3, <2>4 DEF GetReadyToProcess, readyWith
<1>13. CASE \E st \in Streams : \E a \in completed[st] : DispatchConsume(st, a)
  BY <1>13 DEF DispatchConsume, RecordActions, mayEndStream
<1>14. CASE \E st \in Streams : \E a \in completed[st] : DispatchExisting(st, a)
  BY <1>14 DEF DispatchExisting, RecordActions, indexVars, mayEndStream
<1>15. CASE \E st \in Streams : EndOfStream(st)
  BY <1>15 DEF EndOfStream, markAsInvalid
<1>16. CASE UNCHANGED vars
  BY <1>16 DEF vars, indexVars, relayerVars
<1> QED
  BY <1>1, <1>2, <1>3, <1>4, <1>5, <1>6, <1>7, <1>8, <1>9, <1>10, <1>11, <1>12,
     <1>13, <1>14, <1>15, <1>16, <1>17 DEF Next

(* Slots hold messages and actions name slots, whatever the device is fed. *)
THEOREM TypeCorrect == Spec => []TypeOK
<1>1. Init => TypeOK
  BY TypeInit
<1>2. TypeOK /\ [Next]_vars => TypeOK'
  BY TypeNext
<1> QED
  BY <1>1, <1>2, PTL DEF Spec
-------------------------------------------------------------------------------
(***************************************************************************)
(* The slots.  UniqueSlot, PruneOnlyStale and SlotHomogeneous are          *)
(* inductive only together: relay() may bind a free slot to a timeslice    *)
(* because no slot outside its lane holds it (UniqueSlot), and a slot that *)
(* is pruned later is not one that has been bound again (PruneOnlyStale).  *)
(***************************************************************************)
SlotInv == TypeOK /\ UniqueSlot /\ PruneOnlyStale /\ SlotHomogeneous

LEMMA SlotInit == Init => SlotInv
  BY TypeInit DEF Init, IndexInit, SlotInv, UniqueSlot, PruneOnlyStale, SlotHomogeneous, isValid

(* A step which leaves the slots and their contents alone. *)
LEMMA SlotStutter ==
  ASSUME SlotInv, TypeOK', UNCHANGED <<variables, cache, pruneOps>>
  PROVE  SlotInv'
  BY DEF SlotInv, UniqueSlot, PruneOnlyStale, SlotHomogeneous, isValid, laneOf

(* relay() preserves the invariant of the slots. *)
LEMMA SlotRelay ==
  ASSUME SlotInv, TypeOK', NEW m \in Messages,
         RelayToMatchingSlot(m) \/ RelayToFreeSlot(m)
  PROVE  SlotInv'
<1> USE DEF SlotInv
<1>1. CASE RelayToMatchingSlot(m)
  <2> DEFINE s == Min(matchingSlots(m))
  <2>1. s \in Slots /\ variables[s] = m.ts
    BY <1>1, FirstSlot, RelayTypes DEF RelayToMatchingSlot, matchingSlots
  <2>2. m.ts \in Nat /\ isValid(variables, s)
    BY <1>1, <2>1, RelayTypes, IndexAssumption DEF RelayToMatchingSlot, isValid
  <2>3. \A r \in Slots : cache'[r] \subseteq cache[r] \cup {x \in {m} : r = s}
    BY <1>1, <2>1, RelayTypes DEF RelayToMatchingSlot, TypeOK
  <2>4. UniqueSlot'
    BY <1>1 DEF RelayToMatchingSlot, UniqueSlot, isValid, laneOf
  <2>5. PruneOnlyStale'
    BY <1>1, <2>2, <2>3 DEF RelayToMatchingSlot, PruneOnlyStale, isValid
  <2>6. SlotHomogeneous'
    BY <1>1, <2>1, <2>3 DEF RelayToMatchingSlot, SlotHomogeneous, isValid
  <2> QED
    BY <2>4, <2>5, <2>6
<1>2. CASE RelayToFreeSlot(m)
  <2> DEFINE s == Min(freeSlots(variables, m.ts))
  <2>1. s \in Slots /\ s \in laneOf(m.ts) /\ ~ isValid(variables, s)
    BY <1>2, FirstSlot, RelayTypes DEF RelayToFreeSlot, freeSlots
  <2>2. m.ts \in Nat /\ m.ts # NoTimeslice
    BY <1>2, RelayTypes, IndexAssumption DEF RelayToFreeSlot
  <2>3. variables' = [variables EXCEPT ![s] = m.ts] /\ pruneOps' = pruneOps \ {s}
    BY <1>2 DEF RelayToFreeSlot
  <2>4. \A r \in Slots : cache'[r] \subseteq IF r = s THEN {m} ELSE cache[r]
    BY <1>2, <2>1, RelayTypes DEF RelayToFreeSlot, pruneCache, TypeOK
  <2>5. \A r \in Slots : isValid(variables, r) => variables[r] # m.ts
    BY <1>2, <2>2 DEF RelayToFreeSlot, matchingSlots, UniqueSlot
  <2>6. UniqueSlot'
    BY <2>1, <2>3, <2>5 DEF UniqueSlot, isValid, laneOf, TypeOK, IndexTypeOK
  <2>7. PruneOnlyStale'
    BY <2>1, <2>2, <2>3, <2>4 DEF PruneOnlyStale, isValid, TypeOK, IndexTypeOK
  <2>8. SlotHomogeneous'
    BY <2>1, <2>3, <2>4 DEF SlotHomogeneous, isValid, TypeOK, IndexTypeOK
  <2> QED
    BY <2>6, <2>7, <2>8
<1> QED
  BY <1>1, <1>2

(* An announcement unbinds slots and queues them in the same step. *)
LEMMA SlotDomainInfo ==
  ASSUME SlotInv, TypeOK', NEW c \in DataChannels, NEW t \in 0 .. MaxTimeslice,
         DomainInfoUpdated(c, t)
  PROVE  SlotInv'
<1> USE DEF SlotInv
<1> PICK gone \in SUBSET Slots :
      /\ variables' = markAsInvalid(variables, gone)
      /\ pruneOps' = pruneOps \cup gone
  BY DEF DomainInfoUpdated, obsoleteSlots
<1>1. cache' = cache
  BY DEF DomainInfoUpdated
<1>2. \A s \in Slots : variables'[s] = IF s \in gone THEN NoTimeslice ELSE variables[s]
  BY DEF markAsInvalid
<1>3. UniqueSlot'
  BY <1>2 DEF UniqueSlot, isValid, laneOf
<1>4. PruneOnlyStale'
  BY <1>1, <1>2 DEF PruneOnlyStale, isValid
<1>5. SlotHomogeneous'
  BY <1>1, <1>2 DEF SlotHomogeneous, isValid
<1> QED
  BY <1>3, <1>4, <1>5

LEMMA SlotNext ==
  ASSUME SlotInv, [Next]_vars, TimerInputs = {}
  PROVE  SlotInv'
<1>0. TypeOK'
  BY TypeNext DEF SlotInv
<1>1. CASE \E m \in Messages : RelayToMatchingSlot(m)
  BY <1>0, <1>1, SlotRelay
<1>2. CASE \E m \in Messages : RelayToFreeSlot(m)
  BY <1>0, <1>2, SlotRelay
<1>3. CASE \E m \in Messages : RelayInvalid(m)
  BY <1>0, <1>3, SlotStutter DEF RelayInvalid, indexVars
<1>4. CASE \E c \in DataChannels, t \in 0 .. MaxTimeslice : DomainInfoUpdated(c, t)
  BY <1>0, <1>4, SlotDomainInfo
<1>5. CASE PrunePending
  BY <1>0, <1>5 DEF PrunePending, pruneCache, indexVars, SlotInv, UniqueSlot,
                    PruneOnlyStale, SlotHomogeneous, isValid, laneOf
<1>6. CASE Rescan
  BY <1>0, <1>6, SlotStutter DEF Rescan, relayerVars
<1>17. CASE RescanPastOldest
  BY <1>0, <1>17, SlotStutter DEF RescanPastOldest, relayerVars
<1>7. CASE DataProcessingExpired
  BY <1>0, <1>7, SlotStutter DEF DataProcessingExpired, indexVars
<1>8. CASE StopStart
  BY <1>0, <1>8, SlotStutter DEF StopStart
<1>9. CASE \E st \in Streams : ExpireOptional(st)
  <2> PICK st \in Streams : ExpireOptional(st)
    BY <1>9
  <2>1. variables' = variables /\ pruneOps' = pruneOps
    BY DEF ExpireOptional
  <2>2. \A s \in Slots : \A m \in cache'[s] :
          m \in cache[s] \/ (isValid(variables, s) /\ m.ts = variables[s])
    BY DEF ExpireOptional, missingOptional, generated
  <2> QED
    BY <1>0, <2>1, <2>2 DEF SlotInv, UniqueSlot, PruneOnlyStale, SlotHomogeneous,
                            isValid, laneOf
<1>10. CASE \E st \in Streams, i \in TimerInputs, t \in TimerValues : TimerIdle(st, i, t)
  BY <1>10
<1>11. CASE \E st \in Streams, i \in TimerInputs, t \in TimerValues : TimerFired(st, i, t)
  BY <1>11
<1>12. CASE \E st \in Streams : GetReadyToProcess(st)
  BY <1>0, <1>12, SlotStutter DEF GetReadyToProcess, readyWith
<1>13. CASE \E st \in Streams : \E a \in completed[st] : DispatchConsume(st, a)
  <2> PICK st \in Streams : \E a \in completed[st] : DispatchConsume(st, a)
    BY <1>13
  <2> PICK a \in completed[st] : DispatchConsume(st, a)
    OBVIOUS
  <2>1. a.slot \in Slots
    BY DEF SlotInv, TypeOK, RecordActions
  <2>2. \A s \in Slots :
          /\ variables'[s] = IF s = a.slot THEN NoTimeslice ELSE variables[s]
          /\ cache'[s] = IF s = a.slot THEN {} ELSE cache[s]
    BY <2>1 DEF DispatchConsume, SlotInv, TypeOK, IndexTypeOK
  <2>3. pruneOps' = pruneOps
    BY DEF DispatchConsume
  <2> QED
    BY <1>0, <2>2, <2>3 DEF SlotInv, UniqueSlot, PruneOnlyStale, SlotHomogeneous,
                            isValid, laneOf
<1>14. CASE \E st \in Streams : \E a \in completed[st] : DispatchExisting(st, a)
  BY <1>0, <1>14, SlotStutter DEF DispatchExisting, indexVars
<1>15. CASE \E st \in Streams : EndOfStream(st)
  BY <1>0, <1>15 DEF EndOfStream, markAsInvalid, SlotInv, UniqueSlot, PruneOnlyStale,
                     SlotHomogeneous, isValid
<1>16. CASE UNCHANGED vars
  BY <1>0, <1>16, SlotStutter DEF vars, indexVars, relayerVars
<1> QED
  BY <1>1, <1>2, <1>3, <1>4, <1>5, <1>6, <1>7, <1>8, <1>9, <1>10, <1>11, <1>12,
     <1>13, <1>14, <1>15, <1>16, <1>17 DEF Next

(* The invariant of the slots of a device that has no timer. *)
LEMMA SlotInvariant ==
  ASSUME TimerInputs = {}
  PROVE  Spec => []SlotInv
<1>1. Init => SlotInv
  BY SlotInit
<1>2. SlotInv /\ [Next]_vars => SlotInv'
  BY SlotNext
<1> QED
  BY <1>1, <1>2, PTL DEF Spec

(* In a device without timers relay(), setOldestPossibleInput() and the    *)
(* deferred pruning never let a record mix two timeslices, with or without *)
(* a thread pool.                                                          *)
THEOREM RecordsAreHomogeneous ==
  ASSUME TimerInputs = {}
  PROVE  Spec => []SlotHomogeneous
<1>1. SlotInv => SlotHomogeneous
  BY DEF SlotInv
<1> QED
  BY <1>1, SlotInvariant, PTL

(* Nor do they prune a slot that is in use, or forget one that is not.     *)
THEOREM OnlyStaleIsPruned ==
  ASSUME TimerInputs = {}
  PROVE  Spec => []PruneOnlyStale
<1>1. SlotInv => PruneOnlyStale
  BY DEF SlotInv
<1> QED
  BY <1>1, SlotInvariant, PTL

(* Nor do they collect one timeslice in two slots, or outside its lane.    *)
THEOREM TimeslicesHaveOneSlot ==
  ASSUME TimerInputs = {}
  PROVE  Spec => []UniqueSlot
<1>1. SlotInv => UniqueSlot
  BY DEF SlotInv
<1> QED
  BY <1>1, SlotInvariant, PTL
-------------------------------------------------------------------------------
(***************************************************************************)
(* The watermarks.  OutputBound is not inductive alone: a message that     *)
(* relay() binds to a free slot is no older than what its own channel      *)
(* announced, so the invariant must say that the oldest possible input is  *)
(* a lower bound of what every DPL channel announced.  The timers take the *)
(* value of their channels from nextEnumerationTimeslice, which therefore  *)
(* must not be behind any of them.                                         *)
(***************************************************************************)
TimersBehind == \A i \in TimerInputs : oldestForChannel[ChannelOf[i]] <= nextEnumeration

InputBound == \A c \in DPLChannels : oldestPossibleInput <= oldestForChannel[c]

WatermarkInv == TypeOK /\ TimersBehind /\ InputBound /\ OutputBound

(* A step that leaves the watermarks alone and binds no slot. *)
LEMMA WatermarkStutter ==
  ASSUME WatermarkInv, TypeOK',
         UNCHANGED <<oldestForChannel, oldestPossibleInput, oldestPossibleOutput,
                     nextEnumeration>>,
         \A s \in Slots : variables'[s] \in {variables[s], NoTimeslice}
  PROVE  WatermarkInv' /\ oldestPossibleOutput' >= oldestPossibleOutput
  BY DEF WatermarkInv, TimersBehind, InputBound, OutputBound, isValid, TypeOK, IndexTypeOK

(* A channel moves up to t, seen from any assignment vs of the slots whose *)
(* timeslices respect the output that was promised so far.                 *)
LEMMA WatermarkUp ==
  ASSUME WatermarkInv, TypeOK', TimersBehind', NEW c \in DPLChannels, NEW t \in Nat,
         t >= oldestForChannel[c],
         NEW vs \in [Slots -> Nat \cup {NoTimeslice}],
         \A s \in Slots : isValid(vs, s) => oldestPossibleOutput <= vs[s],
         variables' = vs,
         oldestForChannel' = [oldestForChannel EXCEPT ![c] = t],
         oldestPossibleInput' = minOverChannels(oldestForChannel', t),
         oldestPossibleOutput' = minOverSlots(vs, oldestPossibleInput')
  PROVE  WatermarkInv' /\ oldestPossibleOutput' >= oldestPossibleOutput
<1> USE DEF WatermarkInv, TypeOK, IndexTypeOK
<1>1. oldestForChannel' \in [Channels -> Nat]
  OBVIOUS
<1>2. \A d \in DPLChannels : oldestForChannel'[d] >= oldestForChannel[d]
  BY IndexAssumption
<1>3. InputBound'
  BY <1>1, MinOverChannels DEF InputBound
<1>4. OutputBound'
  BY MinOverSlots DEF OutputBound
<1>5. oldestPossibleInput <= t
  BY IndexAssumption DEF InputBound
<1>6. \A d \in DPLChannels : oldestPossibleInput <= oldestForChannel'[d]
  BY <1>2, IndexAssumption DEF InputBound
<1>7. oldestPossibleInput' >= oldestPossibleInput
  BY <1>1, <1>5, <1>6, MinOverChannels
<1>8. oldestPossibleOutput <= oldestPossibleInput'
  BY <1>7 DEF OutputBound
<1>9. oldestPossibleOutput' >= oldestPossibleOutput
  BY <1>8, MinOverSlots
<1> QED
  BY <1>3, <1>4, <1>9

(* Every step but a stop keeps the invariant and never lowers the output.  *)
LEMMA WatermarkNext ==
  ASSUME WatermarkInv, [Next]_vars
  PROVE  WatermarkInv' /\ (stops' = stops => oldestPossibleOutput' >= oldestPossibleOutput)
<1> DEFINE Goal == WatermarkInv' /\ oldestPossibleOutput' >= oldestPossibleOutput
<1>0. TypeOK /\ TypeOK'
  BY TypeNext DEF WatermarkInv
<1>1. CASE \E m \in Messages : RelayToMatchingSlot(m)
  <2>1. variables \in [Slots -> Nat \cup {NoTimeslice}]
    BY <1>0 DEF TypeOK, IndexTypeOK
  <2> QED
    BY <1>0, <1>1, WatermarkStutter DEF RelayToMatchingSlot
<1>2. CASE \E m \in Messages : RelayToFreeSlot(m)
  <2> PICK m \in Messages : RelayToFreeSlot(m)
    BY <1>2
  <2> DEFINE s == Min(freeSlots(variables, m.ts))
  <2>1. s \in Slots
    BY FirstSlot DEF RelayToFreeSlot, freeSlots
  <2>2. m.ts \in Nat /\ m.input \in Inputs
    BY RelayTypes, RelayerAssumption DEF RelayToFreeSlot
  <2>3. oldestPossibleOutput <= m.ts
    <3>1. m.ts >= oldestForChannel[ChannelOf[m.input]]
      BY <2>2 DEF RelayToFreeSlot, arrives
    <3>2. ChannelOf[m.input] \in DPLChannels
      BY <2>2, RelayerAssumption
    <3>3. oldestForChannel[ChannelOf[m.input]] \in Nat
      BY <1>0, <3>2, IndexAssumption DEF TypeOK, IndexTypeOK
    <3>4. oldestPossibleInput <= oldestForChannel[ChannelOf[m.input]]
      BY <3>2 DEF WatermarkInv, InputBound
    <3> QED
      BY <1>0, <2>2, <3>1, <3>3, <3>4 DEF WatermarkInv, OutputBound, TypeOK, IndexTypeOK
  <2>4. variables' = [variables EXCEPT ![s] = m.ts]
    BY DEF RelayToFreeSlot
  <2>5. UNCHANGED <<oldestForChannel, oldestPossibleInput, oldestPossibleOutput,
                    nextEnumeration>>
    BY DEF RelayToFreeSlot
  <2>6. OutputBound'
    BY <1>0, <2>1, <2>3, <2>4, <2>5 DEF WatermarkInv, OutputBound, isValid, TypeOK, IndexTypeOK
  <2> QED
    BY <1>0, <2>5, <2>6 DEF WatermarkInv, TimersBehind, InputBound, TypeOK, IndexTypeOK
<1>3. CASE \E m \in Messages : RelayInvalid(m)
  BY <1>0, <1>3, WatermarkStutter DEF RelayInvalid, indexVars
<1>4. CASE \E c \in DataChannels, t \in 0 .. MaxTimeslice : DomainInfoUpdated(c, t)
  <2> PICK c \in DataChannels, t \in 0 .. MaxTimeslice : DomainInfoUpdated(c, t)
    BY <1>4
  <2>1. c \in DPLChannels /\ t \in Nat
    BY RelayerAssumption DEF DataChannels
  <2>2. t >= oldestForChannel[c]
    BY <1>0, <2>1, IndexAssumption DEF DomainInfoUpdated, TypeOK, IndexTypeOK
  <2>3. /\ variables' \in [Slots -> Nat \cup {NoTimeslice}]
        /\ \A s \in Slots : variables'[s] \in {variables[s], NoTimeslice}
    BY <1>0 DEF DomainInfoUpdated, markAsInvalid, TypeOK, IndexTypeOK
  <2>4. \A s \in Slots : isValid(variables', s) => oldestPossibleOutput <= variables'[s]
    BY <2>3 DEF WatermarkInv, OutputBound, isValid
  <2>5. /\ oldestForChannel' = [oldestForChannel EXCEPT ![c] = t]
        /\ oldestPossibleInput' = minOverChannels(oldestForChannel', t)
        /\ oldestPossibleOutput' = minOverSlots(variables', oldestPossibleInput')
        /\ nextEnumeration' = nextEnumeration
    BY DEF DomainInfoUpdated
  <2>6. TimersBehind'
    BY <1>0, <2>1, <2>5, IndexAssumption, RelayerAssumption
       DEF WatermarkInv, TimersBehind, DataChannels, TypeOK, IndexTypeOK
  <2> QED
    BY <1>0, <2>1, <2>2, <2>3, <2>4, <2>5, <2>6, WatermarkUp
<1>5. CASE PrunePending
  BY <1>0, <1>5, WatermarkStutter DEF PrunePending, indexVars
<1>6. CASE Rescan
  BY <1>0, <1>6, WatermarkStutter DEF Rescan, relayerVars
<1>17. CASE RescanPastOldest
  <2>1. /\ UNCHANGED <<variables, oldestForChannel, oldestPossibleInput, nextEnumeration>>
        /\ oldestPossibleOutput' = minOverSlots(variables, oldestPossibleInput)
    BY <1>17 DEF RescanPastOldest, relayerVars
  <2>2. OutputBound' /\ oldestPossibleOutput' >= oldestPossibleOutput
    BY <1>0, <2>1, MinOverSlots DEF WatermarkInv, OutputBound, isValid, TypeOK, IndexTypeOK
  <2> QED
    BY <1>0, <2>1, <2>2 DEF WatermarkInv, TimersBehind, InputBound
<1>7. CASE DataProcessingExpired
  BY <1>0, <1>7, WatermarkStutter DEF DataProcessingExpired, indexVars
<1>8. CASE StopStart
  <2>1. stops' # stops
    BY <1>0, <1>8 DEF StopStart, TypeOK
  <2>2. TimersBehind' /\ InputBound' /\ OutputBound'
    BY <1>0, <1>8, IndexAssumption, RelayerAssumption
       DEF StopStart, reset, TimersBehind, InputBound, OutputBound, isValid, TypeOK, IndexTypeOK
  <2> QED
    BY <1>0, <2>1, <2>2 DEF WatermarkInv
<1>9. CASE \E st \in Streams : ExpireOptional(st)
  BY <1>0, <1>9, WatermarkStutter DEF ExpireOptional
<1>10. CASE \E st \in Streams, i \in TimerInputs, t \in TimerValues : TimerIdle(st, i, t)
  <2> PICK st \in Streams, i \in TimerInputs, start \in TimerValues : TimerIdle(st, i, start)
    BY <1>10
  <2> DEFINE t == IF nextEnumeration = 0 THEN start ELSE nextEnumeration
  <2>1. ChannelOf[i] \in DPLChannels /\ t \in Nat /\ t >= nextEnumeration
    BY <1>0, RelayerAssumption DEF TypeOK
  <2>2. /\ variables \in [Slots -> Nat \cup {NoTimeslice}]
        /\ \A s \in Slots : isValid(variables, s) => oldestPossibleOutput <= variables[s]
    BY <1>0 DEF WatermarkInv, OutputBound, TypeOK, IndexTypeOK
  <2>3. /\ variables' = variables
        /\ oldestForChannel' = [oldestForChannel EXCEPT ![ChannelOf[i]] = t]
        /\ oldestPossibleInput' = minOverChannels(oldestForChannel', t)
        /\ oldestPossibleOutput' = minOverSlots(variables, oldestPossibleInput')
        /\ nextEnumeration' = t
    BY DEF TimerIdle, timerChannelAt
  <2> HIDE DEF t
  <2>4. t >= oldestForChannel[ChannelOf[i]]
    BY <1>0, <2>1, IndexAssumption DEF WatermarkInv, TimersBehind, TypeOK, IndexTypeOK
  <2>5. TimersBehind'
    BY <1>0, <2>1, <2>3, IndexAssumption, RelayerAssumption
       DEF WatermarkInv, TimersBehind, TypeOK, IndexTypeOK
  <2> QED
    BY <1>0, <2>1, <2>2, <2>3, <2>4, <2>5, WatermarkUp
<1>11. CASE \E st \in Streams, i \in TimerInputs, t \in TimerValues : TimerFired(st, i, t)
  <2> PICK st \in Streams, i \in TimerInputs, t \in TimerValues : TimerFired(st, i, t)
    BY <1>11
  <2>1. ChannelOf[i] \in DPLChannels /\ t \in Nat /\ t >= nextEnumeration
    BY RelayerAssumption DEF TimerFired
  <2>2. t >= oldestForChannel[ChannelOf[i]]
    BY <1>0, <2>1, IndexAssumption DEF WatermarkInv, TimersBehind, TypeOK, IndexTypeOK
  <2>3. /\ variables' \in [Slots -> Nat \cup {NoTimeslice}]
        /\ \A s \in Slots : variables'[s] \in {variables[s], t}
    BY <1>0, <2>1 DEF TimerFired, TypeOK, IndexTypeOK
  <2>4. oldestPossibleOutput <= t
    <3>1. oldestForChannel[ChannelOf[i]] \in Nat
      BY <1>0, <2>1, IndexAssumption DEF TypeOK, IndexTypeOK
    <3> QED
      BY <1>0, <2>1, <2>2, <3>1 DEF WatermarkInv, InputBound, OutputBound, TypeOK, IndexTypeOK
  <2>5. \A s \in Slots : isValid(variables', s) => oldestPossibleOutput <= variables'[s]
    BY <2>3, <2>4 DEF WatermarkInv, OutputBound, isValid
  <2>6. /\ oldestForChannel' = [oldestForChannel EXCEPT ![ChannelOf[i]] = t]
        /\ oldestPossibleInput' = minOverChannels(oldestForChannel', t)
        /\ oldestPossibleOutput' = minOverSlots(variables', oldestPossibleInput')
        /\ nextEnumeration' = t
    BY DEF TimerFired, timerChannelAt
  <2>7. TimersBehind'
    BY <1>0, <2>1, <2>6, IndexAssumption, RelayerAssumption
       DEF WatermarkInv, TimersBehind, TypeOK, IndexTypeOK
  <2> QED
    BY <1>0, <2>1, <2>2, <2>3, <2>5, <2>6, <2>7, WatermarkUp
<1>12. CASE \E st \in Streams : GetReadyToProcess(st)
  <2>1. /\ UNCHANGED <<variables, oldestForChannel, oldestPossibleInput, nextEnumeration>>
        /\ oldestPossibleOutput' = minOverSlots(variables, oldestPossibleInput)
    BY <1>12 DEF GetReadyToProcess, readyWith
  <2>2. OutputBound' /\ oldestPossibleOutput' >= oldestPossibleOutput
    BY <1>0, <2>1, MinOverSlots DEF WatermarkInv, OutputBound, isValid, TypeOK, IndexTypeOK
  <2> QED
    BY <1>0, <2>1, <2>2 DEF WatermarkInv, TimersBehind, InputBound
<1>13. CASE \E st \in Streams : \E a \in completed[st] : DispatchConsume(st, a)
  <2>1. \A s \in Slots : variables'[s] \in {variables[s], NoTimeslice}
    BY <1>0, <1>13 DEF DispatchConsume, TypeOK, IndexTypeOK
  <2> QED
    BY <1>0, <1>13, <2>1, WatermarkStutter DEF DispatchConsume
<1>14. CASE \E st \in Streams : \E a \in completed[st] : DispatchExisting(st, a)
  BY <1>0, <1>14, WatermarkStutter DEF DispatchExisting, indexVars
<1>15. CASE \E st \in Streams : EndOfStream(st)
  <2>1. \A s \in Slots : variables'[s] \in {variables[s], NoTimeslice}
    BY <1>15 DEF EndOfStream, markAsInvalid
  <2> QED
    BY <1>0, <1>15, <2>1, WatermarkStutter DEF EndOfStream
<1>16. CASE UNCHANGED vars
  BY <1>0, <1>16, WatermarkStutter DEF vars, indexVars, relayerVars
<1> QED
  BY <1>1, <1>2, <1>3, <1>4, <1>5, <1>6, <1>7, <1>8, <1>9, <1>10, <1>11, <1>12,
     <1>13, <1>14, <1>15, <1>16, <1>17 DEF Next

LEMMA WatermarkInvariant == Spec => []WatermarkInv
<1>1. Init => WatermarkInv
  BY TypeInit, IndexAssumption, RelayerAssumption
     DEF Init, IndexInit, WatermarkInv, TimersBehind, InputBound, OutputBound, isValid
<1>2. WatermarkInv /\ [Next]_vars => WatermarkInv'
  BY WatermarkNext
<1> QED
  BY <1>1, <1>2, PTL DEF Spec

(* What a device tells the ones downstream is a true lower bound of what   *)
(* it holds and of what it can receive, timers, threads, stops and the     *)
(* end of the stream included.                                             *)
THEOREM OutputIsALowerBound == Spec => []OutputBound
<1>1. WatermarkInv => OutputBound
  BY DEF WatermarkInv
<1> QED
  BY <1>1, WatermarkInvariant, PTL

(* "oldestPossibleOutput decreased" of updateOldestPossibleOutput is never *)
(* logged: within a run the watermark only moves up.                       *)
THEOREM OutputIsMonotone == Spec => OutputNeverDecreases
<1> DEFINE Up == stops' = stops => oldestPossibleOutput' >= oldestPossibleOutput
<1>1. WatermarkInv /\ [Next]_vars => [Up]_vars
  BY WatermarkNext
<1> QED
  BY <1>1, WatermarkInvariant, PTL DEF Spec, OutputNeverDecreases
-------------------------------------------------------------------------------
(***************************************************************************)
(* The actions, in a device whose streams run on the main thread.          *)
(*                                                                         *)
(* ActionsStayBound: an action found by getReadyToProcess is still about   *)
(* the record it was decided on when tryDispatchComputation gets to it.    *)
(* It needs that no two pending actions share a slot: the                  *)
(* one that runs first would empty the record of the other.  NoLostWakeup  *)
(* needs ActionsStayBound, or a Process could stand for the release of a   *)
(* complete record.                                                        *)
(***************************************************************************)
ActionsStayBound ==
  \A st \in Streams : \A a \in completed[st] :
    /\ variables[a.slot] = a.timeslice
    /\ \/ a.op \in Policy[present(a.slot)]
       \/ a.op = "Consume" /\ "ConsumeAndRescan" \in Policy[present(a.slot)]

OneActionPerSlot ==
  \A st, su \in Streams : \A a \in completed[st], b \in completed[su] :
    a.slot = b.slot => st = su /\ a = b

ActionInv == TypeOK /\ OneActionPerSlot /\ ActionsStayBound /\ NoLostWakeup

NothingPending == \A st \in Streams : completed[st] = {}

(* A completion policy does not release a record that has no input yet. *)
PolicyWaitsForInput == ~ (Policy[{}] \subseteq ReleaseOps)

(* A step made while nothing is pending keeps the invariant if it marks as *)
(* dirty every slot it binds and every slot to which it adds a message.    *)
LEMMA ActionQuiet ==
  ASSUME ActionInv, TypeOK', NothingPending, completed' = completed,
         PolicyWaitsForInput,
         \A s \in Slots : \/ dirty'[s]
                          \/ variables'[s] = NoTimeslice
                          \/ cache'[s] = {}
                          \/ /\ variables'[s] = variables[s]
                             /\ cache'[s] = cache[s]
                             /\ dirty'[s] = dirty[s]
  PROVE  ActionInv'
<1>1. OneActionPerSlot' /\ ActionsStayBound'
  BY DEF NothingPending, OneActionPerSlot, ActionsStayBound
<1>2. ASSUME NEW s \in Slots, isValid(variables', s), (Policy[present(s)] \subseteq ReleaseOps)'
      PROVE  dirty'[s]
  <2>1. CASE cache'[s] = {}
    <3>1. present(s)' = {}
      BY <2>1 DEF present
    <3> QED
      BY <1>2, <3>1 DEF PolicyWaitsForInput
  <2>2. CASE variables'[s] = variables[s] /\ cache'[s] = cache[s] /\ dirty'[s] = dirty[s]
    <3>1. isValid(variables, s) /\ Policy[present(s)] \subseteq ReleaseOps
      BY <1>2, <2>2 DEF isValid, present
    <3> QED
      BY <2>2, <3>1 DEF ActionInv, NoLostWakeup, NothingPending
  <2> QED
    BY <1>2, <2>1, <2>2 DEF isValid
<1> QED
  BY <1>1, <1>2 DEF ActionInv, NoLostWakeup

LEMMA ActionNext ==
  ASSUME ActionInv, [Next]_vars, ~ ThreadPool, PolicyWaitsForInput
  PROVE  ActionInv'
<1>0. TypeOK /\ TypeOK'
  BY TypeNext DEF ActionInv
<1>q. mainThreadFree => NothingPending
  BY DEF mainThreadFree, NothingPending
<1>1. CASE \E m \in Messages : RelayToMatchingSlot(m)
  <2> PICK m \in Messages : RelayToMatchingSlot(m)
    BY <1>1
  <2>1. NothingPending /\ completed' = completed /\ variables' = variables
    BY <1>q DEF RelayToMatchingSlot, arrives
  <2>2. CASE saveInSlot(m) = {}
    BY <1>0, <2>1, <2>2, ActionQuiet
       DEF RelayToMatchingSlot, markAsDirty, TypeOK, IndexTypeOK
  <2>3. CASE saveInSlot(m) # {}
    BY <1>0, <2>1, <2>3, ActionQuiet
       DEF RelayToMatchingSlot, markAsDirty, TypeOK, IndexTypeOK
  <2> QED
    BY <2>2, <2>3
<1>2. CASE \E m \in Messages : RelayToFreeSlot(m)
  <2> PICK m \in Messages : RelayToFreeSlot(m)
    BY <1>2
  <2> DEFINE f == Min(freeSlots(variables, m.ts))
  <2>1. NothingPending /\ completed' = completed
    BY <1>q DEF RelayToFreeSlot, arrives
  <2>2. f \in Slots
    BY FirstSlot DEF RelayToFreeSlot, freeSlots
  <2>3. /\ variables' = [variables EXCEPT ![f] = m.ts]
        /\ cache' = [pruneCache({f}) EXCEPT ![f] = @ \cup saveInSlot(m)]
        /\ dirty' = markAsDirty(dirty, {r \in {f} : saveInSlot(m) # {}})
    BY DEF RelayToFreeSlot
  <2>4. ASSUME NEW s \in Slots, s # f
        PROVE  variables'[s] = variables[s] /\ cache'[s] = cache[s] /\ dirty'[s] = dirty[s]
    BY <1>0, <2>2, <2>3, <2>4 DEF pruneCache, markAsDirty, TypeOK, IndexTypeOK
  <2>5. cache'[f] = saveInSlot(m) /\ (saveInSlot(m) # {} => dirty'[f])
    BY <1>0, <2>2, <2>3 DEF pruneCache, markAsDirty, TypeOK, IndexTypeOK
  <2> QED
    BY <1>0, <2>1, <2>4, <2>5, ActionQuiet
<1>3. CASE \E m \in Messages : RelayInvalid(m)
  BY <1>0, <1>q, <1>3, ActionQuiet DEF RelayInvalid, arrives, indexVars
<1>4. CASE \E c \in DataChannels, t \in 0 .. MaxTimeslice : DomainInfoUpdated(c, t)
  BY <1>0, <1>q, <1>4, ActionQuiet DEF DomainInfoUpdated, markAsInvalid
<1>5. CASE PrunePending
  BY <1>0, <1>q, <1>5, ActionQuiet DEF PrunePending, pruneCache, indexVars
<1>6. CASE Rescan
  BY <1>0, <1>q, <1>6, ActionQuiet DEF Rescan, rescan, relayerVars
<1>17. CASE RescanPastOldest
  BY <1>0, <1>q, <1>17, ActionQuiet DEF RescanPastOldest, rescan, relayerVars
<1>7. CASE DataProcessingExpired
  BY <1>0, <1>q, <1>7, ActionQuiet DEF DataProcessingExpired, indexVars
<1>8. CASE StopStart
  BY <1>0, <1>8, ActionQuiet DEF StopStart, NothingPending
<1>9. CASE \E st \in Streams : ExpireOptional(st)
  <2> PICK st \in Streams : ExpireOptional(st)
    BY <1>9
  <2>1. NothingPending /\ completed' = completed /\ variables' = variables
    BY <1>q DEF ExpireOptional, streamFree
  <2>2. ASSUME NEW s \in Slots, missingOptional(s) = {}
        PROVE  cache'[s] = cache[s] /\ dirty'[s] = dirty[s]
    BY <1>0, <2>2 DEF ExpireOptional, markAsDirty, TypeOK, IndexTypeOK
  <2>3. ASSUME NEW s \in Slots, missingOptional(s) # {}
        PROVE  dirty'[s]
    BY <2>3 DEF ExpireOptional, markAsDirty
  <2> QED
    BY <1>0, <2>1, <2>2, <2>3, ActionQuiet
<1>10. CASE \E st \in Streams, i \in TimerInputs, t \in TimerValues : TimerIdle(st, i, t)
  BY <1>0, <1>q, <1>10, ActionQuiet DEF TimerIdle, streamFree, relayerVars
<1>11. CASE \E st \in Streams, i \in TimerInputs, t \in TimerValues : TimerFired(st, i, t)
  <2> PICK st \in Streams, i \in TimerInputs, t \in TimerValues : TimerFired(st, i, t)
    BY <1>11
  <2> DEFINE free  == replaceLRUWith(variables, t)
             taken == {s \in Slots : free.action = "ReplaceUnused" /\ s = free.slot}
  <2>1. NothingPending /\ completed' = completed
    BY <1>q DEF TimerFired, streamFree
  <2>2. PICK fired \in SUBSET taken :
          /\ variables' = [s \in Slots |-> IF s \in taken THEN t ELSE variables[s]]
          /\ dirty' = markAsDirty(dirty, taken)
          /\ cache' = [s \in Slots |->
                         IF s \in fired THEN cache[s] \cup {generated(t, i)} ELSE cache[s]]
    BY DEF TimerFired
  <2> HIDE DEF taken
  <2>3. ASSUME NEW s \in Slots, s \notin taken
        PROVE  variables'[s] = variables[s] /\ cache'[s] = cache[s] /\ dirty'[s] = dirty[s]
    BY <1>0, <2>2, <2>3 DEF markAsDirty, TypeOK, IndexTypeOK
  <2>4. ASSUME NEW s \in Slots, s \in taken
        PROVE  dirty'[s]
    BY <2>2, <2>4 DEF markAsDirty
  <2> QED
    BY <1>0, <2>1, <2>3, <2>4, ActionQuiet
<1>12. CASE \E st \in Streams : GetReadyToProcess(st)
  <2> PICK st \in Streams : GetReadyToProcess(st)
    BY <1>12
  <2>1. NothingPending /\ UNCHANGED <<variables, cache>>
    BY <1>q DEF GetReadyToProcess, readyWith, streamFree
  <2>2. PICK ops \in [Slots -> possibleOps] :
          /\ \A s \in Slots : ops[s] \in Policy[present(s)]
          /\ completed' = [completed EXCEPT
                             ![st] = {recordAction(ops, s) : s \in readySlots(ops)}]
          /\ dirty' = [s \in Slots |-> stillDirty(ops, s)]
    BY DEF GetReadyToProcess, readyWith
  <2>3. \A su \in Streams : \A a \in completed'[su] :
          su = st /\ \E s \in readySlots(ops) : a = recordAction(ops, s)
    BY <1>0, <2>1, <2>2 DEF NothingPending, TypeOK
  <2>4. \A s \in readySlots(ops) :
          /\ s \in Slots
          /\ recordAction(ops, s).slot = s
          /\ recordAction(ops, s).timeslice = variables[s]
          /\ recordAction(ops, s).op = IF ops[s] = "ConsumeAndRescan" THEN "Consume" ELSE ops[s]
    BY DEF recordAction, readySlots, visited
  <2>5. OneActionPerSlot'
    BY <2>3, <2>4 DEF OneActionPerSlot
  <2>6. ActionsStayBound'
    <3>1. \A s \in Slots : present(s)' = present(s)
      BY <2>1 DEF present
    <3> QED
      BY <2>1, <2>2, <2>3, <2>4, <3>1 DEF ActionsStayBound
  <2>7. NoLostWakeup'
    <3> SUFFICES ASSUME NEW s \in Slots, isValid(variables, s),
                        Policy[present(s)] \subseteq ReleaseOps
                 PROVE  \/ dirty'[s]
                        \/ recordAction(ops, s) \in completed'[st] /\ recordAction(ops, s).slot = s
      BY <2>1 DEF NoLostWakeup, present, isValid
    <3>1. dirty[s]
      BY <2>1 DEF ActionInv, NoLostWakeup, NothingPending
    <3>2. ops[s] \in ReleaseOps
      BY <2>2
    <3>3. CASE ops[s] = "Retry"
      BY <2>2, <3>1, <3>3 DEF stillDirty, visited
    <3>4. CASE ops[s] # "Retry"
      <4>1. s \in readySlots(ops)
        BY <3>1, <3>2, <3>4 DEF readySlots, visited, ReleaseOps
      <4> QED
        BY <1>0, <2>2, <2>4, <4>1 DEF TypeOK
    <3> QED
      BY <3>3, <3>4
  <2> QED
    BY <1>0, <2>5, <2>6, <2>7 DEF ActionInv
<1>13. CASE \E st \in Streams : \E a \in completed[st] : DispatchConsume(st, a)
  <2> PICK st \in Streams : \E a \in completed[st] : DispatchConsume(st, a)
    BY <1>13
  <2> PICK a \in completed[st] : DispatchConsume(st, a)
    OBVIOUS
  <2>1. /\ completed' = [completed EXCEPT ![st] = @ \ {a}]
        /\ cache' = [cache EXCEPT ![a.slot] = {}]
        /\ variables' = [variables EXCEPT ![a.slot] = NoTimeslice]
        /\ dirty' = dirty
    BY DEF DispatchConsume
  <2>2. a.slot \in Slots
    BY <1>0 DEF TypeOK, RecordActions
  <2>3. \A su \in Streams : \A b \in completed'[su] :
          b \in completed[su] /\ b.slot \in Slots /\ b.slot # a.slot
    <3> SUFFICES ASSUME NEW su \in Streams, NEW b \in completed'[su]
                 PROVE  b \in completed[su] /\ b.slot \in Slots /\ b.slot # a.slot
      OBVIOUS
    <3>1. b \in completed[su] /\ (su = st => b # a)
      BY <1>0, <2>1 DEF TypeOK
    <3>2. b.slot \in Slots
      BY <1>0, <3>1 DEF TypeOK, RecordActions
    <3> QED
      BY <3>1, <3>2 DEF ActionInv, OneActionPerSlot
  <2>4. \A s \in Slots : s # a.slot =>
          variables'[s] = variables[s] /\ cache'[s] = cache[s] /\ present(s)' = present(s)
    BY <1>0, <2>1, <2>2 DEF TypeOK, IndexTypeOK, present
  <2>5. OneActionPerSlot'
    BY <2>3 DEF ActionInv, OneActionPerSlot
  <2>6. ActionsStayBound'
    BY <2>3, <2>4 DEF ActionInv, ActionsStayBound
  <2>7. NoLostWakeup'
    <3> SUFFICES ASSUME NEW s \in Slots, isValid(variables', s),
                        (Policy[present(s)] \subseteq ReleaseOps)', ~ dirty[s]
                 PROVE  \E su \in Streams : \E b \in completed'[su] : b.slot = s
      BY <2>1 DEF NoLostWakeup
    <3>1. s # a.slot
      BY <1>0, <2>1, <2>2 DEF isValid, TypeOK, IndexTypeOK
    <3>2. isValid(variables, s) /\ Policy[present(s)] \subseteq ReleaseOps
      BY <2>4, <3>1 DEF isValid
    <3>3. PICK su \in Streams : \E b \in completed[su] : b.slot = s
      BY <3>2 DEF ActionInv, NoLostWakeup
    <3>4. PICK b \in completed[su] : b.slot = s
      BY <3>3
    <3>5. b \in completed'[su]
      BY <1>0, <2>1, <3>1, <3>4 DEF TypeOK
    <3> QED
      BY <3>4, <3>5
  <2> QED
    BY <1>0, <2>5, <2>6, <2>7 DEF ActionInv
<1>14. CASE \E st \in Streams : \E a \in completed[st] : DispatchExisting(st, a)
  <2> PICK st \in Streams : \E a \in completed[st] : DispatchExisting(st, a)
    BY <1>14
  <2> PICK a \in completed[st] : DispatchExisting(st, a)
    OBVIOUS
  <2>1. /\ completed' = [completed EXCEPT ![st] = @ \ {a}]
        /\ UNCHANGED <<cache, variables, dirty>>
        /\ a.op \in {"Process", "ConsumeExisting"}
    BY DEF DispatchExisting, indexVars
  <2>2. \A su \in Streams : completed'[su] \subseteq completed[su]
    BY <1>0, <2>1 DEF TypeOK
  <2>3. \A s \in Slots : present(s)' = present(s)
    BY <2>1 DEF present
  <2>4. OneActionPerSlot'
    BY <2>2 DEF ActionInv, OneActionPerSlot
  <2>5. ActionsStayBound'
    <3>1. \A su \in Streams : \A b \in completed'[su] : b.slot \in Slots
      BY <1>0, <2>2 DEF TypeOK, RecordActions
    <3> QED
      BY <2>1, <2>2, <2>3, <3>1 DEF ActionInv, ActionsStayBound
  <2>6. NoLostWakeup'
    <3> SUFFICES ASSUME NEW s \in Slots, isValid(variables, s),
                        Policy[present(s)] \subseteq ReleaseOps, ~ dirty[s]
                 PROVE  \E su \in Streams : \E b \in completed'[su] : b.slot = s
      BY <2>1, <2>3 DEF NoLostWakeup, isValid
    <3>1. PICK su \in Streams : \E b \in completed[su] : b.slot = s
      BY DEF ActionInv, NoLostWakeup
    <3>2. PICK b \in completed[su] : b.slot = s
      BY <3>1
    <3>3. a.slot # s
      BY <2>1 DEF ActionInv, ActionsStayBound, ReleaseOps
    <3>4. b \in completed'[su]
      BY <1>0, <2>1, <3>2, <3>3 DEF TypeOK
    <3> QED
      BY <3>2, <3>4
  <2> QED
    BY <1>0, <2>4, <2>5, <2>6 DEF ActionInv
<1>15. CASE \E st \in Streams : EndOfStream(st)
  BY <1>0, <1>q, <1>15, ActionQuiet DEF EndOfStream, streamFree
<1>16. CASE UNCHANGED vars
  <2>1. UNCHANGED <<variables, dirty, cache, completed>>
    BY <1>16 DEF vars, indexVars, relayerVars
  <2>2. \A s : present(s)' = present(s)
    BY <2>1 DEF present
  <2>3. OneActionPerSlot' /\ ActionsStayBound' /\ NoLostWakeup'
    BY <2>1, <2>2 DEF ActionInv, OneActionPerSlot, ActionsStayBound, NoLostWakeup, isValid
  <2> QED
    BY <1>0, <2>3 DEF ActionInv
<1> QED
  BY <1>1, <1>2, <1>3, <1>4, <1>5, <1>6, <1>7, <1>8, <1>9, <1>10, <1>11, <1>12,
     <1>13, <1>14, <1>15, <1>16, <1>17 DEF Next

LEMMA ActionInvariant ==
  ASSUME ~ ThreadPool, PolicyWaitsForInput
  PROVE  Spec => []ActionInv
<1>1. Init => ActionInv
  BY TypeInit DEF Init, IndexInit, ActionInv, OneActionPerSlot, ActionsStayBound,
                  NoLostWakeup, isValid
<1>2. ActionInv /\ [Next]_vars => ActionInv'
  BY ActionNext
<1> QED
  BY <1>1, <1>2, PTL DEF Spec

(* The dirty flags lose no wake-up: a record which has to be released is   *)
(* never left in a slot nobody will look at.                               *)
THEOREM WakeupsAreKept ==
  ASSUME ~ ThreadPool, PolicyWaitsForInput
  PROVE  Spec => []NoLostWakeup
<1>1. ActionInv => NoLostWakeup
  BY DEF ActionInv
<1> QED
  BY <1>1, ActionInvariant, PTL

(* setOldestPossibleInput, the timers and relay() never take a slot away   *)
(* from a record which is ready: only incomplete records that can never be *)
(* completed are dropped.                                                  *)
THEOREM DropsAreHopeless ==
  ASSUME ~ ThreadPool, PolicyWaitsForInput
  PROVE  Spec => OnlyHopelessDropped
<1> DEFINE Released == \A s \in Slots :
                         isValid(variables, s) /\ variables'[s] # variables[s] => ReleasedBy(s)
<1>1. ASSUME ActionInv, Next
      PROVE  Released
  <2> SUFFICES ASSUME NEW s \in Slots, isValid(variables, s), variables'[s] # variables[s]
               PROVE  ReleasedBy(s)
    OBVIOUS
  <2>0. TypeOK
    BY <1>1 DEF ActionInv
  <2>1. CASE \E m \in Messages : RelayToFreeSlot(m)
    <3> PICK m \in Messages : RelayToFreeSlot(m)
      BY <2>1
    <3>1. /\ Min(freeSlots(variables, m.ts)) \in freeSlots(variables, m.ts)
          /\ variables' = [variables EXCEPT ![Min(freeSlots(variables, m.ts))] = m.ts]
      BY FirstSlot DEF RelayToFreeSlot, freeSlots
    <3> QED
      BY <2>0, <3>1 DEF freeSlots, TypeOK, IndexTypeOK
  <2>2. CASE \E c \in DataChannels, t \in 0 .. MaxTimeslice : DomainInfoUpdated(c, t)
    <3> PICK c \in DataChannels, t \in 0 .. MaxTimeslice : DomainInfoUpdated(c, t)
      BY <2>2
    <3>1. ~ dirty[s] /\ variables[s] < oldestPossibleInput'
      BY DEF DomainInfoUpdated, markAsInvalid, obsoleteSlots
    <3>2. \A st \in Streams : completed[st] = {}
      BY DEF DomainInfoUpdated, mainThreadFree
    <3> QED
      BY <1>1, <3>1, <3>2 DEF ActionInv, NoLostWakeup, ReleasedBy
  <2>3. CASE \E st \in Streams, i \in TimerInputs, t \in TimerValues : TimerFired(st, i, t)
    <3> PICK st \in Streams, i \in TimerInputs, t \in TimerValues : TimerFired(st, i, t)
      BY <2>3
    <3>1. /\ replaceLRUWith(variables, t).action = "ReplaceUnused"
          /\ s = replaceLRUWith(variables, t).slot
      BY DEF TimerFired
    <3> QED
      BY <3>1 DEF replaceLRUWith
  <2>4. CASE \E st \in Streams : \E a \in completed[st] : DispatchConsume(st, a)
    <3> PICK st \in Streams : \E a \in completed[st] : DispatchConsume(st, a)
      BY <2>4
    <3> PICK a \in completed[st] : DispatchConsume(st, a)
      OBVIOUS
    <3>1. s = a.slot
      BY <2>0 DEF DispatchConsume, TypeOK, IndexTypeOK
    <3>2. a \in completed[st] \ completed'[st]
      BY <2>0 DEF DispatchConsume, TypeOK
    <3>3. a.timeslice = variables[s]
      BY <1>1, <3>1 DEF ActionInv, ActionsStayBound
    <3> QED
      BY <3>1, <3>2, <3>3 DEF ReleasedBy
  <2>5. CASE \E st \in Streams : EndOfStream(st)
    BY <2>5 DEF EndOfStream, ReleasedBy, streamFree
  <2>6. CASE variables' = variables
    BY <2>6
  <2> QED
    BY <1>1, <2>1, <2>2, <2>3, <2>4, <2>5, <2>6
       DEF Next, RelayToMatchingSlot, RelayInvalid, PrunePending, Rescan,
           RescanPastOldest, DataProcessingExpired, StopStart, ExpireOptional, TimerIdle,
           GetReadyToProcess, readyWith, DispatchExisting, indexVars
<1>2. ActionInv /\ [Next]_vars => [Released]_vars
  BY <1>1
<1> QED
  BY <1>2, ActionInvariant, PTL DEF Spec, OnlyHopelessDropped
===============================================================================
