# TLA+ models of AliceO2

AliceO2 holds the online and offline software of the ALICE experiment: detector
reconstruction, simulation and GPU tracking on top of a message-passing
framework, the Data Processing Layer (DPL, `Framework/Core`). The repository has
1.2 million lines, and most of them are numerical code, geometry, calibration
constants, data layout and tools, which have no states and no interleavings to
check. What *is* about states and orders of events is in two places, and this
project models their cores:

* the **DPL device**: it receives messages of many *timeslices* on many
  channels, collects the ones that belong together, decides when a record is
  complete, runs the user's code on it within the resources the driver offers,
  tells the devices downstream which timeslices they need not wait for, and
  reports its metrics and states;
* **o2-sim**: the parallel simulation, a server that generates events and hands
  them out in chunks, workers that simulate them, a merger that puts the results
  together, and a driver that starts them all and says how it went.

## 1. Inventory

### 1.1 The parts and their state

| Part | Source | State | Operations |
|---|---|---|---|
| TimesliceIndex | `Framework/Core/src/TimesliceIndex.cxx` | timeslice of each cache line (slot), dirty flags, oldest timeslice per channel, input and output watermark | associate, replaceLRUWith, markAsDirty, markAsInvalid, setOldestPossibleInput, validateSlot, updateOldestPossibleOutput, rescan, reset |
| DataRelayer | `src/DataRelayer.cxx` | the cache (slot x input), the slots queued for pruning | relay, setOldestPossibleInput, prunePending, processDanglingInputs, getReadyToProcess, consumeAll/ExistingInputsForTimeslice, clear |
| Lifetime handlers | `src/LifetimeHelpers.cxx` | nextEnumerationTimeslice, shared by all timers | creation, check and expiration of timers, enumerations, conditions, optional inputs |
| Completion policies | `src/CompletionPolicyHelpers.cxx` | none of their own; some write into the decongestion service | answer Wait, Retry, Process, Consume, ... for a partial record |
| AsyncQueue | `src/AsyncQueue.cxx` | task list, x9 inbox, `first` flag | post, flushPending, run, reset |
| Decongestion service | `src/CommonServices.cxx` (555-815) | last announced timeslice, next timeslice of the ordered policy, "policy is active" flags | domainInfoUpdated, four callbacks run from the queue, stop |
| DataProcessingDevice | `src/DataProcessingDevice.cxx` | streams with the actions to run, streaming state, allowed processing | Run, handleData, doRun, tryDispatchComputation |
| ComputingQuotaEvaluator | `src/ComputingQuotaEvaluator.cxx` | a fixed array of offers with their owners, pending and expired offers | selectOffer, consume, dispose, updateOffers, handleExpired |
| Resource offers of the driver | `src/ArrowSupport.cxx` | available and offered memory and timeslices, from metrics | the metrics processing callback |
| DataProcessingStats | `src/DataProcessingStats.cxx` | array of commands with three atomic counters, values, what was published when | updateStats, processCommandQueue, flushChangedMetrics |
| DataProcessingStates | `src/DataProcessingStates.cxx` | queue of reports, a shared buffer with a view for each state | updateState, processCommandQueue, flushChangedStates |
| Primary server | `run/O2PrimaryServerDevice.{h,cxx}` | mState, event and part counters, generator and control threads | ConditionalRun, HandleRequest, generateEvent, ReInit, PostRun |
| Hit merger | `run/O2HitMerger.{h,cxx}` | parts seen, checksums, flushable events, merge thread | handleSimData, mergeAndFlushData, ReInit |
| Workers | `run/O2SimDevice.h`, `O2SimDeviceRunner.cxx` | where they are, control subscription | Kernel, waitForControlInput, signal handler |
| Simulation driver | `run/o2sim_parallel.cxx` | asked and finished events, shutdown and error flags | finishCallback, control thread, wait loop |

Parts that are not modelled are listed in section 8 and in `PROJECT.json`.

### 1.2 How they interact

`Run()` of a device is one loop on the main thread: prune what was invalidated
(`prunePending`, whose `onDrop` forwards the dropped data), run the AsyncQueue
with the output watermark, wait for events (offers of the driver arrive here),
store the offers, select some for a free stream and schedule it. A stream's step
(`doRun`) polls the channels (`handleData`): data goes to `relay()`, a
`DomainInfoHeader` to `domainInfoUpdated`, which moves the watermarks,
invalidates slots that can never be completed, and posts tasks. Then expiration
handlers may bind or fill slots, `getReadyToProcess` asks the completion policy
about every dirty slot, and `tryDispatchComputation` runs the actions found,
forwards the inputs (posting another task), and frees the slot. The completion
of a stream takes off the offers what it used. Without a thread pool a stream's
step is a plain call of the main loop; with `DPL_THREADPOOL_SIZE > 0` it runs on
a worker while the main loop goes on. Metrics are not only for the eye: the
driver computes from them what it may still offer.

In o2-sim a worker asks the server for a chunk, simulates it and sends the
result to the merger. The merger reports every complete event through a pipe to
the driver, which ends the run when all have been reported or, as a service,
publishes the next request to all children.

### 1.3 What is hard

* Several independent sources move one watermark: channels, slots, timers.
* Two-phase dropping: a slot is invalidated now and emptied later, and may be
  bound again in between. Decisions are taken in one step and executed in others.
* The announcement downstream is a deferred task; what it carries was true when
  it was posted and must be true when it runs, also after a stop and restart.
* Wake-ups are dirty flags: a record in a clean slot is invisible.
* Offers are selected, used and expire while other streams look at them, and
  the driver's view of them is always late.
* Queues without a lock and of bounded size: tasks, metrics, states.
* The server answers requests while another thread refills the stack it answers
  from, and a control thread resets the counters it counts with.
* The merger gets parts and events in any order and merges beside collecting.
* Workers crash, replies get lost, a batch begins while the last one winds down.

`PROJECT.json` lists these as hazards, each at its line, with the properties
that cover it.

### 1.4 What makes each part correct

* Index and relayer: one slot per timeslice (`UniqueSlot`), no record that mixes
  timeslices (`SlotHomogeneous`), pruning touches stale slots only
  (`PruneOnlyStale`) and gets to them (`StaleIsPruned`), the watermark is a true
  and monotone bound (`OutputBound`, `OutputNeverDecreases`), nothing is dropped
  that could have been processed (`OnlyHopelessDropped`), nothing is forgotten
  (`NoLostWakeup`, `CompleteIsDispatched`).
* Queue: no task is lost (`NoTaskLost`, and what is left of it with other
  threads, `NoCountedTaskLost`), every post returns (`PostReturns`) and due tasks
  are handled (`RunnableIsHandled`) once no new posts come, debouncing keeps the
  highest value of a timeslice (`DebounceInTimeslice`).
* Decongestion: what is announced is true (`MeetsContract`, `AnnouncedIsTrue`,
  `NeverAhead`), it is eventually announced (`AnnouncementPropagates`), the
  ordered policy is ordered and does not get stuck (`DispatchInOrder`,
  `OldestIsDispatched`).
* Quota and offers: nothing is used that was not offered (`NoResourceInvented`),
  a running stream keeps what it was let run with (`RunningOwnsEnough`), memory
  goes back (`MemoryGoesBack`); over the whole workflow the limit is respected
  (`MemoryNeverOvercommitted`) and offers do not dry up (`MemoryKeepsComing`).
* Metrics and states: an array that overflows is flushed and nobody waits for it
  (`OverflowIsHandled`), no update is lost or counted twice
  (`EveryUpdateCounts`), values are published in the end (`LastValuePublished`,
  `ChangesArePublished`), no state is overwritten by its neighbour
  (`StateWasReported`).
* o2-sim: chunks handed out once and in sequence (`HandedOutInSequence`), never
  from a stack that is being filled (`NeverAborts`); events written whole
  (`OnlyCompleteEvents`), in order (`FlushedInOrder`), all of them before the
  batch counts as finished (`FinishedIsWritten`), batches kept apart
  (`BatchesNeverMix`); a run reported successful has written everything
  (`RunSpec`) and every run ends (`RunEnds`).

## 2. Modules

    TimesliceIndex <- DataRelayer <- Decongestion --implements--> Watermark
                          ^               ^
                  DataRelayerProofs <- DecongestionProofs
    AsyncQueue <- AsyncQueueProofs
    ComputingQuota <--+- QuotaDevice <----+- QuotaProofs
                      +- ResourceOffers <-+
    DataProcessingStats <- DataProcessingStatsProofs
    DataProcessingStates <- DataProcessingStatesProofs
    PrimaryServer <--+- ParallelSimulation --implements--> SimulationRun
    HitMerger    <---+         ^
                    ParallelSimulationProofs
    Induction: induction over numbers, intervals and finite sets, and sums,
               for the proofs that need them
    MC...: instances for TLC

**TimesliceIndex** is the vocabulary: the variables of the class, and operators
for its methods that take the state they read, since one handler calls several.

**DataRelayer** is the relayer with the loop that drives it, one action per
operation. A *message* stands for a header with its payloads: its timeslice,
the input route that matches it (or `NoRoute`), and a part number that keeps
several messages of a record apart. `cache[s]` is the set of messages in the
line, because neither the order inside a cell nor the bytes matter to any
decision. The completion policy is a constant, a function from the set of
inputs present to the set of answers it may give; an arbitrary user's policy is
an arbitrary such function. `completed[st]` holds the record actions a stream
has found and not executed yet. Dispatching an action is one step: it consumes
the slot's data and releases the slot (`DispatchConsume`), or consumes payloads
and keeps the headers (`DispatchExisting`).

**Decongestion** composes the relayer with the service, the tasks it posts and
the policies that talk to it. Every action of it calls actions of `DataRelayer`
and adds what happens to the tasks and to the service. Here the policies are
operators on the state (`orderedOp`, `pastOldestOp`), since they look at
timeslices and watermarks. `orderedScan` is the loop of `getReadyToProcess`
from the last slot down, through which the ordered policy changes
`nextTimeslice` while the slots are visited.

**Watermark** is the abstract specification of a link in a chain of devices:
upstream promises, held data, what was announced downstream. It does not know
slots, tasks or policies.

**AsyncQueue** is the queue at the level of its threads: a post that finds the
inbox full, the hand-over through `first`, and `run()` in five steps (flush,
size `order`, mark, call, erase) between which other threads may push.

**ComputingQuota** is the array of offers and the part of the main loop around
it, under the policy of the rate-limited reader: storing pending offers (adding
them to the last valid one when the array is full), selection, use, disposal and
expiry. Time is the age of each offer in ticks. **QuotaDevice** puts it among
arbitrary offers, payloads and a SIGUSR1 and keeps account; **ResourceOffers**
among the driver, which computes from delayed metrics what it may offer, the
tasks and the sink.

**DataProcessingStats** has a step for every access to the atomic counters of
the queue of commands; application and publication are one step each.
**DataProcessingStates** has the buffer with its views cell by cell, since the
properties are about what is written over what.

**PrimaryServer** has the server's four threads, and a step for every load and
store of `mState`. **HitMerger** has the merger's two; its checksums keep their
width (`Word`). **ParallelSimulation** joins both with workers and driver;
**SimulationRun** is what o2-sim promises to the one who started it.

### Correspondence

| Model | Code |
|---|---|
| `variables[s]` | variable 0 of the slot's `VariableContext` |
| `dirty`, `oldestForChannel`, `oldestPossibleInput/Output` | `mDirty`, `mChannels[c].oldestForChannel`, `mOldestPossibleInput/Output` |
| `cache`, `payloadMoved`, `pruneOps` | `mCache`, cells of which only a header is left, `mPruneOps` |
| `completed[st]` | `StreamContext::completed` |
| `upstream` | what the other devices have not sent yet (environment) |
| `tasks`, `lastTimeslice`, `nextTimeslice`, `policyActive` | `AsyncQueue`, `DecongestionService` |
| `announced` | `oldestForChannel` of the forward and output channels |
| `mOffers`, `pendingOffers`, `mExpiredOffers`, `offerConsumers` | the members of `ComputingQuotaEvaluator` and `DeviceState` of that name |
| `phase[s]`, `loop` | what a stream is doing; whether the main thread is inside `uv_run` |
| `available`, `offered`, `returned`, `balance` | `ResourceState`, and the sums the driver makes of the metrics |
| `cmds`, `nextCmd`, `insertedCmds`, `pendingCmds`, `pc`, `local` | the atomics of `DataProcessingStats`, and where a thread is in `updateStats` or `processCommandQueue` with its locals |
| `statesBuffer`, `statesViews`, `queue` | the same of `DataProcessingStates`; `store` with its linked reports, newest first |
| `mState`, `mEventCounter`, `mPartCounter`, `mNeedNewEvent`, `server` | members of `O2PrimaryServerDevice`; program counter and locals of its main thread |
| `mPartsCheckSum`, `mFlushableEvents`, `mNextFlushID`, `merger` | members of `O2HitMerger`; program counter and locals of its main thread |
| `batch`, `handedOut`, `torn`, `sendFailed`, `given`, `counted` | history, for the properties |

### Abstractions, and why they are sound

* Apart from a thread pool, a turn of the main loop does its parts in a fixed
  order. The model lets relay, announcements, pruning, queue and streams come
  in any order between two dispatches, a superset of the loop's behaviours. Two
  orders of the code are kept because correctness depends on them: the actions
  of a turn are executed before anything else happens (`mainThreadFree`), and
  the queue is run right after pruning (`hasPruned`).
* A device upstream does not send a timeslice after it announced, on the same
  channel, that it is past it (`arrives`): this is the contract of `Watermark`,
  assumed of the neighbours and shown of this device. An announcement is new,
  i.e. greater than the last one on its channel, as `sendOldestPossibleTimeframe`
  sends no other.
* `relay()` that answers Backpressured leaves everything as it was, so it is no
  step. `handleData` withholds an announcement behind a backpressured message
  of an older timeslice; that is the `arrives` guard seen from the other side.
  Of several announcements in one batch it uses the smallest.
* `DPL_DONT_DROP_OLD_TIMESLICE` is not set; the backpressure policy is the one
  the code always constructs (`Wait`).
* The device has at least one data input (`isFirstInTopology` is false).
* The expiration of all handlers of one `processDanglingInputs` call is one
  action per kind of handler, which only adds interleavings.
* The tasks of the queue form a set. In `Decongestion` all tasks have the same
  id and a negative debounce, so `run()` calls all that are due; the callbacks
  only raise values (their early returns are what makes the maxima), so their
  order is irrelevant. In `AsyncQueue` push_back and the marking loop are
  atomic, which the code does not guarantee: a reallocation of the vector while
  `run()` reads it is a race on memory that the model has no counterpart of.
* Forwarding takes place when a record is consumed or dropped; forwarding at
  injection (`ForwardPolicy::AtInjection`) is left out of `Decongestion`, as
  are timers, optional inputs and the thread pool.
* The actions of one turn run in the order in which `getReadyToProcess` found
  them, from the last slot to the first (`CompletionOrder::Any`, the default of
  `CompletionPolicy::order`). The sorts for the orders Timeslice and Slot are
  not modelled.
* A thread may post the same task again and again, but not while it is still
  on its way (`onItsWay`): this keeps the queue finite. `PostReturns` and
  `RunnableIsHandled` have as their premise that the posts cease (`PostsCease`),
  see section 4.
* A computation may create more than the device requested. What it creates
  beyond that and the driver has not heard of when it last offered memory is
  counted in `overAllocated`, by which the limit may be exceeded.
* Offers have a runtime and an age, no absolute times; cpu, memory and scores do
  not enter the modelled policy. The cumulative metrics of the code become
  increments, of which the driver forgets whole units it has both offered and
  got back: only the difference enters its formulas.
* Reports of states are sequences of cells, a few of which stand for the bytes;
  the header of a queued report takes one.
* The state space of o2-sim begins where `InitTask` has ended, because the driver
  starts the other children only then. The merger writes to disc (no forwarding
  of kinematics). A crash of a worker is one that its signal handler sees; a
  SIGKILL of a forked worker is noticed by nobody. The server catches SIGTERM,
  the merger does not. The permission to shut down, sent once, is not lost.

## 3. Runs

| Run | Instance | Distinct states | Checks |
|---|---|---|---|
| `relayer_turns` | 2 slots; data in two parts of one timeslice and one of another, an optional input, a timer on a channel of its own, a message nobody wants; one stop/start; a policy with ConsumeExisting; fair | 43,756 | one slot per timeslice, watermark bound and monotone, drops hopeless, records dispatched, stale slots pruned |
| `queue_threads` | main thread and two others, inbox of 1, three different tasks posted without limit, one reset, fair | 49,392 | debouncing, counted tasks kept; once the posts cease, posts return and due tasks are handled |
| `decongestion_ordered` | 2 slots, 2 inputs on 2 channels, timeslices 0 to 2, the last one incomplete, `consumeWhenAllOrdered`, from a first start, fair | 157,582 | types, records homogeneous, pruning, wake-ups, refinement of `Watermark`, order, progress |
| `decongestion_past_oldest` | 3 slots in 2 lanes, `consumeWhenPastOldestPossibleTimeframe`, from a first start, one stop/start, fair | 242,348 | announcements true, never ahead, propagated |
| `quota_two_streams` | 2 streams, 3 places, 4 offers of 1 or 2 units, a SIGUSR1, streams that find nothing to do, fair | 59,750 | resources accounted for, running streams keep theirs, memory goes back |
| `offers_limited` | driver, one reader with 2 places, tasks and sink; a limit of two units of two bytes, payloads below and above the request of 4, fair | 102,435 | memory limit, offers keep coming |
| `stats_one_thread` | an array of 2 commands, 3 updates, all operations, a rate and a refreshed metric, fair | 565,040 | overflow of the array, no update lost, last values published |
| `states_reported` | 2 states, reports below and above their capacity, a queue that overflows, fair | 235,551 | no state mixed with another, changes published |
| `simulation_batch` | 2 workers, 2 events of one part, crashes and failed replies, fair | 223,172 | generator joined, events in order, finished means written, refinement of `SimulationRun`, termination |
| `simulation_service` | 2 workers, 2 batches of one event in up to 2 parts, events without hits, a request to stop | 3,320,602 | chunks in sequence, events whole, batches apart |
| `queue_loses_task` | one thread beside the main one | | violation of `NoTaskLost` |
| `simulation_torn_read` | 2 events | | violation of `StoppedMeansServed` |

**Bounds.** `MaxTimeslice` bounds the announcements, `MaxStops`/`MaxResets` the
restarts, `Messages` what can arrive, each once, `Posts` the tasks that are
posted, each again and again. They are
enough for the interesting cases: there are as many timeslices and timers as
can exhaust the slots, so slots are invalidated and reused while their old
content waits for pruning; two channels can disagree about the oldest timeslice;
one stop suffices for leftovers of the previous run (slots, tasks, pruning
queue) to meet the next one; an inbox of one place makes every second post find
it full. `MaxReceived` offers are more than the array of offers has places, so
that some are added to others. `MaxUpdates` exceeds the array of commands, and
`MaxReports` the queue of reports, so both overflow; the 64 places of the code
play no other role. Two workers suffice for results to overtake each other, two
events for one to be generated while another is served and for one to complete
during a merge; parts and batches are in the second run because both at once
are too many states. Symmetry is used for the workers of a run without liveness;
slots, streams and channels are ordered or play different roles.

**Deadlock.** Relayer, decongestion and simulation runs disable the deadlock
check: after the end of stream the device is Idle, and after its outcome the
driver does nothing more. The others keep it.

**Fairness.** `FairSpec` of the relayer and `DecongestionFairSpec` assume that
what `Run()` does in every turn is done: the queue, looking at the slots of a
stream and executing what it found get weak fairness. `PrunePending` gets strong
fairness in the relayer: no turn leaves it out, but it is not possible between
the decision and the last of its actions, so that it is enabled again and again
rather than all the time. `ThreadFairness` of the queue assumes that a thread
inside `post()` keeps spinning and that the main loop keeps calling `run()`; that
the posts cease is no fairness but the premise of two properties. The
quota assumes that the loop turns (it sets a timer for the next offer to
expire), that computations end, and that time passes; the tick is strongly fair
because offers that are stored or used in between hold it up; around the device,
offers and metrics are delivered and handled, and tasks and sink make progress.
The stats and the
states assume that the loop publishes again and again and that the clock goes
on; for the states nothing is assumed of the processing of the queue, which
follows a computation and may never come. In the simulation every thread of
every process that can take a step takes one. Nothing is assumed of the
environment anywhere: messages, announcements, offers, reports and control
requests may stop at any time, and nothing has to crash or fail.

**Mutants.** Each mapped definition with a neighbour commented "Mutant" has a
variant with a plausible mistake in it; `PROJECT.json` pairs every property with
a mutant that TLC refutes it on, to show that the property can fail.

## 4. Where code and comments disagree

* **`queue_loses_task`**: `order` is sized before the tasks are marked; a task
  that another thread pushes in between is marked runnable and erased without
  being called, where the comment says that it is handled in a later iteration.
* **`simulation_torn_read`**: the condition of line 535 loads `mState` twice.
  When the generator ends between the loads neither comparison holds, and the
  server refuses a request, and stops, although events are left.

### Beyond the instances of the runs

Some properties hold under conditions that the code does not enforce. The runs
and theorems state the conditions; changing the constants shows what happens
without them.

* With two streams in `ResourceOffers` `MemoryNeverOvercommitted` fails. What a
  computation has used is registered in `DeviceState::offerConsumers`, which all
  streams share; `run_completion` (DataProcessingDevice.cxx:270) applies the
  whole list to the offers of the stream that completes, and clears it. When two
  streams have computed before either completes, the first is charged for both,
  up to what its own offers hold; the offers of the second, although used, are
  used again, and the workflow exceeds its memory limit. "Consume offers for a
  given taskId" is what ComputingQuotaEvaluator.h:43 says. TLC shows it in 14
  states with `SpecOffers` and `NumStreams = 2`, `NumOffers = 5`,
  `Payloads = {3}`, `MaxUnread = 3`, a limit of `units(4, 2)` and the rest as in
  `OffersLimited.cfg`. With one stream, the default, the limit is proved
  (section 5).
* Also with one stream the limit is exceeded by what computations create beyond
  their request, until the driver hears of it: "actual memory usage might be
  larger, because we can over allocate" (ComputingQuotaEvaluator.cxx:221-222).
  `MemoryNeverOvercommitted` says that it is exceeded by no more than that.
* `updateOffers` logs "ComputingQuotaOffer losts. This should never happen."
  when more offers are pending than there are places and none of the places was
  valid (ComputingQuotaEvaluator.cxx:280-283). `offers_limited` reaches that: the
  first place, which never expires, does so once other offers were added to it.
  Nothing is lost then, the offers left over stay pending (`stillPending`).
* With a thread pool (`Streams = {1, 2}`, `ThreadPool = TRUE`) an action may find
  another record in its slot than the one it was decided for
  (`ActionsStayBound`, which is part of the invariant without a thread pool): a
  record that was found ready is clean and no longer protected,
  `setOldestPossibleInput` takes no lock, an announcement invalidates the slot
  and `relay()` gives it to another timeslice before the action runs.
* While other threads keep posting, a post need not return: they may take every
  place of the inbox that becomes free, or the flush that the post calls may
  find more to read for ever, which "potentially stalls if the inserting tasks
  are faster to insert than we are to retrieve" (AsyncQueue.cxx:55-56). Without
  the premise `PostsCease` TLC refutes `PostReturns` in `queue_threads`.
* With two messages of timeslice 0 for the first input `DispatchInOrder` fails:
  `consumeWhenAllOrdered` takes a header of timeslice 0 for the first message of
  all and sets `nextTimeslice` back, so that a second record of timeslice 0 is
  released after that of timeslice 1.
* With timers `SlotHomogeneous` and `PruneOnlyStale` fail: `timeDrivenCreation`
  binds an unbound slot with `associate()` and does not empty it. If
  `setOldestPossibleInput` has just invalidated the slot, its old data becomes
  part of the timer's record, and the pruning still queued later empties the new
  one (`CompleteIsDispatched` allows for that). `relay()` prunes in the same
  situation and says why.
* The service learns which policy is active from the policy's first call
  (`orderedCompletionPolicyActive`, `consumeWhenPastOldestPossibleTimeframeActive`).
  An announcement before that posts no task of the policy. Under
  `consumeWhenAllOrdered` it then raises `lastTimeslice` but not `nextTimeslice`,
  and the record of the announced timeslice answers Retry for ever. Under
  `consumeWhenPastOldestPossibleTimeframe` the watermark it stands for may never
  be sent on, when records held it back. The history variable `missed` is the
  greatest watermark this has happened to: `OldestIsDispatched` and
  `AnnouncementPropagates`, checked from the flag's real initial value, are about
  the greater ones, and TLC refutes both without the conjunct `t > missed`.
* A watermark may be sent late: the task that carries it waits for the timeslice
  one channel announced, which may be far ahead of the other channels.
* With two streams the memory an earlier stream has selected is not in
  `MemoryGoesBack`: the loop tries the last free stream only, and `selectOffer`
  passes over the offers of others before it looks whether they have expired.
  An offer of timeslices alone is invalidated by `dispose` with what it holds,
  which is why the properties are about memory. The driver may offer one
  timeslice too many when the metric of the sink overtakes that of the reader.
* With two threads `EveryUpdateCounts` fails in `DataProcessingStats` (a command
  inserted between the application of the queue and its reset is dropped), the
  commands are not applied in the order of their time stamps (the computed order
  is not used), and a thread that finds the array over-full waits for ever
  (`while (cmds.size())` is the size of a `std::array`).
* In `DataProcessingStates` a pass does not always leave a state as its newest
  report says: when that report equals the state, `generation` is not updated,
  and an older, different report of the same pass is applied over it. "We need
  to update only once per invoked callback" (DataProcessingStates.cxx:48-49) and
  the flush goes on "skipping things which have and older timestamp"
  (DataProcessingStates.h:87-89) describe the intention. With the constants of
  `StatesReported.cfg` TLC reaches it in 6 states, four reports and a pass.
  Nothing is stated about the order of reports.
* A report of more than 1/8 of the buffer of the queue is refused with an
  exception (DataProcessingStates.cxx:113-117), after `pendingStates` was raised;
  it is not lowered again, so the next overflow waits for ever (122-128). The
  reports of the model are smaller.
* With a `Word` below n * (n + 1) `FinishedIsWritten` fails: the checksum of the
  events is computed in 32 bits and wraps from 65536 events on.
* In a service a control request that is published before the merger or a worker
  has subscribed is lost to it, so that an accepted batch may never finish; a
  batch of no events leaves the server in Initializing. A reply that cannot be
  sent loses its chunk and stops the server, so that the run does not end by
  itself (`RunEnds` excepts it). In a batch the server stops after the first
  answer without work; the other workers wait until the driver ends them.

Further differences between comment and code: `CompletionPolicy.h:41-42` says
that Process keeps the contents of a record, `consumeExistingInputsForTimeslice`
moves the payloads out (`DataRelayer.cxx:992`); `AsyncQueue.cxx:117` says the
highest debounce of an id is kept, the sort puts the timeslice first, so this
holds within one timeslice only (`DebounceInTimeslice`); `AsyncQueue.h:119` says
reset restores the initial state, the inbox is kept (`AsyncQueue.cxx:159-163`),
which the decongestion model includes and `NeverAhead` shows to be harmless
there; a slot that was bound by data refused during calibration-only stays bound
and empty, and under `consumeWhenPastOldestPossibleTimeframe` is retried for
ever (`heldBack` in `AnnouncementPropagates`).

## 5. What is proved

TLAPS checks all proofs of the modules `...Proofs` and of `Induction`. They hold
for every number of slots, lanes, channels, inputs, messages, streams and stops,
every completion policy, every number of posting threads and places in the
inbox, every number of offers and streams, every size of the arrays of commands
and reports, set of metrics, states and commands, every number of events, parts,
workers and batches, under the named assumptions of the modules
(`IndexAssumption`, `RelayerAssumption`, `DecongestionAssumption`,
`QueueAssumption`, `QuotaAssumption`, `DeviceAssumption`, `OffersAssumption`,
`StatsAssumption`, `StatesAssumption`, `BatchesAssumption`,
`MaxPartsAssumption`, `EventsAssumption`, `WorkersAssumption`,
`MaxEventIDAssumption`, `WordAssumption`), which TLC evaluates in the runs, and
those stated in the theorem.

| Theorem | Says | Further assumptions |
|---|---|---|
| `TypeCorrect` | `[]TypeOK` | |
| `RecordsAreHomogeneous`, `OnlyStaleIsPruned`, `TimeslicesHaveOneSlot` | `SlotHomogeneous`, `PruneOnlyStale`, `UniqueSlot` | no timers (see 4) |
| `OutputIsALowerBound`, `OutputIsMonotone` | `OutputBound`, `OutputNeverDecreases` | |
| `WakeupsAreKept`, `DropsAreHopeless` | `NoLostWakeup`, `OnlyHopelessDropped` | no thread pool (see 4); the policy waits if no input is there |
| `DeviceImplementsRelayer` | `DecongestionSpec => Spec` | |
| `DeviceMeetsContract` | the device implements `Watermark` | |
| `AnnouncementsAreTrue`, `NothingSentAhead` | `AnnouncedIsTrue`, `NeverAhead` | |
| `OrderedDispatch` | `DispatchInOrder` | the ordered policy; `OneFirst`: the first input of timeslice 0 comes in one message (see 4) |
| `RunDebounces`, `RunLosesNothingCounted` | `DebounceInTimeslice`, `NoCountedTaskLost` | |
| `QuotaInventsNothing`, `QuotaIsKept` | `NoResourceInvented`, `RunningOwnsEnough` | |
| `MemoryIsNeverOvercommitted` | `MemoryNeverOvercommitted` | one stream (see 4) |
| `OneThreadIsSafe`, `OneThreadCounts` | `OverflowIsHandled`, `EveryUpdateCounts` | one thread (see 4) |
| `StatesAreReported` | `StateWasReported` | |
| `ServerNeverAborts`, `ServerInSequence` | `NeverAborts`, `HandedOutInSequence` | `Replies`: a service's replies can be sent |
| `MergerFlushesInOrder` | `FlushedInOrder` | `Replies` |
| `EventsAreComplete`, `BatchesAreApart`, `FinishedMeansWritten` | `OnlyCompleteEvents`, `BatchesNeverMix`, `FinishedIsWritten` | `Replies`, `NonEmptyBatches`, `WordsSuffice` |
| `BatchImplementsRun` | the composed simulation implements `SimulationRun` | a batch without the filter, `WordsSuffice` |

`WordsSuffice` says that n * (n + 1) fits into the checksums' word for the parts
of an event and the events of a batch: `isDataComplete` multiplies before it
halves, and from 65536 on the 32 bit product wraps. `NonEmptyBatches` says that
the batches after the first have events: one without leaves the server in
Initializing.

### The inductive invariants

**Relayer and decongestion.** `SlotInv` joins `UniqueSlot`, `SlotHomogeneous` and
`PruneOnlyStale`: homogeneity of a freshly bound slot needs that an unbound slot
with leftovers is emptied on binding, and that a bound slot is never queued.
`WatermarkInv` adds to `OutputBound` that the input watermark is below every
channel (`InputBound`) and that the timers' channels are not ahead of the shared
counter (`TimersBehind`): without the second a timer could pull its channel, and
with it both watermarks, back. `ActionInv` adds that a slot has at most one
pending action over all streams (`OneActionPerSlot`), so that executing one does
not disturb another. `DeviceInv` adds `ServiceInv`, whose core is `TasksInv`: a
task never carries a watermark greater than the timeslice it waits for. When it
runs, the watermark of that moment has reached that timeslice, so what it
announces is bounded by the *current* watermark, whatever stops and resets
happened since it was posted; after the pruning (`PrunedBound`) that watermark
bounds everything held. This is the argument for both the refinement and
`AnnouncedIsTrue`. `AnnouncedIsTrue` itself is then preserved by every step of
the abstract contract (`ContractKeepsTruth`), so it is proved once, of
`Watermark`, and carried over.

**Order.** `OrderInv` says that the last timeslice consumed is below those of the
pending actions and these below `nextTimeslice`, that the actions of a turn get
newer from the last slot to the first, which is the order they are dispatched
in, and (`FirstComesFirst`) that nothing has been consumed while the first
message of timeslice 0 can still arrive or is in the cache. The last part is
needed because that message sets `nextTimeslice` back whenever the policy sees
it. It holds because `nextTimeslice` leaves 0 only in a scan that releases the
record of that message (`LeavesZero`) or in a task that carries a watermark
above 0, and until then the message holds the watermark at 0. It rests on
`RecordsInv`: the policy also looks at slots that are no longer bound and wait
for pruning, and must neither find a complete record in one, which would move
`nextTimeslice` on with nothing dispatched, nor the first message in two. That
invalidated records are incomplete follows from `NoLostWakeup`. `orderedScan` is
treated by induction from the last slot down: it is defined (`OrderedScan`), it
never goes back (`ScanMonotone`), what it releases is what was next
(`ScanGoesUp`), and the slots it visits are those of `readySlots`
(`ReadyIsReleased`).

**Queue.** `QueueInv` says, between the marking and the erasing, that what other
threads push lies outside the tasks that were counted (`Outside`), that every
counted task is covered by one in `order`, itself or one it coalesces with
(`CountedCovered`), and that what is called wins against all counted tasks of
its kind and timeslice (`CalledWin`). `OrderIsRight` shows the last two of
sorting and `std::unique`: of a sorted sequence, the first of every run of
coalescing tasks is kept, and is the one with the highest debounce value.

**Quota.** `QuotaInv` consists of the types, of facts about single offers
(`OffersInv`: an offer that was found expired stays so until it is handled
(`StillExpired`, which needs the bounds of `Aging`), only an expired offer that
nobody owns holds less than nothing (`Negative`), and a running stream owns
offers that satisfy it) and of the account: what is in the array and what is waiting is at most what was given.
Each operation of the evaluator has a lemma about the sum over the array:
selecting moves nothing, using takes off at most what was asked for
(`ConsumeTakes`, by induction over the places that are visited), disposal and
expiry take off what they report, and storing puts the pending offers into free
places or onto the last one (`UpdateOffers`). The expected difficulty, that a
running stream might lose an offer to expiry, is excluded by the selection: it
looks at the owner first.

**Offers.** The driver offers what it computes from metrics that are late, each
by its own delay, and that it rounds to units. `MemoryInv` is the ledger of the
workflow, in bytes. With `promised` for what is on its way, waiting or in the
array and `outstanding` for what the driver believes to be offered and not used:
what was created and not disposed of is in use, counting the metrics the driver
has not read (`UseIsKnown`); the reader reports, in all, no more than it was
offered (`ReturnsAreOffered`); and, the part that makes it inductive, *however
many* of the reader's metrics the driver has read, what is acquired in the
others is still covered by what it believes to be unused (`UseIsCovered`), as
far as a computation stayed within its request (`coveredUpTo`); what it created
beyond is in `overAllocated` from its creation to the first offer the driver
makes knowing of it. For the reader sends `acquired` before `returned`: a chunk that ends between the two
shows memory as used that is still counted as offered, never the other way
round. `WithinLimit` is the limit itself; an offer keeps it because the two
divisions of `offerResources` cost less than one unit together (`OfferFits`).
`uncharged` is what a computation has created within its request and its
completion has not taken off the offers yet; that the completion does take all
of it off (`CompletionIsCharged`) needs that the stream still owns what satisfied
its request (`RunningOwnsEnough` again) and that nobody else's consumers are in the list (`OneCharge`), which is where one stream
is needed. The sums along the lists of metrics have lemmas of their own
(`SumsTaken`, `SumsAppended`), by induction over the length.

**Metrics and states.** `OneThreadInv` says what the three counters of the
metrics queue are at every place of the thread (`CountersAt`): the reserved and
the inserted commands are as many, except while an update is under way, and
except for the overflow, where the insertion point is one past the end until the
flush resets it; for `EveryUpdateCounts` it also says that the value of a
counted metric and the queued changes sum up to what was asked for, at each of
the places between storing a command and making it count. For the states the
views are disjoint and within the buffer, a copy to the end or in place leaves
the other views' cells alone, and a pass is a fold over the queue whose prefix
invariant is: a state that has been touched in this pass stays untouched.

**Simulation.** `ServerInv` distinguishes whether an event is being handed out
(the generator is at rest, so that the stack holds this event, and the next part
follows the last one) or not (the last event is complete, and behind the last
one the generator never starts). In a batch `mState`, which may be read torn,
decides only whether a request is answered with a chunk, not which; in a service
`mState` also keeps the control thread out (`StateOwner`, `NotOvertaken`): it
resets the counters only while the main thread serves nothing, which
`ControlInv` (batches are published in order) completes. Without `Replies` TLC
finds a counterexample when batches are published at will: a failed reply lets
the server go Idle in the middle of an event, so the assumption is needed by the
argument; in the composed system the driver, which waits for all events, was not
seen to reach it. `MergeInv` adds to `FlushedInOrder` that what is buffered for an
event belongs to it.

The composed simulation needs all processes at once (`SimulationInv`). A chunk is
on its way while it is in a worker's channel, in a worker or in the merger's
channel, never in two of them (`Apart`); what is on its way, and what a merger at
work has collected, was handed out of the batch published last, and the chunks
of an event agree on how many there are (`LiveInv`). So the checksum of an event
is the sum of a set of different numbers up to n, and `Checksum` shows that it
equals that of 1 .. n only for the whole set (`CollectInv`); likewise for the
events (`CountInv`), whose number, less the one under way, is what the driver
has counted or finds in its pipe. When that is all of them nothing is on its way
and everything has been handed out (`DriverInv`): this is why a request can be
published without a look at the merger, and why the merger finds at most that
request when it listens (`InboxInv`). `RestInv` says what the merger leaves behind
at the end of a batch. `BatchImplementsRun` adds `EndInv`: the last event is
reported only after the last merge, so a merger that the driver kills on purpose
has nothing left to write.

**Induction and sums.** The library states induction with an operator as a
parameter, which the provers cannot instantiate. `Induction` states it with sets
instead (a set of numbers that contains 0 and is closed under successor contains
all; likewise for intervals, upwards and downwards, and finite sets; a function
defined by recursion over an interval exists) and proves from it what the proofs
need of `SumFunctionOnSet`: that it is defined, adding and removing an element,
union, monotonicity, renaming.

**What the attempts showed about the models.** Some definitions used CASE with
arms that could both hold, whose meaning TLA+ leaves open and TLC resolves to
the first; they are now IF chains, with the same TLC results. Sums written with
recursive operators or over sequences were restated over sets. The driver's
division of what came back rounds down, as that of the code's total, which is
never negative, and not towards zero: the model keeps only the remainder, to
which a completion may add a negative amount. The attempt to prove the memory
limit for any number of streams failed at the charge of a completion, which led
to the counterexample with two streams (section 4).

**Only model-checked.** The liveness properties, which need fairness. Every
invariant, every action property and both refinements of the passing runs are
stated by a theorem.

## 6. Plan

1. (done) TimesliceIndex and DataRelayer; Decongestion with Watermark;
   AsyncQueue; their theorems.
2. (done) ComputingQuota alone and among driver, tasks and sink.
3. (done) DataProcessingStats and DataProcessingStates; the first theorem.
4. (done) o2-sim: server, merger, workers, driver; SimulationRun as its promise;
   theorems about the server.
5. (done) Proofs about queue, quota, metrics and states, and about the composed
   simulation, about the memory limit of the workflow and about the order of
   the ordered policy.
6. A pipeline: several devices, each known only through `Watermark`, connected
   by channels that carry data and announcements in order, with `RateLimiter`.
7. The device that is first in the topology: enumerations with rewinding
   (`enumDrivenCreation`, the input proxy) and `postForwarding`; condition and
   sporadic inputs with the rest of `consumeWhenAll`.

## 7. How to run

    tlc -workers 2 -config RelayerTurns.cfg MCDataRelayer
    tlapm DecongestionProofs.tla

`PROJECT.json` names the module and the configuration of every run. None takes
more than about three minutes with two workers.

## 8. Not modelled

* `RateLimiter` and the exchange of a source with its consumers; enumeration,
  condition, sporadic and out-of-band lifetimes; early forwarding; devices that
  are first in the topology (their proxies may rewind the enumeration): see 6.
* The metrics copies of cache and index (`publishSlot`, cell status), rates, and
  `repack()` of the states, which only the test calls.
* The states with several threads; their queue has the races of the stats.
* Updates and reports that are turned down before anything changes: of unknown
  or disabled metrics and states. Reports of states beyond 1/8 of the queue's
  buffer (section 4).
* Errors of the user's code: `tryDispatchComputation` catches them and goes on
  as if the callback had returned.
* The process control of the DPL driver (fork, signals, web sockets), the FairMQ
  transport and its state machine: operating system and library.
* Of o2-sim: the physics, the content of events, the renumbering of tracks and
  hits, forwarding of kinematics, the query of the configuration, logs and the
  emergency kill. Of its errors: a control message the server cannot receive and
  an exception in its ReInit, after both of which it is Stopped
  (O2PrimaryServerDevice.cxx:683-692); a working directory the merger cannot
  enter and an empty message it receives (O2HitMerger.cxx:229-231, 345-348); a
  merger that dies by itself, and what the driver says then
  (o2sim_parallel.cxx:764-779). The signal of a crashing worker reaches the
  others through the master process; in the model all of them end in one step.
* Workflow construction, descriptor matching, configuration: pure functions
  evaluated before anything runs, or taken as their result.
* Detectors, GPU, data formats, analysis, CCDB, visualisation: numerical code,
  data layout, geometry and I/O. They are the bulk of the repository, which is
  why the models stand for a small share of its lines although they cover the
  concurrent core of the framework and of the simulation.
