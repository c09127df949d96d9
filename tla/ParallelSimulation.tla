------------------------- MODULE ParallelSimulation -------------------------
(***************************************************************************)
(* o2-sim: the driver process (o2sim_parallel.cxx) with the primary server,*)
(* the workers (O2SimDevice, O2SimDeviceRunner) and the hit merger as its  *)
(* children.  A worker asks the server for a chunk, simulates it and sends *)
(* the result to the merger; the merger reports complete events to the     *)
(* driver through a pipe; the driver ends the run when all have been       *)
(* reported, or, as a service, takes the next batch and publishes it.      *)
(***************************************************************************)
EXTENDS PrimaryServer, HitMerger

CONSTANTS
  WorkersMayCrash,  \* whether a worker may die of an error signal
  Stop              \* whether the user of a service asks it to stop at the end

ASSUME EventsAssumption == \A b \in 1 .. Len(Batches) : Batches[b] <= MaxEventID
ASSUME WorkersAssumption == "merger" \notin Workers

VARIABLES
  worker,       \* where each worker is: [Workers -> ...]
  chunk,        \* the chunk a worker has been given
  subscribed,   \* who listens to the control channel besides the server
  inbox,        \* the control messages they have not read
  gAskedEvents, gFinishedEvents,
  published,    \* how many batches have been started
  shutdown_initiated, errored,
  driver        \* "running", or the outcome: "ok", "failed"

workerVars == <<worker, chunk>>
pubsub == <<subscribed, inbox>>
driverVars == <<gAskedEvents, gFinishedEvents, published, shutdown_initiated, errored, driver>>
vars == <<serverVars, mergerVars, workerVars, pubsub, driverVars>>

Listeners == Workers \union {"merger"}

Init ==
  /\ ServerInit
  /\ MergerInit(Batches[1])
  /\ worker = [w \in Workers |-> "ask"] /\ chunk = [w \in Workers |-> NoChunk]
  /\ subscribed = {} /\ inbox = [l \in Listeners |-> <<>>]
  /\ gAskedEvents = Batches[1] /\ gFinishedEvents = 0
  /\ published = 1
  /\ shutdown_initiated = FALSE /\ errored = FALSE
  /\ driver = "running"

\* The driver terminates its children by a signal to each process group.
signalled == shutdown_initiated \/ errored

(***************************************************************************)
(* The workers: O2SimDevice::Kernel in the loop of runSim.                 *)
(***************************************************************************)
WorkerGoto(w, l) == worker' = [worker EXCEPT ![w] = l]

\* The request; it cannot be sent once the server process has gone.
askForWork(w) ==
  /\ worker[w] = "ask"
  /\ IF server.at \in {"ended", "aborted"}
       THEN WorkerGoto(w, "quit") /\ UNCHANGED requests
       ELSE WorkerGoto(w, "wait") /\ requests' = requests \union {w}
  /\ UNCHANGED <<mState, counters, nparts, mGeneratorThread, controls, info, server,
                 answer, history, mergerVars, chunk, pubsub, driverVars>>

\* Without payload the state of the server decides: try again, or quit.
getAnswer(w) ==
  /\ worker[w] = "wait"
  /\ answer[w] # NoAnswer
  /\ answer' = [answer EXCEPT ![w] = NoAnswer]
  /\ chunk' = [chunk EXCEPT ![w] = answer[w].chunk]
  /\ WorkerGoto(w, CASE answer[w].payload -> "process"
                     [] ~answer[w].payload ->
                          IF answer[w].serverstate \in {"Initializing", "WaitingEvent"}
                            THEN "ask" ELSE "quit")
  /\ UNCHANGED <<mState, counters, nparts, mGeneratorThread, controls, info, server,
                 requests, history, mergerVars, pubsub, driverVars>>

\* ProcessEvent, at whose end O2MCApplication::SendData sends everything.
processChunk(w) ==
  /\ worker[w] = "process"
  /\ simdata' = simdata \union {chunk[w]}
  /\ chunk' = [chunk EXCEPT ![w] = NoChunk]
  /\ WorkerGoto(w, "ask")
  /\ UNCHANGED <<serverVars, checksums, mSubEventInfoBuffer, mFlushableEvents,
                 mNextFlushID, mNExpectedEvents, ioThread, output, mPipeToDriver,
                 merger, initAcknowledged, pubsub, driverVars>>

\* The kernel has returned false.  As a service the worker listens, from the
\* first time on without interruption, for the next batch.
leaveKernel(w) ==
  /\ worker[w] = "quit"
  /\ IF AsService
       THEN WorkerGoto(w, "listen") /\ subscribed' = subscribed \union {w}
       ELSE WorkerGoto(w, "exited") /\ UNCHANGED subscribed
  /\ UNCHANGED <<serverVars, mergerVars, chunk, inbox, driverVars>>

workerControlInput(w) ==
  /\ worker[w] = "listen"
  /\ inbox[w] # <<>>
  /\ inbox' = [inbox EXCEPT ![w] = Tail(@)]
  /\ WorkerGoto(w, IF Head(inbox[w]).stop THEN "exited" ELSE "ask")
  /\ UNCHANGED <<serverVars, mergerVars, chunk, subscribed, driverVars>>

\* A fatal signal while a chunk is simulated: the handler brings down the whole
\* group of workers with an error code.
crash(w) ==
  /\ WorkersMayCrash /\ ~signalled
  /\ worker[w] = "process"
  /\ worker' = [v \in Workers |-> "crashed"]
  /\ UNCHANGED <<serverVars, mergerVars, chunk, pubsub, driverVars>>

workerStep(w) ==
  /\ ~signalled
  /\ askForWork(w) \/ getAnswer(w) \/ processChunk(w) \/ leaveKernel(w)
       \/ workerControlInput(w)

(***************************************************************************)
(* The server and the merger as processes among the others.                *)
(***************************************************************************)
others == <<workerVars, pubsub, driverVars>>

serverMain == mainThread /\ UNCHANGED <<mergerVars, others>>
serverGenerator ==
  generatorThread /\ server.at # "ended" /\ UNCHANGED <<mergerVars, others>>
serverControl ==
  controlThread /\ server.at # "ended" /\ UNCHANGED <<mergerVars, others>>
serverInfo ==
  /\ (initAcknowledged /\ ~canShutdown /\ allowShutdown) \/ infoThreadStops
  /\ UNCHANGED <<mergerVars, others>>
serverTerminated == signalled /\ receiveInterrupted /\ UNCHANGED <<mergerVars, others>>

mergerAlive == merger.at \notin {"stopped", "killed"}

\* waitForControlInput: the channel is made, and subscribed, anew every time.
mergerSubscribes ==
  /\ merger.at = "await"
  /\ MergerGoto("listen")
  /\ subscribed' = subscribed \union {"merger"}
  /\ UNCHANGED <<collected, ioThread, mPipeToDriver, initAcknowledged, inbox>>

mergerControlInput ==
  /\ inbox["merger"] # <<>>
  /\ mergerReInit(Head(inbox["merger"]))
  /\ subscribed' = subscribed \ {"merger"}
  /\ inbox' = [inbox EXCEPT !["merger"] = <<>>]

mergerStep ==
  /\ mergerAlive /\ ~signalled
  /\ (mergerMain(AsService) /\ UNCHANGED pubsub) \/ mergerSubscribes \/ mergerControlInput
  /\ UNCHANGED <<serverVars, workerVars, driverVars>>

mergerIO ==
  /\ mergerAlive
  /\ mergerIOThread
  /\ UNCHANGED <<serverVars, others>>

mergerKilled ==
  /\ signalled /\ mergerAlive
  /\ MergerGoto("killed")
  /\ UNCHANGED <<collected, ioThread, mPipeToDriver, initAcknowledged, serverVars,
                 others>>

(***************************************************************************)
(* The driver.                                                             *)
(***************************************************************************)
driverRest == <<serverVars, workerVars>>

\* finishCallback of the thread that monitors the merger's pipe.
eventFinished ==
  /\ driver = "running"
  /\ mPipeToDriver # <<>>
  /\ mPipeToDriver' = Tail(mPipeToDriver)
  /\ gFinishedEvents' = gFinishedEvents + 1
  /\ shutdown_initiated' = (shutdown_initiated \/ (gAskedEvents = gFinishedEvents' /\ ~AsService))
  /\ UNCHANGED <<driverRest, collected, ioThread, merger, initAcknowledged, pubsub,
                 gAskedEvents, published, errored, driver>>

\* Mutant: a request is always accepted.
isBusyNever == FALSE

isBusy == gFinishedEvents # gAskedEvents

\* The control thread of a service: the request for the next batch, or to
\* stop, is refused while the service is busy, else published to whoever
\* listens.
controlRequest ==
  LET message == Reconfig(published + 1)
  IN /\ AsService /\ driver = "running" /\ ~isBusy
     /\ published < Len(Batches) \/ (Stop /\ published = Len(Batches))
     /\ published' = published + 1
     /\ gAskedEvents' = message.nEvents
     /\ gFinishedEvents' = 0
     /\ mControlChannel' = Append(mControlChannel, message)
     /\ inbox' = [l \in Listeners |-> IF l \in subscribed THEN Append(inbox[l], message)
                                                           ELSE inbox[l]]
     /\ UNCHANGED <<mState, counters, nparts, mGeneratorThread, mControlThread,
                    mWaitingControlInput, info, server, channels, history, mergerVars,
                    workerVars, subscribed, shutdown_initiated, errored, driver>>

\* wait() returned a child that ended with an error before the shutdown.
childFailed ==
  /\ driver = "running" /\ ~signalled
  /\ server.at = "aborted" \/ \E w \in Workers : worker[w] = "crashed"
  /\ errored' = TRUE
  /\ UNCHANGED <<driverRest, mergerVars, pubsub, gAskedEvents, gFinishedEvents,
                 published, shutdown_initiated, driver>>

\* wait() returned the merger: the rest is shut down and the run is over.
mergerReturned ==
  /\ driver = "running" /\ ~mergerAlive
  /\ driver' = IF errored THEN "failed" ELSE "ok"
  /\ shutdown_initiated' = (shutdown_initiated \/ ~errored)
  /\ UNCHANGED <<driverRest, mergerVars, pubsub, gAskedEvents, gFinishedEvents,
                 published, errored>>

driverStep == eventFinished \/ childFailed \/ mergerReturned

\* The model ends with the outcome: the driver then waits for the processes that
\* are left and kills those that do not go.
Next ==
  /\ driver = "running"
  /\ \/ serverMain \/ serverGenerator \/ serverControl \/ serverInfo \/ serverTerminated
     \/ \E w \in Workers : workerStep(w) \/ crash(w)
     \/ mergerStep \/ mergerIO \/ mergerKilled
     \/ driverStep \/ controlRequest

Spec == Init /\ [][Next]_vars

\* Every thread of every process that can take a step takes one; the user of a
\* service owes no request, and nothing has to crash.
Fairness ==
  /\ WF_vars(serverMain) /\ WF_vars(serverGenerator) /\ WF_vars(serverControl)
  /\ WF_vars(serverInfo)
  /\ \A w \in Workers : WF_vars(workerStep(w))
  /\ WF_vars(mergerStep) /\ WF_vars(mergerIO) /\ WF_vars(mergerKilled)
  /\ WF_vars(driverStep)

FairSpec == Spec /\ Fairness

(***************************************************************************)
(* Properties.                                                             *)
(***************************************************************************)
\* What o2-sim promises for one batch, whoever does the work.
Run == INSTANCE SimulationRun WITH NEvents <- Batches[1], written <- mOutFile,
                                   outcome <- driver
RunSpec == Run!Spec

\* The run comes to an end, unless the server took a torn read for the end of
\* the work or could not send a reply.
RunEnds == <>(driver # "running" \/ torn \/ sendFailed)

\* The merger never holds data of two batches: a new batch is accepted only when
\* the driver has counted all events of the one before.
BatchesNeverMix ==
  LET held == UNION ({mSubEventInfoBuffer[e] : e \in EventIDs}
                       \union {mOutTree[i] : i \in 1 .. Len(mOutTree)})
  IN \A c, d \in held : c.batch = d.batch

\* A server that stops on its own has handed out every chunk of every event.
StoppedMeansServed ==
  mState = "Stopped" /\ ~signalled /\ ~sendFailed => ~workLeft

=============================================================================
