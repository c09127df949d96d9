---------------------------- MODULE PrimaryServer ----------------------------
(***************************************************************************)
(* O2PrimaryServerDevice of o2-sim: the process that generates the events  *)
(* and hands their primaries out to the simulation workers, one chunk (a   *)
(* part of an event) per request.                                          *)
(*                                                                         *)
(* Its threads are the main thread (ConditionalRun, HandleRequest,         *)
(* PostRun), the generator thread, the control thread (service mode only)  *)
(* and the info thread.  They share mState, an atomic, and the counters,   *)
(* plain integers.  Every load and store of mState that matters is a step. *)
(* The state space starts where InitTask has ended: the driver starts the  *)
(* workers and the merger only after that.                                 *)
(***************************************************************************)
EXTENDS Naturals, Sequences

CONSTANTS
  Workers,      \* the simulation workers
  Batches,      \* the number of events of each batch; Batches[1] at start-up
  MaxParts,     \* bound: into how many chunks an event may be cut
  AsService,    \* mAsService
  SendMayFail   \* whether a reply may fail to be sent

ASSUME BatchesAssumption ==
  /\ Batches \in Seq(Nat) /\ Len(Batches) >= 1
  /\ AsService \in BOOLEAN /\ SendMayFail \in BOOLEAN
  /\ ~AsService => Batches[1] > 0
ASSUME MaxPartsAssumption == MaxParts \in Nat \ {0}

VARIABLES
  mState,               \* O2PrimaryServerState
  mMaxEvents, mEventCounter, mPartCounter, mNeedNewEvent,
  nparts,               \* mStack: into how many chunks the event in it is cut
  mGeneratorThread,     \* "none" when it is not joinable
  mControlThread,
  mWaitingControlInput,
  mControlChannel,      \* control messages that the server has not read
  canShutdown, mInfoThreadStopped,
  server,               \* the main thread: where it is, and its locals
  requests,             \* the workers whose request is queued
  answer,               \* what each worker finds on its channel
  batch,                \* history: which batch the counters belong to
  handedOut,            \* history: the last chunk that was handed out
  torn, sendFailed      \* history: what went wrong

counters == <<mMaxEvents, mEventCounter, mPartCounter, mNeedNewEvent, batch>>
controls == <<mControlThread, mWaitingControlInput, mControlChannel>>
info == <<canShutdown, mInfoThreadStopped>>
channels == <<requests, answer>>
history == <<handedOut, torn, sendFailed>>
serverVars == <<mState, counters, nparts, mGeneratorThread, controls, info, server,
                channels, history>>

\* What a step of the main thread leaves alone that only moves it on.
allButServer == <<mState, counters, nparts, mGeneratorThread, controls, info,
                  channels, history>>

States == {"Initializing", "ReadyToServe", "WaitingEvent", "Idle", "Stopped"}

\* A chunk of primaries, by its SubEventInfo.
Chunk == [batch : Nat, event : Nat, part : Nat, nparts : Nat, maxEvents : Nat]

NoChunk == [batch |-> 0, event |-> 0, part |-> 0, nparts |-> 0, maxEvents |-> 0]
NoAnswer == [serverstate |-> "none", payload |-> FALSE, chunk |-> NoChunk]

\* The control message that starts batch b; past the last one, it says stop.
Reconfig(b) == IF b <= Len(Batches)
                 THEN [batch |-> b, nEvents |-> Batches[b], stop |-> FALSE]
                 ELSE [batch |-> b, nEvents |-> 0, stop |-> TRUE]

mainAt == {"run", "loadControl", "joinControl", "receive", "counters", "loadReady",
           "loadWaiting", "header", "join", "wait", "serve", "refuse", "conclude", "return",
           "postrun", "ended", "aborted"}

(***************************************************************************)
(* InitTask: the first event has been generated, when one is asked for.    *)
(***************************************************************************)
ServerInit ==
  /\ mState = IF Batches[1] > 0 THEN "ReadyToServe" ELSE "Idle"
  /\ mMaxEvents = Batches[1]
  /\ mEventCounter = 0 /\ mPartCounter = 0 /\ mNeedNewEvent = TRUE
  /\ nparts \in IF Batches[1] > 0 THEN 1 .. MaxParts ELSE {0}
  /\ mGeneratorThread = "none" /\ mControlThread = "none"
  /\ mWaitingControlInput = FALSE /\ mControlChannel = <<>>
  /\ canShutdown = FALSE /\ mInfoThreadStopped = FALSE
  /\ server = [at |-> "run", worker |-> "none",
               prestate |-> "Initializing", work |-> FALSE, header |-> "Initializing",
               more |-> TRUE]
  /\ requests = {} /\ answer = [w \in Workers |-> NoAnswer]
  /\ batch = 1 /\ handedOut = NoChunk
  /\ torn = FALSE /\ sendFailed = FALSE

Goto(l) == server' = [server EXCEPT !.at = l]

(***************************************************************************)
(* ConditionalRun.  An idle server makes sure that a thread waits for      *)
(* control input before it blocks in Receive.                              *)
(***************************************************************************)
conditionalRun ==
  /\ server.at = "run"
  /\ Goto(IF mState = "Idle" THEN "loadControl" ELSE "receive")
  /\ UNCHANGED allButServer

loadControl ==
  /\ server.at = "loadControl"
  /\ Goto(IF mWaitingControlInput THEN "receive" ELSE "joinControl")
  /\ UNCHANGED allButServer

restartControl ==
  /\ server.at = "joinControl"
  /\ mControlThread \in {"none", "ended"}
  /\ mControlThread' = "start"
  /\ Goto("receive")
  /\ UNCHANGED <<mState, counters, nparts, mGeneratorThread, mWaitingControlInput,
                 mControlChannel, info, channels, history>>

receiveRequest(w) ==
  /\ server.at = "receive" /\ w \in requests
  /\ requests' = requests \ {w}
  /\ server' = [server EXCEPT !.at = "counters", !.worker = w, !.prestate = mState]
  /\ UNCHANGED <<mState, counters, nparts, mGeneratorThread, controls, info, answer,
                 handedOut, torn, sendFailed>>

\* Receive was interrupted by a signal: the loop ends, and the server asks
\* itself to stop if FairMQ has a new state for it by then.
receiveInterrupted ==
  /\ server.at = "receive"
  /\ mState' \in {mState, "Stopped"}
  /\ Goto("postrun")
  /\ UNCHANGED <<counters, nparts, mGeneratorThread, controls, info, channels, history>>

(***************************************************************************)
(* HandleRequest.  The condition of line 535 loads mState twice.           *)
(***************************************************************************)
workLeft == ~(mEventCounter >= mMaxEvents /\ mNeedNewEvent)

checkCounters ==
  /\ server.at = "counters"
  /\ server' = [server EXCEPT !.at = "loadReady", !.work = workLeft]
  /\ UNCHANGED allButServer

loadReady ==
  /\ server.at = "loadReady"
  /\ Goto(IF mState = "ReadyToServe" THEN "header" ELSE "loadWaiting")
  /\ UNCHANGED allButServer

loadWaiting ==
  /\ server.at = "loadWaiting"
  /\ server' = [server EXCEPT !.at = "header",
                              !.work = @ /\ mState = "WaitingEvent"]
  /\ torn' = (torn \/ (server.work /\ mState = "ReadyToServe"))
  /\ UNCHANGED <<mState, counters, nparts, mGeneratorThread, controls, info, channels,
                 handedOut, sendFailed>>

makeHeader ==
  /\ server.at = "header"
  /\ server' = [server EXCEPT !.header = mState,
                              !.at = CASE ~server.work -> "refuse"
                                       [] server.work /\ mNeedNewEvent -> "join"
                                       [] OTHER -> "serve"]
  /\ UNCHANGED allButServer

\* Mutant: the end of the generation is awaited, but the thread not joined.
joinGeneratorWaits ==
  /\ server.at = "join"
  /\ mGeneratorThread \in {"none", "ended"}
  /\ Goto("wait")
  /\ UNCHANGED allButServer

joinGenerator ==
  /\ server.at = "join"
  /\ mGeneratorThread \in {"none", "ended"}
  /\ mGeneratorThread' = "none"
  /\ Goto("wait")
  /\ UNCHANGED <<mState, counters, nparts, controls, info, channels, history>>

startEvent ==
  /\ server.at = "wait"
  /\ mState # "WaitingEvent"
  /\ mNeedNewEvent' = FALSE /\ mPartCounter' = 0
  /\ mEventCounter' = mEventCounter + 1
  /\ Goto("serve")
  /\ UNCHANGED <<mState, mMaxEvents, batch, nparts, mGeneratorThread, controls, info,
                 channels, history>>

\* The answer to the worker; a reply that cannot be sent ends the serving as
\* the lack of work does.
reply(payload, chunk) ==
  \/ /\ answer' = [answer EXCEPT ![server.worker] =
                     [serverstate |-> server.header, payload |-> payload, chunk |-> chunk]]
     /\ server' = [server EXCEPT !.at = "conclude", !.more = payload]
     /\ UNCHANGED sendFailed
  \/ /\ SendMayFail
     /\ server' = [server EXCEPT !.at = "conclude", !.more = FALSE]
     /\ sendFailed' = TRUE
     /\ UNCHANGED answer

\* Mutant: the part counter is compared before it is increased.
serveChunkOneMore ==
  LET last == mPartCounter = nparts
      next == last /\ mEventCounter < mMaxEvents
      chunk == [batch |-> batch, event |-> mEventCounter, part |-> mPartCounter + 1,
                nparts |-> nparts, maxEvents |-> mMaxEvents]
  IN /\ server.at = "serve"
     /\ mPartCounter' = mPartCounter + 1
     /\ mNeedNewEvent' = last
     /\ mGeneratorThread' = IF next THEN "start" ELSE mGeneratorThread
     /\ handedOut' = chunk
     /\ IF next /\ mGeneratorThread # "none"
          THEN Goto("aborted") /\ UNCHANGED <<answer, sendFailed>>
          ELSE reply(TRUE, chunk)
     /\ UNCHANGED <<mState, mMaxEvents, mEventCounter, batch, nparts, controls, info,
                    requests, torn>>

\* A chunk is built and sent; after the last one of an event the generator
\* thread starts on the next.  Giving a joinable std::thread a new value ends
\* the process.
serveChunk ==
  LET last == mPartCounter + 1 = nparts
      next == last /\ mEventCounter < mMaxEvents
      chunk == [batch |-> batch, event |-> mEventCounter, part |-> mPartCounter + 1,
                nparts |-> nparts, maxEvents |-> mMaxEvents]
  IN /\ server.at = "serve"
     /\ mPartCounter' = mPartCounter + 1
     /\ mNeedNewEvent' = last
     /\ mGeneratorThread' = IF next THEN "start" ELSE mGeneratorThread
     /\ handedOut' = chunk
     /\ IF next /\ mGeneratorThread # "none"
          THEN Goto("aborted") /\ UNCHANGED <<answer, sendFailed>>
          ELSE reply(TRUE, chunk)
     /\ UNCHANGED <<mState, mMaxEvents, mEventCounter, batch, nparts, controls, info,
                    requests, torn>>

refuse ==
  /\ server.at = "refuse"
  /\ reply(FALSE, NoChunk)
  /\ UNCHANGED <<mState, counters, nparts, mGeneratorThread, controls, info, requests,
                 handedOut, torn>>

\* The end of ConditionalRun: without more work the server goes idle, as a
\* service, or stops.
conclude ==
  /\ server.at = "conclude"
  /\ mState' = CASE server.more -> mState
                 [] ~server.more /\ ~AsService -> "Stopped"
                 [] ~server.more /\ AsService ->
                      IF server.prestate \in {"ReadyToServe", "WaitingEvent"}
                        THEN "Idle" ELSE mState
  /\ Goto("return")
  /\ UNCHANGED <<counters, nparts, mGeneratorThread, controls, info, channels, history>>

return ==
  /\ server.at = "return"
  /\ Goto(IF mState # "Stopped" THEN "run" ELSE "postrun")
  /\ UNCHANGED allButServer

postRun ==
  /\ server.at = "postrun"
  /\ mInfoThreadStopped
  /\ Goto("ended")
  /\ UNCHANGED allButServer

(***************************************************************************)
(* generateEvent in the generator thread.                                  *)
(***************************************************************************)
startGeneration ==
  /\ mGeneratorThread = "start"
  /\ mGeneratorThread' = "generate"
  /\ mState' = "WaitingEvent"
  /\ UNCHANGED <<counters, nparts, controls, info, server, channels, history>>

endGeneration ==
  /\ mGeneratorThread = "generate"
  /\ mGeneratorThread' = "ended"
  /\ nparts' \in 1 .. MaxParts
  /\ mState' = "ReadyToServe"
  /\ UNCHANGED <<counters, controls, info, server, channels, history>>

(***************************************************************************)
(* waitForControlInput, ReInit and initGenerator in the control thread.    *)
(***************************************************************************)
controlStart ==
  /\ mControlThread = "start"
  /\ mWaitingControlInput' = TRUE
  /\ mControlThread' = "check"
  /\ UNCHANGED <<mState, counters, nparts, mGeneratorThread, mControlChannel, info,
                 server, channels, history>>

controlCheck ==
  /\ mControlThread = "check"
  /\ mControlThread' = IF mState = "Idle" THEN "receive" ELSE "leave"
  /\ UNCHANGED <<mState, counters, nparts, mGeneratorThread, mWaitingControlInput,
                 mControlChannel, info, server, channels, history>>

controlReceive ==
  /\ mControlThread = "receive"
  /\ mControlChannel # <<>>
  /\ mState' = "Initializing"
  /\ mControlThread' = "reinit"
  /\ UNCHANGED <<counters, nparts, mGeneratorThread, mWaitingControlInput,
                 mControlChannel, info, server, channels, history>>

reInit ==
  LET reconfig == Head(mControlChannel)
  IN /\ mControlThread = "reinit"
     /\ mControlChannel' = Tail(mControlChannel)
     /\ IF reconfig.stop
          THEN /\ mState' = "Stopped"
               /\ mControlThread' = "leave"
               /\ UNCHANGED counters
          ELSE /\ mMaxEvents' = reconfig.nEvents
               /\ mEventCounter' = 0 /\ mPartCounter' = 0 /\ mNeedNewEvent' = TRUE
               /\ batch' = reconfig.batch
               /\ mControlThread' = "join"
               /\ UNCHANGED mState
     /\ UNCHANGED <<nparts, mGeneratorThread, mWaitingControlInput, info, server,
                    channels, history>>

initGenerator ==
  /\ mControlThread = "join"
  /\ mGeneratorThread \in {"none", "ended"}
  /\ mGeneratorThread' = "none"
  /\ IF mMaxEvents > 0
       THEN mState' = "WaitingEvent" /\ mControlThread' = "generate"
       ELSE mControlThread' = "leave" /\ UNCHANGED mState
  /\ UNCHANGED <<counters, nparts, mWaitingControlInput, mControlChannel, info, server,
                 channels, history>>

controlGenerate ==
  /\ mControlThread = "generate"
  /\ nparts' \in 1 .. MaxParts
  /\ mState' = "ReadyToServe"
  /\ mControlThread' = "leave"
  /\ UNCHANGED <<counters, mGeneratorThread, mWaitingControlInput, mControlChannel,
                 info, server, channels, history>>

controlLeave ==
  /\ mControlThread = "leave"
  /\ mWaitingControlInput' = FALSE
  /\ mControlThread' = "ended"
  /\ UNCHANGED <<mState, counters, nparts, mGeneratorThread, mControlChannel, info,
                 server, channels, history>>

(***************************************************************************)
(* The info thread serves until the server has stopped and the merger has  *)
(* allowed the shutdown.                                                   *)
(***************************************************************************)
allowShutdown ==
  /\ ~mInfoThreadStopped
  /\ canShutdown' = TRUE
  /\ UNCHANGED <<mState, counters, nparts, mGeneratorThread, controls,
                 mInfoThreadStopped, server, channels, history>>

infoThreadStops ==
  /\ mState = "Stopped" /\ canShutdown /\ ~mInfoThreadStopped
  /\ mInfoThreadStopped' = TRUE
  /\ UNCHANGED <<mState, counters, nparts, mGeneratorThread, controls, canShutdown,
                 server, channels, history>>

(***************************************************************************)
(* The threads.                                                            *)
(***************************************************************************)
mainThread ==
  \/ conditionalRun \/ loadControl \/ restartControl
  \/ \E w \in Workers : receiveRequest(w)
  \/ checkCounters \/ loadReady \/ loadWaiting \/ makeHeader
  \/ joinGenerator \/ startEvent \/ serveChunk \/ refuse
  \/ conclude \/ return \/ postRun

generatorThread == startGeneration \/ endGeneration

controlThread ==
  controlStart \/ controlCheck \/ controlReceive \/ reInit \/ initGenerator
    \/ controlGenerate \/ controlLeave

(***************************************************************************)
(* Properties.                                                             *)
(***************************************************************************)

\* The chunks are handed out one after the other, part by part and event by
\* event, none twice and none skipped, and every part of an event agrees on how
\* many there are: HandleRequest against generateEvent and ReInit, which change
\* the stack and the counters in other threads.
Follows(c, d) ==
  \/ d.batch > c.batch /\ d.event = 1 /\ d.part = 1
  \/ d.batch = c.batch /\ d.event = c.event /\ c.part < c.nparts
       /\ d.part = c.part + 1 /\ d.nparts = c.nparts
  \/ d.batch = c.batch /\ d.event = c.event + 1 /\ c.part = c.nparts /\ d.part = 1

HandedOutInSequence ==
  [][handedOut' # handedOut => /\ Follows(handedOut, handedOut')
                               /\ handedOut'.part <= handedOut'.nparts
                               /\ handedOut'.event <= handedOut'.maxEvents]_serverVars

\* The generator has been joined before a chunk is cut from the stack that it
\* fills, and so before it starts on the next event: giving a joinable
\* std::thread a new value ends the process.
NeverAborts ==
  /\ server.at # "aborted"
  /\ server.at = "serve" => mGeneratorThread = "none"
=============================================================================
