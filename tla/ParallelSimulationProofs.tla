----------------------- MODULE ParallelSimulationProofs -----------------------
(***************************************************************************)
(* o2-sim for any number of workers, events, parts and batches.  The       *)
(* server hands the parts out in sequence and never cuts one from a stack  *)
(* that is being filled, in a batch (whether or not replies can be sent)   *)
(* and as a service, where a control thread changes its counters.  The     *)
(* merger flushes the events in their order, each with all its parts and   *)
(* none of another batch, and a batch implements SimulationRun.            *)
(***************************************************************************)
EXTENDS ParallelSimulation, Induction

(***************************************************************************)
(* The server.  Its inductive invariant, part by part.                     *)
(***************************************************************************)
ServerLocals ==
  [at : mainAt \ {"aborted"}, worker : Workers \union {"none"},
   prestate : States, work : BOOLEAN, header : States, more : BOOLEAN]

controlAt == {"none", "start", "check", "receive", "reinit", "join", "generate", "leave",
              "ended"}

ServerTypes ==
  /\ mMaxEvents \in Nat /\ mEventCounter \in Nat /\ mPartCounter \in Nat
  /\ nparts \in Nat /\ batch \in Nat
  /\ mNeedNewEvent \in BOOLEAN
  /\ mState \in States
  /\ mGeneratorThread \in {"none", "start", "generate", "ended"}
  /\ mControlThread \in controlAt
  /\ server \in ServerLocals
  /\ handedOut \in Chunk

\* The main thread has not left its loop.
Looping == server.at \notin {"postrun", "ended"}

Generating == mGeneratorThread \in {"start", "generate"}

\* The event that was last begun has been handed out completely, or no event of
\* this batch was begun.
BetweenEvents ==
  /\ \/ /\ handedOut.batch = batch /\ handedOut.event = mEventCounter
        /\ handedOut.part = handedOut.nparts
     \/ handedOut.batch < batch /\ mEventCounter = 0
  /\ Generating => mEventCounter < mMaxEvents

\* It has not: the generator is at rest, so that the stack holds this event.
InsideEvent ==
  /\ mGeneratorThread = "none"
  /\ mPartCounter < nparts /\ mEventCounter \in 1 .. mMaxEvents
  /\ IF mPartCounter = 0
       THEN \/ /\ handedOut.batch = batch /\ handedOut.event = mEventCounter - 1
               /\ handedOut.part = handedOut.nparts
            \/ handedOut.batch < batch /\ mEventCounter = 1
       ELSE /\ handedOut.batch = batch /\ handedOut.event = mEventCounter
            /\ handedOut.part = mPartCounter /\ handedOut.nparts = nparts

\* What has been handed out against the counters.
Sequence ==
  /\ handedOut.batch <= batch
  /\ mNeedNewEvent => BetweenEvents
  /\ ~mNeedNewEvent => InsideEvent

Working == mState \in {"ReadyToServe", "WaitingEvent"}

\* What the main thread has established where it is.
AtServer ==
  /\ server.at = "serve" => ~mNeedNewEvent
  /\ server.at \in {"join", "wait"} => mNeedNewEvent /\ mEventCounter < mMaxEvents
  /\ server.at = "wait" => mGeneratorThread = "none"
  /\ server.at = "header" /\ server.work /\ mNeedNewEvent => mEventCounter < mMaxEvents
  /\ server.at \in {"loadReady", "loadWaiting"} /\ server.work /\ mNeedNewEvent /\ Working
       => mEventCounter < mMaxEvents

\* Nothing of a service happens.
BatchMode ==
  /\ mControlThread = "none" /\ server.at \notin {"loadControl", "joinControl"}
  /\ mState \in {"ReadyToServe", "WaitingEvent", "Stopped"}
  /\ nparts > 0

InRequest == server.at \in {"counters", "loadReady", "loadWaiting", "header", "join", "wait",
                            "serve", "refuse", "conclude"}

\* The state in which a request was received; with these two the end of the
\* request may make the server idle.
Began == server.prestate \in {"ReadyToServe", "WaitingEvent"}

Serving == server.at \in {"join", "wait", "serve"} \/ (server.at = "header" /\ server.work)

Refusing ==
  \/ server.at \in {"loadReady", "loadWaiting", "header"} /\ ~server.work
  \/ server.at = "refuse"
  \/ server.at = "conclude" /\ ~server.more

\* Which thread mState belongs to: the control thread reconfigures only an idle
\* server, and an idle server has no generator at work.
StateOwner ==
  /\ mState = "Idle" => ~Generating /\ mControlThread \notin {"reinit", "join", "generate"}
  /\ mState = "WaitingEvent" => mGeneratorThread = "generate" \/ mControlThread = "generate"
  /\ mGeneratorThread = "start" => mState = "ReadyToServe"
  /\ mGeneratorThread = "generate" => mState = "WaitingEvent"
  /\ mControlThread = "receive" => mState = "Idle"
  /\ mControlThread \in {"reinit", "join"} => mState = "Initializing"
  /\ mControlThread = "generate" =>
       mState = "WaitingEvent" /\ mMaxEvents > 0 /\ mGeneratorThread = "none"
  /\ mControlThread \in {"join", "generate"} => mNeedNewEvent /\ mEventCounter = 0
  /\ nparts = 0 => mState # "ReadyToServe" /\ mGeneratorThread # "generate"

\* A request that the main thread serves, or will answer by going idle, is not
\* overtaken by a reconfiguration.
NotOvertaken ==
  /\ InRequest /\ Began =>
       mState # "Idle" /\ mControlThread \notin {"receive", "reinit", "join"}
  /\ Refusing /\ Began => ~Generating /\ mControlThread # "generate"
  /\ server.at = "loadWaiting" => mGeneratorThread # "start"
  /\ Serving => Working
  /\ server.at = "serve" => mState = "ReadyToServe"

ServiceMode == StateOwner /\ NotOvertaken

ServerInv ==
  /\ ServerTypes
  /\ Looping => /\ Sequence /\ AtServer
                /\ AsService => ServiceMode
                /\ ~AsService => BatchMode

\* The replies of a service can be sent.
Replies == AsService => ~SendMayFail

\* What the invariant depends on.
coreVars == <<mState, counters, nparts, mGeneratorThread, mControlThread, server, handedOut>>

\* The invariant holds where InitTask has ended.
LEMMA ServerInitHolds ==
  ASSUME ServerInit
  PROVE  ServerInv
<1>1. Batches[1] \in Nat /\ (~AsService => Batches[1] > 0) /\ AsService \in BOOLEAN
  BY BatchesAssumption
<1>2. nparts \in Nat /\ (nparts = 0 <=> Batches[1] = 0)
  BY <1>1, MaxPartsAssumption DEF ServerInit
<1>3. /\ server.at = "run" /\ server \in ServerLocals
      /\ handedOut \in Chunk /\ handedOut.batch = 0
  BY DEF ServerInit, ServerLocals, mainAt, States, NoChunk, Chunk
<1>4. ServerTypes
  BY <1>1, <1>2, <1>3 DEF ServerInit, ServerTypes, controlAt, States
<1>5. Sequence /\ AtServer
  BY <1>1, <1>3, <1>4 DEF ServerInit, ServerTypes, Sequence, AtServer, BetweenEvents, Generating
<1>6. ServiceMode
  BY <1>1, <1>2, <1>3 DEF ServerInit, ServiceMode, StateOwner, NotOvertaken, Generating, InRequest,
                    Refusing, Serving, Began
<1>7. ~AsService => BatchMode
  BY <1>1, <1>2, <1>3 DEF ServerInit, BatchMode
<1> QED
  BY <1>4, <1>5, <1>6, <1>7 DEF ServerInv

\* A step that touches none of it.
LEMMA ServerFrame ==
  ASSUME ServerInv, UNCHANGED coreVars
  PROVE  ServerInv'
BY DEF ServerInv, coreVars, counters, ServerTypes, Looping, Sequence, BetweenEvents, InsideEvent,
       Generating, AtServer, Working, BatchMode, ServiceMode, StateOwner, NotOvertaken, InRequest,
       Began, Serving, Refusing

\* A step of the main thread that only moves it on.
LEMMA MoveKeeps ==
  ASSUME ServerInv, Looping, UNCHANGED allButServer, server' \in ServerLocals,
         Looping' => /\ AtServer'
                     /\ AsService => NotOvertaken'
                     /\ ~AsService => server'.at \notin {"loadControl", "joinControl"}
  PROVE  ServerInv'
<1>1. ServerTypes'
  BY DEF ServerInv, ServerTypes, allButServer, counters, controls, history
<1>2. Sequence' /\ (AsService => StateOwner')
  BY DEF ServerInv, Sequence, BetweenEvents, InsideEvent, Generating, ServiceMode, StateOwner,
         allButServer, counters, controls, history
<1>3. ~AsService /\ Looping' => BatchMode'
  BY DEF ServerInv, BatchMode, allButServer, counters, controls, history
<1> QED
  BY <1>1, <1>2, <1>3 DEF ServerInv, ServiceMode

\* Every step of ConditionalRun, HandleRequest and PostRun keeps it.
LEMMA MainKeeps ==
  ASSUME Replies, ServerInv, mainThread
  PROVE  ServerInv'
<1> USE DEF States, mainAt
<1>0. AsService \in BOOLEAN /\ SendMayFail \in BOOLEAN
  BY BatchesAssumption
<1>1. CASE conditionalRun
  <2>1. server'.at \in {"loadControl", "receive"} /\ server' \in ServerLocals
    BY <1>1 DEF conditionalRun, Goto, ServerInv, ServerTypes, ServerLocals
  <2>2. Looping /\ (~AsService => server'.at = "receive") /\ UNCHANGED allButServer
    BY <1>1 DEF conditionalRun, Goto, ServerInv, ServerTypes, ServerLocals, Looping, BatchMode
  <2>3. AtServer' /\ NotOvertaken'
    BY <2>1 DEF AtServer, NotOvertaken, InRequest, Refusing, Serving
  <2> QED
    BY <2>1, <2>2, <2>3, MoveKeeps
<1>15. CASE loadControl
  <2>1. server'.at \in {"joinControl", "receive"} /\ server' \in ServerLocals
    BY <1>15 DEF loadControl, Goto, ServerInv, ServerTypes, ServerLocals
  <2>2. Looping /\ AsService /\ UNCHANGED allButServer
    BY <1>15 DEF loadControl, ServerInv, Looping, BatchMode
  <2>3. AtServer' /\ NotOvertaken'
    BY <2>1 DEF AtServer, NotOvertaken, InRequest, Refusing, Serving
  <2> QED
    BY <2>1, <2>2, <2>3, MoveKeeps
<1>2. CASE restartControl
  <2>1. server'.at = "receive" /\ server' \in ServerLocals /\ server.at = "joinControl"
    BY <1>2 DEF restartControl, Goto, ServerInv, ServerTypes, ServerLocals
  <2>2. ServerTypes'
    BY <1>2, <2>1 DEF restartControl, ServerInv, ServerTypes, counters, history, controlAt
  <2>3. AtServer' /\ NotOvertaken'
    BY <2>1 DEF AtServer, NotOvertaken, InRequest, Refusing, Serving
  <2>4. Looping /\ Sequence' /\ AsService
    BY <1>2, <2>1 DEF restartControl, ServerInv, Looping, Sequence, BetweenEvents, InsideEvent,
                      Generating, BatchMode, counters, history
  <2>5. StateOwner'
    BY <1>2, <2>4 DEF restartControl, ServerInv, ServiceMode, StateOwner, Generating, counters
  <2> QED
    BY <2>2, <2>3, <2>4, <2>5 DEF ServerInv, ServiceMode
<1>3. ASSUME NEW w \in Workers, receiveRequest(w) PROVE ServerInv'
  <2>1. /\ server.at = "receive" /\ server'.at = "counters" /\ server' \in ServerLocals
        /\ server'.prestate = mState
    BY <1>3 DEF receiveRequest, ServerInv, ServerTypes, ServerLocals
  <2>2. UNCHANGED <<mState, counters, nparts, mGeneratorThread, controls, handedOut>>
    BY <1>3 DEF receiveRequest
  <2>3. ServerTypes' /\ Looping
    BY <2>1, <2>2 DEF ServerInv, ServerTypes, counters, controls, Looping
  <2>4. AtServer' /\ (AsService => NotOvertaken')
    BY <2>1, <2>2, <2>3 DEF ServerInv, AtServer, ServiceMode, StateOwner, NotOvertaken, InRequest,
                            Refusing, Serving, Began, controls
  <2>5. Sequence' /\ (AsService => StateOwner') /\ (~AsService => BatchMode')
    BY <2>1, <2>2, <2>3 DEF ServerInv, Sequence, BetweenEvents, InsideEvent, Generating,
                            ServiceMode, StateOwner, BatchMode, counters, controls
  <2> QED
    BY <2>3, <2>4, <2>5 DEF ServerInv, ServiceMode
<1>4. CASE checkCounters
  <2>1. workLeft \in BOOLEAN
    BY DEF workLeft
  <2>2. /\ server.at = "counters" /\ server'.at = "loadReady" /\ server'.work = workLeft
        /\ server'.prestate = server.prestate /\ server' \in ServerLocals
        /\ UNCHANGED allButServer
    BY <1>4, <2>1 DEF checkCounters, ServerInv, ServerTypes, ServerLocals
  <2>3. Looping /\ Sequence /\ ServerTypes
    BY <2>2 DEF ServerInv, Looping
  <2>4. /\ workLeft /\ mNeedNewEvent => mEventCounter < mMaxEvents
        /\ ~workLeft => mNeedNewEvent /\ mEventCounter >= mMaxEvents
    BY <2>3 DEF workLeft, ServerTypes
  <2>5. ~workLeft => ~Generating /\ (AsService => mControlThread # "generate")
    BY <2>2, <2>3, <2>4 DEF ServerInv, ServerTypes, ServiceMode, StateOwner, Sequence,
                            BetweenEvents
  <2>6. AtServer'
    BY <2>2, <2>4 DEF allButServer, counters, AtServer
  <2>7. AsService => NotOvertaken'
    BY <2>2, <2>3, <2>5 DEF ServerInv, ServiceMode, NotOvertaken, InRequest, Refusing, Serving,
                            Began, Generating, allButServer, controls
  <2> QED
    BY <2>2, <2>3, <2>6, <2>7, MoveKeeps
<1>5. CASE loadReady
  <2>1. /\ server.at = "loadReady" /\ server' \in ServerLocals
        /\ server'.at = IF mState = "ReadyToServe" THEN "header" ELSE "loadWaiting"
        /\ server'.work = server.work /\ server'.prestate = server.prestate
        /\ UNCHANGED allButServer
    BY <1>5 DEF loadReady, Goto, ServerInv, ServerTypes, ServerLocals
  <2>2. Looping
    BY <2>1 DEF Looping
  <2>3. AtServer'
    BY <2>1, <2>2 DEF ServerInv, allButServer, counters, AtServer, Working
  <2>4. AsService => NotOvertaken'
    BY <2>1, <2>2 DEF ServerInv, ServiceMode, StateOwner, NotOvertaken, InRequest, Refusing,
                      Serving, Began, Generating, Working, allButServer, controls
  <2> QED
    BY <2>1, <2>2, <2>3, <2>4, MoveKeeps
<1>6. CASE loadWaiting
  <2> DEFINE w == server.work /\ mState = "WaitingEvent"
  <2>1. w \in BOOLEAN
    OBVIOUS
  <2>2. /\ server.at = "loadWaiting" /\ server' \in ServerLocals /\ server'.at = "header"
        /\ server'.work = w /\ server'.prestate = server.prestate
    BY <1>6, <2>1 DEF loadWaiting, ServerInv, ServerTypes, ServerLocals
  <2>3. UNCHANGED <<mState, counters, nparts, mGeneratorThread, controls, handedOut>>
    BY <1>6 DEF loadWaiting
  <2>4. Looping /\ ServerTypes'
    BY <2>2, <2>3 DEF ServerInv, ServerTypes, counters, controls, Looping
  <2>5. AtServer'
    BY <2>2, <2>3, <2>4 DEF ServerInv, counters, AtServer, Working
  <2>6. AsService => NotOvertaken'
    BY <2>2, <2>3, <2>4 DEF ServerInv, ServerTypes, ServiceMode, StateOwner, NotOvertaken,
                            InRequest, Refusing, Serving, Began, Generating, Working, controls
  <2>7. Sequence' /\ (AsService => StateOwner') /\ (~AsService => BatchMode')
    BY <2>2, <2>3, <2>4 DEF ServerInv, Sequence, BetweenEvents, InsideEvent, Generating,
                            ServiceMode, StateOwner, BatchMode, counters, controls
  <2> QED
    BY <2>4, <2>5, <2>6, <2>7 DEF ServerInv, ServiceMode
<1>7. CASE makeHeader
  <2> DEFINE l == CASE ~server.work -> "refuse"
                    [] server.work /\ mNeedNewEvent -> "join"
                    [] OTHER -> "serve"
  <2>1. /\ l \in {"refuse", "join", "serve"}
        /\ l = "refuse" => ~server.work
        /\ l = "join" => server.work /\ mNeedNewEvent
        /\ l = "serve" => server.work /\ ~mNeedNewEvent
    BY DEF ServerInv, ServerTypes, ServerLocals
  <2>2. /\ server.at = "header" /\ UNCHANGED allButServer
        /\ server' = [server EXCEPT !.header = mState, !.at = l]
    BY <1>7 DEF makeHeader
  <2> HIDE DEF l
  <2>3. /\ server'.at = l /\ server'.work = server.work /\ server'.prestate = server.prestate
        /\ server' \in ServerLocals
    BY <2>1, <2>2 DEF ServerInv, ServerTypes, ServerLocals
  <2>4. Looping /\ ServerTypes
    BY <2>2 DEF ServerInv, Looping
  <2>5. AtServer'
    BY <2>1, <2>2, <2>3, <2>4 DEF ServerInv, allButServer, counters, AtServer
  <2>6. AsService => NotOvertaken'
    BY <2>1, <2>2, <2>3, <2>4 DEF ServerInv, ServerTypes, ServiceMode, StateOwner, NotOvertaken,
                                  InRequest, Refusing, Serving, Began, Generating, Working,
                                  Sequence, InsideEvent, allButServer, controls
  <2> QED
    BY <2>2, <2>3, <2>4, <2>5, <2>6, <2>1, MoveKeeps
<1>8. CASE joinGenerator
  <2>1. /\ server.at = "join" /\ server'.at = "wait" /\ server' \in ServerLocals
        /\ server'.prestate = server.prestate
    BY <1>8 DEF joinGenerator, Goto, ServerInv, ServerTypes, ServerLocals
  <2>2. /\ mGeneratorThread \in {"none", "ended"} /\ mGeneratorThread' = "none"
        /\ UNCHANGED <<mState, counters, nparts, controls, handedOut>>
    BY <1>8 DEF joinGenerator, history
  <2>3. Looping /\ ServerTypes'
    BY <2>1, <2>2 DEF ServerInv, ServerTypes, counters, controls, Looping
  <2>4. Sequence' /\ AtServer'
    BY <2>1, <2>2, <2>3 DEF ServerInv, Sequence, BetweenEvents, InsideEvent, Generating,
                            AtServer, counters
  <2>5. (AsService => ServiceMode') /\ (~AsService => BatchMode')
    BY <2>1, <2>2, <2>3 DEF ServerInv, ServiceMode, StateOwner, NotOvertaken, InRequest,
                            Refusing, Serving, Began, Generating, Working, BatchMode, counters,
                            controls
  <2> QED
    BY <2>3, <2>4, <2>5 DEF ServerInv
<1>9. CASE startEvent
  <2>1. /\ server.at = "wait" /\ server'.at = "serve" /\ server' \in ServerLocals
        /\ server'.prestate = server.prestate
    BY <1>9 DEF startEvent, Goto, ServerInv, ServerTypes, ServerLocals
  <2>2. /\ mState # "WaitingEvent"
        /\ mNeedNewEvent' = FALSE /\ mEventCounter' = mEventCounter + 1 /\ mPartCounter' = 0
        /\ UNCHANGED <<mState, mMaxEvents, batch, nparts, mGeneratorThread, mControlThread,
                       handedOut>>
    BY <1>9 DEF startEvent, controls, history
  <2>3. Looping /\ ServerTypes /\ Sequence /\ AtServer
    BY <2>1 DEF ServerInv, Looping
  <2>4. ServerTypes'
    <3>1. mNeedNewEvent' \in BOOLEAN
      BY <2>2
    <3> QED
      BY <2>1, <2>2, <2>3, <3>1 DEF ServerTypes
  <2>5. mNeedNewEvent /\ mEventCounter < mMaxEvents /\ mGeneratorThread = "none"
    BY <2>1, <2>3 DEF AtServer
  <2>6. AsService => mState = "ReadyToServe" /\ mControlThread # "generate"
    BY <2>1, <2>2, <2>3 DEF ServerInv, ServiceMode, StateOwner, NotOvertaken, Serving, Working
  <2>7. nparts > 0
    BY <2>3, <2>6, <1>0 DEF ServerInv, ServerTypes, ServiceMode, StateOwner, BatchMode
  <2>8. Sequence' /\ AtServer'
    <3>1. InsideEvent'
      BY <2>2, <2>3, <2>5, <2>7 DEF ServerTypes, Chunk, Sequence, BetweenEvents, InsideEvent
    <3> QED
      BY <2>1, <2>2, <2>3, <3>1 DEF Sequence, AtServer
  <2>9. AsService => StateOwner'
    BY <2>2, <2>3, <2>5, <2>6 DEF ServerInv, ServiceMode, StateOwner, Generating
  <2>10. AsService => NotOvertaken'
    BY <2>1, <2>2, <2>3, <2>6 DEF ServerInv, ServiceMode, NotOvertaken, InRequest, Refusing,
                                  Serving, Began, Working
  <2>11. ~AsService => BatchMode'
    BY <2>1, <2>2, <2>3 DEF ServerInv, BatchMode
  <2> QED
    BY <2>4, <2>8, <2>9, <2>10, <2>11 DEF ServerInv, ServiceMode
<1>10. CASE serveChunk
  <2> DEFINE last == mPartCounter + 1 = nparts
  <2>1. Looping /\ ServerTypes /\ InsideEvent /\ Sequence /\ ~mNeedNewEvent
    BY <1>10 DEF serveChunk, ServerInv, Looping, AtServer, Sequence
  <2>2. /\ handedOut' = [batch |-> batch, event |-> mEventCounter, part |-> mPartCounter + 1,
                         nparts |-> nparts, maxEvents |-> mMaxEvents]
        /\ mPartCounter' = mPartCounter + 1
        /\ mGeneratorThread' = IF last /\ mEventCounter < mMaxEvents THEN "start" ELSE "none"
        /\ UNCHANGED <<mState, mMaxEvents, mEventCounter, batch, nparts, mControlThread>>
        /\ server.at = "serve"
    BY <1>10, <2>1 DEF serveChunk, InsideEvent, controls
  <2>3. mNeedNewEvent' \in BOOLEAN /\ (mNeedNewEvent' <=> last)
    BY <1>10, Zenon DEF serveChunk
  <2>4. reply(TRUE, handedOut')
    BY <1>10, <2>1 DEF serveChunk, InsideEvent
  <2>5. /\ server'.at = "conclude" /\ server' \in ServerLocals
        /\ server'.prestate = server.prestate
        /\ AsService => server'.more
    BY <2>1, <2>4, <1>0 DEF reply, ServerTypes, ServerLocals, Replies
  <2>6. /\ handedOut' \in Chunk /\ handedOut'.batch = batch
        /\ handedOut'.event = mEventCounter /\ handedOut'.part = mPartCounter + 1
        /\ handedOut'.nparts = nparts
    BY <2>1, <2>2 DEF Chunk, ServerTypes
  <2>7. ServerTypes'
    <3>1. mGeneratorThread' \in {"none", "start", "generate", "ended"}
      BY <2>2
    <3> QED
      BY <2>1, <2>2, <2>3, <2>5, <2>6, <3>1 DEF ServerTypes
  <2>8. AtServer'
    BY <2>5 DEF AtServer
  <2>9. last => BetweenEvents'
    BY <2>1, <2>2, <2>6 DEF BetweenEvents, Generating, ServerTypes
  <2>10. ~last => InsideEvent'
    BY <2>1, <2>2, <2>6 DEF InsideEvent, ServerTypes
  <2>11. Sequence'
    BY <2>1, <2>2, <2>3, <2>6, <2>9, <2>10 DEF Sequence, ServerTypes
  <2>12. AsService => mState = "ReadyToServe"
    BY <2>1, <2>2 DEF ServerInv, ServiceMode, NotOvertaken
  <2>13. AsService => StateOwner'
    BY <2>1, <2>2, <2>12 DEF ServerInv, ServiceMode, StateOwner, Generating
  <2>14. AsService => NotOvertaken'
    BY <2>1, <2>2, <2>5, <2>12 DEF ServerInv, ServiceMode, NotOvertaken, InRequest, Refusing,
                                   Serving, Began
  <2>15. ~AsService => BatchMode'
    BY <2>1, <2>2, <2>5 DEF ServerInv, BatchMode
  <2> QED
    BY <2>7, <2>8, <2>11, <2>13, <2>14, <2>15 DEF ServerInv, ServiceMode
<1>11. CASE refuse
  <2>1. /\ server.at = "refuse" /\ server'.at = "conclude" /\ server' \in ServerLocals
        /\ server'.prestate = server.prestate
    BY <1>11 DEF refuse, reply, ServerInv, ServerTypes, ServerLocals
  <2>2. UNCHANGED <<mState, counters, nparts, mGeneratorThread, controls, handedOut>>
    BY <1>11 DEF refuse
  <2>3. Looping /\ ServerTypes'
    BY <2>1, <2>2 DEF ServerInv, ServerTypes, counters, controls, Looping
  <2>4. Sequence' /\ AtServer'
    BY <2>1, <2>2, <2>3 DEF ServerInv, Sequence, BetweenEvents, InsideEvent, Generating,
                            AtServer, counters
  <2>5. (AsService => ServiceMode') /\ (~AsService => BatchMode')
    BY <2>1, <2>2, <2>3 DEF ServerInv, ServiceMode, StateOwner, NotOvertaken, InRequest,
                            Refusing, Serving, Began, Generating, Working, BatchMode, counters,
                            controls
  <2> QED
    BY <2>3, <2>4, <2>5 DEF ServerInv
<1>12. CASE conclude
  <2>1. /\ server.at = "conclude" /\ server'.at = "return" /\ server' \in ServerLocals
    BY <1>12 DEF conclude, Goto, ServerInv, ServerTypes, ServerLocals
  <2>2. UNCHANGED <<counters, nparts, mGeneratorThread, controls, handedOut>>
    BY <1>12 DEF conclude, history
  <2>3. /\ ~AsService => mState' \in {mState, "Stopped"}
        /\ AsService => mState' = mState \/ (mState' = "Idle" /\ Began /\ Refusing)
    BY <1>12, <1>0 DEF conclude, Began, Refusing, ServerInv, ServerTypes, ServerLocals
  <2>4. Looping /\ ServerTypes'
    BY <2>1, <2>2, <2>3, <1>0 DEF ServerInv, ServerTypes, counters, controls, Looping
  <2>5. Sequence' /\ AtServer'
    BY <2>1, <2>2, <2>4 DEF ServerInv, Sequence, BetweenEvents, InsideEvent, Generating,
                            AtServer, counters
  <2>6. AsService => StateOwner'
    BY <2>1, <2>2, <2>3, <2>4 DEF ServerInv, ServiceMode, StateOwner, NotOvertaken, InRequest,
                                  Generating, counters, controls
  <2>7. NotOvertaken'
    BY <2>1 DEF NotOvertaken, InRequest, Refusing, Serving
  <2>8. ~AsService => BatchMode'
    BY <2>1, <2>2, <2>3, <2>4 DEF ServerInv, BatchMode, controls
  <2> QED
    BY <2>4, <2>5, <2>6, <2>7, <2>8 DEF ServerInv, ServiceMode
<1>13. CASE return
  <2>1. /\ server.at = "return" /\ server'.at \in {"run", "postrun"} /\ server' \in ServerLocals
        /\ UNCHANGED allButServer
    BY <1>13 DEF return, Goto, ServerInv, ServerTypes, ServerLocals
  <2>2. Looping /\ AtServer' /\ NotOvertaken' /\ server'.at \in {"run", "postrun"}
    BY <2>1 DEF Looping, AtServer, NotOvertaken, InRequest, Refusing, Serving
  <2> QED
    BY <2>1, <2>2, MoveKeeps
<1>14. CASE postRun
  <2>1. /\ server'.at = "ended" /\ server' \in ServerLocals /\ UNCHANGED allButServer
    BY <1>14 DEF postRun, Goto, ServerInv, ServerTypes, ServerLocals
  <2>2. ~Looping'
    BY <2>1 DEF Looping
  <2>3. ServerTypes'
    BY <2>1 DEF ServerInv, ServerTypes, allButServer, counters, controls, history
  <2> QED
    BY <2>2, <2>3 DEF ServerInv
<1> QED
  BY <1>1, <1>2, <1>3, <1>4, <1>5, <1>6, <1>7, <1>8, <1>9, <1>10, <1>11, <1>12, <1>13,
     <1>14, <1>15 DEF mainThread

\* generateEvent in its thread touches mState and the stack only while the main
\* thread is between two events.
LEMMA GeneratorKeeps ==
  ASSUME ServerInv, generatorThread
  PROVE  ServerInv'
<1>1. CASE startGeneration
  <2>1. /\ mGeneratorThread = "start" /\ mGeneratorThread' = "generate"
        /\ mState' = "WaitingEvent"
        /\ UNCHANGED <<counters, nparts, mControlThread, server, handedOut>>
    BY <1>1 DEF startGeneration, controls, history
  <2>2. ServerTypes'
    BY <2>1 DEF ServerInv, ServerTypes, counters, States
  <2>3. Looping => mNeedNewEvent /\ mEventCounter < mMaxEvents
    BY <2>1 DEF ServerInv, Sequence, BetweenEvents, InsideEvent, Generating, ServerTypes
  <2>4. Looping => Sequence' /\ AtServer'
    BY <2>1, <2>3 DEF ServerInv, Sequence, BetweenEvents, InsideEvent, Generating, AtServer,
                      Working, counters
  <2>5. Looping /\ AsService => StateOwner'
    BY <2>1 DEF ServerInv, ServiceMode, StateOwner, Generating, counters
  <2>6. Looping /\ AsService => NotOvertaken'
    BY <2>1, <2>3 DEF ServerInv, ServiceMode, NotOvertaken, InRequest, Refusing, Serving, Began,
                      Working, Generating, AtServer
  <2>7. Looping /\ ~AsService => BatchMode'
    BY <2>1 DEF ServerInv, BatchMode
  <2> QED
    BY <2>1, <2>2, <2>4, <2>5, <2>6, <2>7 DEF ServerInv, ServiceMode, Looping
<1>2. CASE endGeneration
  <2>1. /\ mGeneratorThread = "generate" /\ mGeneratorThread' = "ended"
        /\ mState' = "ReadyToServe" /\ nparts' \in Nat \ {0}
        /\ UNCHANGED <<counters, mControlThread, server, handedOut>>
    BY <1>2, MaxPartsAssumption DEF endGeneration, controls, history
  <2>2. ServerTypes'
    BY <2>1 DEF ServerInv, ServerTypes, counters, States
  <2>3. Looping => mNeedNewEvent /\ mEventCounter < mMaxEvents
    BY <2>1 DEF ServerInv, Sequence, BetweenEvents, InsideEvent, Generating, ServerTypes
  <2>4. Looping => Sequence' /\ AtServer'
    BY <2>1, <2>3 DEF ServerInv, Sequence, BetweenEvents, InsideEvent, Generating, AtServer,
                      Working, counters
  <2>5. Looping /\ AsService => StateOwner'
    BY <2>1 DEF ServerInv, ServiceMode, StateOwner, Generating, counters
  <2>6. Looping /\ AsService => NotOvertaken'
    BY <2>1, <2>3 DEF ServerInv, ServiceMode, NotOvertaken, InRequest, Refusing, Serving, Began,
                      Working, Generating, AtServer
  <2>7. Looping /\ ~AsService => BatchMode'
    BY <2>1 DEF ServerInv, BatchMode
  <2> QED
    BY <2>1, <2>2, <2>4, <2>5, <2>6, <2>7 DEF ServerInv, ServiceMode, Looping
<1> QED
  BY <1>1, <1>2 DEF generatorThread

(***************************************************************************)
(* The control messages: each is for a later batch than the counters are,  *)
(* and than the message before it.                                         *)
(***************************************************************************)
Reconfigs == {m \in [batch : Nat, nEvents : Nat, stop : BOOLEAN] : m.nEvents <= MaxEventID}

ControlInv ==
  /\ mControlChannel \in Seq(Reconfigs)
  /\ published \in Nat /\ batch \in Nat /\ batch <= published
  /\ mMaxEvents \in Nat /\ mMaxEvents <= MaxEventID
  /\ \A i \in 1 .. Len(mControlChannel) :
       batch < mControlChannel[i].batch /\ mControlChannel[i].batch <= published
  /\ \A i, j \in 1 .. Len(mControlChannel) :
       i < j => mControlChannel[i].batch < mControlChannel[j].batch
  /\ mControlThread = "reinit" => mControlChannel # <<>>

\* waitForControlInput, ReInit and initGenerator change the counters and mState
\* only while the main thread serves nothing.
LEMMA ControlKeeps ==
  ASSUME ServerInv, ControlInv, controlThread
  PROVE  ServerInv'
<1> USE DEF controlAt
<1>1. CASE controlStart \/ controlCheck \/ controlLeave
  <2>1. /\ UNCHANGED <<mState, counters, nparts, mGeneratorThread, server, handedOut>>
        /\ mControlThread' \in {"check", "receive", "leave", "ended"}
        /\ mControlThread \in {"start", "check", "leave"}
        /\ mControlThread' = "receive" => mState = "Idle"
    BY <1>1 DEF controlStart, controlCheck, controlLeave, history
  <2>2. ServerTypes'
    BY <2>1 DEF ServerInv, ServerTypes, counters
  <2>3. Looping => Sequence' /\ AtServer'
    BY <2>1 DEF ServerInv, Sequence, BetweenEvents, InsideEvent, Generating, AtServer, Working,
                counters
  <2>4. Looping /\ AsService => StateOwner'
    BY <2>1 DEF ServerInv, ServiceMode, StateOwner, Generating, counters
  <2>5. Looping /\ AsService => NotOvertaken'
    BY <2>1 DEF ServerInv, ServiceMode, NotOvertaken, InRequest, Refusing, Serving, Began,
                Working, Generating
  <2>6. Looping /\ ~AsService => FALSE
    BY <2>1 DEF ServerInv, BatchMode
  <2> QED
    BY <2>1, <2>2, <2>3, <2>4, <2>5, <2>6 DEF ServerInv, ServiceMode, Looping
<1>2. CASE controlReceive
  <2>1. /\ UNCHANGED <<counters, nparts, mGeneratorThread, server, handedOut>>
        /\ mControlThread = "receive" /\ mControlThread' = "reinit"
        /\ mState' = "Initializing"
    BY <1>2 DEF controlReceive, history
  <2>2. ServerTypes'
    BY <2>1 DEF ServerInv, ServerTypes, counters, States
  <2>3. Looping /\ ~AsService => FALSE
    BY <2>1 DEF ServerInv, BatchMode
  <2>4. Looping => Sequence' /\ AtServer'
    BY <2>1 DEF ServerInv, Sequence, BetweenEvents, InsideEvent, Generating, AtServer, Working,
                counters
  <2>5. Looping /\ AsService => StateOwner'
    BY <2>1 DEF ServerInv, ServiceMode, StateOwner, Generating, counters
  <2>6. Looping /\ AsService => NotOvertaken'
    BY <2>1 DEF ServerInv, ServiceMode, StateOwner, NotOvertaken, InRequest, Refusing, Serving,
                Began, Working, Generating
  <2> QED
    BY <2>1, <2>2, <2>3, <2>4, <2>5, <2>6 DEF ServerInv, ServiceMode, Looping
<1>3. CASE reInit
  <2> DEFINE m == Head(mControlChannel)
  <2>1. /\ mControlThread = "reinit" /\ mControlChannel # <<>>
        /\ m \in Reconfigs /\ batch < m.batch
    BY <1>3 DEF reInit, ControlInv
  <2>2. /\ UNCHANGED <<nparts, mGeneratorThread, server, handedOut>>
        /\ \/ mState' = "Stopped" /\ mControlThread' = "leave" /\ UNCHANGED counters
           \/ /\ mMaxEvents' = m.nEvents /\ batch' = m.batch
              /\ mEventCounter' = 0 /\ mPartCounter' = 0 /\ mNeedNewEvent' = TRUE
              /\ mControlThread' = "join" /\ mState' = mState
    BY <1>3 DEF reInit, history
  <2> HIDE DEF m
  <2>3. ServerTypes'
    <3>1. mNeedNewEvent' \in BOOLEAN
      BY <2>2 DEF ServerInv, ServerTypes, counters
    <3>2. m.nEvents \in Nat /\ m.batch \in Nat
      BY <2>1 DEF Reconfigs
    <3> QED
      BY <2>2, <3>1, <3>2 DEF ServerInv, ServerTypes, counters, States
  <2>4. Looping /\ ~AsService => FALSE
    BY <2>1 DEF ServerInv, BatchMode
  <2>5. Looping => ~Generating /\ mState = "Initializing" /\ ~Serving
    BY <2>1, <2>4 DEF ServerInv, ServiceMode, StateOwner, NotOvertaken, Generating, Working
  <2>6. Looping => Sequence'
    BY SMTT(30), <2>1, <2>2, <2>5 DEF ServerInv, ServerTypes, Chunk, Reconfigs, Sequence, BetweenEvents,
                            InsideEvent, Generating, counters
  <2>7. Looping => AtServer'
    BY <2>1, <2>2, <2>5 DEF ServerInv, AtServer, Serving, Working, counters
  <2>8. Looping /\ AsService => StateOwner'
    BY <2>1, <2>2, <2>5 DEF ServerInv, ServiceMode, StateOwner, Generating, counters
  <2>9. Looping /\ AsService => NotOvertaken'
    BY <2>1, <2>2, <2>5 DEF ServerInv, ServiceMode, NotOvertaken, InRequest, Refusing, Serving,
                            Began, Working, Generating
  <2> QED
    BY <2>2, <2>3, <2>4, <2>6, <2>7, <2>8, <2>9 DEF ServerInv, ServiceMode, Looping
<1>4. CASE initGenerator
  <2>1. /\ UNCHANGED <<counters, nparts, server, handedOut>>
        /\ mControlThread = "join"
        /\ mGeneratorThread \in {"none", "ended"} /\ mGeneratorThread' = "none"
        /\ \/ mMaxEvents > 0 /\ mState' = "WaitingEvent" /\ mControlThread' = "generate"
           \/ mControlThread' = "leave" /\ UNCHANGED mState
    BY <1>4 DEF initGenerator, history
  <2>2. ServerTypes'
    BY <2>1 DEF ServerInv, ServerTypes, counters, States
  <2>3. Looping /\ ~AsService => FALSE
    BY <2>1 DEF ServerInv, BatchMode
  <2>4. Looping => mNeedNewEvent /\ mEventCounter = 0 /\ mState = "Initializing" /\ ~Serving
    BY <2>1, <2>3 DEF ServerInv, ServiceMode, StateOwner, NotOvertaken, Working
  <2>5. Looping => Sequence' /\ AtServer'
    BY <2>1, <2>4 DEF ServerInv, ServerTypes, Sequence, BetweenEvents, InsideEvent, Generating,
                      AtServer, Serving, Working, counters
  <2>6. Looping /\ AsService => StateOwner'
    BY <2>1, <2>4 DEF ServerInv, ServiceMode, StateOwner, Generating, counters
  <2>7. Looping /\ AsService => NotOvertaken'
    BY <2>1, <2>4 DEF ServerInv, ServiceMode, NotOvertaken, InRequest, Refusing, Serving, Began,
                      Working, Generating
  <2> QED
    BY <2>1, <2>2, <2>3, <2>5, <2>6, <2>7 DEF ServerInv, ServiceMode, Looping
<1>5. CASE controlGenerate
  <2>1. /\ UNCHANGED <<counters, mGeneratorThread, server, handedOut>>
        /\ mControlThread = "generate" /\ mControlThread' = "leave"
        /\ nparts' \in Nat \ {0} /\ mState' = "ReadyToServe"
    BY <1>5, MaxPartsAssumption DEF controlGenerate, history
  <2>2. ServerTypes'
    BY <2>1 DEF ServerInv, ServerTypes, counters, States
  <2>3. Looping /\ ~AsService => FALSE
    BY <2>1 DEF ServerInv, BatchMode
  <2>4. Looping => /\ mNeedNewEvent /\ mEventCounter = 0 /\ mMaxEvents > 0
                   /\ mGeneratorThread = "none" /\ mState = "WaitingEvent"
    BY <2>1, <2>3 DEF ServerInv, ServiceMode, StateOwner
  <2>5. Looping => Sequence' /\ AtServer'
    BY <2>1, <2>4 DEF ServerInv, ServerTypes, Sequence, BetweenEvents, InsideEvent, Generating,
                      AtServer, Working, counters
  <2>6. Looping /\ AsService => StateOwner'
    BY <2>1, <2>4 DEF ServerInv, ServiceMode, StateOwner, Generating, counters
  <2>7. Looping /\ AsService => NotOvertaken'
    BY <2>1, <2>4 DEF ServerInv, ServiceMode, NotOvertaken, InRequest, Refusing, Serving, Began,
                      Working, Generating, AtServer
  <2> QED
    BY <2>1, <2>2, <2>3, <2>5, <2>6, <2>7 DEF ServerInv, ServiceMode, Looping
<1> QED
  BY <1>1, <1>2, <1>3, <1>4, <1>5 DEF controlThread

\* After a signal the main thread serves nothing any more.
LEMMA InterruptKeeps ==
  ASSUME ServerInv, receiveInterrupted
  PROVE  ServerInv'
<1>1. server'.at = "postrun" /\ server' \in ServerLocals
  BY DEF receiveInterrupted, Goto, ServerInv, ServerTypes, ServerLocals, mainAt
<1>2. ServerTypes'
  BY <1>1 DEF receiveInterrupted, ServerInv, ServerTypes, counters, controls, history, States
<1> QED
  BY <1>1, <1>2 DEF ServerInv, Looping

\* The control messages begin with none.
LEMMA ControlInit ==
  ASSUME Init
  PROVE  ControlInv
<1>1. Batches[1] \in Nat /\ Batches[1] <= MaxEventID
  BY BatchesAssumption, EventsAssumption
<1> QED
  BY <1>1 DEF Init, ServerInit, ControlInv

\* Only the driver puts a control message in, only ReInit takes one out.
LEMMA ControlStep ==
  ASSUME ControlInv, [Next]_vars
  PROVE  ControlInv'
<1>1. CASE UNCHANGED <<counters, controls, published>>
  BY <1>1 DEF ControlInv, counters, controls
<1>2. CASE mainThread /\ UNCHANGED published
  <2>1. /\ UNCHANGED <<mControlChannel, mMaxEvents, batch, published>>
        /\ mControlThread' = "reinit" => mControlThread = "reinit"
    BY <1>2 DEF mainThread, conditionalRun, loadControl, restartControl, receiveRequest, checkCounters,
                loadReady, loadWaiting, makeHeader, joinGenerator, startEvent, serveChunk, refuse,
                conclude, return, postRun, allButServer, counters, controls
  <2> QED
    BY <2>1 DEF ControlInv
<1>3. CASE controlThread /\ UNCHANGED published
  <2>1. CASE reInit
    <3> DEFINE ch == mControlChannel
               m == Head(mControlChannel)
    <3>1. ch \in Seq(Reconfigs) /\ ch # <<>>
      BY <2>1 DEF reInit, ControlInv
    <3>2. /\ m = ch[1] /\ m \in Reconfigs /\ Len(ch) \in Nat \ {0}
          /\ Tail(ch) \in Seq(Reconfigs) /\ Len(Tail(ch)) = Len(ch) - 1
          /\ \A i \in 1 .. Len(ch) - 1 : Tail(ch)[i] = ch[i + 1]
      BY <3>1
    <3>3. /\ ch' = Tail(ch) /\ mControlThread' # "reinit" /\ published' = published
          /\ \/ UNCHANGED counters
             \/ mMaxEvents' = m.nEvents /\ batch' = m.batch
      BY <1>3, <2>1 DEF reInit
    <3>4. m.nEvents \in Nat /\ m.nEvents <= MaxEventID /\ m.batch \in Nat
      BY <3>2 DEF Reconfigs
    <3>5. \A i \in 1 .. Len(ch') : ch'[i].batch \in Nat
      BY <3>2, <3>3 DEF Reconfigs
    <3>6. \A i \in 1 .. Len(ch') : batch' < ch'[i].batch /\ ch'[i].batch <= published
      BY <3>1, <3>2, <3>3, <3>4, <3>5 DEF ControlInv, counters
    <3>7. \A i, j \in 1 .. Len(ch') : i < j => ch'[i].batch < ch'[j].batch
      <4>1. \A i \in 1 .. Len(ch') : i + 1 \in 1 .. Len(ch) /\ ch'[i] = ch[i + 1]
        BY <3>2, <3>3
      <4>2. \A i, j \in 1 .. Len(ch) : i < j => ch[i].batch < ch[j].batch
        BY DEF ControlInv
      <4> HIDE DEF ch
      <4>3. \A i, j \in 1 .. Len(ch') : i < j => i + 1 < j + 1
        OBVIOUS
      <4> QED
        BY <4>1, <4>2, <4>3
    <3>8. batch' \in Nat /\ batch' <= published /\ mMaxEvents' \in Nat /\ mMaxEvents' <= MaxEventID
      BY <3>1, <3>2, <3>3, <3>4 DEF ControlInv, counters
    <3> QED
      BY <3>2, <3>3, <3>6, <3>7, <3>8 DEF ControlInv
  <2>2. CASE ~reInit
    <3>1. /\ UNCHANGED <<counters, mControlChannel, published>>
          /\ mControlThread' = "reinit" => mControlChannel # <<>>
      BY <1>3, <2>2 DEF controlThread, controlStart, controlCheck, controlReceive, initGenerator,
                        controlGenerate, controlLeave
    <3> QED
      BY <3>1 DEF ControlInv, counters
  <2> QED
    BY <2>1, <2>2
<1>4. CASE controlRequest
  <2> DEFINE m == Reconfig(published + 1)
             ch == mControlChannel
  <2>1. /\ ch' = Append(ch, m) /\ published' = published + 1
        /\ UNCHANGED <<counters, mControlThread>>
    BY <1>4 DEF controlRequest
  <2>2. published \in Nat /\ ch \in Seq(Reconfigs) /\ MaxEventID \in Nat
    BY MaxEventIDAssumption DEF ControlInv
  <2>3. m \in Reconfigs /\ m.batch = published + 1
    <3>1. CASE published + 1 <= Len(Batches)
      <4>1. Batches[published + 1] \in Nat /\ Batches[published + 1] <= MaxEventID
        BY <2>2, <3>1, BatchesAssumption, EventsAssumption
      <4> QED
        BY <2>2, <3>1, <4>1 DEF Reconfig, Reconfigs
    <3>2. CASE ~(published + 1 <= Len(Batches))
      BY <2>2, <3>2 DEF Reconfig, Reconfigs
    <3> QED
      BY <3>1, <3>2
  <2> HIDE DEF m
  <2>4. /\ ch' \in Seq(Reconfigs) /\ Len(ch') = Len(ch) + 1 /\ Len(ch) \in Nat
        /\ \A i \in 1 .. Len(ch) : ch'[i] = ch[i] /\ ch[i].batch \in Nat
        /\ ch'[Len(ch) + 1] = m
    BY <2>1, <2>2, <2>3 DEF Reconfigs
  <2>5. \A i \in 1 .. Len(ch') : batch < ch'[i].batch /\ ch'[i].batch <= published + 1
    BY <2>2, <2>3, <2>4 DEF ControlInv
  <2>6. \A i, j \in 1 .. Len(ch') : i < j => ch'[i].batch < ch'[j].batch
    <3> TAKE i, j \in 1 .. Len(ch')
    <3> HAVE i < j
    <3>1. CASE j = Len(ch) + 1
      <4>1. i \in 1 .. Len(ch) /\ ch[i].batch <= published
        BY <2>4, <3>1 DEF ControlInv
      <4> QED
        BY <2>2, <2>3, <2>4, <3>1, <4>1
    <3>2. CASE j # Len(ch) + 1
      BY <2>4, <3>2 DEF ControlInv
    <3> QED
      BY <3>1, <3>2
  <2> QED
    BY SMTT(30), <2>1, <2>2, <2>4, <2>5, <2>6 DEF ControlInv, counters
<1> QED
  <2>1. CASE UNCHANGED vars
    BY <1>1, <2>1 DEF vars, serverVars, driverVars
  <2>2. CASE serverMain \/ serverControl
    BY <1>2, <1>3, <2>2 DEF serverMain, serverControl, others, driverVars
  <2>3. CASE serverGenerator \/ serverInfo \/ serverTerminated
    BY <1>1, <2>3 DEF serverGenerator, serverInfo, serverTerminated, others, driverVars,
                      generatorThread, startGeneration, endGeneration, allowShutdown,
                      infoThreadStops, receiveInterrupted
  <2>4. CASE \E w \in Workers : workerStep(w) \/ crash(w)
    BY <1>1, <2>4 DEF workerStep, askForWork, getAnswer, processChunk, leaveKernel,
                      workerControlInput, crash, serverVars, driverVars
  <2>5. CASE mergerStep \/ mergerIO \/ mergerKilled
    BY <1>1, <2>5 DEF mergerStep, mergerIO, mergerKilled, others, serverVars, driverVars
  <2>6. CASE driverStep
    BY <1>1, <2>6 DEF driverStep, eventFinished, childFailed, mergerReturned, driverRest,
                      serverVars
  <2> QED
    BY <1>4, <2>1, <2>2, <2>3, <2>4, <2>5, <2>6 DEF Next

\* Every step of the simulation keeps the invariant of the server.
LEMMA ServerStep ==
  ASSUME Replies, ServerInv, ControlInv, [Next]_vars
  PROVE  ServerInv'
<1>1. CASE UNCHANGED coreVars
  BY <1>1, ServerFrame
<1>2. CASE serverMain \/ serverGenerator \/ serverControl \/ serverTerminated
  BY <1>2, MainKeeps, GeneratorKeeps, ControlKeeps, InterruptKeeps
  DEF serverMain, serverGenerator, serverControl, serverTerminated
<1>3. CASE UNCHANGED vars
  BY <1>1, <1>3 DEF vars, serverVars, coreVars, controls, history
<1>4. CASE serverInfo
  BY <1>1, <1>4 DEF serverInfo, allowShutdown, infoThreadStops, coreVars, controls, history
<1>5. CASE \E w \in Workers : workerStep(w) \/ crash(w)
  BY <1>1, <1>5 DEF workerStep, askForWork, getAnswer, processChunk, leaveKernel,
                    workerControlInput, crash, serverVars, coreVars, controls, history
<1>6. CASE mergerStep \/ mergerIO \/ mergerKilled
  BY <1>1, <1>6 DEF mergerStep, mergerIO, mergerKilled, serverVars, coreVars, controls, history
<1>7. CASE driverStep \/ controlRequest
  BY <1>1, <1>7 DEF driverStep, eventFinished, childFailed, mergerReturned, controlRequest,
                    driverRest, serverVars, coreVars, controls, history
<1> QED
  BY <1>2, <1>3, <1>4, <1>5, <1>6, <1>7 DEF Next

\* What HandedOutInSequence says of one step.
InSequence ==
  handedOut' # handedOut => /\ Follows(handedOut, handedOut')
                            /\ handedOut'.part <= handedOut'.nparts
                            /\ handedOut'.event <= handedOut'.maxEvents

\* Only serveChunk changes the last chunk.
LEMMA OnlyServeHandsOut ==
  ASSUME [Next]_vars, ~(serverMain /\ serveChunk)
  PROVE  UNCHANGED handedOut
<1>1. CASE UNCHANGED vars
  BY <1>1 DEF vars, serverVars, history
<1>2. CASE serverMain
  BY <1>2 DEF serverMain, mainThread, conditionalRun, loadControl, restartControl, receiveRequest,
              checkCounters, loadReady, loadWaiting, makeHeader, joinGenerator, startEvent,
              refuse, conclude, return, postRun, allButServer, history
<1>3. CASE serverGenerator \/ serverControl \/ serverTerminated \/ serverInfo
  BY <1>3 DEF serverGenerator, serverControl, serverTerminated, serverInfo, generatorThread,
              startGeneration, endGeneration, controlThread, controlStart, controlCheck,
              controlReceive, reInit, initGenerator, controlGenerate, controlLeave,
              receiveInterrupted, allowShutdown, infoThreadStops, history
<1>4. CASE \E w \in Workers : workerStep(w) \/ crash(w)
  BY <1>4 DEF workerStep, askForWork, getAnswer, processChunk, leaveKernel,
              workerControlInput, crash, serverVars, history
<1>5. CASE mergerStep \/ mergerIO \/ mergerKilled \/ driverStep \/ controlRequest
  BY <1>5 DEF mergerStep, mergerIO, mergerKilled, driverStep, eventFinished, childFailed,
              mergerReturned, controlRequest, driverRest, serverVars, history
<1> QED
  BY <1>1, <1>2, <1>3, <1>4, <1>5 DEF Next

\* From the state that the invariant describes, the chunk that serveChunk builds
\* is the one that follows.
LEMMA StepInSequence ==
  ASSUME ServerInv, [Next]_vars
  PROVE  InSequence
<1>1. CASE serverMain /\ serveChunk
  <2>1. Looping /\ ServerTypes /\ InsideEvent /\ Sequence
    BY <1>1 DEF serveChunk, ServerInv, Looping, AtServer, Sequence
  <2>2. handedOut' = [batch |-> batch, event |-> mEventCounter, part |-> mPartCounter + 1,
                      nparts |-> nparts, maxEvents |-> mMaxEvents]
    BY <1>1 DEF serveChunk
  <2>3. Follows(handedOut, handedOut')
    <3>1. CASE mPartCounter = 0
      BY <2>1, <2>2, <3>1 DEF InsideEvent, Follows, Chunk, ServerTypes
    <3>2. CASE mPartCounter # 0
      BY <2>1, <2>2, <3>2 DEF InsideEvent, Follows, Chunk, ServerTypes
    <3> QED
      BY <3>1, <3>2
  <2> QED
    BY <2>1, <2>2, <2>3 DEF InSequence, InsideEvent, ServerTypes
<1>2. CASE ~(serverMain /\ serveChunk)
  BY <1>2, OnlyServeHandsOut DEF InSequence
<1> QED
  BY <1>1, <1>2

\* The server never cuts a chunk from the stack while the generator may fill it,
\* nor ends by giving a joinable generator thread a new value (HandleRequest,
\* line 616): in a batch whatever the workers, the signals and the transport do,
\* and as a service, although a control thread changes mState and the counters,
\* when its replies can be sent.
THEOREM ServerNeverAborts ==
  ASSUME Replies
  PROVE  Spec => []NeverAborts
<1>1. Init => ServerInv /\ ControlInv
  BY ServerInitHolds, ControlInit DEF Init
<1>2. ServerInv /\ ControlInv /\ [Next]_vars => (ServerInv /\ ControlInv)'
  BY ServerStep, ControlStep
<1>3. ServerInv => NeverAborts
  BY DEF ServerInv, ServerTypes, ServerLocals, Looping, AtServer, Sequence, InsideEvent,
         NeverAborts
<1> QED
  BY <1>1, <1>2, <1>3, PTL DEF Spec

\* The server hands every part of every event out exactly once and in sequence,
\* batch by batch, up to the number of events it was asked for.
THEOREM ServerInSequence ==
  ASSUME Replies
  PROVE  Spec => HandedOutInSequence
<1>1. Init => ServerInv /\ ControlInv
  BY ServerInitHolds, ControlInit DEF Init
<1>2. ServerInv /\ ControlInv /\ [Next]_vars => (ServerInv /\ ControlInv)'
  BY ServerStep, ControlStep
<1>3. ServerInv /\ [Next]_vars => [InSequence]_serverVars
  BY StepInSequence
<1>4. Spec => [][InSequence]_serverVars
  BY <1>1, <1>2, <1>3, PTL DEF Spec
<1> QED
  BY <1>4 DEF HandedOutInSequence, InSequence

(***************************************************************************)
(* The chunks on their way from the server over a worker to the merger are *)
(* of events that the merger can account for.                              *)
(***************************************************************************)
EventChunks == {c \in Chunk : c.event \in EventIDs}

Answers == [serverstate : States \union {"none"}, payload : BOOLEAN, chunk : Chunk]

FlowInv ==
  /\ answer \in [Workers -> Answers] /\ chunk \in [Workers -> Chunk]
  /\ DOMAIN worker = Workers
  /\ \A w \in Workers : answer[w].payload => answer[w].chunk \in EventChunks
  /\ \A w \in Workers : worker[w] = "process" => chunk[w] \in EventChunks
  /\ simdata \subseteq EventChunks

\* Nothing is on its way when the simulation starts.
LEMMA FlowInit ==
  ASSUME Init
  PROVE  FlowInv
<1>1. NoChunk \in Chunk /\ NoAnswer \in Answers /\ ~NoAnswer.payload
  BY DEF NoChunk, Chunk, NoAnswer, Answers
<1> QED
  BY <1>1 DEF Init, ServerInit, MergerInit, FlowInv

\* HandleRequest sends a chunk of an event within the batch; ProcessEvent sends
\* the chunk it was given.
LEMMA FlowStep ==
  ASSUME FlowInv, ServerInv, ControlInv, [Next]_vars
  PROVE  FlowInv'
<1>1. CASE UNCHANGED <<answer, chunk, worker>> /\ simdata' \subseteq simdata
  BY <1>1 DEF FlowInv
<1>2. ASSUME NEW payload \in BOOLEAN, NEW c \in Chunk, reply(payload, c),
             payload => c \in EventChunks, UNCHANGED <<chunk, worker, simdata>>
      PROVE  FlowInv'
  <2>1. CASE UNCHANGED answer
    BY <1>1, <1>2, <2>1
  <2>2. CASE answer' = [answer EXCEPT ![server.worker] =
                          [serverstate |-> server.header, payload |-> payload, chunk |-> c]]
    <3> DEFINE a == [serverstate |-> server.header, payload |-> payload, chunk |-> c]
    <3>1. a \in Answers /\ a.payload = payload /\ a.chunk = c
      BY <1>2 DEF Answers, ServerInv, ServerTypes, ServerLocals
    <3> HIDE DEF a
    <3>2. answer' = [answer EXCEPT ![server.worker] = a]
      BY <2>2 DEF a
    <3>3. /\ answer' \in [Workers -> Answers]
          /\ \A w \in Workers : answer'[w] = answer[w] \/ answer'[w] = a
      BY <3>1, <3>2 DEF FlowInv
    <3>4. \A w \in Workers : answer'[w].payload => answer'[w].chunk \in EventChunks
      BY <1>2, <3>1, <3>3 DEF FlowInv
    <3> QED
      BY <1>2, <3>3, <3>4 DEF FlowInv
  <2> QED
    BY <1>2, <2>1, <2>2 DEF reply
<1>3. CASE serverMain
  <2>0. UNCHANGED <<chunk, worker, simdata>>
    BY <1>3 DEF serverMain, mergerVars, others, workerVars
  <2>1. CASE serveChunk
    <3> DEFINE c == [batch |-> batch, event |-> mEventCounter, part |-> mPartCounter + 1,
                     nparts |-> nparts, maxEvents |-> mMaxEvents]
    <3>1. ServerTypes /\ InsideEvent
      BY <2>1 DEF serveChunk, ServerInv, Looping, AtServer, Sequence
    <3>2. mEventCounter \in EventIDs
      BY <3>1, MaxEventIDAssumption DEF InsideEvent, ControlInv, EventIDs, ServerTypes
    <3>3. c \in Chunk /\ c \in EventChunks
      BY <3>1, <3>2 DEF Chunk, EventChunks, ServerTypes
    <3>4. reply(TRUE, c)
      BY <2>1, <3>1 DEF serveChunk, InsideEvent
    <3> QED
      BY <1>2, <2>0, <3>3, <3>4
  <2>2. CASE refuse
    <3>1. NoChunk \in Chunk
      BY DEF NoChunk, Chunk
    <3> QED
      BY <1>2, <2>0, <2>2, <3>1 DEF refuse
  <2>3. CASE ~serveChunk /\ ~refuse
    <3>1. UNCHANGED answer
      BY <1>3, <2>3 DEF serverMain, mainThread, conditionalRun, loadControl, restartControl, receiveRequest,
                        checkCounters, loadReady, loadWaiting, makeHeader, joinGenerator,
                        startEvent, conclude, return, postRun, allButServer, channels
    <3> QED
      BY <1>1, <2>0, <3>1
  <2> QED
    BY <2>1, <2>2, <2>3
<1>4. CASE serverGenerator \/ serverControl \/ serverTerminated \/ serverInfo
  BY <1>1, <1>4 DEF serverGenerator, serverControl, serverTerminated, serverInfo,
                    generatorThread, startGeneration, endGeneration, controlThread, controlStart,
                    controlCheck, controlReceive, reInit, initGenerator, controlGenerate,
                    controlLeave, receiveInterrupted, allowShutdown, infoThreadStops, channels,
                    mergerVars, others, workerVars
<1>5. ASSUME NEW w \in Workers, workerStep(w) PROVE FlowInv'
  <2>1. CASE askForWork(w)
    BY <2>1 DEF askForWork, WorkerGoto, mergerVars, FlowInv
  <2>2. CASE getAnswer(w)
    <3>1. /\ answer' = [answer EXCEPT ![w] = NoAnswer]
          /\ chunk' = [chunk EXCEPT ![w] = answer[w].chunk]
          /\ DOMAIN worker' = Workers /\ (worker'[w] = "process" => answer[w].payload)
          /\ \A v \in Workers \ {w} : worker'[v] = worker[v]
          /\ simdata' = simdata
      BY <2>2 DEF getAnswer, WorkerGoto, mergerVars, FlowInv, Answers
    <3>2. NoAnswer \in Answers /\ ~NoAnswer.payload /\ answer[w].chunk \in Chunk
      BY DEF NoChunk, Chunk, NoAnswer, Answers, FlowInv
    <3> QED
      BY <3>1, <3>2 DEF FlowInv
  <2>3. CASE processChunk(w)
    <3>1. NoChunk \in Chunk
      BY DEF NoChunk, Chunk
    <3>2. UNCHANGED answer
      BY <2>3 DEF processChunk, serverVars, channels
    <3> QED
      BY <2>3, <3>1, <3>2 DEF processChunk, WorkerGoto, FlowInv
  <2>4. CASE leaveKernel(w)
    BY <2>4 DEF leaveKernel, WorkerGoto, serverVars, channels, mergerVars, FlowInv
  <2>5. CASE workerControlInput(w)
    BY <2>5 DEF workerControlInput, WorkerGoto, serverVars, channels, mergerVars, FlowInv
  <2> QED
    BY <1>5, <2>1, <2>2, <2>3, <2>4, <2>5 DEF workerStep
<1>6. ASSUME NEW w \in Workers, crash(w) PROVE FlowInv'
  BY <1>6 DEF crash, serverVars, channels, mergerVars, FlowInv
<1>7. CASE mergerStep
  <2>1. simdata' \subseteq simdata
    BY <1>7 DEF mergerStep, mergerMain, collect, launchMerge, startMerge, countEvent,
                startLastMerge, awaitLastMerge, reportEvent, concludeData, mergerSubscribes,
                mergerControlInput, mergerReInit, collected
  <2> QED
    BY <1>1, <1>7, <2>1 DEF mergerStep, serverVars, channels, workerVars
<1>8. CASE mergerIO \/ mergerKilled
  BY <1>1, <1>8 DEF mergerIO, mergerKilled, mergerIOThread, mergeStart, flushEvent, flushEnds,
                    writeFiles, mergeEnd, collected, serverVars, channels, others, workerVars
<1>9. CASE driverStep \/ controlRequest
  BY <1>1, <1>9 DEF driverStep, eventFinished, childFailed, mergerReturned, controlRequest,
                    driverRest, collected, serverVars, channels, workerVars, mergerVars
<1>10. CASE UNCHANGED vars
  BY <1>1, <1>10 DEF vars, serverVars, channels, workerVars, mergerVars
<1> QED
  BY <1>3, <1>4, <1>5, <1>6, <1>7, <1>8, <1>9, <1>10 DEF Next

(***************************************************************************)
(* The merger: FlushedInOrder, what is buffered for an event belongs to    *)
(* it, and only events that exist are flushable.                           *)
(***************************************************************************)
MergeInv ==
  /\ mSubEventInfoBuffer \in [EventIDs -> SUBSET Chunk]
  /\ \A e \in EventIDs : \A c \in mSubEventInfoBuffer[e] : c.event = e
  /\ mFlushableEvents \subseteq EventIDs
  /\ mNextFlushID \in Nat \ {0}
  /\ mOutTree \in Seq(SUBSET Chunk)
  /\ FlushedInOrder

mergeVars == <<mSubEventInfoBuffer, mFlushableEvents, mNextFlushID, mOutTree, filtered>>

\* The containers as InitTask and ReInit leave them.
LEMMA ClearedIsMerged ==
  ASSUME cleared
  PROVE  MergeInv
<1>1. Cardinality({}) = 0
  BY FS_EmptySet
<1> QED
  BY <1>1 DEF cleared, MergeInv, FlushedInOrder

\* mergeAndFlushData appends the next event or takes it out, never both.
LEMMA FlushKeeps ==
  ASSUME MergeInv, flushEvent
  PROVE  MergeInv'
<1> DEFINE n == mNextFlushID
           b == mSubEventInfoBuffer
<1>1. /\ n \in EventIDs /\ n \in Nat \ {0} /\ n' = n + 1
      /\ b' \in [EventIDs -> SUBSET Chunk] /\ b[n] \in SUBSET Chunk
      /\ \A e \in EventIDs : \A c \in b'[e] : c.event = e
      /\ mFlushableEvents' = mFlushableEvents
  BY DEF flushEvent, isFlushable, MergeInv, EventIDs
<1>2. IsFiniteSet(filtered) /\ n \notin filtered /\ Cardinality(filtered) \in Nat
  <2>1. IsFiniteSet(1 .. n - 1)
    BY <1>1, FS_Interval
  <2>2. filtered \subseteq 1 .. n - 1
    BY DEF MergeInv, FlushedInOrder
  <2>3. IsFiniteSet(filtered)
    BY <2>1, <2>2, FS_Subset
  <2> QED
    BY <1>1, <2>2, <2>3, FS_CardinalityType
<1>3. mOutTree \in Seq(SUBSET Chunk) /\ Len(mOutTree) \in Nat
  BY DEF MergeInv
<1>4. CASE b[n] # {} /\ mOutTree' = Append(mOutTree, b[n]) /\ UNCHANGED filtered
  <2>1. /\ mOutTree' \in Seq(SUBSET Chunk) /\ Len(mOutTree') = Len(mOutTree) + 1
        /\ \A i \in 1 .. Len(mOutTree) : mOutTree'[i] = mOutTree[i]
        /\ mOutTree'[Len(mOutTree) + 1] = b[n]
    BY <1>1, <1>3, <1>4
  <2>2. events(b[n]) = {n}
    BY <1>1, <1>4 DEF events, MergeInv
  <2>3. \A i \in 1 .. Len(mOutTree') : \E e \in 1 .. n' - 1 :
          events(mOutTree'[i]) = {e} /\ e \notin filtered'
    <3> TAKE i \in 1 .. Len(mOutTree')
    <3>1. CASE i = Len(mOutTree) + 1
      BY <1>1, <1>2, <1>4, <2>1, <2>2, <3>1
    <3>2. CASE i \in 1 .. Len(mOutTree)
      <4>1. PICK e \in 1 .. n - 1 : events(mOutTree[i]) = {e} /\ e \notin filtered
        BY <3>2 DEF MergeInv, FlushedInOrder
      <4>2. e \in 1 .. n' - 1
        BY <1>1
      <4>3. mOutTree'[i] = mOutTree[i] /\ filtered' = filtered
        BY <1>4, <2>1, <3>2
      <4> QED
        BY <4>1, <4>2, <4>3
    <3> QED
      BY <1>3, <2>1, <3>1, <3>2
  <2>4. \A i, j \in 1 .. Len(mOutTree') :
          \A e \in events(mOutTree'[i]), f \in events(mOutTree'[j]) : i < j => e < f
    <3> SUFFICES ASSUME NEW i \in 1 .. Len(mOutTree'), NEW j \in 1 .. Len(mOutTree'), i < j,
                        NEW e \in events(mOutTree'[i]), NEW f \in events(mOutTree'[j])
                 PROVE  e < f
      OBVIOUS
    <3>1. i \in 1 .. Len(mOutTree) /\ e \in events(mOutTree[i])
      BY <1>3, <2>1
    <3>2. CASE j = Len(mOutTree) + 1
      <4>1. f = n
        BY <2>1, <2>2, <3>2
      <4>2. e \in 1 .. n - 1
        BY <3>1 DEF MergeInv, FlushedInOrder
      <4> QED
        BY <1>1, <4>1, <4>2
    <3>3. CASE j \in 1 .. Len(mOutTree)
      BY <2>1, <3>1, <3>3 DEF MergeInv, FlushedInOrder
    <3> QED
      BY <1>3, <2>1, <3>2, <3>3
  <2>5. filtered' \subseteq 1 .. n' - 1 /\ Len(mOutTree') + Cardinality(filtered') = n' - 1
    BY <1>1, <1>2, <1>3, <1>4, <2>1 DEF MergeInv, FlushedInOrder
  <2>6. FlushedInOrder'
    BY <2>3, <2>4, <2>5 DEF FlushedInOrder, events
  <2>7. mNextFlushID' \in Nat \ {0} /\ mFlushableEvents' \subseteq EventIDs
    BY <1>1 DEF MergeInv
  <2> QED
    BY <1>1, <2>1, <2>6, <2>7 DEF MergeInv
<1>5. CASE filtered' = filtered \union {n} /\ UNCHANGED mOutTree
  <2>1. Cardinality(filtered') = Cardinality(filtered) + 1
    BY <1>2, <1>5, FS_AddElement
  <2>2. filtered' \subseteq 1 .. n' - 1 /\ Len(mOutTree') + Cardinality(filtered') = n' - 1
    <3>1. filtered \subseteq 1 .. n - 1 /\ Len(mOutTree) + Cardinality(filtered) = n - 1
      BY DEF MergeInv, FlushedInOrder
    <3>2. filtered' \subseteq 1 .. n' - 1
      BY <1>1, <1>5, <3>1
    <3> QED
      BY <1>1, <1>2, <1>3, <1>5, <2>1, <3>1, <3>2
  <2>3. \A i \in 1 .. Len(mOutTree') : \E e \in 1 .. n' - 1 :
          events(mOutTree'[i]) = {e} /\ e \notin filtered'
    <3> TAKE i \in 1 .. Len(mOutTree')
    <3>1. PICK e \in 1 .. n - 1 : events(mOutTree[i]) = {e} /\ e \notin filtered
      BY <1>5 DEF MergeInv, FlushedInOrder
    <3>2. e \in 1 .. n' - 1 /\ e # n
      BY <1>1
    <3> QED
      BY <1>5, <3>1, <3>2
  <2>4. \A i, j \in 1 .. Len(mOutTree') :
          \A e \in events(mOutTree'[i]), f \in events(mOutTree'[j]) : i < j => e < f
    BY <1>5 DEF MergeInv, FlushedInOrder
  <2>5. FlushedInOrder'
    BY <2>2, <2>3, <2>4 DEF FlushedInOrder, events
  <2>6. mNextFlushID' \in Nat \ {0} /\ mFlushableEvents' \subseteq EventIDs
    BY <1>1 DEF MergeInv
  <2> QED
    BY <1>1, <1>3, <1>5, <2>5, <2>6 DEF MergeInv
<1> QED
  BY <1>4, <1>5 DEF flushEvent

\* handleSimData puts a chunk with those of its event.
LEMMA CollectKeeps ==
  ASSUME MergeInv, NEW c \in EventChunks, collect(c)
  PROVE  MergeInv'
<1>1. c \in Chunk /\ c.event \in EventIDs
  BY DEF EventChunks
<1>2. /\ mSubEventInfoBuffer' = [mSubEventInfoBuffer EXCEPT ![c.event] = @ \union {c}]
      /\ mFlushableEvents' \in {mFlushableEvents, mFlushableEvents \union {c.event}}
      /\ UNCHANGED <<mNextFlushID, mOutTree, filtered>>
  BY DEF collect, output
<1>3. FlushedInOrder'
  BY <1>2 DEF MergeInv, FlushedInOrder, events
<1>4. /\ mSubEventInfoBuffer' \in [EventIDs -> SUBSET Chunk]
      /\ \A e \in EventIDs : \A d \in mSubEventInfoBuffer'[e] : d.event = e
  BY <1>1, <1>2 DEF MergeInv
<1> QED
  BY <1>1, <1>2, <1>3, <1>4 DEF MergeInv

\* Every step of the simulation keeps the invariant of the merger.
LEMMA MergeStep ==
  ASSUME MergeInv, FlowInv, [Next]_vars
  PROVE  MergeInv'
<1>1. CASE UNCHANGED mergeVars
  BY <1>1 DEF mergeVars, MergeInv, FlushedInOrder, events
<1>2. CASE mergerStep
  <2>1. CASE \E c \in simdata : collect(c)
    BY <2>1, CollectKeeps DEF FlowInv
  <2>2. CASE mergerControlInput
    <3>1. mergerReInit(Head(inbox["merger"]))
      BY <2>2 DEF mergerControlInput
    <3>2. cleared' \/ UNCHANGED mergeVars
      BY <3>1 DEF mergerReInit, cleared, mergeVars, output
    <3>3. cleared' => MergeInv'
      BY ClearedIsMerged, PTL
    <3> QED
      BY <1>1, <3>2, <3>3
  <2>3. CASE ~(\E c \in simdata : collect(c)) /\ ~mergerControlInput
    BY <1>1, <1>2, <2>3 DEF mergerStep, mergerMain, launchMerge, startMerge, countEvent,
                            startLastMerge, awaitLastMerge, reportEvent, concludeData,
                            mergerSubscribes, collected, output, mergeVars
  <2> QED
    BY <2>1, <2>2, <2>3
<1>3. CASE mergerIO
  <2>1. CASE flushEvent
    BY <2>1, FlushKeeps
  <2>2. CASE ~flushEvent
    BY <1>1, <1>3, <2>2 DEF mergerIO, mergerIOThread, mergeStart, flushEnds, writeFiles, mergeEnd,
                            collected, output, mergeVars
  <2> QED
    BY <2>1, <2>2
<1>4. CASE mergerKilled
  BY <1>1, <1>4 DEF mergerKilled, collected, output, mergeVars
<1>5. CASE serverMain \/ serverGenerator \/ serverControl \/ serverTerminated \/ serverInfo
  BY <1>1, <1>5 DEF serverMain, serverGenerator, serverControl, serverTerminated, serverInfo,
                    mergerVars, output, mergeVars
<1>6. CASE \E w \in Workers : workerStep(w) \/ crash(w)
  BY <1>1, <1>6 DEF workerStep, askForWork, getAnswer, processChunk, leaveKernel,
                    workerControlInput, crash, mergerVars, output, mergeVars
<1>7. CASE driverStep \/ controlRequest
  BY <1>1, <1>7 DEF driverStep, eventFinished, childFailed, mergerReturned, controlRequest,
                    collected, mergerVars, output, mergeVars
<1>8. CASE UNCHANGED vars
  BY <1>1, <1>8 DEF vars, mergerVars, output, mergeVars
<1> QED
  BY <1>2, <1>3, <1>4, <1>5, <1>6, <1>7, <1>8 DEF Next

\* The merger writes the events in their order, each once, and accounts for every
\* event that it has passed, in whatever order the chunks arrive and whenever
\* the merge thread is started: mergeAndFlushData against handleSimData.
THEOREM MergerFlushesInOrder ==
  ASSUME Replies
  PROVE  Spec => []FlushedInOrder
<1> DEFINE Inv == ServerInv /\ ControlInv /\ FlowInv /\ MergeInv
<1>1. Init => Inv
  <2>1. Init => MergeInv
    BY ClearedIsMerged DEF Init, MergerInit
  <2> QED
    BY <2>1, ServerInitHolds, ControlInit, FlowInit DEF Init
<1>2. Inv /\ [Next]_vars => Inv'
  BY ServerStep, ControlStep, FlowStep, MergeStep
<1>3. Inv => FlushedInOrder
  BY DEF MergeInv
<1> QED
  BY <1>1, <1>2, <1>3, PTL DEF Spec

(***************************************************************************)
(* The checksums: handleSimData recognises a set of numbers 1 .. n by the  *)
(* sum of its elements.                                                    *)
(***************************************************************************)
Total(S) == SumFunctionOnSet([i \in S |-> i], S)

\* insertAdd: one more number.
LEMMA TotalWith ==
  ASSUME NEW S, IsFiniteSet(S), S \subseteq Int, NEW k \in Int, k \notin S
  PROVE  Total(S \union {k}) = Total(S) + k
<1> DEFINE f == [i \in S |-> i]
           h == [i \in S \union {k} |-> i]
<1>1. \A i \in S : f[i] \in Int /\ f[i] = h[i]
  OBVIOUS
<1>2. \A i \in S \union {k} : h[i] \in Int
  OBVIOUS
<1>3. h[k] = k
  OBVIOUS
<1> HIDE DEF f, h
<1>4. SumFunctionOnSet(f, S) = SumFunctionOnSet(h, S)
  BY <1>1, SumSame
<1>5. SumFunctionOnSet(h, S \union {k}) = SumFunctionOnSet(h, S) + h[k]
  BY <1>2, SumWith
<1> QED
  BY <1>3, <1>4, <1>5 DEF Total, f, h

\* No numbers add up to 0.
LEMMA TotalOfNone == Total({}) = 0
BY SumOfNone DEF Total

\* A checksum is a natural number.
LEMMA TotalType ==
  ASSUME NEW S, IsFiniteSet(S), S \subseteq Nat
  PROVE  Total(S) \in Nat
<1> DEFINE f == [i \in S |-> i]
<1>1. \A i \in S : f[i] \in Int /\ f[i] >= 0
  OBVIOUS
<1>2. {} \subseteq S
  OBVIOUS
<1> HIDE DEF f
<1>3. SumFunctionOnSet(f, S) \in Int
  BY <1>1, SumType
<1>4. SumFunctionOnSet(f, {}) <= SumFunctionOnSet(f, S)
  BY <1>1, <1>2, SumPart
<1> QED
  BY <1>3, <1>4, SumOfNone DEF Total, f

\* isDataComplete: twice the sum 1 + ... + n is n * (n + 1).
LEMMA TotalOfAll ==
  ASSUME NEW n \in Nat
  PROVE  2 * Total(1 .. n) = n * (n + 1)
<1> DEFINE K == {k \in Nat : 2 * Total(1 .. k) = k * (k + 1)}
<1>1. 0 \in K
  <2>1. 1 .. 0 = {}
    OBVIOUS
  <2> QED
    BY <2>1, TotalOfNone
<1>2. ASSUME NEW k \in Nat, k \in K PROVE k + 1 \in K
  <2>1. 1 .. (k + 1) = (1 .. k) \union {k + 1} /\ k + 1 \notin 1 .. k
    OBVIOUS
  <2>2. IsFiniteSet(1 .. k) /\ 1 .. k \subseteq Nat /\ 1 .. k \subseteq Int
    BY FS_Interval
  <2>3. Total(1 .. (k + 1)) = Total(1 .. k) + (k + 1)
    BY <2>1, <2>2, TotalWith
  <2>4. Total(1 .. k) \in Nat
    BY <2>2, TotalType
  <2>5. 2 * Total(1 .. k) = k * (k + 1)
    BY <1>2
  <2>6. (k + 1) * ((k + 1) + 1) = k * (k + 1) + 2 * (k + 1)
    OBVIOUS
  <2>7. 2 * Total(1 .. (k + 1)) = (k + 1) * ((k + 1) + 1)
    BY <2>3, <2>4, <2>5, <2>6
  <2> QED
    BY <2>7
<1>3. Nat \subseteq K
  <2> HIDE DEF K
  <2> QED
    BY <1>1, <1>2, NatInduct
<1> QED
  BY <1>3

\* A set that lacks one of the numbers has a smaller sum.
LEMMA TotalLess ==
  ASSUME NEW n \in Nat, NEW T, T \subseteq 1 .. n, T # 1 .. n
  PROVE  Total(T) < Total(1 .. n)
<1>1. PICK k \in 1 .. n : k \notin T
  OBVIOUS
<1> DEFINE R == (1 .. n) \ {k}
           f == [i \in R |-> i]
           h == [i \in T |-> i]
<1>2. IsFiniteSet(1 .. n) /\ IsFiniteSet(R) /\ IsFiniteSet(T)
  <2>1. IsFiniteSet(1 .. n)
    BY FS_Interval
  <2>2. R \subseteq 1 .. n
    OBVIOUS
  <2> QED
    BY <2>1, <2>2, FS_Subset
<1>3. T \subseteq R /\ R \subseteq Nat /\ T \subseteq Nat /\ R \subseteq Int
  BY <1>1
<1>4. /\ \A i \in R : f[i] \in Int /\ f[i] >= 0
      /\ \A i \in T : h[i] \in Int /\ h[i] = f[i]
  BY <1>3
<1> HIDE DEF f, h
<1>5. SumFunctionOnSet(f, T) <= SumFunctionOnSet(f, R)
  BY <1>2, <1>3, <1>4, SumPart
<1>6. SumFunctionOnSet(h, T) = SumFunctionOnSet(f, T)
  BY <1>2, <1>4, SumSame
<1>7. Total(T) <= Total(R)
  BY <1>5, <1>6 DEF Total, f, h
<1>8. R \union {k} = 1 .. n /\ k \notin R /\ k \in Int
  BY <1>1
<1> HIDE DEF R
<1>9. Total(1 .. n) = Total(R) + k
  BY <1>2, <1>3, <1>8, TotalWith
<1>10. Total(R) \in Nat /\ Total(T) \in Nat
  BY <1>2, <1>3, TotalType
<1> QED
  BY <1>7, <1>9, <1>10

\* The checksum fits into its word and is that of 1 .. n only for 1 .. n.
LEMMA Checksum ==
  ASSUME NEW n \in Nat, n * (n + 1) < Word, NEW T, T \subseteq 1 .. n
  PROVE  /\ Total(T) \in Nat /\ Total(T) < Word
         /\ isDataComplete(Total(T), n) <=> T = 1 .. n
<1> DEFINE all == Total(1 .. n)
           p == n * (n + 1)
<1>1. IsFiniteSet(1 .. n) /\ IsFiniteSet(T) /\ T \subseteq Nat /\ 1 .. n \subseteq Nat
  <2>1. IsFiniteSet(1 .. n)
    BY FS_Interval
  <2>2. IsFiniteSet(T)
    BY <2>1, FS_Subset
  <2> QED
    BY <2>1, <2>2
<1>2. Total(T) \in Nat /\ all \in Nat
  BY <1>1, TotalType
<1>3. 2 * all = p /\ p \in Nat /\ Word \in Nat /\ p < Word
  BY TotalOfAll, WordAssumption
<1>4. T # 1 .. n => Total(T) < all
  BY TotalLess
<1>5. T = 1 .. n => Total(T) = all
  OBVIOUS
<1>6. isDataComplete(Total(T), n) <=> Total(T) = (p % Word) \div 2
  BY DEF isDataComplete
<1> HIDE DEF all, p
<1>7. (p % Word) \div 2 = all
  BY <1>2, <1>3
<1> QED
  BY <1>2, <1>3, <1>4, <1>5, <1>6, <1>7

(***************************************************************************)
(* What is on its way.  All chunks that have not been collected belong to  *)
(* the batch that was published last, because the driver publishes the     *)
(* next one only when every event of it has been reported.                 *)
(***************************************************************************)

\* Only the first batch may have no events: a service may start without one, but
\* a later batch without events leaves the server in Initializing.
NonEmptyBatches == AsService => \A b \in 2 .. Len(Batches) : Batches[b] > 0

OnTheWay ==
  UNION {{answer[w].chunk : w \in {v \in Workers : answer[v].payload}},
         {chunk[w] : w \in {v \in Workers : worker[v] = "process"}},
         simdata}

\* A chunk of the last batch that has been handed out.
Belongs(c) ==
  /\ c \in Chunk
  /\ c.batch = published /\ c.maxEvents = gAskedEvents
  /\ c.event \in 1 .. gAskedEvents /\ c.nparts \in 1 .. MaxParts /\ c.part \in 1 .. c.nparts

Issued(c) ==
  /\ Belongs(c)
  /\ handedOut.batch = published
  /\ \/ c.event < handedOut.event
     \/ c.event = handedOut.event /\ c.part <= handedOut.part /\ c.nparts = handedOut.nparts

\* The next one.
NextChunk(c) ==
  /\ Belongs(c)
  /\ \/ handedOut.batch < published
     \/ /\ handedOut.batch = published /\ handedOut.event = c.event
        /\ handedOut.part < handedOut.nparts
        /\ c.part = handedOut.part + 1 /\ c.nparts = handedOut.nparts
     \/ /\ handedOut.batch = published /\ c.event = handedOut.event + 1
        /\ handedOut.part = handedOut.nparts

\* All parts of an event have been handed out.
Served(e) ==
  /\ handedOut.batch = published
  /\ e < handedOut.event \/ (e = handedOut.event /\ handedOut.part = handedOut.nparts)

\* The server against the driver: it has the counters of the last batch, or has
\* nothing left to do of the one before.
SupplyInv ==
  /\ published \in 1 .. Len(Batches) + 1 /\ batch \in 1 .. Len(Batches)
  /\ gAskedEvents = Reconfig(published).nEvents
  /\ mMaxEvents = Reconfig(batch).nEvents
  /\ \A i \in 1 .. Len(mControlChannel) : mControlChannel[i] = Reconfig(published)
  /\ handedOut.batch <= batch /\ handedOut.part <= handedOut.nparts
  /\ nparts \in 0 .. MaxParts
  /\ Looping /\ batch < published => ~workLeft
  /\ ~AsService => published = 1

\* No chunk is in two places.
Apart ==
  /\ \A v, w \in Workers : v # w /\ answer[v].payload /\ answer[w].payload
                            => answer[v].chunk # answer[w].chunk
  /\ \A v, w \in Workers : answer[v].payload /\ worker[w] = "process"
                            => answer[v].chunk # chunk[w]
  /\ \A v, w \in Workers : v # w /\ worker[v] = "process" /\ worker[w] = "process"
                            => chunk[v] # chunk[w]
  /\ \A w \in Workers : answer[w].payload => answer[w].chunk \notin simdata
  /\ \A w \in Workers : worker[w] = "process" => chunk[w] \notin simdata

\* The driver's count.
DriverInv ==
  /\ gFinishedEvents \in Nat /\ mPipeToDriver \in Seq(Nat)
  /\ gFinishedEvents + Len(mPipeToDriver) <= gAskedEvents
  /\ gAskedEvents > 0 /\ gFinishedEvents + Len(mPipeToDriver) = gAskedEvents =>
       OnTheWay = {} /\ Served(gAskedEvents)

\* What the driver asks for and what the server was configured with.
LEMMA AskedType ==
  ASSUME SupplyInv
  PROVE  /\ gAskedEvents \in Nat /\ published \in Nat /\ batch \in Nat
         /\ published <= Len(Batches) => gAskedEvents = Batches[published]
         /\ published > Len(Batches) => gAskedEvents = 0
         /\ mMaxEvents = Batches[batch]
         /\ batch = published => mMaxEvents = gAskedEvents
<1>1. Batches \in Seq(Nat) /\ Len(Batches) \in Nat
  BY BatchesAssumption
<1> QED
  BY <1>1 DEF SupplyInv, Reconfig

\* HandleRequest, line 597 on: the chunk that is cut from the stack.
LEMMA ServesNext ==
  ASSUME ServerInv, SupplyInv, ControlInv, serveChunk
  PROVE  /\ NextChunk(handedOut') /\ reply(TRUE, handedOut')
         /\ batch = published /\ handedOut'.batch = batch /\ Looping
<1> DEFINE c == [batch |-> batch, event |-> mEventCounter, part |-> mPartCounter + 1,
                 nparts |-> nparts, maxEvents |-> mMaxEvents]
<1>1. Looping /\ ServerTypes /\ InsideEvent /\ ~mNeedNewEvent /\ handedOut.batch <= batch
  BY DEF serveChunk, ServerInv, Looping, AtServer, Sequence
<1>2. handedOut' = c /\ reply(TRUE, c)
  BY <1>1 DEF serveChunk, InsideEvent
<1>3. batch = published
  BY <1>1 DEF SupplyInv, workLeft, ControlInv
<1>4. /\ c \in Chunk /\ c.batch = published /\ c.maxEvents = gAskedEvents
      /\ c.event = mEventCounter /\ c.nparts = nparts /\ c.part = mPartCounter + 1
  BY <1>1, <1>3, AskedType DEF Chunk, ServerTypes
<1>5. c.event \in 1 .. gAskedEvents /\ c.nparts \in 1 .. MaxParts /\ c.part \in 1 .. c.nparts
  BY <1>1, <1>3, <1>4, AskedType, MaxPartsAssumption DEF InsideEvent, ServerTypes, SupplyInv
<1>6. Belongs(c)
  BY <1>4, <1>5 DEF Belongs
<1>7. handedOut \in Chunk /\ mEventCounter \in Nat /\ mPartCounter \in Nat /\ nparts \in Nat
  BY <1>1 DEF ServerTypes
<1>8. NextChunk(c)
  <2> HIDE DEF c
  <2>1. CASE mPartCounter = 0
    BY <1>1, <1>3, <1>4, <1>6, <1>7, <2>1 DEF NextChunk, InsideEvent, Chunk
  <2>2. CASE mPartCounter # 0
    BY <1>1, <1>3, <1>4, <1>6, <1>7, <2>2 DEF NextChunk, InsideEvent, Chunk
  <2> QED
    BY <2>1, <2>2
<1> QED
  BY <1>1, <1>2, <1>3, <1>4, <1>8

\* InitTask configures the server with the first batch.
LEMMA SupplyInit ==
  ASSUME Init
  PROVE  SupplyInv
<1>1. Batches \in Seq(Nat) /\ Len(Batches) \in Nat /\ Len(Batches) >= 1 /\ MaxParts \in Nat
  BY BatchesAssumption, MaxPartsAssumption
<1>2. Len(mControlChannel) = 0 /\ handedOut = NoChunk /\ handedOut.batch = 0
      /\ handedOut.part <= handedOut.nparts /\ nparts \in 0 .. MaxParts
  BY <1>1 DEF Init, ServerInit, NoChunk
<1> QED
  BY <1>1, <1>2 DEF Init, ServerInit, SupplyInv, Reconfig

\* A request of the driver is published when every event of the batch before has
\* been handed out.
LEMMA RequestFindsServed ==
  ASSUME ServerInv, ControlInv, SupplyInv, DriverInv, NonEmptyBatches, controlRequest
  PROVE  /\ mControlChannel = <<>> /\ batch = published /\ published <= Len(Batches)
         /\ Looping => ~workLeft
         /\ OnTheWay = {} \/ gAskedEvents = 0
         /\ mPipeToDriver = <<>>
<1>1. Batches \in Seq(Nat) /\ Len(Batches) \in Nat
  BY BatchesAssumption
<1>2. gFinishedEvents = gAskedEvents /\ published <= Len(Batches) /\ published \in Nat
      /\ gAskedEvents = Batches[published] /\ gAskedEvents \in Nat
  BY <1>1, AskedType DEF controlRequest, isBusy, SupplyInv
<1>3. mPipeToDriver = <<>> /\ Len(mPipeToDriver) = 0
  BY <1>2 DEF DriverInv
<1>4. gAskedEvents > 0 => OnTheWay = {} /\ Served(gAskedEvents)
  BY <1>2, <1>3 DEF DriverInv
<1>5. gAskedEvents = 0 => published = 1
  <2>1. published >= 1
    BY <1>1 DEF SupplyInv
  <2>2. published \in 2 .. Len(Batches) => Batches[published] > 0
    BY DEF NonEmptyBatches, controlRequest
  <2> QED
    BY <1>1, <1>2, <2>1, <2>2
<1>6. batch = published
  <2>1. batch \in Nat /\ batch <= published /\ batch >= 1 /\ handedOut.batch <= batch
    BY <1>1 DEF ControlInv, SupplyInv
  <2>2. CASE gAskedEvents > 0
    <3>1. handedOut.batch = published
      BY <1>4, <2>2 DEF Served
    <3> QED
      BY <1>2, <2>1, <3>1
  <2>3. CASE gAskedEvents = 0
    BY <1>2, <1>5, <2>1, <2>3
  <2> QED
    BY <1>2, <2>2, <2>3
<1>7. mControlChannel = <<>>
  <2>1. mControlChannel \in Seq(Reconfigs)
    BY DEF ControlInv
  <2>2. ~(1 \in 1 .. Len(mControlChannel))
    <3> SUFFICES ASSUME 1 \in 1 .. Len(mControlChannel) PROVE FALSE
      OBVIOUS
    <3>1. /\ batch < mControlChannel[1].batch /\ mControlChannel[1].batch <= published
          /\ mControlChannel[1] \in Reconfigs
      BY <2>1 DEF ControlInv
    <3> QED
      BY <1>2, <1>6, <3>1 DEF Reconfigs
  <2> QED
    BY <2>1, <2>2
<1>8. ASSUME Looping PROVE ~workLeft
  <2>1. /\ Sequence /\ ServerTypes /\ mMaxEvents = gAskedEvents
    BY <1>6, <1>8, AskedType DEF ServerInv
  <2>2. /\ mEventCounter \in Nat /\ mPartCounter \in Nat /\ nparts \in Nat
        /\ handedOut \in Chunk /\ mNeedNewEvent \in BOOLEAN /\ batch \in Nat
    BY <2>1 DEF ServerTypes
  <2>3. mNeedNewEvent
    <3> SUFFICES ASSUME ~mNeedNewEvent PROVE FALSE
      BY <2>2
    <3>1. InsideEvent
      BY <2>1 DEF Sequence
    <3>2. Served(gAskedEvents) /\ mEventCounter <= gAskedEvents
      BY <1>2, <1>4, <2>1, <2>2, <3>1 DEF InsideEvent
    <3> QED
      BY <1>2, <1>6, <2>1, <2>2, <3>1, <3>2 DEF InsideEvent, Served, Chunk
  <2>4. BetweenEvents
    BY <2>1, <2>3 DEF Sequence
  <2>5. mEventCounter >= mMaxEvents
    BY <1>2, <1>4, <1>6, <2>1, <2>2, <2>4 DEF BetweenEvents, Served, Chunk
  <2> QED
    BY <2>3, <2>5 DEF workLeft
<1> QED
  BY <1>2, <1>3, <1>4, <1>6, <1>7, <1>8

\* Nothing is begun of a batch that is over, and ReInit takes the last one.
LEMMA SupplyStep ==
  ASSUME ServerInv, ControlInv, SupplyInv, DriverInv, NonEmptyBatches, [Next]_vars
  PROVE  SupplyInv'
<1>0. Batches \in Seq(Nat) /\ Len(Batches) \in Nat /\ MaxParts \in Nat
  BY BatchesAssumption, MaxPartsAssumption
<1>1. CASE /\ UNCHANGED <<published, gAskedEvents, mMaxEvents, batch, mControlChannel, handedOut,
                          mEventCounter, mNeedNewEvent>>
           /\ nparts' \in 0 .. MaxParts /\ (Looping' => Looping)
  BY <1>1 DEF SupplyInv, workLeft
<1>2. CASE serverMain
  <2>0. /\ UNCHANGED <<published, gAskedEvents, mMaxEvents, batch, mControlChannel, nparts>>
        /\ (Looping' => Looping) /\ nparts' \in 0 .. MaxParts
    BY <1>2 DEF serverMain, mainThread, conditionalRun, loadControl, restartControl, receiveRequest,
                checkCounters, loadReady, loadWaiting, makeHeader, joinGenerator, startEvent,
                serveChunk, reply, refuse, conclude, return, postRun, allButServer, counters,
                controls, Goto, Looping, others, driverVars, SupplyInv, ServerInv, ServerTypes,
                ServerLocals
  <2>1. CASE serveChunk
    <3>1. batch = published /\ handedOut'.batch = batch
      BY <2>1, ServesNext
    <3>2. batch \in Nat
      BY DEF ControlInv
    <3>3. /\ handedOut'.batch <= batch /\ ~(batch < published)
          /\ handedOut'.part <= handedOut'.nparts
      BY <2>1, <3>1, <3>2, ServesNext DEF NextChunk, Belongs
    <3> QED
      BY <2>0, <3>3 DEF SupplyInv
  <2>2. CASE startEvent
    <3>1. workLeft /\ Looping
      <4>1. AtServer /\ Looping /\ ServerTypes
        BY <2>2 DEF startEvent, ServerInv, Looping
      <4> QED
        BY <2>2, <4>1 DEF startEvent, AtServer, workLeft, ServerTypes
    <3>2. ~(batch < published) /\ UNCHANGED handedOut
      BY <2>2, <3>1 DEF SupplyInv, startEvent, history
    <3> QED
      BY <2>0, <3>2 DEF SupplyInv
  <2>3. CASE ~serveChunk /\ ~startEvent
    <3>1. UNCHANGED <<handedOut, mEventCounter, mNeedNewEvent>>
      BY <1>2, <2>3 DEF serverMain, mainThread, conditionalRun, loadControl, restartControl, receiveRequest,
                        checkCounters, loadReady, loadWaiting, makeHeader, joinGenerator, refuse,
                        conclude, return, postRun, allButServer, counters, history
    <3> QED
      BY <1>1, <2>0, <3>1
  <2> QED
    BY <2>1, <2>2, <2>3
<1>3. CASE serverGenerator
  <2>1. nparts' \in 0 .. MaxParts
    BY <1>0, <1>3 DEF serverGenerator, generatorThread, startGeneration, endGeneration, SupplyInv
  <2> QED
    BY <1>1, <1>3, <2>1 DEF serverGenerator, generatorThread, startGeneration, endGeneration,
                            counters, controls, history, others, driverVars, Looping
<1>4. CASE serverControl
  <2>0. UNCHANGED <<published, gAskedEvents, handedOut, server>>
    BY <1>4 DEF serverControl, controlThread, controlStart, controlCheck, controlReceive, reInit,
                initGenerator, controlGenerate, controlLeave, history, others, driverVars
  <2>1. CASE reInit
    <3> DEFINE m == Head(mControlChannel)
    <3>1. mControlChannel # <<>> /\ mControlChannel \in Seq(Reconfigs)
      BY <2>1 DEF reInit, ControlInv
    <3>2. /\ m = Reconfig(published) /\ mControlChannel' = Tail(mControlChannel)
          /\ \A i \in 1 .. Len(mControlChannel') : mControlChannel'[i] = Reconfig(published)
      BY <2>1, <3>1 DEF reInit, SupplyInv
    <3>3. CASE m.stop
      <4>1. UNCHANGED <<counters, nparts>>
        BY <2>1, <3>3 DEF reInit
      <4> QED
        BY <2>0, <3>2, <4>1 DEF SupplyInv, workLeft, counters, Looping
    <3>4. CASE ~m.stop
      <4>1. published <= Len(Batches) /\ m.batch = published /\ published \in Nat
            /\ published >= 1
        BY <1>0, <3>2, <3>4 DEF Reconfig, SupplyInv
      <4>2. batch' = published /\ mMaxEvents' = Reconfig(published).nEvents /\ nparts' = nparts
        BY <2>1, <3>2, <3>4, <4>1 DEF reInit
      <4>3. handedOut'.batch <= batch'
        <5>1. handedOut.batch \in Nat /\ handedOut.batch <= batch /\ batch <= published
              /\ batch \in Nat
          BY DEF SupplyInv, ServerInv, ServerTypes, Chunk, ControlInv
        <5> QED
          BY <2>0, <4>1, <4>2, <5>1
      <4>4. batch' \in 1 .. Len(Batches) /\ ~(batch' < published')
        BY <1>0, <2>0, <4>1, <4>2
      <4> QED
        BY <2>0, <3>2, <4>2, <4>3, <4>4 DEF SupplyInv
    <3> QED
      BY <3>3, <3>4
  <2>2. CASE ~reInit
    <3>1. UNCHANGED <<mMaxEvents, batch, mControlChannel, mEventCounter, mNeedNewEvent>>
      BY <1>4, <2>2 DEF serverControl, controlThread, controlStart, controlCheck, controlReceive,
                        initGenerator, controlGenerate, controlLeave, counters
    <3>2. nparts' \in 0 .. MaxParts
      BY <1>0, <1>4, <2>2 DEF serverControl, controlThread, controlStart, controlCheck,
                              controlReceive, initGenerator, controlGenerate, controlLeave,
                              SupplyInv
    <3> QED
      BY <1>1, <2>0, <3>1, <3>2 DEF Looping
  <2> QED
    BY <2>1, <2>2
<1>5. CASE serverTerminated \/ serverInfo
  <2>1. /\ UNCHANGED <<published, gAskedEvents, mMaxEvents, batch, mControlChannel, handedOut,
                       mEventCounter, mNeedNewEvent, nparts>>
        /\ Looping' => Looping
    BY <1>5 DEF serverTerminated, serverInfo, receiveInterrupted, allowShutdown, infoThreadStops,
                counters, controls, history, others, driverVars, Looping
  <2> QED
    BY <1>1, <2>1 DEF SupplyInv
<1>6. CASE \E w \in Workers : workerStep(w) \/ crash(w)
  BY <1>1, <1>6 DEF workerStep, crash, askForWork, getAnswer, processChunk, leaveKernel,
                    workerControlInput, serverVars, counters, controls, history, driverVars,
                    Looping, SupplyInv
<1>7. CASE mergerStep \/ mergerIO \/ mergerKilled
  BY <1>1, <1>7 DEF mergerStep, mergerIO, mergerKilled, serverVars, counters, controls, history,
                    others, driverVars, Looping, SupplyInv
<1>8. CASE driverStep
  BY <1>1, <1>8 DEF driverStep, eventFinished, childFailed, mergerReturned, driverRest,
                    serverVars, counters, controls, history, Looping, SupplyInv
<1>9. CASE controlRequest
  <2> DEFINE m == Reconfig(published + 1)
  <2>1. /\ mControlChannel = <<>> /\ batch = published /\ published <= Len(Batches)
        /\ Looping => ~workLeft
    BY <1>9, RequestFindsServed
  <2>2. /\ AsService /\ published' = published + 1 /\ gAskedEvents' = m.nEvents
        /\ mControlChannel' = Append(mControlChannel, m)
        /\ UNCHANGED <<counters, nparts, server, handedOut>>
    BY <1>9 DEF controlRequest, counters, history
  <2> HIDE DEF m
  <2>3. mControlChannel' = <<m>> /\ Len(mControlChannel') = 1 /\ mControlChannel'[1] = m
    BY <2>1, <2>2
  <2>4. \A i \in 1 .. Len(mControlChannel') : mControlChannel'[i] = m
    BY <2>3
  <2>5. published' \in 1 .. Len(Batches) + 1
    BY <1>0, <2>1, <2>2 DEF SupplyInv
  <2> QED
    BY <2>1, <2>2, <2>4, <2>5 DEF SupplyInv, m, counters, workLeft, Looping
<1>10. CASE UNCHANGED vars
  BY <1>1, <1>10 DEF vars, serverVars, counters, controls, history, driverVars, Looping,
                     SupplyInv
<1> QED
  BY <1>2, <1>3, <1>4, <1>5, <1>6, <1>7, <1>8, <1>9, <1>10 DEF Next

\* The places of a chunk on its way: the channel to a worker, the worker, the
\* channel to the merger.
LEMMA Places ==
  ASSUME NEW c
  PROVE  c \in OnTheWay <=> \/ \E w \in Workers : answer[w].payload /\ c = answer[w].chunk
                            \/ \E w \in Workers : worker[w] = "process" /\ c = chunk[w]
                            \/ c \in simdata
BY DEF OnTheWay

\* The same after a step.
LEMMA PlacesNext ==
  ASSUME NEW c
  PROVE  c \in OnTheWay' <=> \/ \E w \in Workers : answer'[w].payload /\ c = answer'[w].chunk
                             \/ \E w \in Workers : worker'[w] = "process" /\ c = chunk'[w]
                             \/ c \in simdata'
BY DEF OnTheWay

\* What is handed out next was not handed out before.
LEMMA NextIsNew ==
  ASSUME NEW c, NextChunk(c), NEW d, Issued(d), handedOut \in Chunk
  PROVE  c # d
<1>1. /\ c.event \in Nat /\ c.part \in Nat /\ d.event \in Nat /\ d.part \in Nat
      /\ handedOut.event \in Nat /\ handedOut.part \in Nat /\ handedOut.nparts \in Nat
      /\ handedOut.batch \in Nat
  BY DEF NextChunk, Issued, Belongs, Chunk
<1> QED
  BY <1>1 DEF NextChunk, Issued

\* A step brings at most one new chunk on its way, the next one; a chunk that
\* moves on leaves the place where it was.
LEMMA WayStep ==
  ASSUME ServerInv, ControlInv, SupplyInv, FlowInv, Apart, \A c \in OnTheWay : Issued(c),
         [Next]_vars
  PROVE  /\ Apart'
         /\ \/ UNCHANGED handedOut /\ OnTheWay' \subseteq OnTheWay
            \/ /\ serveChunk /\ NextChunk(handedOut')
               /\ OnTheWay' \subseteq OnTheWay \union {handedOut'}
<1> DEFINE Goal == /\ Apart'
                   /\ \/ UNCHANGED handedOut /\ OnTheWay' \subseteq OnTheWay
                      \/ /\ serveChunk /\ NextChunk(handedOut')
                         /\ OnTheWay' \subseteq OnTheWay \union {handedOut'}
<1>1. CASE UNCHANGED <<answer, chunk, worker, handedOut>> /\ simdata' \subseteq simdata
  <2>1. OnTheWay' \subseteq OnTheWay
    BY <1>1, Places, PlacesNext
  <2>2. Apart'
    BY <1>1 DEF Apart
  <2> QED
    BY <1>1, <2>1, <2>2
<1>2. ASSUME NEW payload \in BOOLEAN, NEW c \in Chunk, reply(payload, c),
             payload => c \notin OnTheWay, UNCHANGED <<chunk, worker, simdata>>
      PROVE  /\ Apart' /\ OnTheWay' \subseteq OnTheWay \union {c}
             /\ ~payload => OnTheWay' \subseteq OnTheWay
  <2>1. CASE UNCHANGED answer
    BY <1>2, <2>1, Places, PlacesNext DEF Apart
  <2>2. CASE answer' = [answer EXCEPT ![server.worker] =
                          [serverstate |-> server.header, payload |-> payload, chunk |-> c]]
    <3> DEFINE a == [serverstate |-> server.header, payload |-> payload, chunk |-> c]
    <3>1. a.payload = payload /\ a.chunk = c
      OBVIOUS
    <3> HIDE DEF a
    <3>2. answer' = [answer EXCEPT ![server.worker] = a] /\ answer \in [Workers -> Answers]
      BY <2>2 DEF a, FlowInv
    <3>3. /\ \A w \in Workers : answer'[w] = IF w = server.worker THEN a ELSE answer[w]
      BY <3>2
    <3>4. payload => /\ \A w \in Workers : answer[w].payload => answer[w].chunk # c
                     /\ \A w \in Workers : worker[w] = "process" => chunk[w] # c
                     /\ c \notin simdata
      BY <1>2, Places
    <3>5. Apart'
      BY <1>2, <3>1, <3>3, <3>4 DEF Apart
    <3>6. \A d \in OnTheWay' : d \in OnTheWay \/ (payload /\ d = c)
      BY <1>2, <3>1, <3>3, Places, PlacesNext
    <3> QED
      BY <3>5, <3>6
  <2> QED
    BY <1>2, <2>1, <2>2 DEF reply
<1>3. CASE serverMain
  <2>0. UNCHANGED <<chunk, worker, simdata>>
    BY <1>3 DEF serverMain, mergerVars, others, workerVars
  <2>1. CASE serveChunk
    <3>1. NextChunk(handedOut') /\ reply(TRUE, handedOut')
      BY <2>1, ServesNext
    <3>2. handedOut' \in Chunk /\ handedOut \in Chunk
      BY <3>1 DEF NextChunk, Belongs, ServerInv, ServerTypes
    <3>3. handedOut' \notin OnTheWay
      BY <3>1, <3>2, NextIsNew
    <3> QED
      BY <1>2, <2>0, <2>1, <3>1, <3>2, <3>3
  <2>2. CASE refuse
    <3>1. NoChunk \in Chunk
      BY DEF NoChunk, Chunk
    <3>2. reply(FALSE, NoChunk) /\ UNCHANGED handedOut
      BY <2>2 DEF refuse
    <3>3. Apart' /\ OnTheWay' \subseteq OnTheWay
      BY <1>2, <2>0, <3>1, <3>2
    <3> QED
      BY <3>2, <3>3
  <2>3. CASE ~serveChunk /\ ~refuse
    <3>1. UNCHANGED <<answer, handedOut>>
      BY <1>3, <2>3 DEF serverMain, mainThread, conditionalRun, loadControl, restartControl, receiveRequest,
                        checkCounters, loadReady, loadWaiting, makeHeader, joinGenerator,
                        startEvent, conclude, return, postRun, allButServer, channels, history
    <3> QED
      BY <1>1, <2>0, <3>1
  <2> QED
    BY <2>1, <2>2, <2>3
<1>4. CASE serverGenerator \/ serverControl \/ serverTerminated \/ serverInfo
  BY <1>1, <1>4 DEF serverGenerator, serverControl, serverTerminated, serverInfo,
                    generatorThread, startGeneration, endGeneration, controlThread, controlStart,
                    controlCheck, controlReceive, reInit, initGenerator, controlGenerate,
                    controlLeave, receiveInterrupted, allowShutdown, infoThreadStops, channels,
                    history, mergerVars, others, workerVars
<1>5. ASSUME NEW w \in Workers, workerStep(w) PROVE Goal
  <2>0. UNCHANGED handedOut
    BY <1>5 DEF workerStep, askForWork, getAnswer, processChunk, leaveKernel, workerControlInput,
                serverVars, history
  <2>1. CASE askForWork(w) \/ leaveKernel(w) \/ workerControlInput(w)
    <3>1. /\ UNCHANGED <<answer, chunk, simdata>>
          /\ \A v \in Workers : worker'[v] = "process" => worker[v] = "process"
      BY <2>1 DEF askForWork, leaveKernel, workerControlInput, WorkerGoto, serverVars, channels,
                  mergerVars, FlowInv
    <3>2. OnTheWay' \subseteq OnTheWay
      BY <3>1, Places, PlacesNext
    <3>3. Apart'
      BY <3>1 DEF Apart
    <3> QED
      BY <2>0, <3>2, <3>3
  <2>2. CASE getAnswer(w)
    <3>1. /\ \A v \in Workers \ {w} : answer'[v] = answer[v] /\ chunk'[v] = chunk[v]
                                     /\ worker'[v] = worker[v]
          /\ answer'[w] = NoAnswer /\ chunk'[w] = answer[w].chunk
          /\ worker'[w] = "process" => answer[w].payload
          /\ simdata' = simdata
      BY <2>2 DEF getAnswer, WorkerGoto, mergerVars, FlowInv, Answers
    <3>2. ~NoAnswer.payload
      BY DEF NoAnswer
    <3>3. OnTheWay' \subseteq OnTheWay
      BY <3>1, <3>2, Places, PlacesNext
    <3>4. Apart'
      BY <3>1, <3>2 DEF Apart
    <3> QED
      BY <2>0, <3>3, <3>4
  <2>3. CASE processChunk(w)
    <3>1. /\ worker[w] = "process" /\ simdata' = simdata \union {chunk[w]}
          /\ \A v \in Workers \ {w} : worker'[v] = worker[v] /\ chunk'[v] = chunk[v]
          /\ worker'[w] # "process"
          /\ UNCHANGED answer
      BY <2>3 DEF processChunk, WorkerGoto, FlowInv, serverVars, channels
    <3>2. OnTheWay' \subseteq OnTheWay
      BY <3>1, Places, PlacesNext
    <3>3. Apart'
      BY <3>1 DEF Apart
    <3> QED
      BY <2>0, <3>2, <3>3
  <2> QED
    BY <1>5, <2>1, <2>2, <2>3 DEF workerStep
<1>6. ASSUME NEW w \in Workers, crash(w) PROVE Goal
  <2>1. /\ UNCHANGED <<answer, chunk, simdata, handedOut>>
        /\ \A v \in Workers : worker'[v] # "process"
    BY <1>6 DEF crash, serverVars, channels, history, mergerVars
  <2>2. OnTheWay' \subseteq OnTheWay
    BY <2>1, Places, PlacesNext
  <2>3. Apart'
    BY <2>1 DEF Apart
  <2> QED
    BY <2>1, <2>2, <2>3
<1>7. CASE mergerStep
  <2>1. simdata' \subseteq simdata
    BY <1>7 DEF mergerStep, mergerMain, collect, launchMerge, startMerge, countEvent,
                startLastMerge, awaitLastMerge, reportEvent, concludeData, mergerSubscribes,
                mergerControlInput, mergerReInit, collected
  <2> QED
    BY <1>1, <1>7, <2>1 DEF mergerStep, serverVars, channels, history, workerVars
<1>8. CASE mergerIO \/ mergerKilled
  BY <1>1, <1>8 DEF mergerIO, mergerKilled, mergerIOThread, mergeStart, flushEvent, flushEnds,
                    writeFiles, mergeEnd, collected, serverVars, channels, history, others,
                    workerVars
<1>9. CASE driverStep \/ controlRequest
  BY <1>1, <1>9 DEF driverStep, eventFinished, childFailed, mergerReturned, controlRequest,
                    driverRest, collected, serverVars, channels, history, workerVars, mergerVars
<1>10. CASE UNCHANGED vars
  BY <1>1, <1>10 DEF vars, serverVars, channels, history, workerVars, mergerVars
<1> QED
  BY <1>3, <1>4, <1>5, <1>6, <1>7, <1>8, <1>9, <1>10 DEF Next

(***************************************************************************)
(* What the merger has collected of the last batch, and counted.           *)
(***************************************************************************)

\* The checksums of the parts of an event and of the events of a batch fit.
WordsSuffice ==
  /\ \A n \in 1 .. MaxParts : n * (n + 1) < Word
  /\ \A b \in 1 .. Len(Batches) : Batches[b] * (Batches[b] + 1) < Word

\* The merger works on the last batch; else it waits for the next one or has
\* ended.
Current ==
  \/ merger.at \in {"receive", "launch", "join", "count", "joinLast", "awaitLast", "report"}
  \/ merger.at = "return" /\ merger.more

buffered == UNION {mSubEventInfoBuffer[e] : e \in EventIDs}

Live == OnTheWay \union (IF Current THEN buffered ELSE {})

LiveInv ==
  /\ \A c \in Live : Issued(c)
  /\ \A c, d \in Live : c.event = d.event => c.nparts = d.nparts

parts(S) == {c.part : c \in S}

Whole(S) == S # {} /\ \A c \in S : parts(S) = 1 .. c.nparts

CollectInv ==
  Current =>
    /\ \A c \in OnTheWay :
         c.event \notin mFlushableEvents /\ c \notin mSubEventInfoBuffer[c.event]
    /\ mNExpectedEvents = gAskedEvents
    /\ gAskedEvents = 0 => published = Len(Batches) + 1
    /\ mFlushableEvents \subseteq 1 .. gAskedEvents
    /\ 1 .. mNextFlushID - 1 \subseteq mFlushableEvents
    /\ mPartsCheckSum \in [EventIDs -> Nat]
    /\ \A e \in EventIDs \ mFlushableEvents :
         mPartsCheckSum[e] = Total(parts(mSubEventInfoBuffer[e]))
    /\ \A e \in mFlushableEvents :
         /\ Served(e)
         /\ e >= mNextFlushID => Whole(mSubEventInfoBuffer[e])
         /\ e < mNextFlushID => mSubEventInfoBuffer[e] = {}
    /\ \A i \in 1 .. Len(mOutTree) : \A c \in mOutTree[i] : c.batch = published

\* The event that was completed last, until it is counted and reported.
Uncounted == IF merger.at \in {"launch", "join", "count"} THEN {merger.event} ELSE {}
Unreported == IF merger.at \in {"launch", "join", "count", "joinLast", "awaitLast", "report"}
                THEN {merger.event} ELSE {}
Counted == mFlushableEvents \ Uncounted

AllHere ==
  merger.at \in {"joinLast", "awaitLast"} \/ (merger.at = "report" /\ ~merger.more)

CountInv ==
  Current =>
    /\ Unreported \subseteq mFlushableEvents
    /\ mEventChecksum = Total(Counted)
    /\ gFinishedEvents + Len(mPipeToDriver) = Cardinality(mFlushableEvents \ Unreported)
    /\ Unreported # {} => merger.maxEvents = gAskedEvents
    /\ AllHere => mFlushableEvents = 1 .. gAskedEvents
    /\ ~AllHere => gAskedEvents = 0 \/ Counted # 1 .. gAskedEvents

\* The merge thread.
WriteInv ==
  /\ mMergerIOThread \in {"none", "start", "first", "flush", "write", "leave", "ended"}
  /\ mMergerIOThread \notin {"flush", "write"} => mOutFile = Len(mOutTree)
  /\ mOutFile \in Nat /\ mOutFile <= Len(mOutTree)
  /\ merger.at = "awaitLast" /\ mMergerIOThread \notin {"start", "first", "flush"}
       => mNextFlushID = gAskedEvents + 1

\* The control messages for the merger.
InboxInv ==
  /\ DOMAIN inbox = Listeners
  /\ "merger" \in subscribed => merger.at \in {"listen", "killed"}
  /\ merger.at \notin {"listen", "killed"} => inbox["merger"] = <<>>
  /\ merger.at = "listen" /\ inbox["merger"] # <<>> =>
       /\ inbox["merger"] = <<Reconfig(published)>> /\ published > 1
       /\ gFinishedEvents = 0 /\ mPipeToDriver = <<>>

\* The merger has reached the end of a batch and not begun another.
Over == ~merger.more /\ merger.at # "receive" /\ (AsService => merger.at # "killed")

MergerAt == {"receive", "launch", "join", "count", "joinLast", "awaitLast", "report", "return",
             "await", "listen", "stopped", "killed"}

RestInv ==
  /\ merger \in [at : MergerAt, event : Nat, maxEvents : Nat, more : BOOLEAN]
  /\ Over => /\ mNextFlushID = merger.maxEvents + 1
             /\ mOutFile = Len(mOutTree)
             /\ \A e \in EventIDs : mSubEventInfoBuffer[e] = {}
             /\ mMergerIOThread = "none"
             /\ ~AsService => merger.maxEvents = gAskedEvents
  /\ merger.at \in {"launch", "join", "count", "joinLast", "awaitLast"} => merger.more
  /\ merger.at \in {"await", "listen"} => AsService
  /\ merger.at \in {"await", "listen"} /\ merger.more =>
       cleared /\ mNExpectedEvents = 0 /\ mMergerIOThread = "none"
  /\ merger.at = "receive" /\ ~AsService => merger.more
  /\ merger.at = "stopped" => ~merger.more

\* The merge thread runs only while the merger works on a batch.
LEMMA MergesCurrent ==
  ASSUME RestInv, mergerAlive, ~Current
  PROVE  mMergerIOThread = "none"
BY DEF RestInv, mergerAlive, Current, Over, MergerAt

\* The driver does not accept a batch while the merger works on one.
LEMMA NoneCurrentAtRequest ==
  ASSUME SupplyInv, DriverInv, CollectInv, CountInv, controlRequest
  PROVE  ~Current
<1> SUFFICES ASSUME Current PROVE FALSE
  OBVIOUS
<1>0. Len(Batches) \in Nat
  BY BatchesAssumption
<1>1. gFinishedEvents = gAskedEvents /\ published <= Len(Batches) /\ gAskedEvents \in Nat
      /\ published \in Nat
  BY <1>0, AskedType DEF controlRequest, isBusy, SupplyInv
<1>2. gAskedEvents # 0
  BY <1>0, <1>1 DEF CollectInv
<1> DEFINE S == mFlushableEvents \ Unreported
<1>3. Cardinality(S) = gAskedEvents + Len(mPipeToDriver) /\ Len(mPipeToDriver) \in Nat
  BY <1>1 DEF CountInv, DriverInv
<1>4. IsFiniteSet(1 .. gAskedEvents) /\ Cardinality(1 .. gAskedEvents) = gAskedEvents
  BY <1>1, FS_Interval
<1>5. S \subseteq 1 .. gAskedEvents
  BY DEF CollectInv
<1>6. S = 1 .. gAskedEvents
  <2> HIDE DEF S
  <2>1. Cardinality(S) <= gAskedEvents /\ (Cardinality(S) = gAskedEvents => S = 1 .. gAskedEvents)
    BY <1>4, <1>5, FS_Subset
  <2>2. Cardinality(S) = gAskedEvents
    BY <1>1, <1>3, <2>1
  <2> QED
    BY <2>1, <2>2
<1>7. Unreported = {}
  BY <1>5, <1>6 DEF CountInv, CollectInv
<1>8. ~AllHere /\ Counted = 1 .. gAskedEvents
  BY <1>6, <1>7 DEF Unreported, AllHere, Counted, Uncounted
<1> QED
  BY <1>2, <1>8 DEF CountInv

\* What a step of the server or of a worker leaves alone.
mergerState == <<checksums, mSubEventInfoBuffer, mFlushableEvents, mNextFlushID, mNExpectedEvents,
                 ioThread, output, mPipeToDriver, merger>>

Elsewhere ==
  /\ UNCHANGED <<mergerState, driverVars>>
  /\ DOMAIN inbox = Listeners => DOMAIN inbox' = Listeners
  /\ inbox'["merger"] = inbox["merger"]
  /\ "merger" \in subscribed' <=> "merger" \in subscribed

\* A step of the server or of a worker leaves the merger and the driver alone.
LEMMA StepCases ==
  ASSUME [Next]_vars
  PROVE  \/ Elsewhere \/ mergerStep \/ mergerIO \/ mergerKilled
         \/ eventFinished \/ childFailed \/ mergerReturned \/ controlRequest
<1>1. CASE serverMain \/ serverGenerator \/ serverControl \/ serverTerminated \/ serverInfo
  BY <1>1 DEF serverMain, serverGenerator, serverControl, serverTerminated, serverInfo, Elsewhere,
              mergerState, mergerVars, others, driverVars, pubsub
<1>2. ASSUME NEW w \in Workers, workerStep(w) \/ crash(w) PROVE Elsewhere
  <2>1. w # "merger"
    BY WorkersAssumption
  <2>2. CASE workerControlInput(w)
    BY <2>1, <2>2 DEF workerControlInput, Elsewhere, mergerState, mergerVars, driverVars
  <2>3. CASE leaveKernel(w)
    BY <2>1, <2>3 DEF leaveKernel, Elsewhere, mergerState, mergerVars, driverVars
  <2>4. CASE ~workerControlInput(w) /\ ~leaveKernel(w)
    BY <1>2, <2>4 DEF workerStep, crash, askForWork, getAnswer, processChunk, Elsewhere,
                      mergerState, mergerVars, driverVars, pubsub
  <2> QED
    BY <2>2, <2>3, <2>4
<1>3. CASE UNCHANGED vars
  BY <1>3 DEF vars, Elsewhere, mergerState, mergerVars, driverVars, pubsub
<1> QED
  BY <1>1, <1>2, <1>3 DEF Next, driverStep

\* Only a request of the driver's user changes what is asked for.
LEMMA SameBatch ==
  ASSUME [Next]_vars, ~controlRequest
  PROVE  UNCHANGED <<published, gAskedEvents>>
BY StepCases DEF Elsewhere, driverVars, mergerStep, mergerIO, mergerKilled, others, eventFinished,
                 childFailed, mergerReturned

\* What has been handed out stays so.
LEMMA IssuedStays ==
  ASSUME handedOut \in Chunk, UNCHANGED <<published, gAskedEvents>>,
         UNCHANGED handedOut \/ NextChunk(handedOut')
  PROVE  /\ \A c : Issued(c) => Issued(c)'
         /\ \A e \in Nat : Served(e) => Served(e)'
         /\ \A c : NextChunk(c) /\ c = handedOut' => Issued(c)'
<1>1. \A c : Belongs(c) => Belongs(c)'
  BY DEF Belongs
<1>2. handedOut.event \in Nat /\ handedOut.part \in Nat /\ handedOut.nparts \in Nat
      /\ handedOut.batch \in Nat
  BY DEF Chunk
<1>3. CASE UNCHANGED handedOut
  <2>1. ~NextChunk(handedOut)
    BY <1>2 DEF NextChunk, Belongs
  <2>2. \A c : Issued(c) => Issued(c)'
    BY <1>1, <1>3 DEF Issued
  <2>3. \A e \in Nat : Served(e) => Served(e)'
    BY <1>3 DEF Served
  <2> QED
    BY <1>3, <2>1, <2>2, <2>3
<1>4. CASE NextChunk(handedOut')
  <2>1. /\ Belongs(handedOut') /\ handedOut' \in Chunk /\ handedOut'.batch = published
        /\ handedOut'.event \in Nat /\ handedOut'.part \in Nat /\ handedOut'.nparts \in Nat
    BY <1>4 DEF NextChunk, Belongs, Chunk
  <2>2. ASSUME NEW c, c = handedOut' PROVE Issued(c)'
    BY <1>1, <2>1, <2>2 DEF Issued
  <2>3. ASSUME NEW c, Issued(c) PROVE Issued(c)'
    <3>1. c.event \in Nat /\ c.part \in Nat /\ c.nparts \in Nat
      BY <2>3 DEF Issued, Belongs, Chunk
    <3>2. /\ handedOut.batch = published
          /\ \/ c.event < handedOut.event
             \/ c.event = handedOut.event /\ c.part <= handedOut.part /\ c.nparts = handedOut.nparts
      BY <2>3 DEF Issued
    <3>3. \/ /\ handedOut.event = handedOut'.event
             /\ handedOut'.part = handedOut.part + 1 /\ handedOut'.nparts = handedOut.nparts
          \/ handedOut'.event = handedOut.event + 1
      BY <1>2, <1>4, <3>2 DEF NextChunk
    <3>4. \/ c.event < handedOut'.event
          \/ c.event = handedOut'.event /\ c.part <= handedOut'.part /\ c.nparts = handedOut'.nparts
      BY <1>2, <2>1, <3>1, <3>2, <3>3
    <3> QED
      BY <1>1, <2>1, <2>3, <3>4 DEF Issued
  <2>4. ASSUME NEW e \in Nat, Served(e) PROVE Served(e)'
    <3>1. \/ /\ handedOut.event = handedOut'.event /\ handedOut.part < handedOut.nparts
          \/ handedOut'.event = handedOut.event + 1
      BY <1>2, <1>4, <2>4 DEF NextChunk, Served
    <3>2. e < handedOut'.event
      BY <1>2, <2>1, <2>4, <3>1 DEF Served
    <3> QED
      BY <2>1, <3>2 DEF Served
  <2> QED
    BY <2>2, <2>3, <2>4
<1> QED
  BY <1>3, <1>4

\* The chunks of an event agree on how many there are.
LEMMA NextAgrees ==
  ASSUME handedOut \in Chunk, NEW d, NextChunk(d), NEW c, Issued(c), c.event = d.event
  PROVE  c.nparts = d.nparts
<1>1. /\ handedOut.event \in Nat /\ handedOut.batch \in Nat /\ c.event \in Nat /\ d.event \in Nat
  BY DEF Issued, Belongs, Chunk, NextChunk
<1> QED
  BY <1>1 DEF Issued, NextChunk

\* A request finds nothing on its way and nothing of the last batch collected.
LEMMA NoneLiveAtRequest ==
  ASSUME ServerInv, ControlInv, SupplyInv, DriverInv, NonEmptyBatches, CollectInv, CountInv,
         LiveInv, controlRequest
  PROVE  Live = {} /\ OnTheWay = {} /\ ~Current
<1>1. ~Current
  BY NoneCurrentAtRequest
<1>2. Live = OnTheWay
  BY <1>1 DEF Live
<1>3. OnTheWay = {}
  <2>1. CASE gAskedEvents = 0
    <3> SUFFICES ASSUME NEW c \in OnTheWay PROVE FALSE
      OBVIOUS
    <3>1. Issued(c)
      BY <1>2 DEF LiveInv
    <3> QED
      BY <2>1, <3>1 DEF Issued, Belongs
  <2> QED
    BY <2>1, RequestFindsServed
<1> QED
  BY <1>1, <1>2, <1>3

\* What the merger holds of the last batch was on its way.
LEMMA BufferStep ==
  ASSUME RestInv, MergeInv, FlowInv, [Next]_vars, Current'
  PROVE  buffered' \subseteq Live
<1>0. UNCHANGED mSubEventInfoBuffer /\ Current => buffered' \subseteq Live
  BY DEF buffered, Live
<1>a. (\A e \in EventIDs : mSubEventInfoBuffer'[e] = {}) => buffered' \subseteq Live
  BY DEF buffered
<1>1. CASE Elsewhere \/ eventFinished \/ childFailed \/ mergerReturned \/ controlRequest
  <2>1. UNCHANGED <<mSubEventInfoBuffer, merger>>
    BY <1>1 DEF Elsewhere, mergerState, eventFinished, childFailed, mergerReturned, controlRequest,
                mergerVars, collected
  <2> QED
    BY <1>0, <2>1 DEF Current
<1>2. CASE mergerKilled
  <2>1. merger'.at = "killed"
    BY <1>2 DEF mergerKilled, MergerGoto, RestInv
  <2> QED
    BY <2>1 DEF Current
<1>3. CASE mergerIO
  <2>1. Current
    BY <1>3 DEF mergerIO, mergerIOThread, mergeStart, flushEvent, flushEnds, writeFiles, mergeEnd,
                Current
  <2>2. CASE flushEvent
    <3>1. \A e \in EventIDs : mSubEventInfoBuffer'[e] \subseteq mSubEventInfoBuffer[e]
      BY <2>2 DEF flushEvent, MergeInv
    <3> QED
      BY <2>1, <3>1 DEF buffered, Live
  <2>3. CASE ~flushEvent
    BY <1>0, <1>3, <2>1, <2>3 DEF mergerIO, mergerIOThread, mergeStart, flushEnds, writeFiles,
                                  mergeEnd, collected
  <2> QED
    BY <2>2, <2>3
<1>4. CASE mergerStep
  <2>0. merger \in [at : MergerAt, event : Nat, maxEvents : Nat, more : BOOLEAN]
    BY DEF RestInv
  <2>1. ASSUME NEW c \in simdata, collect(c) PROVE buffered' \subseteq Live
    <3>1. Current /\ c \in OnTheWay /\ c.event \in EventIDs
      BY <2>1 DEF collect, Current, OnTheWay, FlowInv, EventChunks
    <3>2. \A e \in EventIDs : mSubEventInfoBuffer'[e] \subseteq mSubEventInfoBuffer[e] \union {c}
      BY <2>1, <3>1 DEF collect, MergeInv
    <3> QED
      BY <3>1, <3>2 DEF buffered, Live
  <2>2. CASE launchMerge \/ startMerge \/ countEvent \/ startLastMerge \/ awaitLastMerge
               \/ reportEvent \/ concludeData(AsService)
    <3>1. Current
      BY <2>0, <2>2 DEF launchMerge, startMerge, countEvent, startLastMerge, awaitLastMerge,
                  reportEvent, concludeData, Current, MergerGoto, MergerAt
    <3>2. UNCHANGED mSubEventInfoBuffer
      BY <2>2 DEF launchMerge, startMerge, countEvent, startLastMerge, awaitLastMerge,
                  reportEvent, concludeData, collected
    <3> QED
      BY <1>0, <3>1, <3>2
  <2>3. CASE mergerSubscribes
    BY <2>0, <2>3 DEF mergerSubscribes, MergerGoto, Current
  <2>4. CASE mergerControlInput
    <3> DEFINE r == Head(inbox["merger"])
    <3>1. mergerReInit(r)
      BY <2>4 DEF mergerControlInput
    <3> HIDE DEF r
    <3>2. CASE ~r.stop
      BY <1>a, <3>1, <3>2 DEF mergerReInit
    <3>3. CASE r.stop
      <4>1. merger.more /\ merger.at = "listen" /\ UNCHANGED mSubEventInfoBuffer
        BY <2>0, <3>1, <3>3 DEF mergerReInit, MergerGoto, Current
      <4>2. mSubEventInfoBuffer = [e \in EventIDs |-> {}]
        BY <4>1 DEF RestInv, cleared
      <4> QED
        BY <1>a, <4>1, <4>2
    <3> QED
      BY <3>2, <3>3
  <2> QED
    BY <1>4, <2>1, <2>2, <2>3, <2>4 DEF mergerStep, mergerMain
<1> QED
  BY <1>1, <1>2, <1>3, <1>4, StepCases

\* LiveInv is kept.
LEMMA LiveStep ==
  ASSUME ServerInv, ControlInv, SupplyInv, DriverInv, NonEmptyBatches, CollectInv, CountInv,
         LiveInv, RestInv, MergeInv, FlowInv, Apart, [Next]_vars
  PROVE  LiveInv'
<1>0. handedOut \in Chunk
  BY DEF ServerInv, ServerTypes
<1>1. OnTheWay \subseteq Live
  BY DEF Live
<1>2. /\ \/ UNCHANGED handedOut /\ OnTheWay' \subseteq OnTheWay
         \/ /\ serveChunk /\ NextChunk(handedOut')
            /\ OnTheWay' \subseteq OnTheWay \union {handedOut'}
  BY <1>1, WayStep DEF LiveInv
<1>3. Live' \subseteq OnTheWay' \union Live
  BY BufferStep DEF Live
<1>4. CASE controlRequest
  <2>1. Live = {} /\ OnTheWay = {}
    BY <1>4, NoneLiveAtRequest
  <2>2. OnTheWay' = {}
    <3>1. UNCHANGED <<simdata, answer, chunk, worker>>
      BY <1>4 DEF controlRequest, channels, mergerVars, workerVars
    <3> QED
      BY <2>1, <3>1 DEF OnTheWay
  <2>3. Live' = {}
    BY <1>3, <2>1, <2>2
  <2> QED
    BY <2>3 DEF LiveInv
<1>5. CASE ~controlRequest
  <2>1. UNCHANGED <<published, gAskedEvents>>
    BY <1>5, SameBatch
  <2>2. CASE UNCHANGED handedOut /\ OnTheWay' \subseteq OnTheWay
    <3>1. Live' \subseteq Live
      BY <1>1, <1>3, <2>2
    <3>2. \A c \in Live' : Issued(c)'
      BY <1>0, <2>1, <2>2, <3>1, IssuedStays DEF LiveInv
    <3> QED
      BY <3>1, <3>2 DEF LiveInv
  <2>3. CASE NextChunk(handedOut') /\ OnTheWay' \subseteq OnTheWay \union {handedOut'}
    <3>1. Live' \subseteq Live \union {handedOut'}
      BY <1>1, <1>3, <2>3
    <3>2. \A c \in Live' : Issued(c)'
      BY <1>0, <2>1, <2>3, <3>1, IssuedStays DEF LiveInv
    <3>3. \A c \in Live : c.event = handedOut'.event => c.nparts = handedOut'.nparts
      BY <1>0, <2>3, NextAgrees DEF LiveInv
    <3>4. \A c, d \in Live' : c.event = d.event => c.nparts = d.nparts
      BY <3>1, <3>3 DEF LiveInv
    <3> QED
      BY <3>2, <3>4 DEF LiveInv
  <2> QED
    BY <1>2, <2>2, <2>3
<1> QED
  BY <1>4, <1>5

\* The events of a batch are events that the merger can account for.
LEMMA AskedIDs ==
  ASSUME SupplyInv
  PROVE  gAskedEvents \in Nat /\ 1 .. gAskedEvents \subseteq EventIDs
<1>1. gAskedEvents \in Nat /\ published \in Nat /\ Len(Batches) \in Nat /\ published >= 1
  BY AskedType, BatchesAssumption DEF SupplyInv
<1>2. gAskedEvents <= MaxEventID /\ MaxEventID \in Nat
  <2>1. CASE published <= Len(Batches)
    BY <1>1, <2>1, AskedType, EventsAssumption, MaxEventIDAssumption
  <2>2. CASE published > Len(Batches)
    BY <1>1, <2>2, AskedType, MaxEventIDAssumption
  <2> QED
    BY <1>1, <2>1, <2>2
<1> QED
  BY <1>1, <1>2 DEF EventIDs

\* InitTask and ReInit leave nothing of another batch.
LEMMA CollectCleared ==
  ASSUME cleared, SupplyInv, LiveInv, mNExpectedEvents = gAskedEvents,
         gAskedEvents = 0 => published = Len(Batches) + 1
  PROVE  CollectInv
<1>1. 1 .. gAskedEvents \subseteq EventIDs
  BY AskedIDs
<1>2. \A c \in OnTheWay : c.event \in EventIDs
  BY <1>1 DEF LiveInv, Live, Issued, Belongs
<1>3. \A e \in EventIDs : mPartsCheckSum[e] = 0 /\ mSubEventInfoBuffer[e] = {}
  BY DEF cleared
<1>4. \A c \in OnTheWay : c.event \notin mFlushableEvents /\ c \notin mSubEventInfoBuffer[c.event]
  BY <1>2, <1>3 DEF cleared
<1>5. parts({}) = {}
  BY DEF parts
<1>6. \A e \in EventIDs : mPartsCheckSum[e] = Total(parts(mSubEventInfoBuffer[e]))
  BY <1>3, <1>5, TotalOfNone
<1>7. /\ mPartsCheckSum \in [EventIDs -> Nat] /\ mFlushableEvents = {} /\ mNextFlushID = 1
      /\ mOutTree = <<>>
  BY DEF cleared
<1>8. Len(mOutTree) = 0 /\ 1 .. mNextFlushID - 1 = {}
  BY <1>7
<1> QED
  BY <1>4, <1>6, <1>7, <1>8 DEF CollectInv

\* Steps in which the merger does not touch its containers.
LEMMA CollectWay ==
  ASSUME CollectInv, LiveInv, SupplyInv, handedOut \in Chunk,
         UNCHANGED <<mPartsCheckSum, mSubEventInfoBuffer, mFlushableEvents, mNextFlushID,
                     mNExpectedEvents, mOutTree, published, gAskedEvents>>,
         Current' => Current,
         \/ UNCHANGED handedOut /\ OnTheWay' \subseteq OnTheWay
         \/ NextChunk(handedOut') /\ OnTheWay' \subseteq OnTheWay \union {handedOut'}
  PROVE  CollectInv'
<1> SUFFICES ASSUME Current' PROVE CollectInv'
  BY DEF CollectInv
<1>0. Current
  OBVIOUS
<1>1. ASSUME NextChunk(handedOut')
      PROVE  /\ handedOut'.event \notin mFlushableEvents
             /\ handedOut' \notin mSubEventInfoBuffer[handedOut'.event]
  <2>1. /\ handedOut'.event \in 1 .. gAskedEvents /\ handedOut'.event \in Nat
        /\ handedOut.event \in Nat /\ handedOut.batch \in Nat /\ published \in Nat
        /\ handedOut.part \in Nat /\ handedOut.nparts \in Nat
    BY <1>1, AskedType DEF NextChunk, Belongs, Chunk
  <2>2. ~Served(handedOut'.event)
    BY <1>1, <2>1 DEF Served, NextChunk
  <2>3. handedOut'.event \notin mFlushableEvents
    BY <1>0, <2>2 DEF CollectInv
  <2>4. handedOut'.event \in EventIDs
    BY <2>1, AskedIDs
  <2>5. ASSUME handedOut' \in mSubEventInfoBuffer[handedOut'.event] PROVE FALSE
    <3>1. handedOut' \in Live
      BY <1>0, <2>4, <2>5 DEF Live, buffered
    <3>2. Issued(handedOut')
      BY <3>1 DEF LiveInv
    <3> QED
      BY <1>1, <3>2, NextIsNew
  <2> QED
    BY <2>3, <2>5
<1>2. \A c \in OnTheWay' :
        c.event \notin mFlushableEvents' /\ c \notin mSubEventInfoBuffer'[c.event]
  BY <1>0, <1>1 DEF CollectInv
<1>3. \A e \in mFlushableEvents : Served(e)'
  <2>1. \A e \in mFlushableEvents : e \in Nat /\ Served(e)
    BY <1>0, AskedType DEF CollectInv
  <2> QED
    BY <2>1, IssuedStays
<1> QED
  BY <1>0, <1>2, <1>3 DEF CollectInv

\* What has been collected of the event that a chunk belongs to.
LEMMA SoFar ==
  ASSUME CollectInv, LiveInv, SupplyInv, MergeInv, NEW c \in OnTheWay, Current,
         NEW S, S = mSubEventInfoBuffer[c.event] \union {c}
  PROVE  /\ c.event \in 1 .. gAskedEvents /\ c.event \in EventIDs /\ c.event \notin mFlushableEvents
         /\ \A d \in S : Issued(d) /\ d.event = c.event /\ d.nparts = c.nparts
         /\ \A x : Issued(x) /\ x.event = c.event /\ x.nparts = c.nparts => \A d \in S :
              d.part = x.part => d = x
         /\ parts(S) = parts(mSubEventInfoBuffer[c.event]) \union {c.part}
         /\ parts(S) \subseteq 1 .. c.nparts /\ c.nparts \in 1 .. MaxParts
         /\ c.part \in 1 .. c.nparts /\ c.part \notin parts(mSubEventInfoBuffer[c.event])
<1>1. Issued(c) /\ c \in Live
  BY DEF LiveInv, Live
<1>2. /\ c.event \in 1 .. gAskedEvents /\ c.event \in EventIDs
      /\ c.nparts \in 1 .. MaxParts /\ c.part \in 1 .. c.nparts
  BY <1>1, AskedIDs DEF Issued, Belongs
<1>3. c.event \notin mFlushableEvents /\ c \notin mSubEventInfoBuffer[c.event]
  BY DEF CollectInv
<1>4. \A d \in S : d \in Live /\ d.event = c.event
  <2>1. mSubEventInfoBuffer[c.event] \subseteq Live
    BY <1>2 DEF Live, buffered
  <2>2. \A d \in mSubEventInfoBuffer[c.event] : d.event = c.event
    BY <1>2 DEF MergeInv
  <2> QED
    BY <1>1, <2>1, <2>2
<1>5. \A d \in S : Issued(d) /\ d.event = c.event /\ d.nparts = c.nparts
  BY <1>1, <1>4 DEF LiveInv
<1>6. ASSUME NEW x, Issued(x), x.event = c.event, x.nparts = c.nparts,
             NEW d \in S, d.part = x.part
      PROVE  d = x
  <2>1. /\ x \in Chunk /\ d \in Chunk /\ x.batch = d.batch /\ x.maxEvents = d.maxEvents
        /\ x.event = d.event /\ x.nparts = d.nparts
    BY <1>5, <1>6 DEF Issued, Belongs
  <2> QED
    BY <1>6, <2>1 DEF Chunk
<1>7. parts(S) = parts(mSubEventInfoBuffer[c.event]) \union {c.part}
  BY DEF parts
<1>8. parts(S) \subseteq 1 .. c.nparts
  <2>1. \A d \in S : d.part \in 1 .. c.nparts
    BY <1>5 DEF Issued, Belongs
  <2> QED
    BY <2>1 DEF parts
<1>9. c.part \notin parts(mSubEventInfoBuffer[c.event])
  <2> SUFFICES ASSUME NEW d \in mSubEventInfoBuffer[c.event], d.part = c.part PROVE FALSE
    BY DEF parts
  <2>1. d = c
    BY <1>1, <1>6
  <2> QED
    BY <1>3, <2>1
<1> QED
  BY <1>2, <1>3, <1>5, <1>6, <1>7, <1>8, <1>9

\* The checksum of the parts after one more.
LEMMA SumSoFar ==
  ASSUME CollectInv, LiveInv, SupplyInv, MergeInv, WordsSuffice, NEW c \in OnTheWay, Current,
         NEW S, S = mSubEventInfoBuffer[c.event] \union {c}
  PROVE  /\ (mPartsCheckSum[c.event] + c.part) % Word = Total(parts(S)) /\ Total(parts(S)) \in Nat
         /\ isDataComplete(Total(parts(S)), c.nparts) <=> parts(S) = 1 .. c.nparts
<1> DEFINE P == parts(mSubEventInfoBuffer[c.event])
           n == c.nparts
           k == c.part
           T == parts(S)
<1>1. /\ c.event \in EventIDs /\ c.event \notin mFlushableEvents
      /\ T = P \union {k} /\ T \subseteq 1 .. n /\ n \in 1 .. MaxParts /\ k \in 1 .. n /\ k \notin P
  BY SoFar
<1>2. mPartsCheckSum[c.event] = Total(P)
  BY <1>1 DEF CollectInv
<1> HIDE DEF P, n, k, T
<1>3. n \in Nat /\ n * (n + 1) < Word
  BY <1>1, MaxPartsAssumption DEF WordsSuffice
<1>4. IsFiniteSet(1 .. n)
  BY <1>3, FS_Interval
<1>5. P \subseteq 1 .. n /\ P \subseteq Int /\ k \in Int
  BY <1>1, <1>3
<1>6. IsFiniteSet(P)
  BY <1>4, <1>5, FS_Subset
<1>7. Total(T) = Total(P) + k
  BY <1>1, <1>5, <1>6, TotalWith
<1>8. /\ Total(T) \in Nat /\ Total(T) < Word
      /\ isDataComplete(Total(T), n) <=> T = 1 .. n
  BY <1>1, <1>3, Checksum
<1>9. Total(T) % Word = Total(T)
  BY <1>8, WordAssumption
<1> QED
  BY <1>2, <1>7, <1>8, <1>9 DEF P, n, k, T

\* All parts of an event have been collected: all have been handed out.
LEMMA WholeIsServed ==
  ASSUME SupplyInv, handedOut \in Chunk, NEW x, Issued(x), x.part = x.nparts
  PROVE  Served(x.event)
<1>1. /\ x.event \in Nat /\ x.part \in Nat /\ handedOut.part \in Nat /\ handedOut.nparts \in Nat
      /\ handedOut.part <= handedOut.nparts
  BY DEF Issued, Belongs, Chunk, SupplyInv
<1> QED
  BY <1>1 DEF Issued, Served

\* A chunk that has been collected is no longer on its way.
LEMMA CollectedIsOff ==
  ASSUME Apart, NEW c \in simdata, simdata' = simdata \ {c}, UNCHANGED <<answer, chunk, worker>>
  PROVE  OnTheWay' \subseteq OnTheWay \ {c}
<1> SUFFICES ASSUME NEW d \in OnTheWay' PROVE d \in OnTheWay /\ d # c
  OBVIOUS
<1>1. \/ \E w \in Workers : answer[w].payload /\ d = answer[w].chunk
      \/ \E w \in Workers : worker[w] = "process" /\ d = chunk[w]
      \/ d \in simdata \ {c}
  BY PlacesNext
<1>2. d \in OnTheWay
  BY <1>1, Places
<1>3. d # c
  BY <1>1 DEF Apart
<1> QED
  BY <1>2, <1>3

\* handleSimData.
LEMMA CollectCollects ==
  ASSUME CollectInv, LiveInv, SupplyInv, MergeInv, WordsSuffice, Apart, handedOut \in Chunk,
         NEW c \in simdata, collect(c),
         UNCHANGED <<answer, chunk, worker, handedOut, published, gAskedEvents>>
  PROVE  /\ CollectInv'
         /\ merger'.at = "launch" <=> mFlushableEvents' # mFlushableEvents
         /\ mFlushableEvents' = IF merger'.at = "launch" THEN mFlushableEvents \union {c.event}
                                                         ELSE mFlushableEvents
         /\ c.event \notin mFlushableEvents /\ c.event \in 1 .. gAskedEvents
         /\ c.maxEvents = gAskedEvents
<1> DEFINE e == c.event
           S == mSubEventInfoBuffer[e] \union {c}
           complete == parts(S) = 1 .. c.nparts
<1>0. Current /\ c \in OnTheWay
  BY DEF collect, Current, OnTheWay
<1>1. /\ e \in 1 .. gAskedEvents /\ e \in EventIDs /\ e \notin mFlushableEvents
      /\ \A d \in S : Issued(d) /\ d.event = e /\ d.nparts = c.nparts
      /\ \A x : Issued(x) /\ x.event = e /\ x.nparts = c.nparts => \A d \in S :
              d.part = x.part => d = x
      /\ c.nparts \in 1 .. MaxParts
  BY <1>0, SoFar
<1>2. /\ (mPartsCheckSum[e] + c.part) % Word = Total(parts(S)) /\ Total(parts(S)) \in Nat
      /\ isDataComplete(Total(parts(S)), c.nparts) <=> complete
  BY <1>0, SumSoFar
<1>3. mPartsCheckSum \in [EventIDs -> Nat] /\ mSubEventInfoBuffer \in [EventIDs -> SUBSET Chunk]
  BY <1>0 DEF CollectInv, MergeInv
<1>4. /\ mPartsCheckSum' = [mPartsCheckSum EXCEPT ![e] = Total(parts(S))]
      /\ mSubEventInfoBuffer' = [mSubEventInfoBuffer EXCEPT ![e] = S]
      /\ mFlushableEvents' = IF complete THEN mFlushableEvents \union {e} ELSE mFlushableEvents
      /\ merger'.at = IF complete THEN "launch" ELSE "return"
      /\ simdata' = simdata \ {c}
      /\ UNCHANGED <<mNextFlushID, mNExpectedEvents, mOutTree>>
  <2>1. insertAdd(mPartsCheckSum, e, c.part) = [mPartsCheckSum EXCEPT ![e] = Total(parts(S))]
    BY <1>1, <1>2, <1>3 DEF insertAdd
  <2>2. insertAdd(mPartsCheckSum, e, c.part)[e] = Total(parts(S))
    BY <1>1, <1>3, <2>1
  <2> QED
    BY <1>2, <2>1, <2>2 DEF collect, output
<1>5. OnTheWay' \subseteq OnTheWay \ {c}
  BY <1>4, CollectedIsOff
<1>6. /\ mPartsCheckSum'[e] = Total(parts(S)) /\ mSubEventInfoBuffer'[e] = S
      /\ \A f \in EventIDs \ {e} : /\ mPartsCheckSum'[f] = mPartsCheckSum[f]
                                   /\ mSubEventInfoBuffer'[f] = mSubEventInfoBuffer[f]
      /\ mPartsCheckSum' \in [EventIDs -> Nat]
  BY <1>1, <1>2, <1>3, <1>4
<1>7. \A d \in OnTheWay : Issued(d) /\ d.event \in EventIDs /\ (d.event = e => d.nparts = c.nparts)
  <2>1. \A d \in OnTheWay : d \in Live /\ Issued(d)
    BY DEF LiveInv, Live
  <2>2. \A d \in OnTheWay : d.event \in EventIDs
    BY <2>1, AskedIDs DEF Issued, Belongs
  <2> QED
    BY <1>0, <2>1, <2>2 DEF LiveInv
<1>8. ASSUME NEW d \in OnTheWay'
      PROVE  d.event \notin mFlushableEvents' /\ d \notin mSubEventInfoBuffer'[d.event]
  <2>1. d \in OnTheWay /\ d # c
    BY <1>5
  <2>2. d.event \notin mFlushableEvents /\ d \notin mSubEventInfoBuffer[d.event]
    BY <1>0, <2>1 DEF CollectInv
  <2>3. d.event = e => d \notin S
    BY <2>1, <2>2
  <2>4. ASSUME d.event = e, complete PROVE FALSE
    <3>1. d.part \in 1 .. c.nparts
      BY <1>7, <2>1, <2>4 DEF Issued, Belongs
    <3>2. PICK y \in S : y.part = d.part
      BY <2>4, <3>1 DEF parts
    <3>3. y = d
      BY <1>1, <1>7, <2>1, <2>4, <3>2
    <3> QED
      BY <2>3, <2>4, <3>2, <3>3
  <2> QED
    BY <1>4, <1>6, <1>7, <2>1, <2>2, <2>3, <2>4
<1>9. ASSUME complete PROVE Served(e) /\ Whole(S)
  <2>1. c.nparts \in 1 .. c.nparts
    BY <1>1, MaxPartsAssumption
  <2>2. PICK y \in S : y.part = c.nparts
    BY <1>9, <2>1 DEF parts
  <2>3. Served(y.event)
    BY <1>1, <2>2, WholeIsServed
  <2>4. Whole(S)
    BY <1>1, <1>9 DEF Whole
  <2> QED
    BY <1>1, <2>2, <2>3, <2>4
<1>10. /\ mFlushableEvents \subseteq 1 .. gAskedEvents
       /\ 1 .. mNextFlushID - 1 \subseteq mFlushableEvents
       /\ mFlushableEvents \subseteq EventIDs
  BY <1>0, AskedIDs DEF CollectInv
<1>11. e >= mNextFlushID
  BY <1>1, <1>10 DEF MergeInv, EventIDs
<1>12. ASSUME NEW f \in mFlushableEvents'
       PROVE  /\ Served(f)'
              /\ f >= mNextFlushID' => Whole(mSubEventInfoBuffer'[f])
              /\ f < mNextFlushID' => mSubEventInfoBuffer'[f] = {}
  <2>1. Served(f) => Served(f)'
    BY DEF Served
  <2>2. CASE f = e
    <3>1. complete
      BY <1>1, <1>4, <2>2
    <3>2. Served(e) /\ Whole(S)
      BY <1>9, <3>1
    <3>3. ~(f < mNextFlushID')
      BY <1>1, <1>4, <1>11, <2>2 DEF MergeInv, EventIDs
    <3> QED
      BY <1>6, <2>1, <2>2, <3>2, <3>3
  <2>3. CASE f # e
    <3>1. f \in mFlushableEvents /\ f \in EventIDs \ {e}
      BY <1>4, <1>10, <2>3
    <3> QED
      BY <1>0, <1>4, <1>6, <2>1, <3>1 DEF CollectInv
  <2> QED
    BY <2>2, <2>3
<1>13. \A f \in EventIDs \ mFlushableEvents' :
         mPartsCheckSum'[f] = Total(parts(mSubEventInfoBuffer'[f]))
  <2> TAKE f \in EventIDs \ mFlushableEvents'
  <2>1. f \notin mFlushableEvents
    BY <1>4
  <2> QED
    BY <1>0, <1>6, <2>1 DEF CollectInv
<1>14. mFlushableEvents' \subseteq 1 .. gAskedEvents
  BY <1>1, <1>4, <1>10
<1>15. 1 .. mNextFlushID' - 1 \subseteq mFlushableEvents'
  BY <1>4, <1>10
<1>16. CollectInv'
  <2>1. /\ mNExpectedEvents' = gAskedEvents' /\ (gAskedEvents' = 0 => published' = Len(Batches) + 1)
        /\ \A i \in 1 .. Len(mOutTree') : \A d \in mOutTree'[i] : d.batch = published'
    BY <1>0, <1>4 DEF CollectInv
  <2> QED
    BY <1>6, <1>8, <1>12, <1>13, <1>14, <1>15, <2>1 DEF CollectInv
<1>17. c.maxEvents = gAskedEvents
  BY <1>0, <1>7 DEF Issued, Belongs
<1> QED
  BY <1>1, <1>4, <1>16, <1>17

\* mergeAndFlushData.
LEMMA CollectFlushes ==
  ASSUME CollectInv, LiveInv, MergeInv, Current, flushEvent,
         UNCHANGED <<answer, chunk, worker, handedOut, published, gAskedEvents>>
  PROVE  /\ CollectInv' /\ (OnlyCompleteEvents => OnlyCompleteEvents')
         /\ mNExpectedEvents # 0 /\ mSubEventInfoBuffer[mNextFlushID] # {}
<1> DEFINE n == mNextFlushID
           b == mSubEventInfoBuffer
<1>1. /\ n \in mFlushableEvents /\ n \in EventIDs /\ n \in Nat \ {0} /\ n' = n + 1
      /\ b \in [EventIDs -> SUBSET Chunk]
  BY DEF flushEvent, isFlushable, MergeInv
<1>2. mFlushableEvents \subseteq 1 .. gAskedEvents /\ mNExpectedEvents = gAskedEvents
  BY DEF CollectInv
<1>3. gAskedEvents # 0 /\ mNExpectedEvents # 0
  BY <1>1, <1>2
<1>4. Whole(b[n])
  BY <1>1 DEF CollectInv
<1>5. /\ b' = [b EXCEPT ![n] = {}] /\ simdata' = simdata
      /\ UNCHANGED <<mFlushableEvents, mPartsCheckSum, mNExpectedEvents>>
      /\ mOutTree' = mOutTree \/ mOutTree' = Append(mOutTree, b[n])
  BY <1>3 DEF flushEvent, checksums
<1>6. b'[n] = {} /\ \A e \in EventIDs \ {n} : b'[e] = b[e]
  BY <1>1, <1>5
<1>7. OnTheWay' = OnTheWay /\ Current'
  <2>1. UNCHANGED merger
    BY DEF flushEvent
  <2> QED
    BY <1>5, <2>1 DEF OnTheWay, Current
<1>8. \A c \in OnTheWay : c \notin b[c.event] /\ c.event \notin mFlushableEvents
  BY DEF CollectInv
<1>9. \A c \in OnTheWay' : c.event \notin mFlushableEvents' /\ c \notin b'[c.event]
  <2> TAKE c \in OnTheWay'
  <2>1. c \notin b[c.event] /\ c.event \notin mFlushableEvents
    BY <1>7, <1>8
  <2>2. b'[c.event] = b[c.event]
    BY <1>1, <1>5, <2>1
  <2> QED
    BY <1>5, <2>1, <2>2
<1>10. \A c \in b[n] : c.batch = published
  <2>1. b[n] \subseteq Live
    BY <1>1 DEF Live, buffered
  <2> QED
    BY <2>1 DEF LiveInv, Issued, Belongs
<1>11. mOutTree \in Seq(SUBSET Chunk) /\ b[n] \in SUBSET Chunk
  BY <1>1 DEF MergeInv
<1>12. \A i \in 1 .. Len(mOutTree') : \/ i \in 1 .. Len(mOutTree) /\ mOutTree'[i] = mOutTree[i]
                                      \/ mOutTree'[i] = b[n]
  BY <1>5, <1>11
<1>13. \A i \in 1 .. Len(mOutTree') : \A c \in mOutTree'[i] : c.batch = published'
  BY <1>10, <1>12 DEF CollectInv
<1>14. \A e \in mFlushableEvents' :
         /\ Served(e)'
         /\ e >= n' => Whole(b'[e])
         /\ e < n' => b'[e] = {}
  <2> TAKE e \in mFlushableEvents'
  <2>1. e \in mFlushableEvents /\ e \in EventIDs /\ e \in Nat
    BY <1>5 DEF MergeInv, EventIDs
  <2>2. Served(e)'
    BY <2>1 DEF CollectInv, Served
  <2>3. CASE e = n
    BY <1>1, <1>6, <2>2, <2>3
  <2>4. CASE e # n
    <3>1. b'[e] = b[e] /\ (e >= n' => e >= n) /\ (e < n' => e < n)
      BY <1>1, <1>6, <2>1, <2>4
    <3> QED
      BY <2>1, <2>2, <3>1 DEF CollectInv
  <2> QED
    BY <2>3, <2>4
<1>15. \A e \in EventIDs \ mFlushableEvents' : mPartsCheckSum'[e] = Total(parts(b'[e]))
  <2> TAKE e \in EventIDs \ mFlushableEvents'
  <2>1. e # n /\ e \notin mFlushableEvents
    BY <1>1, <1>5
  <2>2. b'[e] = b[e] /\ mPartsCheckSum'[e] = mPartsCheckSum[e]
    BY <1>5, <1>6, <2>1
  <2> QED
    BY <2>1, <2>2 DEF CollectInv
<1>16. 1 .. n' - 1 \subseteq mFlushableEvents'
  <2>1. 1 .. n - 1 \subseteq mFlushableEvents
    BY DEF CollectInv
  <2> QED
    BY <1>1, <1>5, <2>1
<1>17. CollectInv'
  <2>1. /\ mNExpectedEvents' = gAskedEvents' /\ (gAskedEvents' = 0 => published' = Len(Batches) + 1)
        /\ mFlushableEvents' \subseteq 1 .. gAskedEvents' /\ mPartsCheckSum' \in [EventIDs -> Nat]
    BY <1>5 DEF CollectInv
  <2> QED
    BY <1>9, <1>13, <1>14, <1>15, <1>16, <2>1 DEF CollectInv
<1>18. ASSUME OnlyCompleteEvents PROVE OnlyCompleteEvents'
  <2>1. \A c \in b[n] : {d.part : d \in b[n]} = 1 .. c.nparts
    BY <1>4 DEF Whole, parts
  <2>2. \A i \in 1 .. Len(mOutTree') : \A c \in mOutTree'[i] :
          {d.part : d \in mOutTree'[i]} = 1 .. c.nparts
    <3> TAKE i \in 1 .. Len(mOutTree')
    <3>1. CASE i \in 1 .. Len(mOutTree) /\ mOutTree'[i] = mOutTree[i]
      BY <1>18, <3>1 DEF OnlyCompleteEvents
    <3>2. CASE mOutTree'[i] = b[n]
      BY <2>1, <3>2
    <3> QED
      BY <1>12, <3>1, <3>2
  <2> QED
    BY <2>2 DEF OnlyCompleteEvents
<1>19. b[n] # {}
  BY <1>4 DEF Whole
<1> QED
  BY <1>3, <1>17, <1>18, <1>19

\* waitForControlInput and ReInit: the merger starts on the last batch with empty
\* containers, or has ended.
LEMMA ReInitClears ==
  ASSUME RestInv, InboxInv, SupplyInv, NonEmptyBatches, mergerControlInput
  PROVE  /\ \/ /\ cleared' /\ mNExpectedEvents' = gAskedEvents /\ merger'.at = "receive"
               /\ gAskedEvents = 0 => published = Len(Batches) + 1 /\ merger.more
            \/ /\ merger'.at = "stopped" /\ ~merger.more
               /\ UNCHANGED <<checksums, mSubEventInfoBuffer, mFlushableEvents, mNextFlushID,
                              mNExpectedEvents, output>>
         /\ AsService /\ merger.at = "listen" /\ merger' = [merger EXCEPT !.at = merger'.at]
         /\ gFinishedEvents = 0 /\ mPipeToDriver = <<>>
         /\ UNCHANGED <<simdata, ioThread, mPipeToDriver>>
<1> DEFINE r == Head(inbox["merger"])
<1>1. mergerReInit(r) /\ inbox["merger"] # <<>>
  BY DEF mergerControlInput
<1>2. merger.at = "listen" /\ UNCHANGED <<simdata, ioThread, mPipeToDriver>>
  BY <1>1 DEF mergerReInit
<1>3. inbox["merger"] = <<Reconfig(published)>> /\ published > 1
      /\ gFinishedEvents = 0 /\ mPipeToDriver = <<>>
  BY <1>1, <1>2 DEF InboxInv
<1>4. r = Reconfig(published)
  BY <1>3
<1>5. merger \in [at : MergerAt, event : Nat, maxEvents : Nat, more : BOOLEAN]
  BY DEF RestInv
<1>6. published \in Nat /\ Len(Batches) \in Nat /\ published <= Len(Batches) + 1
  BY AskedType, BatchesAssumption DEF SupplyInv
<1>7. AsService
  BY <1>2 DEF RestInv
<1> HIDE DEF r
<1>8. CASE published <= Len(Batches)
  <2>1. ~r.stop /\ r.nEvents = gAskedEvents
    BY <1>4, <1>8, AskedType DEF Reconfig
  <2>2. gAskedEvents # 0
    BY <1>3, <1>6, <1>7, <1>8, AskedType DEF NonEmptyBatches
  <2>3. cleared' /\ mNExpectedEvents' = gAskedEvents /\ merger' = [merger EXCEPT !.at = "receive"]
    BY <1>1, <2>1 DEF mergerReInit, MergerGoto, cleared
  <2>4. merger'.at = "receive"
    BY <1>5, <2>3
  <2> QED
    BY <1>2, <1>3, <1>7, <2>2, <2>3, <2>4
<1>9. CASE published > Len(Batches)
  <2>1. r.stop /\ gAskedEvents = 0 /\ published = Len(Batches) + 1
    BY <1>4, <1>6, <1>9, AskedType DEF Reconfig
  <2>2. /\ merger' = [merger EXCEPT !.at = IF merger.more THEN "receive" ELSE "stopped"]
        /\ UNCHANGED <<checksums, mSubEventInfoBuffer, mFlushableEvents, mNextFlushID,
                       mNExpectedEvents, output>>
    BY <1>1, <2>1 DEF mergerReInit, MergerGoto
  <2>3. merger'.at = IF merger.more THEN "receive" ELSE "stopped"
    BY <1>5, <2>2
  <2>4. CASE merger.more
    <3>1. cleared /\ mNExpectedEvents = 0
      BY <1>2, <2>4 DEF RestInv
    <3>2. cleared'
      BY <2>2, <3>1 DEF cleared, checksums, output
    <3> QED
      BY <1>2, <1>3, <1>7, <2>1, <2>2, <2>3, <2>4, <3>1, <3>2
  <2>5. CASE ~merger.more
    BY <1>2, <1>3, <1>7, <2>1, <2>2, <2>3, <2>5
  <2> QED
    BY <2>4, <2>5
<1> QED
  BY <1>6, <1>8, <1>9

\* CollectInv is kept, and an event enters the trees only with all its parts.
LEMMA CollectStep ==
  ASSUME ServerInv, ControlInv, SupplyInv, DriverInv, NonEmptyBatches, WordsSuffice, CollectInv,
         CountInv, LiveInv, RestInv, InboxInv, MergeInv, FlowInv, Apart, [Next]_vars,
         SupplyInv', LiveInv'
  PROVE  CollectInv' /\ (OnlyCompleteEvents => OnlyCompleteEvents')
<1>0. handedOut \in Chunk
  BY DEF ServerInv, ServerTypes
<1>1. \/ UNCHANGED handedOut /\ OnTheWay' \subseteq OnTheWay
      \/ NextChunk(handedOut') /\ OnTheWay' \subseteq OnTheWay \union {handedOut'}
  <2>1. \A c \in OnTheWay : Issued(c)
    BY DEF LiveInv, Live
  <2> QED
    BY <2>1, WayStep
<1>2. UNCHANGED mOutTree => (OnlyCompleteEvents => OnlyCompleteEvents')
  BY DEF OnlyCompleteEvents
<1>3. CASE controlRequest
  <2>1. ~Current' /\ UNCHANGED mOutTree
    BY <1>3, NoneCurrentAtRequest DEF controlRequest, mergerVars, output, Current
  <2> QED
    BY <1>2, <2>1 DEF CollectInv
<1>4. ASSUME ~controlRequest,
             UNCHANGED <<mPartsCheckSum, mSubEventInfoBuffer, mFlushableEvents, mNextFlushID,
                         mNExpectedEvents, mOutTree>>,
             Current' => Current
      PROVE  CollectInv' /\ (OnlyCompleteEvents => OnlyCompleteEvents')
  <2>1. UNCHANGED <<published, gAskedEvents>>
    BY <1>4, SameBatch
  <2>2. CollectInv'
    BY <1>0, <1>1, <1>4, <2>1, CollectWay
  <2> QED
    BY <1>2, <1>4, <2>2
<1>5. merger \in [at : MergerAt, event : Nat, maxEvents : Nat, more : BOOLEAN]
  BY DEF RestInv
<1>6. CASE ~controlRequest
  <2>0. UNCHANGED <<published, gAskedEvents>>
    BY <1>6, SameBatch
  <2>1. CASE Elsewhere \/ eventFinished \/ childFailed \/ mergerReturned
   BY <1>4, <1>6, <2>1 DEF Elsewhere, mergerState, checksums, output, eventFinished, childFailed,
                           mergerReturned, mergerVars, collected, Current
  <2>2. CASE mergerKilled
    <3>1. merger'.at = "killed"
      BY <1>5, <2>2 DEF mergerKilled, MergerGoto
    <3> QED
      BY <1>4, <1>6, <2>2, <3>1 DEF mergerKilled, collected, checksums, output, Current
  <2>3. CASE mergerIO
    <3>1. CASE flushEvent
      <4>1. Current
        BY <2>3, <3>1, MergesCurrent DEF mergerIO, flushEvent
      <4>2. UNCHANGED <<answer, chunk, worker, handedOut, published, gAskedEvents>>
        BY <2>3 DEF mergerIO, serverVars, channels, history, others, workerVars, driverVars
      <4> QED
        BY <3>1, <4>1, <4>2, CollectFlushes
    <3>2. CASE ~flushEvent
      BY <1>4, <1>6, <2>3, <3>2 DEF mergerIO, mergerIOThread, mergeStart, flushEnds, writeFiles,
                                    mergeEnd, collected, checksums, output, Current
    <3> QED
      BY <3>1, <3>2
  <2>4. CASE mergerStep
    <3>1. ASSUME NEW c \in simdata, collect(c)
          PROVE  CollectInv' /\ (OnlyCompleteEvents => OnlyCompleteEvents')
      <4>1. UNCHANGED <<answer, chunk, worker, handedOut, published, gAskedEvents>>
        BY <2>4 DEF mergerStep, serverVars, channels, history, workerVars, driverVars
      <4>2. CollectInv'
        BY <1>0, <3>1, <4>1, CollectCollects
      <4>3. UNCHANGED mOutTree
        BY <3>1 DEF collect, output
      <4> QED
        BY <1>2, <4>2, <4>3
    <3>2. CASE launchMerge \/ startMerge \/ countEvent \/ startLastMerge \/ awaitLastMerge
                 \/ reportEvent \/ concludeData(AsService)
      <4>1. Current' => Current
        BY <1>5, <3>2 DEF launchMerge, startMerge, countEvent, startLastMerge, awaitLastMerge,
                          reportEvent, concludeData, Current, MergerGoto, MergerAt
      <4>2. UNCHANGED <<mPartsCheckSum, mSubEventInfoBuffer, mFlushableEvents, mNextFlushID,
                        mNExpectedEvents, mOutTree>>
        BY <3>2 DEF launchMerge, startMerge, countEvent, startLastMerge, awaitLastMerge,
                    reportEvent, concludeData, collected, checksums, output
      <4> QED
        BY <1>4, <1>6, <4>1, <4>2
    <3>3. CASE mergerSubscribes
      BY <1>4, <1>5, <1>6, <3>3 DEF mergerSubscribes, MergerGoto, Current, collected, checksums,
                                    output
    <3>4. CASE mergerControlInput
      <4>1. CASE /\ cleared' /\ mNExpectedEvents' = gAskedEvents
                 /\ gAskedEvents = 0 => published = Len(Batches) + 1
        <5>1. (/\ cleared /\ SupplyInv /\ LiveInv /\ mNExpectedEvents = gAskedEvents
               /\ (gAskedEvents = 0 => published = Len(Batches) + 1))' => CollectInv'
          BY CollectCleared, PTL
        <5>2. CollectInv'
          BY <2>0, <4>1, <5>1
        <5>3. OnlyCompleteEvents'
          BY <4>1 DEF cleared, OnlyCompleteEvents
        <5> QED
          BY <5>2, <5>3
      <4>2. CASE /\ merger'.at = "stopped"
                 /\ UNCHANGED <<checksums, mSubEventInfoBuffer, mFlushableEvents, mNextFlushID,
                                mNExpectedEvents, output>>
        BY <1>4, <1>6, <4>2 DEF checksums, output, Current
      <4> QED
        BY <3>4, <4>1, <4>2, ReInitClears
    <3> QED
      BY <2>4, <3>1, <3>2, <3>3, <3>4 DEF mergerStep, mergerMain
  <2> QED
    BY <1>6, <2>1, <2>2, <2>3, <2>4, StepCases
<1> QED
  BY <1>3, <1>6

\* The events that the merger has completed are finitely many.
LEMMA FlushableFinite ==
  ASSUME SupplyInv, CollectInv, Current
  PROVE  /\ IsFiniteSet(mFlushableEvents) /\ gAskedEvents \in Nat
         /\ mFlushableEvents \subseteq 1 .. gAskedEvents
         /\ Cardinality(mFlushableEvents) \in Nat
         /\ Cardinality(mFlushableEvents) <= gAskedEvents
         /\ Cardinality(mFlushableEvents) = gAskedEvents => mFlushableEvents = 1 .. gAskedEvents
<1>1. gAskedEvents \in Nat /\ mFlushableEvents \subseteq 1 .. gAskedEvents
  BY AskedType DEF CollectInv
<1>2. IsFiniteSet(1 .. gAskedEvents) /\ Cardinality(1 .. gAskedEvents) = gAskedEvents
  BY <1>1, FS_Interval
<1>3. IsFiniteSet(mFlushableEvents) /\ Cardinality(mFlushableEvents) <= gAskedEvents
      /\ (Cardinality(mFlushableEvents) = gAskedEvents => mFlushableEvents = 1 .. gAskedEvents)
  BY <1>1, <1>2, FS_Subset
<1> QED
  BY <1>1, <1>3, FS_CardinalityType

\* The checksum of the events after one more.
LEMMA CountsEvent ==
  ASSUME SupplyInv, CollectInv, CountInv, WordsSuffice, Current, merger.at = "count"
  PROVE  /\ (mEventChecksum + merger.event) % Word = Total(mFlushableEvents)
         /\ isDataComplete(Total(mFlushableEvents), gAskedEvents)
              <=> mFlushableEvents = 1 .. gAskedEvents
<1> DEFINE F == mFlushableEvents
           C == F \ {merger.event}
           n == gAskedEvents
           k == merger.event
<1>1. k \in F /\ mEventChecksum = Total(C)
  BY DEF CountInv, Counted, Uncounted, Unreported
<1>2. IsFiniteSet(F) /\ n \in Nat /\ F \subseteq 1 .. n
  BY FlushableFinite
<1>3. n * (n + 1) < Word
  <2>1. CASE published <= Len(Batches)
    BY <2>1, AskedType DEF WordsSuffice, SupplyInv
  <2>2. CASE published > Len(Batches)
    <3>1. n = 0
      BY <2>2, AskedType
    <3> QED
      BY <3>1, WordAssumption
  <2>3. published \in Nat /\ Len(Batches) \in Nat
    BY AskedType, BatchesAssumption
  <2> QED
    BY <2>1, <2>2, <2>3
<1>4. F = C \union {k} /\ k \notin C /\ C \subseteq F
  BY <1>1
<1> HIDE DEF F, C, n, k
<1>5. IsFiniteSet(C)
  BY <1>2, <1>4, FS_Subset
<1>6. C \subseteq Int /\ k \in Int
  BY <1>1, <1>2, <1>4
<1>7. Total(F) = Total(C) + k
  BY <1>4, <1>5, <1>6, TotalWith
<1>8. /\ Total(F) \in Nat /\ Total(F) < Word
      /\ isDataComplete(Total(F), n) <=> F = 1 .. n
  BY <1>2, <1>3, Checksum
<1>9. Total(F) % Word = Total(F)
  BY <1>8, WordAssumption
<1> QED
  BY <1>1, <1>7, <1>8, <1>9 DEF F, C, n, k

\* Steps that leave the counts alone.
LEMMA CountSame ==
  ASSUME CountInv, UNCHANGED <<merger, mFlushableEvents, mEventChecksum, gAskedEvents>>,
         gFinishedEvents' + Len(mPipeToDriver') = gFinishedEvents + Len(mPipeToDriver)
  PROVE  CountInv'
BY DEF CountInv, Current, Unreported, Uncounted, Counted, AllHere

\* finishCallback: the driver takes over what was in the pipe.
LEMMA PipeRead ==
  ASSUME DriverInv, eventFinished
  PROVE  /\ gFinishedEvents' \in Nat /\ mPipeToDriver' \in Seq(Nat)
         /\ gFinishedEvents' = gFinishedEvents + 1
         /\ gFinishedEvents' + Len(mPipeToDriver') = gFinishedEvents + Len(mPipeToDriver)
BY DEF DriverInv, eventFinished

\* CountInv is kept.
LEMMA CountStep ==
  ASSUME ServerInv, ControlInv, SupplyInv, DriverInv, NonEmptyBatches, WordsSuffice, CollectInv,
         CountInv, LiveInv, RestInv, InboxInv, MergeInv, FlowInv, Apart, [Next]_vars
  PROVE  CountInv'
<1>0. handedOut \in Chunk
  BY DEF ServerInv, ServerTypes
<1>1. ~Current' => CountInv'
  BY DEF CountInv
<1>2. merger \in [at : MergerAt, event : Nat, maxEvents : Nat, more : BOOLEAN]
  BY DEF RestInv
<1>3. CASE controlRequest
  <2>1. ~Current'
    BY <1>3, NoneCurrentAtRequest DEF controlRequest, mergerVars, Current
  <2> QED
    BY <1>1, <2>1
<1>4. CASE Elsewhere \/ childFailed \/ mergerReturned
  BY <1>4, CountSame DEF Elsewhere, mergerState, checksums, childFailed, mergerReturned,
                         mergerVars, driverVars
<1>5. CASE eventFinished
  BY <1>5, CountSame, PipeRead DEF eventFinished, collected, checksums
<1>6. CASE mergerKilled
  <2>1. merger'.at = "killed"
    BY <1>2, <1>6 DEF mergerKilled, MergerGoto
  <2> QED
    BY <1>1, <2>1 DEF Current
<1>7. CASE mergerIO
  BY <1>7, CountSame DEF mergerIO, mergerIOThread, mergeStart, flushEvent, flushEnds, writeFiles,
                         mergeEnd, collected, checksums, others, driverVars
<1>8. CASE mergerStep
  <2>0. UNCHANGED <<gFinishedEvents, gAskedEvents, published>>
    BY <1>8 DEF mergerStep, driverVars
  <2>1. ASSUME NEW c \in simdata, collect(c) PROVE CountInv'
    <3>1. UNCHANGED <<answer, chunk, worker, handedOut, published, gAskedEvents>>
      BY <1>8 DEF mergerStep, serverVars, channels, history, workerVars, driverVars
    <3>2. /\ mFlushableEvents' = IF merger'.at = "launch" THEN mFlushableEvents \union {c.event}
                                                          ELSE mFlushableEvents
          /\ c.event \notin mFlushableEvents /\ c.maxEvents = gAskedEvents
      BY <1>0, <2>1, <3>1, CollectCollects
    <3>3. /\ merger.at = "receive" /\ UNCHANGED <<mEventChecksum, mPipeToDriver>>
          /\ merger'.at \in {"launch", "return"} /\ merger'.more
          /\ merger'.event = c.event /\ merger'.maxEvents = c.maxEvents
      BY <2>1 DEF collect
    <3>4. Current /\ Uncounted = {} /\ Unreported = {} /\ ~AllHere /\ ~AllHere'
      BY <3>3 DEF Current, Uncounted, Unreported, AllHere
    <3>5. CASE merger'.at = "launch"
      <4>1. Uncounted' = {c.event} /\ Unreported' = {c.event}
        BY <3>3, <3>5 DEF Uncounted, Unreported
      <4>2. Counted' = Counted /\ mFlushableEvents' \ Unreported' = mFlushableEvents \ Unreported
        BY <3>2, <3>4, <3>5, <4>1 DEF Counted
      <4> QED
        BY <2>0, <3>2, <3>3, <3>4, <3>5, <4>1, <4>2 DEF CountInv
    <3>6. CASE merger'.at = "return"
      <4>1. Uncounted' = {} /\ Unreported' = {} /\ mFlushableEvents' = mFlushableEvents
        BY <3>2, <3>3, <3>6 DEF Uncounted, Unreported
      <4>2. Counted' = Counted /\ mFlushableEvents' \ Unreported' = mFlushableEvents \ Unreported
        BY <3>4, <4>1 DEF Counted
      <4> QED
        BY <2>0, <3>3, <3>4, <4>1, <4>2 DEF CountInv
    <3> QED
      BY <3>3, <3>5, <3>6
  <2>2. CASE launchMerge \/ startMerge \/ startLastMerge \/ awaitLastMerge
    <3>1. /\ UNCHANGED <<mFlushableEvents, mEventChecksum, mPipeToDriver>>
          /\ merger'.event = merger.event /\ merger'.maxEvents = merger.maxEvents
      BY <1>2, <2>2 DEF launchMerge, startMerge, startLastMerge, awaitLastMerge, collected,
                        checksums, MergerGoto
    <3>2. /\ Current /\ Uncounted' = Uncounted /\ Unreported' = Unreported /\ AllHere' = AllHere
      BY <1>2, <2>2, <3>1 DEF launchMerge, startMerge, startLastMerge, awaitLastMerge, MergerGoto,
                        Current, Uncounted, Unreported, AllHere
    <3>3. Counted' = Counted
      BY <3>1, <3>2 DEF Counted
    <3> QED
      BY <2>0, <3>1, <3>2, <3>3 DEF CountInv
  <2>3. CASE countEvent
    <3>1. /\ merger.at = "count" /\ merger.more /\ Current
          /\ UNCHANGED <<mFlushableEvents, mPipeToDriver>>
          /\ Uncounted = {merger.event} /\ Unreported = {merger.event}
      BY <2>3 DEF countEvent, RestInv, Current, Uncounted, Unreported
    <3>2. merger.maxEvents = gAskedEvents /\ merger.event \in mFlushableEvents
      BY <3>1 DEF CountInv
    <3>3. /\ mEventChecksum' = Total(mFlushableEvents)
          /\ merger' = [merger EXCEPT !.at = IF mFlushableEvents = 1 .. gAskedEvents
                                               THEN "joinLast" ELSE "report"]
      BY <2>3, <3>1, <3>2, CountsEvent DEF countEvent, MergerGoto
    <3>4. /\ merger'.at = IF mFlushableEvents = 1 .. gAskedEvents THEN "joinLast" ELSE "report"
          /\ merger'.event = merger.event /\ merger'.maxEvents = merger.maxEvents /\ merger'.more
      BY <1>2, <3>1, <3>3
    <3>5. /\ Uncounted' = {} /\ Unreported' = {merger.event}
          /\ AllHere' <=> mFlushableEvents = 1 .. gAskedEvents
      BY <3>4 DEF Uncounted, Unreported, AllHere
    <3>6. Counted' = mFlushableEvents
      BY <3>1, <3>5 DEF Counted
    <3> QED
      BY <2>0, <3>1, <3>2, <3>3, <3>4, <3>5, <3>6 DEF CountInv
  <2>4. CASE reportEvent
    <3>1. CASE ~merger.more
      <4>1. merger'.at = "return" /\ ~merger'.more
        BY <1>2, <2>4, <3>1 DEF reportEvent, MergerGoto
      <4> QED
        BY <1>1, <4>1 DEF Current
    <3>2. CASE merger.more
      <4>1. /\ merger.at = "report" /\ merger'.at = "return"
            /\ UNCHANGED <<mFlushableEvents, mEventChecksum>>
            /\ mPipeToDriver' = Append(mPipeToDriver, merger.event)
        BY <1>2, <2>4 DEF reportEvent, MergerGoto, collected, checksums
      <4>2. /\ Current /\ Uncounted = {} /\ Uncounted' = {} /\ Unreported = {merger.event}
            /\ Unreported' = {} /\ ~AllHere /\ ~AllHere'
        BY <3>2, <4>1 DEF Current, Uncounted, Unreported, AllHere
      <4>3. Counted' = Counted
        BY <4>1, <4>2 DEF Counted
      <4>4. merger.event \in mFlushableEvents
        BY <4>2 DEF CountInv
      <4>5. Cardinality(mFlushableEvents \ {merger.event}) = Cardinality(mFlushableEvents) - 1
        BY <4>2, <4>4, FlushableFinite, FS_RemoveElement
      <4>6. Len(mPipeToDriver') = Len(mPipeToDriver) + 1 /\ Len(mPipeToDriver) \in Nat
            /\ gFinishedEvents \in Nat
        BY <4>1 DEF DriverInv
      <4>7. gFinishedEvents + Len(mPipeToDriver) = Cardinality(mFlushableEvents \ {merger.event})
        BY <4>2 DEF CountInv
      <4>8. Cardinality(mFlushableEvents) \in Nat
        BY <4>2, FlushableFinite
      <4>9. gFinishedEvents' + Len(mPipeToDriver') = Cardinality(mFlushableEvents' \ Unreported')
        <5>1. mFlushableEvents' \ Unreported' = mFlushableEvents
          BY <4>1, <4>2
        <5>2. gFinishedEvents' = gFinishedEvents
          BY <2>0
        <5>3. gFinishedEvents + (Len(mPipeToDriver) + 1) = Cardinality(mFlushableEvents)
          BY <4>5, <4>6, <4>7, <4>8
        <5> QED
          BY <4>6, <5>1, <5>2, <5>3
      <4>10. /\ mEventChecksum' = Total(Counted')
             /\ gAskedEvents' = 0 \/ Counted' # 1 .. gAskedEvents'
        BY <2>0, <4>1, <4>2, <4>3 DEF CountInv
      <4> QED
        BY <4>2, <4>9, <4>10 DEF CountInv
    <3> QED
      BY <1>2, <3>1, <3>2
  <2>5. CASE concludeData(AsService)
    <3>1. CASE ~merger.more
      <4>1. merger'.at \in {"await", "stopped"}
        BY <1>2, <2>5, <3>1, BatchesAssumption DEF concludeData, MergerGoto
      <4> QED
        BY <1>1, <4>1 DEF Current
    <3>2. CASE merger.more
      <4>1. /\ merger.at = "return" /\ merger'.at = "receive" /\ merger'.more
            /\ UNCHANGED <<mFlushableEvents, mEventChecksum, mPipeToDriver>>
        BY <1>2, <2>5, <3>2, BatchesAssumption DEF concludeData, MergerGoto, collected, checksums
      <4>2. /\ Current /\ Uncounted = {} /\ Uncounted' = {} /\ Unreported = {}
            /\ Unreported' = {} /\ ~AllHere /\ ~AllHere'
        BY <3>2, <4>1 DEF Current, Uncounted, Unreported, AllHere
      <4>3. Counted' = Counted
        BY <4>1, <4>2 DEF Counted
      <4> QED
        BY <2>0, <4>1, <4>2, <4>3 DEF CountInv
    <3> QED
      BY <1>2, <3>1, <3>2
  <2>6. CASE mergerSubscribes
    BY <1>1, <1>2, <2>6 DEF mergerSubscribes, MergerGoto, Current
  <2>7. CASE mergerControlInput
    <3>1. CASE merger'.at = "stopped"
      BY <1>1, <3>1 DEF Current
    <3>2. CASE merger'.at = "receive" /\ cleared'
      <4>1. /\ Uncounted' = {} /\ Unreported' = {} /\ ~AllHere' /\ mFlushableEvents' = {}
            /\ mEventChecksum' = 0
        BY <3>2 DEF Uncounted, Unreported, AllHere, cleared
      <4>2. Counted' = {} /\ mFlushableEvents' \ Unreported' = {}
        BY <4>1 DEF Counted
      <4>3. gFinishedEvents' = 0 /\ mPipeToDriver' = <<>>
        BY <2>0, <2>7, ReInitClears
      <4>4. gFinishedEvents' + Len(mPipeToDriver') = Cardinality(mFlushableEvents' \ Unreported')
        BY <4>2, <4>3, FS_EmptySet
      <4>5. gAskedEvents' = 0 \/ Counted' # 1 .. gAskedEvents'
        BY <2>0, <4>2, AskedType
      <4> QED
        BY <4>1, <4>2, <4>4, <4>5, TotalOfNone DEF CountInv
    <3> QED
      BY <2>7, <3>1, <3>2, ReInitClears
  <2> QED
    BY <1>8, <2>1, <2>2, <2>3, <2>4, <2>5, <2>6, <2>7 DEF mergerStep, mergerMain
<1> QED
  BY <1>3, <1>4, <1>5, <1>6, <1>7, <1>8, StepCases

\* Steps that leave the driver's count alone: when all events have been reported
\* nothing is handed out any more.
LEMMA DriverWay ==
  ASSUME DriverInv, SupplyInv, handedOut \in Chunk,
         UNCHANGED <<published, gAskedEvents>>,
         gFinishedEvents' \in Nat, mPipeToDriver' \in Seq(Nat),
         gFinishedEvents' + Len(mPipeToDriver') = gFinishedEvents + Len(mPipeToDriver),
         \/ UNCHANGED handedOut /\ OnTheWay' \subseteq OnTheWay
         \/ NextChunk(handedOut') /\ OnTheWay' \subseteq OnTheWay \union {handedOut'}
  PROVE  DriverInv'
<1>1. gAskedEvents \in Nat /\ published \in Nat
  BY AskedType
<1>2. ASSUME gAskedEvents > 0, gFinishedEvents + Len(mPipeToDriver) = gAskedEvents
      PROVE  OnTheWay' = {} /\ Served(gAskedEvents)'
  <2>1. OnTheWay = {} /\ Served(gAskedEvents)
    BY <1>2 DEF DriverInv
  <2>2. ~NextChunk(handedOut')
    <3> SUFFICES ASSUME NextChunk(handedOut') PROVE FALSE
      OBVIOUS
    <3>1. /\ handedOut'.event \in 1 .. gAskedEvents
          /\ handedOut.event \in Nat /\ handedOut.batch \in Nat
          /\ handedOut.part \in Nat /\ handedOut.nparts \in Nat
      BY DEF NextChunk, Belongs, Chunk
    <3> QED
      BY <1>1, <2>1, <3>1 DEF NextChunk, Served
  <2>3. UNCHANGED handedOut /\ OnTheWay' = {}
    BY <2>1, <2>2
  <2> QED
    BY <2>1, <2>3 DEF Served
<1>3. gFinishedEvents' + Len(mPipeToDriver') <= gAskedEvents'
  BY DEF DriverInv
<1> QED
  BY <1>2, <1>3 DEF DriverInv

\* All events are here: nothing is on its way.
LEMMA AllFlushable ==
  ASSUME CollectInv, LiveInv, SupplyInv, Current, mFlushableEvents = 1 .. gAskedEvents
  PROVE  OnTheWay = {} /\ (gAskedEvents > 0 => Served(gAskedEvents))
<1>1. gAskedEvents \in Nat
  BY AskedType
<1>2. OnTheWay = {}
  <2> SUFFICES ASSUME NEW c \in OnTheWay PROVE FALSE
    OBVIOUS
  <2>1. c.event \in 1 .. gAskedEvents
    BY DEF LiveInv, Live, Issued, Belongs
  <2> QED
    BY <2>1 DEF CollectInv
<1>3. gAskedEvents > 0 => gAskedEvents \in mFlushableEvents
  BY <1>1
<1> QED
  BY <1>2, <1>3 DEF CollectInv

\* The driver's count after a report.
LEMMA ReportCounts ==
  ASSUME CollectInv, CountInv, SupplyInv, RestInv, DriverInv, reportEvent,
         gFinishedEvents' = gFinishedEvents
  PROVE  /\ Current
         /\ gFinishedEvents' \in Nat /\ mPipeToDriver' \in Seq(Nat)
         /\ gFinishedEvents' + Len(mPipeToDriver') = Cardinality(mFlushableEvents)
         /\ UNCHANGED mFlushableEvents
<1>1. merger \in [at : MergerAt, event : Nat, maxEvents : Nat, more : BOOLEAN]
  BY DEF RestInv
<1>2. /\ merger.at = "report" /\ Current /\ Unreported = {merger.event}
      /\ mPipeToDriver' = Append(mPipeToDriver, merger.event) /\ UNCHANGED mFlushableEvents
  BY DEF reportEvent, Current, Unreported, collected
<1>3. merger.event \in mFlushableEvents
      /\ gFinishedEvents + Len(mPipeToDriver) = Cardinality(mFlushableEvents \ {merger.event})
  BY <1>2 DEF CountInv
<1>4. Cardinality(mFlushableEvents \ {merger.event}) = Cardinality(mFlushableEvents) - 1
  BY <1>2, <1>3, FlushableFinite, FS_RemoveElement
<1>5. /\ mPipeToDriver' \in Seq(Nat) /\ Len(mPipeToDriver') = Len(mPipeToDriver) + 1
      /\ Len(mPipeToDriver) \in Nat /\ gFinishedEvents \in Nat
  BY <1>1, <1>2 DEF DriverInv
<1>6. Cardinality(mFlushableEvents) \in Nat
  BY <1>2, FlushableFinite
<1>7. gFinishedEvents + (Len(mPipeToDriver) + 1) = Cardinality(mFlushableEvents)
  BY <1>3, <1>4, <1>5, <1>6
<1> QED
  BY <1>2, <1>5, <1>7

\* The number of events that the driver waits for.
LEMMA AskedIsNat ==
  ASSUME SupplyInv
  PROVE  gAskedEvents \in Nat
BY AskedType

\* DriverInv is kept.
LEMMA DriverStep ==
  ASSUME ServerInv, ControlInv, SupplyInv, DriverInv, NonEmptyBatches, CollectInv,
         CountInv, LiveInv, RestInv, MergeInv, FlowInv, Apart, [Next]_vars,
         SupplyInv'
  PROVE  DriverInv'
<1>0. handedOut \in Chunk
  BY DEF ServerInv, ServerTypes
<1>1. \/ UNCHANGED handedOut /\ OnTheWay' \subseteq OnTheWay
      \/ NextChunk(handedOut') /\ OnTheWay' \subseteq OnTheWay \union {handedOut'}
  <2>1. \A c \in OnTheWay : Issued(c)
    BY DEF LiveInv, Live
  <2> QED
    BY <2>1, WayStep
<1>2. gFinishedEvents \in Nat /\ mPipeToDriver \in Seq(Nat)
  BY DEF DriverInv
<1>3. CASE controlRequest
  <2>1. mPipeToDriver' = <<>> /\ gFinishedEvents' = 0
    BY <1>3, RequestFindsServed DEF controlRequest, mergerVars
  <2>2. gAskedEvents' \in Nat
    <3>1. SupplyInv' => (gAskedEvents \in Nat)'
      BY AskedIsNat, PTL
    <3> QED
      BY <3>1
  <2>3. Len(mPipeToDriver') = 0 /\ mPipeToDriver' \in Seq(Nat)
    BY <2>1
  <2> QED
    BY <2>1, <2>2, <2>3 DEF DriverInv
<1>4. ASSUME ~controlRequest, UNCHANGED <<gFinishedEvents, mPipeToDriver>> PROVE DriverInv'
  BY <1>0, <1>1, <1>2, <1>4, SameBatch, DriverWay
<1>5. CASE /\ ~controlRequest
           /\ Elsewhere \/ childFailed \/ mergerReturned \/ mergerKilled \/ mergerIO
  BY <1>4, <1>5 DEF Elsewhere, mergerState, childFailed, mergerReturned, mergerVars, driverVars,
                    mergerKilled, mergerIO, mergerIOThread, mergeStart, flushEvent, flushEnds,
                    writeFiles, mergeEnd, others
<1>6. CASE ~controlRequest /\ eventFinished
  BY <1>0, <1>1, <1>6, SameBatch, PipeRead, DriverWay
<1>7. CASE ~controlRequest /\ mergerStep
  <2>0. UNCHANGED gFinishedEvents
    BY <1>7 DEF mergerStep, driverVars
  <2>1. CASE ~reportEvent
    <3>1. UNCHANGED mPipeToDriver
      BY <1>7, <2>1 DEF mergerStep, mergerMain, collect, launchMerge, startMerge, countEvent,
                        startLastMerge, awaitLastMerge, concludeData, mergerSubscribes,
                        mergerControlInput, mergerReInit
    <3> QED
      BY <1>4, <1>7, <2>0, <3>1
  <2>2. CASE reportEvent
    <3>1. /\ gFinishedEvents' \in Nat /\ mPipeToDriver' \in Seq(Nat) /\ Current
          /\ gFinishedEvents' + Len(mPipeToDriver') = Cardinality(mFlushableEvents)
      BY <2>0, <2>2, ReportCounts
    <3>2. /\ Cardinality(mFlushableEvents) <= gAskedEvents
          /\ Cardinality(mFlushableEvents) = gAskedEvents => mFlushableEvents = 1 .. gAskedEvents
      BY <3>1, FlushableFinite
    <3>3. UNCHANGED <<published, gAskedEvents, handedOut>> /\ OnTheWay' \subseteq OnTheWay
      <4>1. UNCHANGED <<answer, chunk, worker, simdata, handedOut, published, gAskedEvents>>
        BY <1>7, <2>2 DEF mergerStep, reportEvent, collected, serverVars, channels, history,
                          workerVars, driverVars
      <4> QED
        BY <4>1 DEF OnTheWay
    <3>4. mFlushableEvents = 1 .. gAskedEvents =>
            OnTheWay' = {} /\ (gAskedEvents > 0 => Served(gAskedEvents)')
      <4>1. Served(gAskedEvents) => Served(gAskedEvents)'
        BY <3>3 DEF Served
      <4> QED
        BY <3>1, <3>3, <4>1, AllFlushable
    <3> QED
      BY <3>1, <3>2, <3>3, <3>4 DEF DriverInv
  <2> QED
    BY <2>1, <2>2
<1> QED
  BY <1>3, <1>5, <1>6, <1>7, StepCases

\* InboxInv is kept.
LEMMA InboxStep ==
  ASSUME ServerInv, ControlInv, SupplyInv, DriverInv, NonEmptyBatches, InboxInv, RestInv, FlowInv,
         [Next]_vars
  PROVE  InboxInv'
<1>1. merger \in [at : MergerAt, event : Nat, maxEvents : Nat, more : BOOLEAN]
  BY DEF RestInv
<1>2. CASE Elsewhere \/ childFailed \/ mergerReturned
  BY <1>2 DEF Elsewhere, mergerState, childFailed, mergerReturned, mergerVars, driverVars, pubsub,
              InboxInv
<1>3. CASE mergerIO
  <2>1. UNCHANGED <<subscribed, inbox, merger, published, gFinishedEvents, mPipeToDriver>>
    BY <1>3 DEF mergerIO, mergerIOThread, mergeStart, flushEvent, flushEnds, writeFiles, mergeEnd,
                others, driverVars, pubsub
  <2> QED
    BY <2>1 DEF InboxInv
<1>4. CASE mergerKilled
  <2>1. merger'.at = "killed" /\ UNCHANGED <<subscribed, inbox>>
    BY <1>1, <1>4 DEF mergerKilled, MergerGoto, others, pubsub
  <2> QED
    BY <2>1 DEF InboxInv
<1>5. CASE eventFinished
  BY <1>5 DEF eventFinished, pubsub, InboxInv
<1>6. CASE mergerStep
  <2>1. CASE mergerMain(AsService) /\ UNCHANGED pubsub
    <3>1. merger.at \notin {"listen", "killed"} /\ merger'.at \notin {"listen", "killed"}
      <4>1. ASSUME NEW c \in simdata, collect(c)
            PROVE  merger.at = "receive" /\ merger'.at \in {"launch", "return"}
        BY <4>1 DEF collect
      <4>2. CASE concludeData(AsService)
        BY <1>1, <4>2, BatchesAssumption DEF concludeData, MergerGoto
      <4>3. CASE launchMerge \/ startMerge \/ countEvent \/ startLastMerge \/ awaitLastMerge
                   \/ reportEvent
        BY <1>1, <4>3 DEF launchMerge, startMerge, countEvent, startLastMerge, awaitLastMerge,
                          reportEvent, MergerGoto
      <4> QED
        BY <2>1, <4>1, <4>2, <4>3 DEF mergerMain
    <3>2. UNCHANGED <<subscribed, inbox>>
      BY <2>1 DEF pubsub
    <3> QED
      BY <3>1, <3>2 DEF InboxInv
  <2>2. CASE mergerSubscribes
    <3>1. merger.at = "await" /\ merger'.at = "listen" /\ UNCHANGED inbox
      BY <1>1, <2>2 DEF mergerSubscribes, MergerGoto
    <3> QED
      BY <3>1 DEF InboxInv
  <2>3. CASE mergerControlInput
    <3>1. merger'.at \in {"receive", "stopped"}
      BY <1>1, <2>3 DEF mergerControlInput, mergerReInit, MergerGoto
    <3>2. "merger" \notin subscribed' /\ DOMAIN inbox' = Listeners /\ inbox'["merger"] = <<>>
      BY <2>3 DEF mergerControlInput, InboxInv, Listeners
    <3> QED
      BY <3>1, <3>2 DEF InboxInv
  <2> QED
    BY <1>6, <2>1, <2>2, <2>3 DEF mergerStep
<1>7. CASE controlRequest
  <2>1. mPipeToDriver = <<>> /\ published <= Len(Batches)
    BY <1>7, RequestFindsServed
  <2>2. /\ gFinishedEvents' = 0 /\ mPipeToDriver' = <<>> /\ UNCHANGED <<merger, subscribed>>
        /\ published' = published + 1 /\ ~isBusy
        /\ DOMAIN inbox' = Listeners
        /\ inbox'["merger"] = IF "merger" \in subscribed
                                THEN Append(inbox["merger"], Reconfig(published + 1))
                                ELSE inbox["merger"]
    BY <1>7, <2>1 DEF controlRequest, mergerVars, Listeners
  <2>3. published \in Nat /\ published >= 1 /\ Len(Batches) \in Nat
    BY AskedType, BatchesAssumption DEF SupplyInv
  <2>4. merger.at = "listen" => inbox["merger"] = <<>>
    <3> SUFFICES ASSUME merger.at = "listen", inbox["merger"] # <<>> PROVE FALSE
      OBVIOUS
    <3>1. published > 1 /\ gFinishedEvents = 0
      BY DEF InboxInv
    <3>2. gAskedEvents = 0
      BY <2>2, <3>1 DEF isBusy
    <3> QED
      BY <1>7, <2>1, <2>3, <3>1, <3>2, AskedType DEF NonEmptyBatches, controlRequest
  <2>5. published' > 1
    BY <2>2, <2>3
  <2>6. CASE "merger" \in subscribed
    <3>1. merger.at \in {"listen", "killed"}
      BY <2>6 DEF InboxInv
    <3>2. merger.at = "listen" => inbox'["merger"] = <<Reconfig(published')>>
      <4> DEFINE m == Reconfig(published + 1)
      <4>1. merger.at = "listen" => inbox'["merger"] = Append(<<>>, m) /\ m = Reconfig(published')
        BY <2>2, <2>4, <2>6
      <4> HIDE DEF m
      <4>2. Append(<<>>, m) = <<m>>
        OBVIOUS
      <4> QED
        BY <4>1, <4>2
    <3> QED
      BY <2>2, <2>5, <3>1, <3>2 DEF InboxInv
  <2>7. CASE "merger" \notin subscribed
    BY <2>2, <2>4, <2>7 DEF InboxInv
  <2> QED
    BY <2>6, <2>7
<1> QED
  BY <1>2, <1>3, <1>4, <1>5, <1>6, <1>7, StepCases

\* WriteInv is kept.
LEMMA WriteStep ==
  ASSUME SupplyInv, DriverInv, NonEmptyBatches, CollectInv, CountInv, RestInv, InboxInv, MergeInv,
         WriteInv, [Next]_vars
  PROVE  WriteInv'
<1>1. merger \in [at : MergerAt, event : Nat, maxEvents : Nat, more : BOOLEAN]
  BY DEF RestInv
<1>2. mOutTree \in Seq(SUBSET Chunk) /\ Len(mOutTree) \in Nat
  BY DEF MergeInv
<1>3. CASE Elsewhere \/ childFailed \/ mergerReturned \/ eventFinished
  BY <1>3 DEF Elsewhere, mergerState, childFailed, mergerReturned, eventFinished, mergerVars,
              driverVars, collected, ioThread, output, WriteInv
<1>4. CASE controlRequest
  <2>1. merger.at # "awaitLast"
    BY <1>4, NoneCurrentAtRequest DEF Current
  <2> QED
    BY <1>4, <2>1 DEF controlRequest, mergerVars, ioThread, output, WriteInv
<1>5. CASE mergerKilled
  <2>1. merger'.at = "killed"
    BY <1>1, <1>5 DEF mergerKilled, MergerGoto
  <2> QED
    BY <1>5, <2>1 DEF mergerKilled, collected, ioThread, output, WriteInv
<1>6. CASE mergerIO
  <2>0. UNCHANGED <<gAskedEvents, merger>>
    BY <1>6 DEF mergerIO, mergerIOThread, mergeStart, flushEvent, flushEnds, writeFiles, mergeEnd,
                others, driverVars
  <2>1. CASE mergeStart
    BY <2>0, <2>1 DEF mergeStart, collected, output, WriteInv
  <2>2. CASE flushEvent
    <3>1. Len(mOutTree') \in Nat /\ Len(mOutTree') >= Len(mOutTree)
      BY <1>2, <2>2 DEF flushEvent
    <3>2. mMergerIOThread' = "flush" /\ UNCHANGED mOutFile
      BY <2>2 DEF flushEvent
    <3> QED
      BY <1>2, <3>1, <3>2 DEF WriteInv
  <2>3. CASE flushEnds
    <3>1. /\ mNextFlushID \notin mFlushableEvents /\ UNCHANGED <<mNextFlushID, mOutTree, mOutFile>>
          /\ mMergerIOThread \in {"first", "flush"}
          /\ mMergerIOThread' = IF mMergerIOThread = "first" THEN "leave" ELSE "write"
      BY <2>3 DEF flushEnds, isFlushable, collected, output
    <3>2. ASSUME merger.at = "awaitLast" PROVE mNextFlushID = gAskedEvents + 1
      <4>1. Current /\ AllHere
        BY <3>2 DEF Current, AllHere
      <4>2. mFlushableEvents = 1 .. gAskedEvents
        BY <4>1 DEF CountInv
      <4>3. 1 .. mNextFlushID - 1 \subseteq 1 .. gAskedEvents
        BY <4>1, <4>2 DEF CollectInv
      <4>4. mNextFlushID \in Nat \ {0} /\ gAskedEvents \in Nat
        BY AskedType DEF MergeInv
      <4>5. mNextFlushID - 1 <= gAskedEvents
        <5>1. mNextFlushID - 1 >= 1 => mNextFlushID - 1 \in 1 .. mNextFlushID - 1
          BY <4>4
        <5> QED
          BY <4>3, <4>4, <5>1
      <4> QED
        BY <3>1, <4>2, <4>4, <4>5
    <3> QED
      BY <2>0, <3>1, <3>2 DEF WriteInv
  <2>4. CASE writeFiles
    BY <1>2, <2>0, <2>4 DEF writeFiles, WriteInv
  <2>5. CASE mergeEnd
    BY <2>0, <2>5 DEF mergeEnd, collected, output, WriteInv
  <2> QED
    BY <1>6, <2>1, <2>2, <2>3, <2>4, <2>5 DEF mergerIO, mergerIOThread
<1>7. CASE mergerStep
  <2>0. UNCHANGED gAskedEvents
    BY <1>7 DEF mergerStep, driverVars
  <2>1. ASSUME NEW c \in simdata, collect(c) PROVE WriteInv'
    <3>1. merger'.at # "awaitLast" /\ UNCHANGED <<mMergerIOThread, mOutTree, mOutFile>>
      BY <2>1 DEF collect, ioThread, output
    <3> QED
      BY <3>1 DEF WriteInv
  <2>2. CASE launchMerge \/ countEvent \/ reportEvent \/ concludeData(AsService) \/ mergerSubscribes
    <3>1. merger'.at # "awaitLast"
      BY <1>1, <2>2, BatchesAssumption DEF launchMerge, countEvent, reportEvent, concludeData,
                                           mergerSubscribes, MergerGoto
    <3>2. UNCHANGED <<mMergerIOThread, mOutTree, mOutFile>>
      BY <2>2 DEF launchMerge, countEvent, reportEvent, concludeData, mergerSubscribes, collected,
                  ioThread, output
    <3> QED
      BY <3>1, <3>2 DEF WriteInv
  <2>3. CASE startMerge \/ startLastMerge \/ awaitLastMerge
    <3>1. /\ ended /\ UNCHANGED <<mOutTree, mOutFile>> /\ mMergerIOThread' \in {"start", "none"}
          /\ merger'.at = "awaitLast" => mMergerIOThread' = "start"
      BY <1>1, <2>3 DEF startMerge, startLastMerge, awaitLastMerge, MergerGoto, collected, output
    <3> QED
      BY <3>1 DEF WriteInv, ended
  <2>4. CASE mergerControlInput
    <3>1. /\ merger'.at # "awaitLast" /\ UNCHANGED mMergerIOThread
          /\ UNCHANGED <<mOutTree, mOutFile>> \/ (mOutTree' = <<>> /\ mOutFile' = 0)
      BY <1>1, <2>4 DEF mergerControlInput, mergerReInit, MergerGoto, ioThread, output
    <3>2. Len(<<>>) = 0
      OBVIOUS
    <3> QED
      BY <3>1, <3>2 DEF WriteInv
  <2> QED
    BY <1>7, <2>1, <2>2, <2>3, <2>4 DEF mergerStep, mergerMain
<1> QED
  BY <1>3, <1>4, <1>5, <1>6, <1>7, StepCases

\* What is buffered when all events are here and have been flushed.
LEMMA NoneBuffered ==
  ASSUME CollectInv, LiveInv, SupplyInv, MergeInv, Current,
         mFlushableEvents = 1 .. gAskedEvents, mNextFlushID = gAskedEvents + 1
  PROVE  \A e \in EventIDs : mSubEventInfoBuffer[e] = {}
<1> SUFFICES ASSUME NEW e \in EventIDs PROVE mSubEventInfoBuffer[e] = {}
  OBVIOUS
<1>1. gAskedEvents \in Nat /\ e \in Nat
  BY AskedType DEF EventIDs
<1>2. CASE e \in 1 .. gAskedEvents
  BY <1>1, <1>2 DEF CollectInv
<1>3. CASE e \notin 1 .. gAskedEvents
  <2> SUFFICES ASSUME NEW c \in mSubEventInfoBuffer[e] PROVE FALSE
    OBVIOUS
  <2>1. c \in Live /\ c.event = e
    BY DEF Live, buffered, MergeInv
  <2> QED
    BY <1>3, <2>1 DEF LiveInv, Issued, Belongs
<1> QED
  BY <1>2, <1>3

\* Where the merger is after a step of its main thread.
restVars == <<mNextFlushID, mOutFile, mOutTree, mSubEventInfoBuffer, mMergerIOThread,
              mPartsCheckSum, mEventChecksum, mFlushableEvents, mNExpectedEvents, filtered,
              gAskedEvents>>

\* RestInv is kept.
LEMMA RestStep ==
  ASSUME SupplyInv, DriverInv, NonEmptyBatches, CollectInv, CountInv, LiveInv, RestInv, InboxInv,
         MergeInv, FlowInv, WriteInv, [Next]_vars
  PROVE  RestInv'
<1>0. AsService \in BOOLEAN
  BY BatchesAssumption
<1>1. merger \in [at : MergerAt, event : Nat, maxEvents : Nat, more : BOOLEAN]
  BY DEF RestInv
<1>2. CASE UNCHANGED <<restVars, merger>>
  BY <1>2 DEF restVars, RestInv, Over, cleared
<1>3. CASE Elsewhere \/ childFailed \/ mergerReturned \/ eventFinished
  BY <1>2, <1>3 DEF Elsewhere, mergerState, childFailed, mergerReturned, eventFinished, mergerVars,
              driverVars, collected, ioThread, output, checksums, restVars
<1>4. CASE controlRequest
  <2>1. AsService /\ UNCHANGED <<mNextFlushID, mOutFile, mOutTree, mSubEventInfoBuffer,
              mMergerIOThread, mPartsCheckSum, mEventChecksum, mFlushableEvents,
              mNExpectedEvents, filtered, merger>>
    BY <1>4 DEF controlRequest, mergerVars, ioThread, output, checksums
  <2> QED
    BY <2>1 DEF RestInv, Over, cleared
<1>5. CASE mergerKilled
  <2>1. /\ merger'.at = "killed" /\ merger'.more = merger.more
        /\ merger'.maxEvents = merger.maxEvents
        /\ merger' \in [at : MergerAt, event : Nat, maxEvents : Nat, more : BOOLEAN]
    BY <1>1, <1>5 DEF mergerKilled, MergerGoto, MergerAt
  <2>2. UNCHANGED restVars
    BY <1>5 DEF mergerKilled, collected, ioThread, output, checksums, restVars, others, driverVars
  <2>3. Over' => Over
    BY <2>1 DEF Over, RestInv
  <2> QED
    BY <2>1, <2>2, <2>3 DEF RestInv, restVars
<1>6. CASE mergerIO
  <2>1. mMergerIOThread # "none"
    BY <1>6 DEF mergerIO, mergerIOThread, mergeStart, flushEvent, flushEnds, writeFiles, mergeEnd
  <2>2. UNCHANGED merger
    BY <1>6 DEF mergerIO, mergerIOThread, mergeStart, flushEvent, flushEnds, writeFiles, mergeEnd
  <2>3. ~Over' /\ (merger'.at \in {"await", "listen"} => ~merger'.more)
    BY <2>1, <2>2 DEF RestInv, Over
  <2> QED
    BY <2>2, <2>3 DEF RestInv
<1>7. CASE mergerStep
  <2>0. UNCHANGED gAskedEvents
    BY <1>7 DEF mergerStep, driverVars
  <2>1. ASSUME NEW c \in simdata, collect(c) PROVE RestInv'
    <3>1. c \in Chunk
      BY DEF FlowInv, EventChunks
    <3>2. /\ merger'.at \in {"launch", "return"} /\ merger'.more = TRUE
          /\ merger' \in [at : MergerAt, event : Nat, maxEvents : Nat, more : BOOLEAN]
      BY <2>1, <3>1 DEF collect, Chunk, MergerAt
    <3> QED
      BY <3>2 DEF RestInv, Over
  <2>2. CASE launchMerge \/ startMerge \/ countEvent \/ startLastMerge
    <3>1. /\ merger'.at \in {"join", "count", "joinLast", "report", "awaitLast"}
          /\ merger'.more = TRUE
          /\ merger' \in [at : MergerAt, event : Nat, maxEvents : Nat, more : BOOLEAN]
      <4>1. merger.more = TRUE
        BY <1>1, <2>2 DEF launchMerge, startMerge, countEvent, startLastMerge, RestInv
      <4> QED
        BY <1>1, <2>2, <4>1 DEF launchMerge, startMerge, countEvent, startLastMerge, MergerGoto,
                                MergerAt
    <3> QED
      BY <3>1 DEF RestInv, Over
  <2>3. CASE awaitLastMerge
    <3>1. /\ merger'.at = "report" /\ ~merger'.more /\ merger'.maxEvents = merger.maxEvents
          /\ merger' \in [at : MergerAt, event : Nat, maxEvents : Nat, more : BOOLEAN]
          /\ merger.at = "awaitLast" /\ ended /\ mMergerIOThread' = "none"
          /\ UNCHANGED <<mNextFlushID, mOutFile, mOutTree, mSubEventInfoBuffer>>
      BY <1>1, <2>3 DEF awaitLastMerge, MergerAt, collected, output
    <3>2. Current /\ AllHere /\ Unreported # {}
      BY <3>1 DEF Current, AllHere, Unreported
    <3>3. mFlushableEvents = 1 .. gAskedEvents /\ merger.maxEvents = gAskedEvents
      BY <3>2 DEF CountInv
    <3>4. mNextFlushID = gAskedEvents + 1 /\ mOutFile = Len(mOutTree)
      BY <3>1 DEF WriteInv, ended
    <3>5. \A e \in EventIDs : mSubEventInfoBuffer[e] = {}
      BY <3>2, <3>3, <3>4, NoneBuffered
    <3> QED
      BY <2>0, <3>1, <3>3, <3>4, <3>5 DEF RestInv
  <2>4. CASE reportEvent \/ concludeData(AsService) \/ mergerSubscribes
    <3>1. UNCHANGED restVars
      BY <2>0, <2>4 DEF reportEvent, concludeData, mergerSubscribes, collected, checksums, ioThread,
                        output, restVars
    <3>2. /\ merger'.more = merger.more /\ merger'.maxEvents = merger.maxEvents
          /\ merger' \in [at : MergerAt, event : Nat, maxEvents : Nat, more : BOOLEAN]
      BY <1>0, <1>1, <2>4 DEF reportEvent, concludeData, mergerSubscribes, MergerGoto, MergerAt
    <3>3. \/ merger.at = "report" /\ merger'.at = "return"
          \/ merger.at = "return" /\ ~merger.more /\ AsService /\ merger'.at = "await"
          \/ merger.at = "return" /\ ~merger.more /\ ~AsService /\ merger'.at = "stopped"
          \/ merger.at = "return" /\ merger.more /\ merger'.at = "receive"
          \/ merger.at = "await" /\ merger'.at = "listen"
      BY <1>0, <1>1, <2>4 DEF reportEvent, concludeData, mergerSubscribes, MergerGoto
    <3>4. Over' => Over
      BY <3>2, <3>3 DEF Over
    <3> QED
      BY <3>1, <3>2, <3>3, <3>4 DEF RestInv, restVars, cleared
  <2>5. CASE mergerControlInput
    <3>1. AsService /\ merger.at = "listen" /\ merger' = [merger EXCEPT !.at = merger'.at]
          /\ UNCHANGED ioThread /\ merger'.at \in {"receive", "stopped"}
      BY <2>5, ReInitClears
    <3>2. /\ merger'.more = merger.more /\ merger'.maxEvents = merger.maxEvents
          /\ merger' \in [at : MergerAt, event : Nat, maxEvents : Nat, more : BOOLEAN]
      BY <1>1, <3>1 DEF MergerAt
    <3>3. CASE merger'.at = "receive"
      BY <3>1, <3>2, <3>3 DEF RestInv, Over
    <3>4. CASE merger'.at = "stopped"
      <4>1. /\ ~merger.more
            /\ UNCHANGED <<mSubEventInfoBuffer, mNextFlushID, output>>
        BY <2>5, <3>4, ReInitClears
      <4>2. Over
        BY <3>1, <4>1 DEF Over
      <4>3. UNCHANGED <<mMergerIOThread, mOutFile, mOutTree>>
        BY <3>1, <4>1 DEF ioThread, output
      <4> QED
        BY <2>0, <3>1, <3>2, <3>4, <4>1, <4>2, <4>3 DEF RestInv
    <3> QED
      BY <3>1, <3>3, <3>4
  <2> QED
    BY <1>7, <2>1, <2>2, <2>3, <2>4, <2>5 DEF mergerStep, mergerMain
<1> QED
  BY <1>3, <1>4, <1>5, <1>6, <1>7, StepCases

\* When the merger does not work on a batch, the step leaves its data alone.
LEMMA RestsUntouched ==
  ASSUME RestInv, InboxInv, SupplyInv, NonEmptyBatches, [Next]_vars, ~Current'
  PROVE  UNCHANGED <<mSubEventInfoBuffer, mOutTree>>
<1>1. CASE Elsewhere \/ childFailed \/ mergerReturned \/ eventFinished \/ controlRequest
             \/ mergerKilled
  BY <1>1 DEF Elsewhere, mergerState, childFailed, mergerReturned, eventFinished, mergerVars,
              controlRequest, mergerKilled, collected, output
<1>2. CASE mergerIO
  <2>1. mMergerIOThread # "none" /\ mergerAlive /\ UNCHANGED merger
    BY <1>2 DEF mergerIO, mergerIOThread, mergeStart, flushEvent, flushEnds, writeFiles, mergeEnd
  <2>2. ~Current
    BY <2>1 DEF Current
  <2> QED
    BY <2>1, <2>2, MergesCurrent
<1>3. CASE mergerStep
  <2>1. ASSUME NEW c \in simdata, collect(c) PROVE FALSE
    BY <2>1 DEF collect, Current
  <2>2. CASE launchMerge \/ startMerge \/ countEvent \/ startLastMerge \/ awaitLastMerge
               \/ reportEvent \/ concludeData(AsService) \/ mergerSubscribes
    BY <2>2 DEF launchMerge, startMerge, countEvent, startLastMerge, awaitLastMerge, reportEvent,
                concludeData, mergerSubscribes, collected, output
  <2>3. CASE mergerControlInput
    <3>1. merger'.at # "receive"
      BY DEF Current
    <3> QED
      BY <2>3, <3>1, ReInitClears DEF output
  <2> QED
    BY <1>3, <2>1, <2>2, <2>3 DEF mergerStep, mergerMain
<1> QED
  BY <1>1, <1>2, <1>3, StepCases

\* While the merger works on a batch, all it holds is of the last one.
LEMMA HeldIsCurrent ==
  ASSUME LiveInv, CollectInv, Current
  PROVE  BatchesNeverMix
<1>1. \A e \in EventIDs : \A c \in mSubEventInfoBuffer[e] : c.batch = published
  <2>1. buffered \subseteq Live
    BY DEF Live
  <2>2. \A c \in buffered : c.batch = published
    BY <2>1 DEF LiveInv, Issued, Belongs
  <2> QED
    BY <2>2 DEF buffered
<1>2. \A i \in 1 .. Len(mOutTree) : \A c \in mOutTree[i] : c.batch = published
  BY DEF CollectInv
<1> QED
  BY <1>1, <1>2 DEF BatchesNeverMix

\* A new batch finds the containers cleared by ReInit.
LEMMA MixStep ==
  ASSUME RestInv, InboxInv, SupplyInv, NonEmptyBatches, [Next]_vars, LiveInv', CollectInv',
         BatchesNeverMix
  PROVE  BatchesNeverMix'
<1>1. CASE ~Current'
  <2>1. UNCHANGED <<mSubEventInfoBuffer, mOutTree>>
    BY <1>1, RestsUntouched
  <2> QED
    BY <2>1 DEF BatchesNeverMix
<1>2. CASE Current'
  <2>1. (LiveInv /\ CollectInv /\ Current)' => BatchesNeverMix'
    BY HeldIsCurrent, PTL
  <2> QED
    BY <1>2, <2>1
<1> QED
  BY <1>1, <1>2

(***************************************************************************)
(* The simulation as a whole.                                              *)
(***************************************************************************)
SimulationInv ==
  /\ ServerInv /\ ControlInv /\ SupplyInv /\ FlowInv /\ Apart
  /\ MergeInv /\ LiveInv /\ CollectInv /\ CountInv /\ WriteInv
  /\ InboxInv /\ RestInv /\ DriverInv

\* The invariant holds when the children have been started.
LEMMA SimulationInit ==
  ASSUME Init
  PROVE  SimulationInv /\ OnlyCompleteEvents /\ BatchesNeverMix
<1>1. ServerInv /\ ControlInv /\ SupplyInv /\ FlowInv
  BY ServerInitHolds, ControlInit, SupplyInit, FlowInit DEF Init
<1>2. MergeInv /\ cleared
  BY ClearedIsMerged DEF Init, MergerInit
<1>3. /\ \A w \in Workers : ~answer[w].payload /\ worker[w] # "process"
      /\ simdata = {}
  BY DEF Init, ServerInit, MergerInit, NoAnswer
<1>4. Apart /\ OnTheWay = {}
  BY <1>3 DEF Apart, OnTheWay
<1>5. buffered = {}
  BY <1>2 DEF cleared, buffered
<1>6. LiveInv
  BY <1>4, <1>5 DEF LiveInv, Live
<1>7. /\ gAskedEvents = Batches[1] /\ Batches[1] \in Nat /\ mNExpectedEvents = Batches[1]
      /\ ~AsService => Batches[1] > 0
      /\ gFinishedEvents = 0 /\ mPipeToDriver = <<>>
  BY BatchesAssumption DEF Init, MergerInit
<1>8. /\ merger.at = IF Batches[1] = 0 THEN "await" ELSE "receive"
      /\ merger \in [at : MergerAt, event : Nat, maxEvents : Nat, more : BOOLEAN]
      /\ merger.more = TRUE
  BY <1>7 DEF Init, MergerInit, MergerAt
<1>9. CollectInv
  BY <1>1, <1>2, <1>6, <1>7, <1>8, CollectCleared DEF Current, CollectInv
<1>10. CountInv
  <2>1. Uncounted = {} /\ Unreported = {} /\ ~AllHere /\ mFlushableEvents = {}
    BY <1>2, <1>8 DEF Uncounted, Unreported, AllHere, cleared
  <2>2. Counted = {} /\ mFlushableEvents \ Unreported = {}
    BY <2>1 DEF Counted
  <2>3. gFinishedEvents + Len(mPipeToDriver) = Cardinality(mFlushableEvents \ Unreported)
    BY <1>7, <2>2, FS_EmptySet
  <2>4. gAskedEvents = 0 \/ Counted # 1 .. gAskedEvents
    BY <1>7, <2>2
  <2> QED
    BY <1>2, <2>1, <2>2, <2>3, <2>4, TotalOfNone DEF CountInv, cleared
<1>11. mMergerIOThread = "none" /\ mOutTree = <<>> /\ mOutFile = 0 /\ Len(mOutTree) = 0
  BY <1>2 DEF Init, MergerInit, cleared
<1>12. WriteInv
  BY <1>8, <1>11 DEF WriteInv
<1>13. InboxInv
  BY <1>8 DEF Init, InboxInv, Listeners
<1>14. RestInv
  BY <1>2, <1>7, <1>8, <1>11 DEF RestInv, Over
<1>15. DriverInv
  BY <1>7 DEF DriverInv
<1>16. OnlyCompleteEvents
  BY <1>11 DEF OnlyCompleteEvents
<1>17. BatchesNeverMix
  <2>1. \A e \in EventIDs : mSubEventInfoBuffer[e] = {}
    BY <1>2 DEF cleared
  <2> QED
    BY <1>11, <2>1 DEF BatchesNeverMix
<1> QED
  BY <1>1, <1>2, <1>4, <1>6, <1>9, <1>10, <1>12, <1>13, <1>14, <1>15, <1>16, <1>17
     DEF SimulationInv

\* Every step of every process keeps it.
LEMMA SimulationStep ==
  ASSUME Replies, NonEmptyBatches, WordsSuffice, SimulationInv, [Next]_vars
  PROVE  /\ SimulationInv'
         /\ OnlyCompleteEvents => OnlyCompleteEvents'
         /\ BatchesNeverMix => BatchesNeverMix'
<1>0. /\ ServerInv /\ ControlInv /\ SupplyInv /\ FlowInv /\ Apart
      /\ MergeInv /\ LiveInv /\ CollectInv /\ CountInv /\ WriteInv
      /\ InboxInv /\ RestInv /\ DriverInv
  BY DEF SimulationInv
<1>1. ServerInv' /\ ControlInv'
  BY <1>0, ServerStep, ControlStep
<1>2. SupplyInv'
  BY <1>0, SupplyStep
<1>3. FlowInv' /\ MergeInv'
  BY <1>0, FlowStep, MergeStep
<1>4. Apart'
  <2>1. \A c \in OnTheWay : Issued(c)
    BY <1>0 DEF LiveInv, Live
  <2> QED
    BY <1>0, <2>1, WayStep
<1>5. LiveInv'
  BY <1>0, LiveStep
<1>6. CollectInv' /\ (OnlyCompleteEvents => OnlyCompleteEvents')
  BY <1>0, <1>2, <1>5, CollectStep
<1>7. CountInv'
  BY <1>0, CountStep
<1>8. WriteInv'
  BY <1>0, WriteStep
<1>9. InboxInv'
  BY <1>0, InboxStep
<1>10. RestInv'
  BY <1>0, RestStep
<1>11. DriverInv'
  BY <1>0, <1>2, DriverStep
<1>12. BatchesNeverMix => BatchesNeverMix'
  BY <1>0, <1>5, <1>6, MixStep
<1> QED
  BY <1>1, <1>2, <1>3, <1>4, <1>5, <1>6, <1>7, <1>8, <1>9, <1>10, <1>11, <1>12 DEF SimulationInv

\* handleSimData: an event enters the trees with all its parts, in whatever order
\* they arrive and however many workers simulate them, as long as the sums fit
\* into the checksums' words.
THEOREM EventsAreComplete ==
  ASSUME Replies, NonEmptyBatches, WordsSuffice
  PROVE  Spec => []OnlyCompleteEvents
<1>1. Init => SimulationInv /\ OnlyCompleteEvents
  BY SimulationInit
<1>2. SimulationInv /\ OnlyCompleteEvents /\ [Next]_vars => (SimulationInv /\ OnlyCompleteEvents)'
  BY SimulationStep
<1> QED
  BY <1>1, <1>2, PTL DEF Spec

\* isBusy and ReInit: a batch is published only when all events of the one before
\* have been counted, so that the merger never holds data of two.
THEOREM BatchesAreApart ==
  ASSUME Replies, NonEmptyBatches, WordsSuffice
  PROVE  Spec => []BatchesNeverMix
<1>1. Init => SimulationInv /\ BatchesNeverMix
  BY SimulationInit
<1>2. SimulationInv /\ BatchesNeverMix /\ [Next]_vars => (SimulationInv /\ BatchesNeverMix)'
  BY SimulationStep
<1> QED
  BY <1>1, <1>2, PTL DEF Spec

\* handleSimData returns false only when the last merge has been awaited: every
\* event of the batch has then been flushed and the file holds what the tree
\* holds.
THEOREM FinishedMeansWritten ==
  ASSUME Replies, NonEmptyBatches, WordsSuffice
  PROVE  Spec => []FinishedIsWritten
<1>1. Init => SimulationInv
  BY SimulationInit
<1>2. SimulationInv /\ [Next]_vars => SimulationInv'
  BY SimulationStep
<1>3. SimulationInv => FinishedIsWritten
  BY DEF SimulationInv, RestInv, Over, FinishedIsWritten
<1> QED
  BY <1>1, <1>2, <1>3, PTL DEF Spec

(***************************************************************************)
(* A batch implements SimulationRun.  The driver shuts down only when all  *)
(* events have been reported, and the merger reports the last one only     *)
(* when the file is complete: a merger that is killed by the shutdown has  *)
(* nothing left to write.                                                  *)
(***************************************************************************)
EndInv ==
  /\ filtered = {}
  /\ driver = "running" /\ shutdown_initiated => gFinishedEvents = gAskedEvents
  /\ gFinishedEvents + Len(mPipeToDriver) = gAskedEvents => ~merger.more
  /\ merger.at = "killed" => signalled

\* No event has been reported when the batch starts.
LEMMA EndInit ==
  ASSUME ~AsService, Init
  PROVE  EndInv
<1>1. Batches[1] \in Nat /\ Batches[1] > 0
  BY BatchesAssumption
<1>2. merger.at = "receive"
  BY <1>1 DEF Init, MergerInit
<1>3. gFinishedEvents + Len(mPipeToDriver) = 0 /\ gAskedEvents = Batches[1]
  BY DEF Init, MergerInit
<1> QED
  BY <1>1, <1>2, <1>3 DEF EndInv, Init, MergerInit, cleared

\* finishCallback, handleSimData and the signals of the driver keep it.
LEMMA EndStep ==
  ASSUME ~AsService, ~FilterNoHits, SimulationInv, EndInv, [Next]_vars
  PROVE  EndInv'
<1>0. /\ SupplyInv /\ DriverInv /\ RestInv /\ CollectInv /\ CountInv /\ LiveInv /\ MergeInv
  BY DEF SimulationInv
<1>1. merger \in [at : MergerAt, event : Nat, maxEvents : Nat, more : BOOLEAN]
  BY <1>0 DEF RestInv
<1>2. gAskedEvents > 0 /\ gAskedEvents \in Nat
  BY <1>0, AskedType, BatchesAssumption DEF SupplyInv
<1>3. ~controlRequest /\ UNCHANGED <<published, gAskedEvents>>
  <2>1. ~controlRequest
    BY DEF controlRequest
  <2> QED
    BY <2>1, SameBatch
<1>4. ASSUME UNCHANGED <<filtered, driver, shutdown_initiated, errored, gFinishedEvents,
                         mPipeToDriver>>,
             merger.more' => merger.more, merger'.at = "killed" => merger.at = "killed"
      PROVE  EndInv'
  BY <1>3, <1>4 DEF EndInv, signalled
<1>5. CASE Elsewhere
  BY <1>4, <1>5 DEF Elsewhere, mergerState, output, driverVars
<1>6. CASE childFailed
  <2>1. /\ UNCHANGED <<filtered, driver, shutdown_initiated, gFinishedEvents, mPipeToDriver,
                       merger>>
        /\ errored'
    BY <1>6 DEF childFailed, mergerVars, output
  <2> QED
    BY <1>3, <2>1 DEF EndInv, signalled
<1>7. CASE mergerReturned
  <2>1. /\ UNCHANGED <<filtered, errored, gFinishedEvents, mPipeToDriver, merger>>
        /\ driver' # "running" /\ (shutdown_initiated => shutdown_initiated')
    BY <1>7 DEF mergerReturned, mergerVars, output
  <2> QED
    BY <1>3, <2>1 DEF EndInv, signalled
<1>8. CASE eventFinished
  <2>1. /\ UNCHANGED <<filtered, driver, errored, merger>> /\ driver = "running"
        /\ mPipeToDriver # <<>>
        /\ shutdown_initiated' =
             (shutdown_initiated \/ (gAskedEvents = gFinishedEvents' /\ ~AsService))
    BY <1>8 DEF eventFinished, collected, output
  <2>2. gFinishedEvents' + Len(mPipeToDriver') = gFinishedEvents + Len(mPipeToDriver)
    BY <1>0, <1>8, PipeRead
  <2>3. ~shutdown_initiated
    <3>1. gFinishedEvents \in Nat /\ mPipeToDriver \in Seq(Nat)
          /\ gFinishedEvents + Len(mPipeToDriver) <= gAskedEvents
      BY <1>0 DEF DriverInv
    <3>2. Len(mPipeToDriver) \in Nat \ {0}
      BY <2>1, <3>1
    <3> QED
      BY <1>2, <2>1, <3>1, <3>2 DEF EndInv
  <2> QED
    BY <1>3, <2>1, <2>2, <2>3 DEF EndInv, signalled
<1>9. CASE mergerKilled
  <2>1. /\ signalled /\ merger'.more = merger.more
        /\ UNCHANGED <<filtered, driver, shutdown_initiated, errored, gFinishedEvents,
                       mPipeToDriver>>
    BY <1>1, <1>9 DEF mergerKilled, MergerGoto, collected, output, others, driverVars
  <2> QED
    BY <1>3, <2>1 DEF EndInv, signalled
<1>10. CASE mergerIO
  <2>1. UNCHANGED <<driver, shutdown_initiated, errored, gFinishedEvents, mPipeToDriver, merger>>
    BY <1>10 DEF mergerIO, mergerIOThread, mergeStart, flushEvent, flushEnds, writeFiles, mergeEnd,
                 others, driverVars
  <2>2. CASE flushEvent
    <3>1. Current
      BY <1>0, <1>10, <2>2, MergesCurrent DEF mergerIO, flushEvent
    <3>2. UNCHANGED <<answer, chunk, worker, handedOut>>
      BY <1>10 DEF mergerIO, serverVars, channels, history, others, workerVars
    <3>3. mNExpectedEvents # 0 /\ mSubEventInfoBuffer[mNextFlushID] # {}
      BY <1>0, <1>3, <2>2, <3>1, <3>2, CollectFlushes
    <3>4. UNCHANGED filtered
      BY <2>2, <3>3 DEF flushEvent
    <3> QED
      BY <1>4, <2>1, <3>4
  <2>3. CASE ~flushEvent
    <3>1. UNCHANGED filtered
      BY <1>10, <2>3 DEF mergerIO, mergerIOThread, mergeStart, flushEnds, writeFiles, mergeEnd,
                         collected, output
    <3> QED
      BY <1>4, <2>1, <3>1
  <2> QED
    BY <2>2, <2>3
<1>11. CASE mergerStep
  <2>0. UNCHANGED <<driver, shutdown_initiated, errored, gFinishedEvents>>
    BY <1>11 DEF mergerStep, driverVars
  <2>1. ASSUME NEW c \in simdata, collect(c) PROVE EndInv'
    <3>1. /\ UNCHANGED <<filtered, mPipeToDriver>> /\ merger'.at # "killed"
      BY <2>1 DEF collect, output
    <3>2. OnTheWay # {}
      BY <2>1, Places
    <3>3. gFinishedEvents + Len(mPipeToDriver) # gAskedEvents
      BY <1>0, <1>2, <3>2 DEF DriverInv
    <3> QED
      BY <1>3, <2>0, <3>1, <3>3 DEF EndInv
  <2>2. CASE launchMerge \/ startMerge \/ countEvent \/ startLastMerge \/ awaitLastMerge
               \/ concludeData(AsService) \/ mergerSubscribes
    <3>1. (merger'.more => merger.more) /\ merger'.at # "killed"
      BY <1>1, <2>2 DEF launchMerge, startMerge, countEvent, startLastMerge, awaitLastMerge,
                        concludeData, mergerSubscribes, MergerGoto
    <3>2. UNCHANGED <<filtered, mPipeToDriver>>
      BY <2>2 DEF launchMerge, startMerge, countEvent, startLastMerge, awaitLastMerge,
                  concludeData, mergerSubscribes, collected, output
    <3> QED
      BY <1>4, <2>0, <3>1, <3>2
  <2>3. CASE reportEvent
    <3>1. /\ merger.at = "report" /\ merger'.at = "return" /\ merger'.more = merger.more
          /\ UNCHANGED filtered
      BY <1>1, <2>3 DEF reportEvent, MergerGoto, collected, output
    <3>2. Current /\ gFinishedEvents' + Len(mPipeToDriver') = Cardinality(mFlushableEvents)
      BY <1>0, <2>0, <2>3, ReportCounts
    <3>3. ASSUME Cardinality(mFlushableEvents) = gAskedEvents PROVE ~merger.more
      <4>1. mFlushableEvents = 1 .. gAskedEvents
        BY <1>0, <3>2, <3>3, FlushableFinite
      <4>2. Counted = 1 .. gAskedEvents
        BY <3>1, <4>1 DEF Counted, Uncounted
      <4>3. AllHere
        BY <1>0, <1>2, <3>2, <4>2 DEF CountInv
      <4> QED
        BY <3>1, <4>3 DEF AllHere
    <3> QED
      BY <1>3, <2>0, <3>1, <3>2, <3>3 DEF EndInv, signalled
  <2>4. CASE mergerControlInput
    <3>1. merger.at = "listen"
      BY <2>4 DEF mergerControlInput, mergerReInit
    <3> QED
      BY <1>0, <3>1 DEF RestInv
  <2> QED
    BY <1>11, <2>1, <2>2, <2>3, <2>4 DEF mergerStep, mergerMain
<1> QED
  BY <1>3, <1>5, <1>6, <1>7, <1>8, <1>9, <1>10, <1>11, StepCases

\* Without a filter every event below mNextFlushID is in the tree.
LEMMA TreeLength ==
  ASSUME MergeInv, filtered = {}
  PROVE  Len(mOutTree) = mNextFlushID - 1
BY FS_EmptySet DEF MergeInv, FlushedInOrder

\* A step of the simulation is a step of SimulationRun, or leaves the file and the
\* outcome as they are.
LEMMA RunStep ==
  ASSUME ~AsService, SimulationInv, EndInv, [Next]_vars
  PROVE  [Run!Next]_<<mOutFile, driver>>
<1>0. /\ SupplyInv /\ DriverInv /\ RestInv /\ CollectInv /\ MergeInv /\ WriteInv
  BY DEF SimulationInv
<1>1. Batches[1] = gAskedEvents /\ gAskedEvents \in Nat /\ published = 1
  BY <1>0, AskedType, BatchesAssumption DEF SupplyInv
<1>2. Len(mOutTree) = mNextFlushID - 1 /\ mNextFlushID \in Nat \ {0}
  BY <1>0, TreeLength DEF EndInv, MergeInv
<1>3. CASE UNCHANGED <<mOutFile, driver>>
  BY <1>3
<1>4. CASE mergerReturned
  <2>1. /\ driver = "running" /\ ~mergerAlive /\ UNCHANGED mOutFile
        /\ driver' = IF errored THEN "failed" ELSE "ok"
    BY <1>4 DEF mergerReturned, mergerVars, output
  <2>2. CASE errored
    BY <2>1, <2>2 DEF Run!Next, Run!Fail
  <2>3. CASE ~errored
    <3>1. ~merger.more
      <4>1. CASE merger.at = "stopped"
        BY <1>0, <4>1 DEF RestInv
      <4>2. CASE merger.at = "killed"
        <5>1. shutdown_initiated
          BY <2>3, <4>2 DEF EndInv, signalled
        <5>2. gFinishedEvents = gAskedEvents
          BY <2>1, <5>1 DEF EndInv
        <5>3. gFinishedEvents + Len(mPipeToDriver) <= gAskedEvents /\ Len(mPipeToDriver) \in Nat
          BY <1>0 DEF DriverInv
        <5>4. gFinishedEvents + Len(mPipeToDriver) = gAskedEvents
          BY <1>1, <5>2, <5>3
        <5> QED
          BY <5>4 DEF EndInv
      <4> QED
        BY <2>1, <4>1, <4>2 DEF mergerAlive
    <3>2. Over
      BY <2>1, <3>1 DEF Over, mergerAlive
    <3>3. /\ mNextFlushID = merger.maxEvents + 1 /\ mOutFile = Len(mOutTree)
          /\ merger.maxEvents = gAskedEvents
      BY <1>0, <3>2 DEF RestInv
    <3>4. mOutFile = Batches[1]
      BY <1>1, <1>2, <3>3
    <3> QED
      BY <2>1, <2>3, <3>4 DEF Run!Next, Run!Succeed
  <2> QED
    BY <2>2, <2>3
<1>5. CASE mergerIO /\ writeFiles
  <2>1. mOutFile' = Len(mOutTree) /\ UNCHANGED driver
    BY <1>5 DEF mergerIO, writeFiles, others, driverVars
  <2>2. CASE UNCHANGED mOutFile
    BY <2>1, <2>2
  <2>3. CASE ~UNCHANGED mOutFile
    <3>1. driver = "running"
      <4>1. ~UNCHANGED vars
        BY <2>3 DEF vars, mergerVars, output
      <4> QED
        BY <4>1 DEF Next
    <3>2. Current
      BY <1>0, <1>5, MergesCurrent DEF mergerIO, writeFiles
    <3>3. 1 .. mNextFlushID - 1 \subseteq 1 .. gAskedEvents
      BY <1>0, <3>2 DEF CollectInv
    <3>4. mNextFlushID - 1 <= gAskedEvents
      <4>1. mNextFlushID - 1 >= 1 => mNextFlushID - 1 \in 1 .. mNextFlushID - 1
        BY <1>2
      <4> QED
        BY <1>1, <1>2, <3>3, <4>1
    <3>5. mOutFile \in Nat /\ mOutFile <= Len(mOutTree)
      BY <1>0 DEF WriteInv
    <3>6. mOutFile' \in mOutFile + 1 .. Batches[1]
      BY <1>1, <1>2, <2>1, <2>3, <3>4, <3>5
    <3> QED
      BY <2>1, <3>1, <3>6 DEF Run!Next, Run!Write
  <2> QED
    BY <2>2, <2>3
<1>6. CASE ~mergerReturned /\ ~(mergerIO /\ writeFiles)
  <2>1. UNCHANGED driver
    BY <1>6, StepCases DEF Elsewhere, driverVars, mergerStep, mergerIO, mergerKilled, others,
                           eventFinished, childFailed, controlRequest
  <2>2. CASE mergerStep
    <3>1. CASE mergerControlInput
      <4>1. merger.at = "listen"
        BY <3>1 DEF mergerControlInput, mergerReInit
      <4> QED
        BY <1>0, <4>1 DEF RestInv
    <3>2. CASE ~mergerControlInput
      BY <1>3, <2>1, <2>2, <3>2 DEF mergerStep, mergerMain, collect, launchMerge, startMerge,
                 countEvent, startLastMerge, awaitLastMerge, reportEvent, concludeData,
                 mergerSubscribes, collected, output
    <3> QED
      BY <3>1, <3>2
  <2>3. CASE mergerIO
    <3>1. UNCHANGED mOutFile
      BY <1>6, <2>3 DEF mergerIO, mergerIOThread, mergeStart, flushEvent, flushEnds, mergeEnd,
                        collected, output
    <3> QED
      BY <1>3, <2>1, <3>1
  <2>4. CASE Elsewhere \/ mergerKilled \/ eventFinished \/ childFailed \/ controlRequest
    <3>1. UNCHANGED mOutFile
      BY <2>4 DEF Elsewhere, mergerState, mergerKilled, eventFinished, childFailed, controlRequest,
                  mergerVars, collected, output
    <3> QED
      BY <1>3, <2>1, <3>1
  <2> QED
    BY <1>6, <2>2, <2>3, <2>4, StepCases
<1> QED
  BY <1>4, <1>5, <1>6

\* A batch of o2-sim does what SimulationRun promises, for any number of workers
\* that may crash: the file grows up to the number of events, and success is
\* reported only when it holds them all.
THEOREM BatchImplementsRun ==
  ASSUME ~AsService, ~FilterNoHits, WordsSuffice
  PROVE  Spec => RunSpec
<1>1. Replies /\ NonEmptyBatches
  BY DEF Replies, NonEmptyBatches
<1>2. Init => SimulationInv /\ EndInv
  BY SimulationInit, EndInit
<1>3. SimulationInv /\ EndInv /\ [Next]_vars => (SimulationInv /\ EndInv)'
  BY <1>1, SimulationStep, EndStep
<1>4. Init => Run!Init
  BY DEF Init, MergerInit, cleared, Run!Init
<1>5. SimulationInv /\ EndInv /\ [Next]_vars => [Run!Next]_<<mOutFile, driver>>
  BY RunStep
<1> QED
  BY <1>2, <1>3, <1>4, <1>5, PTL DEF Spec, RunSpec, Run!Spec
=============================================================================
