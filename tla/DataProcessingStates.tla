------------------------- MODULE DataProcessingStates -------------------------
(***************************************************************************)
(* The states a device reports to the GUI: texts of any length.            *)
(* updateState() puts a report in front of those which are queued,         *)
(* processCommandQueue() brings the reports into the buffer of the states, *)
(* and flushChangedStates() publishes the states that have changed.  Every *)
(* state is a view of the buffer; one that grows out of its capacity moves *)
(* to the end.                                                             *)
(*                                                                         *)
(* One thread uses the service here.  The buffer is made of cells, and     *)
(* reports are sequences of cells; the queue is the sequence of its        *)
(* reports, newest first, and they fit in it as their bytes do.            *)
(***************************************************************************)
EXTENDS Integers, SequencesExt, FiniteSetsExt

CONSTANTS
  States,             (* registered and enabled states                       *)
  Cells,              (* what a report is made of                            *)
  Reports,            (* what may be reported: sequences of cells            *)
  HeaderSize,         (* sizeof(CommandHeader)                               *)
  StatesBufferSize,   (* STATES_BUFFER_SIZE                                  *)
  MinCapacity,        (* smallest capacity of a state                        *)
  minPublishInterval, (* state -> ticks                                      *)
  maxRefreshLatency,  (* state -> ticks, or -1: never                        *)
  sendInitialValue,   (* state -> BOOLEAN                                    *)
  MaxReports,         (* bound on the number of reports                      *)
  MaxPasses,          (* bound on the number of passes of the queue          *)
  LastReportTime      (* no report comes after it                            *)

commandSize(data) == HeaderSize + Len(data)

ASSUME StatesAssumption ==
  /\ HeaderSize \in Nat \ {0} /\ MinCapacity \in Nat \ {0} /\ StatesBufferSize \in Nat
  /\ Reports \subseteq Seq(Cells)
  /\ \A data \in Reports : data # <<>> /\ commandSize(data) <= StatesBufferSize
  /\ minPublishInterval \in [States -> Nat]
  /\ maxRefreshLatency \in [States -> Int]
  /\ sendInitialValue \in [States -> BOOLEAN]
  /\ {MaxReports, MaxPasses, LastReportTime} \subseteq Nat

VARIABLES
  queue,         (* the reports in the store, newest first                   *)
  statesBuffer,  (* sequence of cells                                        *)
  statesViews,   (* state -> its first cell, its size and its capacity       *)
  updated,       (* state -> whether it has to be published                  *)
  updateInfos,   (* state -> UpdateInfo                                      *)
  generation,    (* number of passes of the queue                            *)
  now,           (* the clock                                                *)
  published,     (* state -> what the driver was told                        *)
  reports,       (* number of reports so far                                 *)
  reported       (* state -> all that was reported for it                    *)

stateVars == <<statesBuffer, statesViews, updated>>
vars == <<queue, stateVars, updateInfos, generation, now, published, reports, reported>>

Free == "free"

contentIn(buffer, view) == SubSeq(buffer, view.first + 1, view.first + view.size)

state(s) == contentIn(statesBuffer, statesViews[s])

Init ==
  /\ queue = <<>>
  /\ statesBuffer = <<>>
  /\ statesViews = [s \in States |-> [first |-> 0, size |-> 0, capacity |-> 0]]
  /\ updated = sendInitialValue
  /\ updateInfos = [s \in States |-> [timestamp |-> 0, lastPublished |-> 0, generation |-> -1]]
  /\ generation = 0
  /\ now = 0
  /\ published = [s \in States |-> <<>>]
  /\ reports = 0
  /\ reported = [s \in States |-> {}]
-------------------------------------------------------------------------------
(***************************************************************************)
(* processCommandQueue().                                                  *)
(***************************************************************************)
(* The buffer with data copied to a place of it. *)
copied(buffer, first, data) ==
  [i \in 1 .. Len(buffer) |-> IF i - first \in 1 .. Len(data) THEN data[i - first] ELSE buffer[i]]

(* Mutant: a state that outgrows its capacity keeps its first cell. *)
placedInPlace(memory, s, data) ==
  LET view == memory.views[s]
      capacity == Max({Len(data), MinCapacity})
  IN  [view |-> [first |-> view.first, size |-> Len(data), capacity |-> capacity],
       buffer |-> memory.buffer \o [i \in 1 .. capacity |-> Free]]

(* The view for a report, and the buffer it is a view of. *)
placed(memory, s, data) ==
  LET view == memory.views[s]
      capacity == Max({Len(data), MinCapacity})
  IN  IF view.capacity >= Len(data)
      THEN [view |-> [view EXCEPT !.size = Len(data)], buffer |-> memory.buffer]
      ELSE [view |-> [first |-> Len(memory.buffer), size |-> Len(data), capacity |-> capacity],
            buffer |-> memory.buffer \o [i \in 1 .. capacity |-> Free]]

(* A report is left out when a newer one has changed the state in this     *)
(* pass, or when it says what the state says.                              *)
ignored(memory, report) ==
  \/ generation <= memory.infos[report.id].generation
  \/ contentIn(memory.buffer, memory.views[report.id]) = report.data

stored(memory, report) ==
  LET s == report.id
      place == placed(memory, s, report.data)
  IN  IF ignored(memory, report) THEN memory
      ELSE [buffer |-> copied(place.buffer, place.view.first, report.data),
            views |-> [memory.views EXCEPT ![s] = place.view],
            updated |-> [memory.updated EXCEPT ![s] = TRUE],
            infos |-> [memory.infos EXCEPT ![s].timestamp = report.timestamp,
                                           ![s].generation = generation]]

(* The memory after the first n reports of the queue. *)
storedAll ==
  LET after[n \in 0 .. Len(queue)] ==
        IF n = 0
        THEN [buffer |-> statesBuffer, views |-> statesViews,
              updated |-> updated, infos |-> updateInfos]
        ELSE stored(after[n - 1], queue[n])
  IN  after[Len(queue)]

ProcessQueue ==
  LET memory == storedAll
  IN  /\ statesBuffer' = memory.buffer
      /\ statesViews' = memory.views
      /\ updated' = memory.updated
      /\ updateInfos' = memory.infos
      /\ generation' = generation + 1

processCommandQueue ==
  /\ generation < MaxPasses
  /\ ProcessQueue
  /\ queue' = <<>>
  /\ UNCHANGED <<now, published, reports, reported>>
-------------------------------------------------------------------------------
(***************************************************************************)
(* updateState().  A report that does not fit makes room first.  Nothing   *)
(* changes when the state is disabled or not registered; a report which is *)
(* larger than an eighth of the store is no report here.                   *)
(***************************************************************************)
queueSize == FoldLeft(LAMBDA sum, report : sum + commandSize(report.data), 0, queue)

fits(data) == queueSize + commandSize(data) <= StatesBufferSize

updateState(s, data) ==
  LET report == [id |-> s, timestamp |-> now, data |-> data]
  IN  /\ reports < MaxReports
      /\ now <= LastReportTime
      /\ reports' = reports + 1
      /\ reported' = [reported EXCEPT ![s] = @ \cup {data}]
      /\ \/ /\ fits(data)
            /\ queue' = <<report>> \o queue
            /\ UNCHANGED <<stateVars, updateInfos, generation>>
         \/ /\ ~ fits(data)
            /\ ProcessQueue
            /\ queue' = <<report>>
      /\ UNCHANGED <<now, published>>
-------------------------------------------------------------------------------
(***************************************************************************)
(* flushChangedStates().                                                   *)
(***************************************************************************)
refreshed(s) ==
  /\ ~ updated[s]
  /\ maxRefreshLatency[s] >= 0 /\ now - updateInfos[s].timestamp > maxRefreshLatency[s]

publishes(s) ==
  /\ updated[s] \/ refreshed(s)
  /\ now - updateInfos[s].lastPublished >= minPublishInterval[s]

(* Mutant: a state that is too young to be published is forgotten. *)
stillUpdatedNever(s) == FALSE

stillUpdated(s) == (updated[s] \/ refreshed(s)) /\ ~ publishes(s)

flushChangedStates ==
  /\ updateInfos' = [s \in States |->
       [updateInfos[s] EXCEPT !.timestamp = IF refreshed(s) THEN now ELSE @,
                              !.lastPublished = IF publishes(s) THEN now ELSE @]]
  /\ updated' = [s \in States |-> stillUpdated(s)]
  /\ published' = [s \in States |-> IF publishes(s) THEN state(s) ELSE published[s]]
  /\ UNCHANGED <<queue, statesBuffer, statesViews, generation, now, reports, reported>>

(* Time has a meaning as long as reports come or a state is too young.     *)
Tick ==
  /\ now < LastReportTime \/ \E s \in States : stillUpdated(s)
  /\ now' = now + 1
  /\ UNCHANGED <<queue, stateVars, updateInfos, generation, published, reports, reported>>

Next ==
  \/ \E s \in States, data \in Reports : updateState(s, data)
  \/ processCommandQueue
  \/ flushChangedStates
  \/ Tick

Spec == Init /\ [][Next]_vars

(* The main loop publishes again and again, and time passes.  The queue is *)
(* processed after a computation, and there may be none.                   *)
FairSpec == Spec /\ WF_vars(flushChangedStates) /\ WF_now(Tick)
-------------------------------------------------------------------------------
(* A state is empty or something that was reported for it, whatever was    *)
(* written next to it and wherever it has moved, and its view lies within  *)
(* the buffer with its whole capacity.                                     *)
StateWasReported ==
  \A s \in States :
    /\ state(s) \in reported[s] \cup {<<>>}
    /\ statesViews[s].size \in 0 .. statesViews[s].capacity
    /\ statesViews[s].first \in 0 .. Len(statesBuffer) - statesViews[s].capacity

(* Whatever has changed is told to the driver.                             *)
ChangesArePublished ==
  \A s \in States : updated[s] ~> (published[s] = state(s))
===============================================================================
