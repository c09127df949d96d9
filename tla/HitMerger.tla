------------------------------ MODULE HitMerger ------------------------------
(***************************************************************************)
(* O2HitMerger of o2-sim: the process that collects what the workers made  *)
(* of the chunks, recognises by a checksum when an event, and when the     *)
(* batch, is complete, and merges and writes the events in their order.    *)
(*                                                                         *)
(* The main thread (ConditionalRun, handleSimData) collects; merging and   *)
(* writing (mergeAndFlushData) is done by mMergerIOThread, which is started*)
(* when an event completes, but only when no merge is in progress: what    *)
(* completes meanwhile waits for a later merge.                            *)
(***************************************************************************)
EXTENDS Naturals, Sequences, FiniteSets

CONSTANTS
  Word,         \* 2 to the width of the checksums (uint32_t)
  MaxEventID,   \* bound: the largest event number
  FilterNoHits  \* isFilterOutNoHitEvents()

ASSUME WordAssumption == Word \in Nat \ {0}
ASSUME MaxEventIDAssumption == MaxEventID \in Nat

VARIABLES
  simdata,              \* the chunks on their way from the workers
  mPartsCheckSum, mEventChecksum,
  mSubEventInfoBuffer,  \* what was collected for each event
  mFlushableEvents, mNextFlushID,
  mNExpectedEvents,
  mergingInProgress, mMergerIOThread,
  mOutTree,             \* the merged events, in the order of the tree's entries
  mOutFile,             \* how many of them the file holds
  filtered,             \* the events taken out because they have no hits
  mPipeToDriver,        \* the completed events reported and not read yet
  merger,               \* the main thread: where it is, and its locals
  initAcknowledged      \* whether the server was told that it may shut down

checksums == <<mPartsCheckSum, mEventChecksum>>
ioThread == <<mergingInProgress, mMergerIOThread>>
output == <<mOutTree, mOutFile, filtered>>
mergerVars == <<simdata, checksums, mSubEventInfoBuffer, mFlushableEvents, mNextFlushID,
                mNExpectedEvents, ioThread, output, mPipeToDriver, merger, initAcknowledged>>

EventIDs == 1 .. MaxEventID

\* The containers before any data has come.
cleared ==
  /\ mPartsCheckSum = [e \in EventIDs |-> 0] /\ mEventChecksum = 0
  /\ mSubEventInfoBuffer = [e \in EventIDs |-> {}]
  /\ mFlushableEvents = {} /\ mNextFlushID = 1
  /\ mOutTree = <<>> /\ mOutFile = 0 /\ filtered = {}

MergerInit(nEvents) ==
  /\ cleared
  /\ simdata = {}
  /\ mNExpectedEvents = nEvents
  /\ mergingInProgress = FALSE /\ mMergerIOThread = "none"
  /\ mPipeToDriver = <<>>
  /\ merger = [at |-> IF nEvents = 0 THEN "await" ELSE "receive",
               event |-> 0, maxEvents |-> 0, more |-> TRUE]
  /\ initAcknowledged = FALSE

(***************************************************************************)
(* handleSimData.                                                          *)
(***************************************************************************)

\* insertAdd: the sum of the parts seen of an event.
insertAdd(m, key, value) == [m EXCEPT ![key] = (@ + value) % Word]

\* Mutant: the checksum is compared with the number of parts.
isDataCompleteCount(checksum, n) == checksum = n

\* The sum 1 + ... + n, computed in unsigned words: the product wraps before
\* it is halved.
isDataComplete(checksum, n) == checksum = ((n * (n + 1)) % Word) \div 2

collect(c) ==
  LET sums == insertAdd(mPartsCheckSum, c.event, c.part)
      complete == isDataComplete(sums[c.event], c.nparts)
  IN /\ merger.at = "receive" /\ c \in simdata
     /\ simdata' = simdata \ {c}
     /\ mPartsCheckSum' = sums
     /\ mSubEventInfoBuffer' = [mSubEventInfoBuffer EXCEPT ![c.event] = @ \union {c}]
     /\ mFlushableEvents' = IF complete THEN mFlushableEvents \union {c.event}
                                        ELSE mFlushableEvents
     /\ merger' = [at |-> IF complete THEN "launch" ELSE "return",
                   event |-> c.event, maxEvents |-> c.maxEvents, more |-> TRUE]
     /\ UNCHANGED <<mEventChecksum, mNextFlushID, mNExpectedEvents, ioThread, output,
                    mPipeToDriver, initAcknowledged>>

MergerGoto(l) == merger' = [merger EXCEPT !.at = l]

collected == <<simdata, checksums, mSubEventInfoBuffer, mFlushableEvents, mNextFlushID,
               mNExpectedEvents, output>>

\* Mutant: while a merge is in progress the event is left alone altogether.
launchMergeOrReturn ==
  /\ merger.at = "launch"
  /\ MergerGoto(IF mergingInProgress THEN "return" ELSE "join")
  /\ UNCHANGED <<collected, ioThread, mPipeToDriver, initAcknowledged>>

\* A merge is started unless one is in progress.
launchMerge ==
  /\ merger.at = "launch"
  /\ MergerGoto(IF mergingInProgress THEN "count" ELSE "join")
  /\ UNCHANGED <<collected, ioThread, mPipeToDriver, initAcknowledged>>

ended == mMergerIOThread \in {"none", "ended"}

startMerge ==
  /\ merger.at = "join"
  /\ ended
  /\ mMergerIOThread' = "start"
  /\ MergerGoto("count")
  /\ UNCHANGED <<collected, mergingInProgress, mPipeToDriver, initAcknowledged>>

countEvent ==
  LET sum == (mEventChecksum + merger.event) % Word
  IN /\ merger.at = "count"
     /\ mEventChecksum' = sum
     /\ MergerGoto(IF isDataComplete(sum, merger.maxEvents) THEN "joinLast" ELSE "report")
     /\ UNCHANGED <<simdata, mPartsCheckSum, mSubEventInfoBuffer, mFlushableEvents,
                    mNextFlushID, mNExpectedEvents, ioThread, output, mPipeToDriver,
                    initAcknowledged>>

\* Mutant: the running merge is awaited, and no other is made.
startLastMergeNot ==
  /\ merger.at = "joinLast"
  /\ ended
  /\ mMergerIOThread' = "none"
  /\ merger' = [merger EXCEPT !.at = "report", !.more = FALSE]
  /\ UNCHANGED <<collected, mergingInProgress, mPipeToDriver, initAcknowledged>>

\* All events are here: the running merge is awaited, then one more is made.
startLastMerge ==
  /\ merger.at = "joinLast"
  /\ ended
  /\ mMergerIOThread' = "start"
  /\ MergerGoto("awaitLast")
  /\ UNCHANGED <<collected, mergingInProgress, mPipeToDriver, initAcknowledged>>

awaitLastMerge ==
  /\ merger.at = "awaitLast"
  /\ ended
  /\ mMergerIOThread' = "none"
  /\ merger' = [merger EXCEPT !.at = "report", !.more = FALSE]
  /\ UNCHANGED <<collected, mergingInProgress, mPipeToDriver, initAcknowledged>>

reportEvent ==
  /\ merger.at = "report"
  /\ mPipeToDriver' = Append(mPipeToDriver, merger.event)
  /\ MergerGoto("return")
  /\ UNCHANGED <<collected, ioThread, initAcknowledged>>

(***************************************************************************)
(* The rest of ConditionalRun, and waitForControlInput with ReInit.        *)
(***************************************************************************)
concludeData(asService) ==
  LET idle == asService /\ ~merger.more
  IN /\ merger.at = "return"
     /\ MergerGoto(CASE idle -> "await"
                     [] ~idle /\ merger.more -> "receive"
                     [] ~idle /\ ~merger.more -> "stopped")
     /\ initAcknowledged' = (initAcknowledged \/ ~idle)
     /\ UNCHANGED <<collected, ioThread, mPipeToDriver>>

\* The result of the wait inside InitTask (merger.more) is ignored.
mergerReInit(reconfig) ==
  /\ merger.at = "listen"
  /\ IF reconfig.stop
       THEN /\ MergerGoto(IF merger.more THEN "receive" ELSE "stopped")
            /\ UNCHANGED <<checksums, mSubEventInfoBuffer, mFlushableEvents, mNextFlushID,
                           mNExpectedEvents, output>>
       ELSE /\ MergerGoto("receive")
            /\ mNExpectedEvents' = reconfig.nEvents
            /\ mPartsCheckSum' = [e \in EventIDs |-> 0] /\ mEventChecksum' = 0
            /\ mSubEventInfoBuffer' = [e \in EventIDs |-> {}]
            /\ mFlushableEvents' = {} /\ mNextFlushID' = 1
            /\ mOutTree' = <<>> /\ mOutFile' = 0 /\ filtered' = {}
  /\ UNCHANGED <<simdata, ioThread, mPipeToDriver, initAcknowledged>>

(***************************************************************************)
(* mergeAndFlushData, in mMergerIOThread.                                  *)
(***************************************************************************)
mergeStart ==
  /\ mMergerIOThread = "start"
  /\ mergingInProgress' = TRUE
  /\ mMergerIOThread' = "first"
  /\ UNCHANGED <<collected, mPipeToDriver, merger, initAcknowledged>>

isFlushable(e) == e \in mFlushableEvents

\* Mutant: the events are flushed as they complete, not in their order.
flushEventAsCompleted ==
  /\ mMergerIOThread \in {"first", "flush"}
  /\ mNextFlushID' = mNextFlushID + 1
  /\ mMergerIOThread' = "flush"
  /\ \E e \in mFlushableEvents :
       /\ mSubEventInfoBuffer[e] # {}
       /\ mOutTree' = Append(mOutTree, mSubEventInfoBuffer[e])
       /\ mSubEventInfoBuffer' = [mSubEventInfoBuffer EXCEPT ![e] = {}]
  /\ UNCHANGED <<simdata, checksums, mFlushableEvents, mNExpectedEvents, mergingInProgress,
                 filtered, mOutFile, mPipeToDriver, merger, initAcknowledged>>

\* One turn of the loop: the next event is appended to the trees, or taken out
\* when it has no data or no hits, and its buffers are released.
flushEvent ==
  /\ mMergerIOThread \in {"first", "flush"}
  /\ isFlushable(mNextFlushID)
  /\ mNextFlushID' = mNextFlushID + 1
  /\ mMergerIOThread' = "flush"
  /\ \/ /\ mSubEventInfoBuffer[mNextFlushID] # {} /\ mNExpectedEvents # 0
        /\ mOutTree' = Append(mOutTree, mSubEventInfoBuffer[mNextFlushID])
        /\ UNCHANGED filtered
     \/ /\ FilterNoHits \/ mSubEventInfoBuffer[mNextFlushID] = {} \/ mNExpectedEvents = 0
        /\ filtered' = filtered \union {mNextFlushID}
        /\ UNCHANGED mOutTree
  /\ mSubEventInfoBuffer' = IF mNExpectedEvents = 0
                              THEN mSubEventInfoBuffer
                              ELSE [mSubEventInfoBuffer EXCEPT ![mNextFlushID] = {}]
  /\ UNCHANGED <<simdata, checksums, mFlushableEvents, mNExpectedEvents, mergingInProgress,
                 mOutFile, mPipeToDriver, merger, initAcknowledged>>

\* Nothing to flush: without a flushed event the files are not written.
flushEnds ==
  /\ mMergerIOThread \in {"first", "flush"}
  /\ ~isFlushable(mNextFlushID)
  /\ mMergerIOThread' = IF mMergerIOThread = "first" THEN "leave" ELSE "write"
  /\ UNCHANGED <<collected, mergingInProgress, mPipeToDriver, merger, initAcknowledged>>

writeFiles ==
  /\ mMergerIOThread = "write"
  /\ mOutFile' = Len(mOutTree)
  /\ mMergerIOThread' = "leave"
  /\ UNCHANGED <<simdata, checksums, mSubEventInfoBuffer, mFlushableEvents, mNextFlushID,
                 mNExpectedEvents, mOutTree, filtered, mergingInProgress, mPipeToDriver,
                 merger, initAcknowledged>>

mergeEnd ==
  /\ mMergerIOThread = "leave"
  /\ mergingInProgress' = FALSE
  /\ mMergerIOThread' = "ended"
  /\ UNCHANGED <<collected, mPipeToDriver, merger, initAcknowledged>>

mergerMain(asService) ==
  \/ \E c \in simdata : collect(c)
  \/ launchMerge \/ startMerge \/ countEvent \/ startLastMerge \/ awaitLastMerge
  \/ reportEvent \/ concludeData(asService)

mergerIOThread == mergeStart \/ flushEvent \/ flushEnds \/ writeFiles \/ mergeEnd

(***************************************************************************)
(* Properties.                                                             *)
(***************************************************************************)
events(entry) == {c.event : c \in entry}

\* The trees hold the events in their order, each once, and every event below
\* mNextFlushID is in them or was taken out: the merge thread goes through the
\* events in order whatever the order in which they complete.
FlushedInOrder ==
  /\ \A i \in 1 .. Len(mOutTree) : \E e \in 1 .. mNextFlushID - 1 :
       events(mOutTree[i]) = {e} /\ e \notin filtered
  /\ \A i, j \in 1 .. Len(mOutTree) : \A e \in events(mOutTree[i]), f \in events(mOutTree[j]) :
       i < j => e < f
  /\ filtered \subseteq 1 .. mNextFlushID - 1
  /\ Len(mOutTree) + Cardinality(filtered) = mNextFlushID - 1

\* An event enters the trees with all its parts: the checksum of handleSimData
\* matches only when the last part has been collected.
OnlyCompleteEvents ==
  \A i \in 1 .. Len(mOutTree) : \A c \in mOutTree[i] :
    {d.part : d \in mOutTree[i]} = 1 .. c.nparts

\* When the merger expects no more data (handleSimData returned false) every
\* event of the batch has been merged, and the file holds what the tree holds:
\* the events that completed while a merge was in progress too.
FinishedIsWritten ==
  merger.at \in {"report", "return", "stopped"} /\ ~merger.more =>
    /\ mNextFlushID = merger.maxEvents + 1
    /\ mOutFile = Len(mOutTree)
    /\ \A e \in EventIDs : mSubEventInfoBuffer[e] = {}
    /\ mMergerIOThread = "none"
=============================================================================
