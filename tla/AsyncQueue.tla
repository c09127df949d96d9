------------------------------ MODULE AsyncQueue ------------------------------
(***************************************************************************)
(* The AsyncQueue of a device: work to be done on the main thread once the *)
(* device is past a timeslice.  Any thread posts; a post that finds the    *)
(* inbox full moves its content to the queue first, unless another thread  *)
(* is doing that already.  The main loop runs what has become runnable.    *)
(*                                                                         *)
(* Tasks are a set, because run() sorts them and std::sort is free in the  *)
(* order of equivalent ones.  push_back and the scan of the tasks in run() *)
(* are atomic here; in the code nothing makes them so.                     *)
(***************************************************************************)
EXTENDS Integers, Sequences, FiniteSets

CONSTANTS
  Main,           (* the thread that executes Run()                          *)
  Workers,        (* threads of the pool                                     *)
  Posts,          (* the tasks that are posted, each as often as one likes   *)
  Score,          (* prototypes: AsyncTaskId -> score                        *)
  InboxCapacity,  (* slots of the x9 inbox                                   *)
  MaxTimeslice,   (* bound of the watermark                                  *)
  MaxResets,      (* bound on the number of stops                            *)
  NoTask,
  Nobody

Threads == Workers \cup {Main}

ASSUME QueueAssumption ==
  /\ Main \notin Workers
  /\ Nobody \notin Threads
  /\ NoTask \notin Posts
  /\ DOMAIN Score \subseteq Nat
  /\ Posts \subseteq [timeslice : Nat, id : DOMAIN Score, debounce : Int, part : Nat]
  /\ Score \in [DOMAIN Score -> Int]
  /\ \A i, j \in DOMAIN Score : Score[i] = Score[j] => i = j
  /\ InboxCapacity \in Nat \ {0}
  /\ MaxTimeslice \in Nat
  /\ MaxResets \in Nat

VARIABLES
  posting,         (* thread -> the task it is inside post() with            *)
  inbox,           (* inbox                                                  *)
  first,           (* the thread that set `first` to false, if any           *)
  tasks,           (* tasks                                                  *)
  runnable,        (* those with AsyncTask::runnable                         *)
  oldestPossible,  (* the watermark of the device                            *)
  pc,              (* where the main thread is in run()                      *)
  limit,           (* the argument of run()                                  *)
  seen,            (* the tasks run() found when it sized `order`            *)
  order,           (* order                                                  *)
  ran,             (* tasks whose callback this run() has called             *)
  resets           (* stops so far                                           *)

queueVars == <<posting, inbox, first, tasks, runnable>>
runVars == <<pc, limit, seen, order, ran>>
vars == <<queueVars, runVars, oldestPossible, resets>>

Init ==
  /\ posting = [t \in Threads |-> NoTask]
  /\ inbox = {}
  /\ first = Nobody
  /\ tasks = {}
  /\ runnable = {}
  /\ oldestPossible = 0
  /\ pc = "idle"
  /\ limit = 0
  /\ seen = {}
  /\ order = <<>>
  /\ ran = {}
  /\ resets = 0
-------------------------------------------------------------------------------
(***************************************************************************)
(* post() and flushPending().                                              *)
(***************************************************************************)

(* Bound: a task is not posted again while the same one is on its way. *)
onItsWay == inbox \cup tasks \cup {posting[th] : th \in Threads}

Post(th, t) ==
  /\ th = Main => pc = "idle"
  /\ posting[th] = NoTask
  /\ t \notin onItsWay
  /\ posting' = [posting EXCEPT ![th] = t]
  /\ UNCHANGED <<inbox, first, tasks, runnable, runVars, oldestPossible, resets>>

WriteToInbox(th) ==
  /\ posting[th] # NoTask
  /\ first # th
  /\ Cardinality(inbox) < InboxCapacity
  /\ inbox' = inbox \cup {posting[th]}
  /\ posting' = [posting EXCEPT ![th] = NoTask]
  /\ UNCHANGED <<first, tasks, runnable, runVars, oldestPossible,
                 resets>>

(* The inbox is full and nobody else is emptying it.  A thread that finds  *)
(* `first` false tries to write again, which is no step.                   *)
FlushPending(th) ==
  /\ posting[th] # NoTask
  /\ Cardinality(inbox) = InboxCapacity
  /\ first = Nobody
  /\ first' = th
  /\ UNCHANGED <<posting, inbox, tasks, runnable, runVars,
                 oldestPossible, resets>>

ReadFromInbox(th, t) ==
  /\ first = th
  /\ t \in inbox
  /\ inbox' = inbox \ {t}
  /\ tasks' = tasks \cup {t}
  /\ UNCHANGED <<posting, first, runnable, runVars, oldestPossible,
                 resets>>

(* Mutant: `first` is not given back by a thread which was posting. *)
FlushKeepsFirst(th) ==
  /\ first = th
  /\ inbox = {}
  /\ first' = IF pc = "flush" THEN Nobody ELSE th
  /\ pc' = IF th = Main /\ pc = "flush" THEN "size" ELSE pc
  /\ UNCHANGED <<posting, inbox, tasks, runnable, limit, seen, order,
                 ran, oldestPossible, resets>>

FlushDone(th) ==
  /\ first = th
  /\ inbox = {}
  /\ first' = Nobody
  /\ pc' = IF th = Main /\ pc = "flush" THEN "size" ELSE pc
  /\ UNCHANGED <<posting, inbox, tasks, runnable, limit, seen, order,
                 ran, oldestPossible, resets>>
-------------------------------------------------------------------------------
(***************************************************************************)
(* run(), which the main loop calls once per iteration.                    *)
(***************************************************************************)
Run ==
  /\ pc = "idle"
  /\ posting[Main] = NoTask
  /\ limit' = oldestPossible
  /\ IF first = Nobody THEN first' = Main /\ pc' = "flush"
                       ELSE first' = first /\ pc' = "size"
  /\ UNCHANGED <<posting, inbox, tasks, runnable, seen, order, ran,
                 oldestPossible, resets>>

RunSize ==
  /\ pc = "size"
  /\ seen' = tasks
  /\ pc' = IF tasks = {} THEN "idle" ELSE "mark"
  /\ UNCHANGED <<queueVars, limit, order, ran, oldestPossible, resets>>

(* Mutant: the debounce value does not take part in the sort. *)
beforeIgnoringDebounce(now, a, b) ==
  IF ~ (a \in now <=> b \in now) THEN a \in now
  ELSE IF a.timeslice # b.timeslice THEN a.timeslice > b.timeslice
  ELSE Score[a.id] > Score[b.id]

(* The comparison of the sort: runnable, timeslice, score, debounce. *)
before(now, a, b) ==
  IF ~ (a \in now <=> b \in now) THEN a \in now
  ELSE IF a.timeslice # b.timeslice THEN a.timeslice > b.timeslice
  ELSE IF a.id = b.id THEN a.debounce > b.debounce
  ELSE Score[a.id] > Score[b.id]

sorted(now, S) ==
  {o \in [1 .. Cardinality(S) -> S] :
     /\ \A t \in S : \E i \in DOMAIN o : o[i] = t
     /\ \A i, j \in DOMAIN o : i < j => ~ before(now, o[j], o[i])}

(* The predicate of std::unique. *)
coalesces(now, a, b) ==
  /\ a \in now <=> b \in now
  /\ a.id = b.id
  /\ a.debounce >= 0 /\ b.debounce >= 0

(* std::unique keeps the first of every stretch of equivalent neighbours.  *)
keeps(now, o) == {i \in DOMAIN o : i = 1 \/ ~ coalesces(now, o[i - 1], o[i])}

increasing(S) ==
  {e \in [1 .. Cardinality(S) -> S] :
     /\ \A i \in S : \E k \in DOMAIN e : e[k] = i
     /\ \A j, k \in DOMAIN e : j < k => e[j] < e[k]}

unique(now, o) == {[k \in DOMAIN e |-> o[e[k]]] : e \in increasing(keeps(now, o))}

(* Every task in the queue is marked, but only those that were there when  *)
(* `order` was sized take part in the sort.                                *)
RunMark ==
  /\ pc = "mark"
  /\ LET now == runnable \cup {t \in tasks : t.timeslice <= limit} IN
       /\ runnable' = now
       /\ \E o \in sorted(now, seen) : order' \in unique(now, o)
  /\ pc' = "run"
  /\ UNCHANGED <<posting, inbox, first, tasks, limit, seen, ran,
                 oldestPossible, resets>>

RunTask ==
  /\ pc = "run"
  /\ order # <<>>
  /\ ran' = ran \cup ({Head(order)} \cap runnable)
  /\ order' = Tail(order)
  /\ UNCHANGED <<queueVars, pc, limit, seen, oldestPossible, resets>>

(* Mutant: the queue is cleared. *)
EraseAll ==
  /\ pc = "run"
  /\ order = <<>>
  /\ tasks' = {}
  /\ runnable' = {}
  /\ ran' = {}
  /\ pc' = "idle"
  /\ UNCHANGED <<posting, inbox, first, limit, seen, order,
                 oldestPossible, resets>>

(* Mutant: the tasks that ran are left in the queue. *)
EraseNothing ==
  /\ pc = "run"
  /\ order = <<>>
  /\ runnable' = {}
  /\ ran' = {}
  /\ pc' = "idle"
  /\ UNCHANGED <<posting, inbox, first, tasks, limit, seen, order,
                 oldestPossible, resets>>

RunErase ==
  /\ pc = "run"
  /\ order = <<>>
  /\ tasks' = tasks \ runnable
  /\ runnable' = {}
  /\ ran' = {}
  /\ pc' = "idle"
  /\ UNCHANGED <<posting, inbox, first, limit, seen, order,
                 oldestPossible, resets>>
-------------------------------------------------------------------------------
(* oldestPossibleOutput moves up, in the middle of anything. *)
OldestPossibleMoves(t) ==
  /\ t > oldestPossible
  /\ oldestPossible' = t
  /\ UNCHANGED <<queueVars, runVars, resets>>

(* The stop callback of the service: the inbox is not touched. *)
Reset ==
  /\ pc = "idle"
  /\ \A th \in Threads : posting[th] = NoTask
  /\ resets < MaxResets
  /\ resets' = resets + 1
  /\ tasks' = {}
  /\ oldestPossible' = 0
  /\ UNCHANGED <<posting, inbox, first, runnable, runVars>>

Next ==
  \/ \E th \in Threads, t \in Posts : Post(th, t)
  \/ \E th \in Threads : WriteToInbox(th)
  \/ \E th \in Threads : FlushPending(th)
  \/ \E th \in Threads, t \in Posts : ReadFromInbox(th, t)
  \/ \E th \in Threads : FlushDone(th)
  \/ Run
  \/ RunSize
  \/ RunMark
  \/ RunTask
  \/ RunErase
  \/ \E t \in 1 .. MaxTimeslice : OldestPossibleMoves(t)
  \/ Reset

Spec == Init /\ [][Next]_vars

(* A thread that is inside post() keeps trying, and the main loop goes on. *)
ThreadFairness ==
  /\ \A th \in Threads :
       /\ WF_vars(WriteToInbox(th))
       /\ WF_vars(FlushPending(th))
       /\ WF_vars(\E t \in Posts : ReadFromInbox(th, t))
       /\ WF_vars(FlushDone(th))
  /\ WF_vars(Run)
  /\ WF_vars(RunSize)
  /\ WF_vars(RunMark)
  /\ WF_vars(RunTask)
  /\ WF_vars(RunErase)

FairSpec == Spec /\ ThreadFairness
-------------------------------------------------------------------------------
(* The inbox never holds more than it has slots, and only tasks that are   *)
(* in the queue and runnable run.                                          *)
TypeOK ==
  /\ posting \in [Threads -> Posts \cup {NoTask}]
  /\ inbox \subseteq Posts /\ Cardinality(inbox) <= InboxCapacity
  /\ first \in Threads \cup {Nobody}
  /\ tasks \subseteq Posts
  /\ runnable \subseteq tasks
  /\ ran \subseteq runnable
  /\ order \in Seq(Posts)
  /\ oldestPossible \in 0 .. MaxTimeslice /\ limit \in 0 .. MaxTimeslice
  /\ pc \in {"idle", "flush", "size", "mark", "run"}
  /\ resets \in 0 .. MaxResets

(* run() removes a task only after its callback was called, or that of a   *)
(* task of the same kind it was merged with; a task run() "might still     *)
(* miss" is handled on a later iteration.                                  *)
NoTaskLost ==
  [][resets' = resets =>
       \A t \in tasks \ tasks' :
         t \in ran \/ \E u \in ran : coalesces(runnable, u, t)]_vars

(* The same for the tasks that run() counted when it sized `order`: no     *)
(* thread that posts meanwhile makes it forget one of these.               *)
NoCountedTaskLost ==
  [][resets' = resets =>
       \A t \in seen \cap (tasks \ tasks') :
         t \in ran \/ \E u \in ran : coalesces(runnable, u, t)]_vars

(* Among the tasks of one kind for one timeslice only the one with the     *)
(* highest debounce value runs, whatever order they were posted in and     *)
(* whatever is posted meanwhile.                                           *)
DebounceInTimeslice ==
  \A t \in ran, u \in runnable \cap seen :
    t.id = u.id /\ t.timeslice = u.timeslice /\ t.debounce >= 0 =>
      u.debounce <= t.debounce

(* flushPending "potentially stalls if the inserting tasks are faster to   *)
(* insert than we are to retrieve", so nothing is promised while posts     *)
(* keep coming for ever.                                                   *)
PostsCease == <>[][~ \E th \in Threads, t \in Posts : Post(th, t)]_vars

(* When the posts cease, every thread that is still inside post() comes    *)
(* out of it, even if the inbox is full and several threads find it so:    *)
(* somebody empties it.                                                    *)
PostReturns ==
  PostsCease => \A th \in Threads : posting[th] # NoTask ~> posting[th] = NoTask

(* When the posts cease, what has been posted for a timeslice that is past *)
(* leaves the queue, unless a stop resets the watermark.                   *)
RunnableIsHandled == PostsCease =>
  \A t \in Posts, n \in 0 .. MaxResets :
    t \in inbox \cup tasks /\ t.timeslice <= oldestPossible /\ resets = n
      ~> t \notin inbox \cup tasks \/ resets # n
===============================================================================
