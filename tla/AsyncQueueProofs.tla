--------------------------- MODULE AsyncQueueProofs ---------------------------
(***************************************************************************)
(* run() of the AsyncQueue for any tasks, threads, inbox and watermark:    *)
(* what it counted it either calls or merges with a task that it calls,    *)
(* and of the tasks of one kind for one timeslice it calls only the one    *)
(* with the highest debounce value.                                        *)
(***************************************************************************)
EXTENDS AsyncQueue, Induction

(***************************************************************************)
(* The sort and std::unique.                                               *)
(***************************************************************************)
Task == [timeslice : Nat, id : DOMAIN Score, debounce : Int, part : Nat]

(* None of the tasks that were counted has a higher debounce value. *)
Wins(now, S, t) ==
  \A u \in now \cap S :
    t.id = u.id /\ t.timeslice = u.timeslice /\ t.debounce >= 0 => u.debounce <= t.debounce

Covers(now, u, t) == u = t \/ coalesces(now, u, t)

(* Every task is, or is merged with, one that std::unique keeps.           *)
LEMMA EveryTaskCovered ==
  ASSUME NEW now, NEW S, NEW n \in Nat, NEW o \in [1 .. n -> S], S \subseteq Task,
         NEW i \in 1 .. n
  PROVE  \E k \in keeps(now, o) : Covers(now, o[k], o[i])
<1> DEFINE P(j) == j + 1 \in 1 .. n => \E k \in keeps(now, o) : Covers(now, o[k], o[j + 1])
           N == {j \in Nat : P(j)}
<1>1. P(0)
  BY DEF keeps, Covers
<1>2. ASSUME NEW j \in Nat, P(j), (j + 1) + 1 \in 1 .. n
      PROVE  \E k \in keeps(now, o) : Covers(now, o[k], o[(j + 1) + 1])
  <2>1. j + 1 \in 1 .. n
    BY <1>2
  <2>2. PICK k \in keeps(now, o) : Covers(now, o[k], o[j + 1])
    BY <1>2, <2>1
  <2>3. CASE (j + 1) + 1 \in keeps(now, o)
    BY <2>3 DEF Covers
  <2>4. CASE (j + 1) + 1 \notin keeps(now, o)
    <3>1. coalesces(now, o[j + 1], o[(j + 1) + 1])
      <4>1. ((j + 1) + 1) - 1 = j + 1 /\ (j + 1) + 1 # 1
        OBVIOUS
      <4> QED
        BY <1>2, <2>4, <4>1 DEF keeps
    <3>2. coalesces(now, o[k], o[(j + 1) + 1])
      BY <2>2, <3>1 DEF Covers, coalesces
    <3> QED
      BY <3>2 DEF Covers
  <2> QED
    BY <2>3, <2>4
<1>3. Nat \subseteq N
  <2>1. 0 \in N
    BY <1>1
  <2>2. \A j \in Nat : j \in N => j + 1 \in N
    BY <1>2
  <2> HIDE DEF N
  <2> QED
    BY <2>1, <2>2, NatInduct
<1>4. i - 1 \in N /\ (i - 1) + 1 = i
  BY <1>3
<1> QED
  BY <1>4

(* What the comparison says of a task that is not put behind a runnable one. *)
LEMMA NotBefore ==
  ASSUME NEW now, NEW a \in Task, NEW b \in Task, a \in now, ~ before(now, a, b)
  PROVE  /\ b \in now
         /\ b.timeslice >= a.timeslice
         /\ b.timeslice = a.timeslice /\ a.id = b.id => b.debounce >= a.debounce
         /\ b.timeslice = a.timeslice /\ a.id # b.id => Score[b.id] >= Score[a.id]
<1>1. /\ a.timeslice \in Nat /\ b.timeslice \in Nat
      /\ a.debounce \in Int /\ b.debounce \in Int
      /\ Score[a.id] \in Int /\ Score[b.id] \in Int
  BY QueueAssumption DEF Task
<1>2. b \in now
  <2> SUFFICES ASSUME b \notin now PROVE FALSE
    OBVIOUS
  <2>1. ~ (a \in now <=> b \in now)
    OBVIOUS
  <2> QED
    BY <2>1 DEF before
<1>3. a \in now <=> b \in now
  BY <1>2
<1>4. ~ (a.timeslice # b.timeslice /\ a.timeslice > b.timeslice)
  BY <1>3 DEF before
<1>5. a.timeslice = b.timeslice /\ a.id = b.id => ~ (a.debounce > b.debounce)
  BY <1>3 DEF before
<1>6. a.timeslice = b.timeslice /\ a.id # b.id => ~ (Score[a.id] > Score[b.id])
  BY <1>3 DEF before
<1> QED
  BY <1>1, <1>2, <1>4, <1>5, <1>6

(* A task that std::unique keeps has the highest debounce value of its     *)
(* kind and timeslice: the sort puts that one first, and all those between *)
(* it and another one are of the same kind.                                *)
LEMMA KeptWins ==
  ASSUME NEW now, NEW S, NEW n \in Nat, NEW o \in [1 .. n -> S], S \subseteq Task,
         \A t \in S : \E i \in 1 .. n : o[i] = t,
         \A i, j \in 1 .. n : i < j => ~ before(now, o[j], o[i]),
         NEW k \in keeps(now, o), o[k] \in now
  PROVE  Wins(now, S, o[k])
<1> SUFFICES ASSUME NEW u \in now \cap S, o[k].id = u.id, o[k].timeslice = u.timeslice,
                    o[k].debounce >= 0, ~ (u.debounce <= o[k].debounce)
             PROVE  FALSE
  BY DEF Wins
<1>1. k \in 1 .. n /\ o[k] \in Task /\ u \in Task
  BY DEF keeps
<1>2. PICK j \in 1 .. n : o[j] = u
  OBVIOUS
<1>3. u.debounce \in Int /\ o[k].debounce \in Int /\ u.debounce > o[k].debounce
  BY <1>1 DEF Task
<1>4. j < k
  <2>1. CASE j = k
    BY <1>2, <1>3, <2>1
  <2>2. CASE k < j
    <3>1. before(now, o[j], o[k])
      BY <1>1, <1>2, <1>3 DEF before
    <3> QED
      BY <1>1, <2>2, <3>1
  <2> QED
    BY <1>1, <2>1, <2>2
<1> DEFINE x == o[k - 1]
<1>5. k - 1 \in 1 .. n /\ x \in Task /\ j <= k - 1
  BY <1>1, <1>4
<1>6. ~ before(now, o[k], x)
  BY <1>1, <1>5
<1>7. x = u \/ ~ before(now, x, u)
  <2>1. CASE j = k - 1
    BY <1>2, <2>1
  <2>2. CASE j < k - 1
    BY <1>2, <1>5, <2>2
  <2> QED
    BY <1>5, <2>1, <2>2
<1> HIDE DEF x
<1>8. coalesces(now, x, o[k])
  <2>1. CASE x = u
    BY <1>3, <2>1 DEF coalesces
  <2>2. CASE ~ before(now, x, u)
    <3>1. x \in now /\ x.timeslice >= o[k].timeslice
      BY <1>1, <1>5, <1>6, NotBefore
    <3>2. u.timeslice >= x.timeslice
      BY <1>1, <1>5, <2>2, <3>1, NotBefore
    <3>3. x.timeslice = u.timeslice /\ x.timeslice = o[k].timeslice
      BY <1>1, <1>5, <3>1, <3>2 DEF Task
    <3>4. x.id = u.id
      <4> SUFFICES ASSUME x.id # u.id PROVE FALSE
        OBVIOUS
      <4>1. Score[x.id] >= Score[o[k].id]
        BY <1>1, <1>5, <1>6, <3>3, NotBefore
      <4>2. Score[u.id] >= Score[x.id]
        BY <1>1, <1>5, <2>2, <3>1, <3>3, NotBefore
      <4>3. Score[x.id] \in Int /\ Score[u.id] \in Int /\ x.id \in DOMAIN Score /\ u.id \in DOMAIN Score
        BY <1>1, <1>5, QueueAssumption DEF Task
      <4>4. Score[x.id] = Score[u.id]
        BY <4>1, <4>2, <4>3
      <4> QED
        BY <4>3, <4>4, QueueAssumption
    <3>5. x.debounce >= o[k].debounce
      BY <1>1, <1>5, <1>6, <3>3, <3>4, NotBefore
    <3>6. x.debounce \in Int
      BY <1>5 DEF Task
    <3> QED
      BY <1>3, <3>1, <3>4, <3>5, <3>6 DEF coalesces
  <2> QED
    BY <1>7, <2>1, <2>2
<1>9. k # 1
  BY <1>1, <1>2, <1>4
<1> QED
  BY <1>8, <1>9 DEF keeps, x

(***************************************************************************)
(* What is true while run() executes the tasks.                            *)
(***************************************************************************)
(* Only tasks that were posted are anywhere. *)
QueueTypes ==
  /\ posting \in [Threads -> Posts \cup {NoTask}]
  /\ inbox \subseteq Posts
  /\ tasks \subseteq Posts /\ IsFiniteSet(tasks)
  /\ seen \subseteq Posts /\ IsFiniteSet(seen)
  /\ order \in Seq(Posts)
  /\ resets \in Nat

(* runnable and ran mean something only while run() executes. *)
Outside == pc # "run" => ran = {} /\ runnable = {}

(* What was counted is called already or is represented in `order`.        *)
CountedCovered ==
  pc = "run" =>
    \A t \in seen \cap runnable :
      \E u \in runnable : /\ u \in ran \/ \E i \in 1 .. Len(order) : order[i] = u
                         /\ Covers(runnable, u, t)

(* Whatever is called, or will be, wins. *)
CalledWin ==
  pc = "run" =>
    /\ \A t \in ran : Wins(runnable, seen, t)
    /\ \A i \in 1 .. Len(order) : order[i] \in runnable => Wins(runnable, seen, order[i])

QueueInv == QueueTypes /\ Outside /\ CountedCovered /\ CalledWin

(* What RunMark leaves in `order`. *)
LEMMA OrderIsRight ==
  ASSUME NEW now, NEW S, S \subseteq Task, IsFiniteSet(S),
         NEW o \in sorted(now, S), NEW q \in unique(now, o)
  PROVE  /\ q \in Seq(S)
         /\ \A t \in S : \E i \in 1 .. Len(q) : Covers(now, q[i], t)
         /\ \A i \in 1 .. Len(q) : q[i] \in now => Wins(now, S, q[i])
<1> DEFINE n == Cardinality(S)
           K == keeps(now, o)
           m == Cardinality(K)
<1>1. n \in Nat
  BY FS_CardinalityType
<1>2. /\ o \in [1 .. n -> S]
      /\ \A t \in S : \E i \in 1 .. n : o[i] = t
      /\ \A i, j \in 1 .. n : i < j => ~ before(now, o[j], o[i])
  BY DEF sorted
<1>3. K \subseteq 1 .. n /\ IsFiniteSet(K) /\ m \in Nat
  <2>1. K \subseteq 1 .. n
    BY <1>2 DEF keeps
  <2>2. IsFiniteSet(1 .. n)
    BY <1>1, FS_Interval
  <2> QED
    BY <2>1, <2>2, FS_Subset, FS_CardinalityType
<1> HIDE DEF n
<1>4. PICK e \in increasing(K) : q = [k \in DOMAIN e |-> o[e[k]]]
  BY DEF unique
<1>5. e \in [1 .. m -> K] /\ \A i \in K : \E k \in 1 .. m : e[k] = i
  BY DEF increasing
<1> HIDE DEF K, m
<1>6. q \in [1 .. m -> S] /\ \A k \in 1 .. m : q[k] = o[e[k]]
  BY <1>2, <1>3, <1>4, <1>5
<1>7. q \in Seq(S) /\ Len(q) = m
  BY <1>3, <1>6
<1>8. ASSUME NEW t \in S PROVE \E i \in 1 .. Len(q) : Covers(now, q[i], t)
  <2>1. PICK i \in 1 .. n : o[i] = t
    BY <1>2
  <2>2. PICK k \in K : Covers(now, o[k], t)
    BY <1>1, <1>2, <2>1, EveryTaskCovered DEF K
  <2>3. PICK j \in 1 .. m : e[j] = k
    BY <1>5
  <2> QED
    BY <1>6, <1>7, <2>2, <2>3
<1>9. ASSUME NEW i \in 1 .. Len(q), q[i] \in now PROVE Wins(now, S, q[i])
  <2>1. e[i] \in K /\ q[i] = o[e[i]]
    BY <1>5, <1>6, <1>7
  <2> QED
    BY <1>1, <1>2, <1>9, <2>1, KeptWins DEF K
<1> QED
  BY <1>7, <1>8, <1>9

LEMMA QueueInitially == Init => QueueInv
<1> SUFFICES ASSUME Init PROVE QueueInv
  OBVIOUS
<1>1. QueueTypes
  BY FS_EmptySet DEF Init, QueueTypes
<1> QED
  BY <1>1 DEF Init, QueueInv, Outside, CountedCovered, CalledWin

(* The steps outside run(), and those of run() that only move on. *)
Elsewhere ==
  \/ \E th \in Threads, t \in Posts : Post(th, t) \/ ReadFromInbox(th, t)
  \/ \E th \in Threads : WriteToInbox(th) \/ FlushPending(th) \/ FlushDone(th)
  \/ Run
  \/ \E t \in 1 .. MaxTimeslice : OldestPossibleMoves(t)
  \/ Reset
  \/ UNCHANGED vars

LEMMA ElsewhereKeepsTypes ==
  ASSUME QueueTypes, Elsewhere
  PROVE  QueueTypes'
<1> USE DEF QueueTypes, queueVars, runVars, vars
<1>1. ASSUME NEW th \in Threads, NEW t \in Posts, Post(th, t) PROVE QueueTypes'
  BY <1>1 DEF Post
<1>2. ASSUME NEW th \in Threads, NEW t \in Posts, ReadFromInbox(th, t) PROVE QueueTypes'
  <2>1. IsFiniteSet(tasks \cup {t})
    BY FS_AddElement
  <2> QED
    BY <1>2, <2>1 DEF ReadFromInbox
<1>3. ASSUME NEW th \in Threads, WriteToInbox(th) PROVE QueueTypes'
  BY <1>3 DEF WriteToInbox
<1>4. ASSUME NEW th \in Threads, FlushPending(th) PROVE QueueTypes'
  BY <1>4 DEF FlushPending
<1>5. ASSUME NEW th \in Threads, FlushDone(th) PROVE QueueTypes'
  BY <1>5 DEF FlushDone
<1>6. CASE Run
  BY <1>6 DEF Run
<1>7. ASSUME NEW t \in 1 .. MaxTimeslice, OldestPossibleMoves(t) PROVE QueueTypes'
  BY <1>7 DEF OldestPossibleMoves
<1>8. CASE Reset
  BY <1>8, FS_EmptySet DEF Reset
<1>9. CASE UNCHANGED vars
  BY <1>9
<1> QED
  BY <1>1, <1>2, <1>3, <1>4, <1>5, <1>6, <1>7, <1>8, <1>9 DEF Elsewhere

(* They leave alone what run() has put in order, and do not go there. *)
LEMMA ElsewhereLeavesRun ==
  ASSUME Elsewhere
  PROVE  /\ UNCHANGED <<runnable, seen, order, ran>>
         /\ (pc' = "run") <=> (pc = "run")
BY DEF Elsewhere, Post, ReadFromInbox, WriteToInbox, FlushPending, FlushDone, Run,
       OldestPossibleMoves, Reset, vars, queueVars, runVars

LEMMA RunStepsAreTheRest ==
  ASSUME [Next]_vars
  PROVE  Elsewhere \/ RunSize \/ RunMark \/ RunTask \/ RunErase
BY DEF Next, Elsewhere

LEMMA QueueInductive == QueueInv /\ [Next]_vars => QueueInv'
<1> SUFFICES ASSUME QueueInv, [Next]_vars PROVE QueueInv'
  OBVIOUS
<1> USE DEF QueueInv
<1>1. CASE Elsewhere
  <2>1. QueueTypes'
    BY <1>1, ElsewhereKeepsTypes
  <2>2. /\ UNCHANGED <<runnable, seen, order, ran>>
        /\ (pc' = "run") <=> (pc = "run")
    BY <1>1, ElsewhereLeavesRun
  <2>3. Outside' /\ CountedCovered' /\ CalledWin'
    BY <2>2 DEF Outside, CountedCovered, CalledWin, Covers, Wins, coalesces
  <2> QED
    BY <2>1, <2>3
<1>2. CASE RunSize
  <2>1. pc' # "run" /\ pc # "run"
    BY <1>2 DEF RunSize
  <2>2. QueueTypes' /\ Outside'
    BY <1>2, <2>1 DEF RunSize, QueueTypes, Outside, queueVars
  <2> QED
    BY <2>1, <2>2 DEF CountedCovered, CalledWin
<1>3. CASE RunMark
  <2> DEFINE now == runnable \cup {t \in tasks : t.timeslice <= limit}
  <2>1. PICK o \in sorted(now, seen) : order' \in unique(now, o)
    BY <1>3 DEF RunMark
  <2>2. seen \subseteq Task /\ IsFiniteSet(seen) /\ ran = {}
    BY <1>3, QueueAssumption DEF QueueTypes, Task, Outside, RunMark
  <2>3. runnable' = now /\ seen' = seen /\ ran' = {} /\ pc' = "run"
    BY <1>3, <2>2 DEF RunMark
  <2> HIDE DEF now
  <2>4. /\ order' \in Seq(seen)
        /\ \A t \in seen : \E i \in 1 .. Len(order') : Covers(now, order'[i], t)
        /\ \A i \in 1 .. Len(order') : order'[i] \in now => Wins(now, seen, order'[i])
    BY <2>1, <2>2, OrderIsRight
  <2>5. QueueTypes'
    BY <1>3, <2>3, <2>4 DEF QueueTypes, RunMark
  <2>6. CountedCovered'
    <3> SUFFICES ASSUME NEW t \in seen \cap now
                 PROVE  \E u \in now : /\ \E i \in 1 .. Len(order') : order'[i] = u
                                      /\ Covers(now, u, t)
      BY <2>3 DEF CountedCovered, Covers, coalesces
    <3>1. PICK i \in 1 .. Len(order') : Covers(now, order'[i], t)
      BY <2>4
    <3>2. order'[i] \in now
      BY <3>1 DEF Covers, coalesces
    <3> QED
      BY <3>1, <3>2
  <2>7. CalledWin'
    BY <2>3, <2>4 DEF CalledWin, Wins
  <2> QED
    BY <2>3, <2>5, <2>6, <2>7 DEF Outside
<1>4. CASE RunTask
  <2>1. /\ pc = "run" /\ pc' = "run" /\ order # <<>> /\ order' = Tail(order)
        /\ ran' = ran \cup ({Head(order)} \cap runnable)
        /\ UNCHANGED <<queueVars, seen, resets>>
    BY <1>4 DEF RunTask
  <2>2. /\ order' \in Seq(Posts) /\ Len(order) \in Nat /\ Len(order) > 0
        /\ Len(order') = Len(order) - 1 /\ Head(order) = order[1]
        /\ \A i \in 1 .. Len(order') : order'[i] = order[i + 1]
    BY <2>1 DEF QueueTypes
  <2>3. QueueTypes'
    BY <2>1, <2>2 DEF QueueTypes, queueVars
  <2>4. CountedCovered'
    <3> SUFFICES ASSUME NEW t \in seen \cap runnable
                 PROVE  \E u \in runnable :
                          /\ u \in ran' \/ \E i \in 1 .. Len(order') : order'[i] = u
                          /\ Covers(runnable, u, t)
      BY <2>1 DEF CountedCovered, Covers, coalesces, queueVars
    <3>1. PICK u \in runnable : /\ u \in ran \/ \E i \in 1 .. Len(order) : order[i] = u
                               /\ Covers(runnable, u, t)
      BY <2>1 DEF CountedCovered
    <3>2. CASE u \in ran
      BY <2>1, <3>1, <3>2
    <3>3. ASSUME NEW i \in 1 .. Len(order), order[i] = u
          PROVE  u \in ran' \/ \E j \in 1 .. Len(order') : order'[j] = u
      <4>1. CASE i = 1
        BY <2>1, <2>2, <3>3, <4>1
      <4>2. CASE i # 1
        <5>1. i - 1 \in 1 .. Len(order') /\ (i - 1) + 1 = i
          BY <2>2, <4>2
        <5> QED
          BY <2>2, <3>3, <5>1
      <4> QED
        BY <4>1, <4>2
    <3> QED
      BY <3>1, <3>2, <3>3
  <2>5. CalledWin'
    <3> SUFFICES /\ \A t \in ran' : Wins(runnable, seen, t)
                 /\ \A i \in 1 .. Len(order') :
                      order'[i] \in runnable => Wins(runnable, seen, order'[i])
      BY <2>1 DEF CalledWin, Wins, queueVars
    <3>1. 1 \in 1 .. Len(order) /\ \A i \in 1 .. Len(order') : i + 1 \in 1 .. Len(order)
      BY <2>2
    <3> QED
      BY <2>1, <2>2, <3>1 DEF CalledWin
  <2> QED
    BY <2>1, <2>3, <2>4, <2>5 DEF Outside
<1>5. CASE RunErase
  <2>1. pc' # "run" /\ runnable' = {} /\ ran' = {}
    BY <1>5 DEF RunErase
  <2>2. IsFiniteSet(tasks \ runnable)
    BY FS_Subset DEF QueueTypes
  <2>3. QueueTypes'
    BY <1>5, <2>2 DEF RunErase, QueueTypes
  <2> QED
    BY <2>1, <2>3 DEF Outside, CountedCovered, CalledWin
<1> QED
  BY <1>1, <1>2, <1>3, <1>4, <1>5, RunStepsAreTheRest

THEOREM QueueInvariant == Spec => []QueueInv
BY QueueInitially, QueueInductive, PTL DEF Spec
-------------------------------------------------------------------------------
(* run() calls, among the tasks of one kind for one timeslice, only the    *)
(* one with the highest debounce value: for any number of threads that     *)
(* post meanwhile and any size of the inbox.                               *)
THEOREM RunDebounces == Spec => []DebounceInTimeslice
<1>1. QueueInv => DebounceInTimeslice
  <2> SUFFICES ASSUME QueueInv, NEW t \in ran PROVE Wins(runnable, seen, t)
    BY DEF DebounceInTimeslice, Wins
  <2> QED
    BY DEF QueueInv, Outside, CalledWin
<1> QED
  BY <1>1, QueueInvariant, PTL

(* run() removes a task it has counted only if its callback was called, or *)
(* that of a task it was merged with.                                      *)
THEOREM RunLosesNothingCounted == Spec => NoCountedTaskLost
<1> DEFINE kept == resets' = resets =>
                     \A t \in seen \cap (tasks \ tasks') :
                       t \in ran \/ \E u \in ran : coalesces(runnable, u, t)
<1>1. QueueInv /\ [Next]_vars => [kept]_vars
  <2> SUFFICES ASSUME QueueInv, [Next]_vars, resets' = resets,
                      NEW t \in seen \cap (tasks \ tasks')
               PROVE  t \in ran \/ \E u \in ran : coalesces(runnable, u, t)
    OBVIOUS
  <2>1. CASE Elsewhere
    <3>1. resets \in Nat
      BY DEF QueueInv, QueueTypes
    <3> QED
      BY <2>1, <3>1 DEF Elsewhere, Post, ReadFromInbox, WriteToInbox, FlushPending,
        FlushDone, Run, OldestPossibleMoves, Reset, vars, queueVars, runVars
  <2>2. CASE RunSize \/ RunMark \/ RunTask
    BY <2>2 DEF RunSize, RunMark, RunTask, queueVars
  <2>3. CASE RunErase
    <3>1. pc = "run" /\ order = <<>> /\ tasks' = tasks \ runnable
      BY <2>3 DEF RunErase
    <3>2. ~ \E i \in 1 .. Len(order) : TRUE
      BY <3>1
    <3>3. PICK u \in runnable : u \in ran /\ Covers(runnable, u, t)
      BY <3>1, <3>2 DEF QueueInv, CountedCovered
    <3> QED
      BY <3>3 DEF Covers
  <2> QED
    BY <2>1, <2>2, <2>3, RunStepsAreTheRest
<1> QED
  BY <1>1, QueueInvariant, PTL DEF Spec, NoCountedTaskLost
===============================================================================
