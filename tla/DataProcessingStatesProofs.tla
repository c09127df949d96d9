---------------------- MODULE DataProcessingStatesProofs ----------------------
(***************************************************************************)
(* The buffer of the states, for any states, reports and sizes: the views  *)
(* never overlap, and a state says nothing but what was reported for it.   *)
(***************************************************************************)
EXTENDS DataProcessingStates, Induction

View == [first : Nat, size : Nat, capacity : Nat]
Info == [timestamp : Int, lastPublished : Int, generation : Int]
Buffers == Seq(Cells \cup {Free})

Memories == [buffer : Buffers, views : [States -> View],
             updated : [States -> BOOLEAN], infos : [States -> Info]]

(* A view lies in the buffer with all its capacity. *)
Inside(buffer, view) == view.size <= view.capacity /\ view.first + view.capacity <= Len(buffer)

(* Two views do not overlap. *)
Disjoint(v, w) == v.first + v.capacity <= w.first \/ w.first + w.capacity <= v.first

Sound ==
  {memory \in Memories :
     /\ \A s \in States : Inside(memory.buffer, memory.views[s])
     /\ \A s, u \in States : s # u => Disjoint(memory.views[s], memory.views[u])}

says(memory, s) == contentIn(memory.buffer, memory.views[s])

(* What a view of a buffer shows. *)
LEMMA Content ==
  ASSUME NEW buffer \in Buffers, NEW view \in View, Inside(buffer, view)
  PROVE  contentIn(buffer, view) = [i \in 1 .. view.size |-> buffer[view.first + i]]
<1>1. /\ view.first \in Nat /\ view.size \in Nat /\ view.capacity \in Nat
      /\ Len(buffer) \in Nat /\ view.first + view.size <= Len(buffer)
  BY DEF View, Inside, Buffers
<1> QED
  BY SMTT(30), <1>1 DEF contentIn, Buffers

(* Buffers that agree on a view show the same there. *)
LEMMA SameContent ==
  ASSUME NEW b \in Buffers, NEW c \in Buffers, NEW view \in View,
         Inside(b, view), Inside(c, view),
         \A i \in 1 .. view.size : b[view.first + i] = c[view.first + i]
  PROVE  contentIn(b, view) = contentIn(c, view)
<1>1. contentIn(b, view) = [i \in 1 .. view.size |-> b[view.first + i]]
  BY Content
<1>2. contentIn(c, view) = [i \in 1 .. view.size |-> c[view.first + i]]
  BY Content
<1> QED
  BY <1>1, <1>2

LEMMA MaxOfTwo ==
  ASSUME NEW a \in Nat, NEW b \in Nat
  PROVE  Max({a, b}) \in Nat /\ Max({a, b}) >= a /\ Max({a, b}) >= b
<1>1. \E x \in {a, b} : \A y \in {a, b} : x >= y
  <2>1. CASE a >= b
    BY <2>1
  <2>2. CASE b >= a
    BY <2>2
  <2> QED
    BY <2>1, <2>2
<1>2. Max({a, b}) \in {a, b} /\ \A y \in {a, b} : Max({a, b}) >= y
  BY <1>1 DEF Max
<1> QED
  BY <1>2

(* memcpy. *)
LEMMA Copied ==
  ASSUME NEW buffer \in Buffers, NEW first \in Nat, NEW data \in Seq(Cells),
         first + Len(data) <= Len(buffer)
  PROVE  /\ copied(buffer, first, data) \in Buffers
         /\ Len(copied(buffer, first, data)) = Len(buffer)
         /\ \A i \in 1 .. Len(data) : copied(buffer, first, data)[first + i] = data[i]
         /\ \A i \in 1 .. Len(buffer) :
              i <= first \/ i > first + Len(data) => copied(buffer, first, data)[i] = buffer[i]
<1> DEFINE after == copied(buffer, first, data)
<1>1. Len(buffer) \in Nat /\ Len(data) \in Nat
  BY DEF Buffers
<1>2. \A i \in 1 .. Len(buffer) : after[i] = IF i - first \in 1 .. Len(data) THEN data[i - first] ELSE buffer[i]
  BY DEF copied
<1>3. \A i \in 1 .. Len(buffer) : after[i] \in Cells \cup {Free}
  BY <1>1, <1>2 DEF Buffers
<1>4. after \in Buffers /\ Len(after) = Len(buffer)
  BY <1>1, <1>3 DEF copied, Buffers
<1>5. ASSUME NEW i \in 1 .. Len(data) PROVE after[first + i] = data[i]
  <2>1. first + i \in 1 .. Len(buffer) /\ (first + i) - first = i
    BY <1>1
  <2> QED
    BY <1>2, <2>1
<1>6. ASSUME NEW i \in 1 .. Len(buffer), i <= first \/ i > first + Len(data) PROVE after[i] = buffer[i]
  <2>1. i - first \notin 1 .. Len(data)
    BY <1>1, <1>6
  <2> QED
    BY <1>2, <2>1
<1> QED
  BY <1>4, <1>5, <1>6

(* The room for a report: in place, or at the end of a longer buffer. *)
LEMMA Placed ==
  ASSUME NEW memory \in Sound, NEW s \in States, NEW data \in Reports
  PROVE  LET place == placed(memory, s, data) IN
         /\ place.view \in View /\ place.view.size = Len(data)
         /\ place.buffer \in Buffers
         /\ Inside(place.buffer, place.view)
         /\ Len(place.buffer) >= Len(memory.buffer)
         /\ \A i \in 1 .. Len(memory.buffer) : place.buffer[i] = memory.buffer[i]
         /\ \A u \in States : u # s => Disjoint(place.view, memory.views[u])
<1> DEFINE place == placed(memory, s, data)
           view == memory.views[s]
           capacity == Max({Len(data), MinCapacity})
           room == [i \in 1 .. capacity |-> Free]
<1>1. /\ memory.buffer \in Buffers /\ memory.views \in [States -> View] /\ view \in View
      /\ \A u \in States : Inside(memory.buffer, memory.views[u])
      /\ \A u \in States : u # s => Disjoint(view, memory.views[u])
  BY DEF Sound, Memories
<1>2. Len(data) \in Nat /\ MinCapacity \in Nat
  BY StatesAssumption
<1>3. Len(memory.buffer) \in Nat
  BY <1>1 DEF Buffers
<1>4. CASE view.capacity >= Len(data)
  <2>1. place = [view |-> [view EXCEPT !.size = Len(data)], buffer |-> memory.buffer]
    BY <1>4 DEF placed
  <2>2. /\ place.view \in View /\ place.view.size = Len(data) /\ place.view.first = view.first
        /\ place.view.capacity = view.capacity
    BY <1>1, <1>2, <2>1 DEF View
  <2>3. place.buffer = memory.buffer
    BY <2>1
  <2> HIDE DEF place
  <2> QED
    BY <1>1, <1>3, <1>4, <2>2, <2>3 DEF Inside, Disjoint, place
<1>5. CASE ~ (view.capacity >= Len(data))
  <2>1. place = [view |-> [first |-> Len(memory.buffer), size |-> Len(data), capacity |-> capacity],
                 buffer |-> memory.buffer \o room]
    BY <1>5 DEF placed
  <2>2. capacity \in Nat /\ capacity >= Len(data)
    BY <1>2, MaxOfTwo
  <2> HIDE DEF capacity
  <2>3. room \in Buffers /\ Len(room) = capacity
    BY <2>2 DEF Buffers
  <2> HIDE DEF room
  <2>4. /\ memory.buffer \o room \in Buffers
        /\ Len(memory.buffer \o room) = Len(memory.buffer) + capacity
        /\ \A i \in 1 .. Len(memory.buffer) : (memory.buffer \o room)[i] = memory.buffer[i]
    BY <1>1, <1>3, <2>2, <2>3 DEF Buffers
  <2>5. /\ place.view \in View /\ place.view.size = Len(data) /\ place.view.capacity = capacity
        /\ place.view.first = Len(memory.buffer)
        /\ place.buffer = memory.buffer \o room
    BY <1>2, <1>3, <2>1, <2>2 DEF View
  <2>6. \A u \in States : Disjoint(place.view, memory.views[u])
    BY <1>1, <2>5 DEF Inside, Disjoint
  <2> HIDE DEF place
  <2> QED
    BY <1>3, <2>2, <2>4, <2>5, <2>6 DEF Inside, place
<1> QED
  BY <1>4, <1>5

QueuedReports == [id : States, timestamp : Int, data : Reports]

(* One report: it changes the state it is for, unless it is ignored. *)
LEMMA StoredOne ==
  ASSUME NEW memory \in Sound, NEW report \in QueuedReports, generation \in Int
  PROVE  /\ stored(memory, report) \in Sound
         /\ ignored(memory, report) => stored(memory, report) = memory
         /\ ~ ignored(memory, report) =>
              /\ says(stored(memory, report), report.id) = report.data
              /\ stored(memory, report).updated[report.id]
              /\ stored(memory, report).infos[report.id].generation = generation
         /\ \A u \in States \ {report.id} :
              /\ says(stored(memory, report), u) = says(memory, u)
              /\ stored(memory, report).updated[u] = memory.updated[u]
              /\ stored(memory, report).infos[u] = memory.infos[u]
<1> DEFINE s == report.id
           data == report.data
           place == placed(memory, s, data)
           after == stored(memory, report)
<1>1. s \in States /\ data \in Reports /\ data \in Seq(Cells) /\ Len(data) \in Nat
      /\ report.timestamp \in Int
  BY StatesAssumption DEF QueuedReports
<1>2. CASE ignored(memory, report)
  BY <1>2 DEF stored
<1>3. CASE ~ ignored(memory, report)
  <2> DEFINE B == copied(place.buffer, place.view.first, data)
             V == [memory.views EXCEPT ![s] = place.view]
             U == [memory.updated EXCEPT ![s] = TRUE]
             I == [memory.infos EXCEPT ![s].timestamp = report.timestamp, ![s].generation = generation]
  <2>1. after = [buffer |-> B, views |-> V, updated |-> U, infos |-> I]
    BY <1>3 DEF stored
  <2>2. after.buffer = B /\ after.views = V /\ after.updated = U /\ after.infos = I
    BY <2>1
  <2>3. /\ memory.buffer \in Buffers /\ memory.views \in [States -> View]
        /\ memory.updated \in [States -> BOOLEAN] /\ memory.infos \in [States -> Info]
        /\ Len(memory.buffer) \in Nat
    BY DEF Sound, Memories, Buffers
  <2>4. U \in [States -> BOOLEAN] /\ U[s] /\ \A u \in States \ {s} : U[u] = memory.updated[u]
    BY <1>1, <2>3
  <2>5. /\ I \in [States -> Info] /\ I[s].generation = generation
        /\ \A u \in States \ {s} : I[u] = memory.infos[u]
    BY <1>1, <2>3 DEF Info
  <2> HIDE DEF U, I
  <2>6. /\ place.view \in View /\ place.view.size = Len(data)
        /\ place.buffer \in Buffers
        /\ Inside(place.buffer, place.view)
        /\ Len(place.buffer) >= Len(memory.buffer)
        /\ \A i \in 1 .. Len(memory.buffer) : place.buffer[i] = memory.buffer[i]
        /\ \A u \in States : u # s => Disjoint(place.view, memory.views[u])
    BY <1>1, Placed
  <2> HIDE DEF place
  <2>7. /\ place.view.first \in Nat /\ place.view.capacity \in Nat /\ Len(place.buffer) \in Nat
        /\ place.view.first + Len(data) <= Len(place.buffer)
        /\ Len(data) <= place.view.capacity
    BY <1>1, <2>6 DEF View, Inside, Buffers
  <2>8. /\ B \in Buffers /\ Len(B) = Len(place.buffer)
        /\ \A i \in 1 .. Len(data) : B[place.view.first + i] = data[i]
        /\ \A i \in 1 .. Len(place.buffer) :
             i <= place.view.first \/ i > place.view.first + Len(data) => B[i] = place.buffer[i]
    BY ZenonT(60), <1>1, <2>6, <2>7, Copied
  <2> HIDE DEF B
  <2>9. V \in [States -> View] /\ V[s] = place.view /\ \A u \in States \ {s} : V[u] = memory.views[u]
    BY <1>1, <2>3, <2>6
  <2> HIDE DEF V
  <2>10. \A u \in States : Inside(memory.buffer, memory.views[u]) /\ memory.views[u] \in View
    BY <2>3 DEF Sound
  <2>11. \A u \in States : Inside(B, V[u])
    <3> SUFFICES ASSUME NEW u \in States PROVE Inside(B, V[u])
      OBVIOUS
    <3>1. CASE u = s
      BY <2>6, <2>8, <2>9, <3>1 DEF Inside
    <3>2. CASE u # s
      <4>1. V[u] = memory.views[u] /\ V[u] \in View /\ Inside(memory.buffer, V[u])
        BY <2>9, <2>10, <3>2
      <4>2. V[u].first + V[u].capacity \in Nat
        BY <4>1 DEF View
      <4> QED
        BY <2>3, <2>6, <2>7, <2>8, <4>1, <4>2 DEF Inside
    <3> QED
      BY <3>1, <3>2
  <2>12. \A u, w \in States : u # w => Disjoint(V[u], V[w])
    <3>1. \A u, w \in States : u # w => Disjoint(memory.views[u], memory.views[w])
      BY DEF Sound
    <3>2. \A v, w : Disjoint(v, w) => Disjoint(w, v)
      BY DEF Disjoint
    <3> QED
      BY <1>1, <2>6, <2>9, <3>1, <3>2
  <2>13. after \in Sound
    <3>1. after \in Memories
      BY <2>1, <2>4, <2>5, <2>8, <2>9 DEF Memories
    <3> HIDE DEF after
    <3> QED
      BY <2>2, <2>11, <2>12, <3>1 DEF Sound
  <2>14. says(after, s) = data
    <3>1. contentIn(B, V[s]) = [i \in 1 .. Len(data) |-> B[place.view.first + i]]
      <4>1. V[s] \in View /\ Inside(B, V[s]) /\ V[s].first = place.view.first /\ V[s].size = Len(data)
        BY <1>1, <2>6, <2>9, <2>11
      <4>2. contentIn(B, V[s]) = [i \in 1 .. V[s].size |-> B[V[s].first + i]]
        BY <2>8, <4>1, Content
      <4> QED
        BY <4>1, <4>2
    <3>2. contentIn(B, V[s]) = [i \in 1 .. Len(data) |-> data[i]]
      BY <2>8, <3>1
    <3> HIDE DEF after, data
    <3>3. data = [i \in 1 .. Len(data) |-> data[i]]
      BY <1>1
    <3> QED
      BY <2>2, <3>2, <3>3 DEF says
  <2>15. ASSUME NEW u \in States \ {s} PROVE says(after, u) = says(memory, u)
    <3> DEFINE v == memory.views[u]
    <3>1. /\ v.first \in Nat /\ v.size \in Nat /\ v.capacity \in Nat /\ v \in View
          /\ v.size <= v.capacity /\ v.first + v.capacity <= Len(memory.buffer)
          /\ Inside(memory.buffer, v) /\ Inside(B, v) /\ V[u] = v
      BY <2>9, <2>10, <2>11, <2>15 DEF Inside, View
    <3>2. Disjoint(place.view, v)
      BY <2>6, <2>15
    <3> HIDE DEF v
    <3>3. ASSUME NEW i \in 1 .. v.size PROVE B[v.first + i] = memory.buffer[v.first + i]
      <4>1. v.first + i \in 1 .. Len(memory.buffer) /\ v.first + i \in 1 .. Len(place.buffer)
        BY SMTT(30), <2>3, <2>6, <2>7, <3>1
      <4>2. v.first + i <= place.view.first \/ v.first + i > place.view.first + Len(data)
        <5>1. CASE place.view.first + place.view.capacity <= v.first
          <6> DEFINE n == Len(data)
                     p == place.view.first
                     k == place.view.capacity
                     q == v.first
          <6>1. n \in Nat /\ n <= k
            BY <1>1, <2>7
          <6>2. p \in Nat /\ k \in Nat
            BY <2>7
          <6>3. q \in Nat /\ p + k <= q
            BY <3>1, <5>1
          <6>4. i \in Nat /\ i >= 1
            BY <3>1
          <6> HIDE DEF n, p, k, q
          <6>5. q + i > p + n
            BY <6>1, <6>2, <6>3, <6>4
          <6> QED
            BY <6>5 DEF n, p, q
        <5>2. CASE v.first + v.capacity <= place.view.first
          BY <2>7, <3>1, <5>2
        <5> QED
          BY <3>2, <5>1, <5>2 DEF Disjoint
      <4> QED
        BY <2>6, <2>8, <4>1, <4>2
    <3>4. contentIn(B, v) = contentIn(memory.buffer, v)
      BY <2>3, <2>8, <3>1, <3>3, SameContent
    <3> QED
      BY <2>2, <3>1, <3>4 DEF says, v
  <2> HIDE DEF after, data, s
  <2> QED
    BY <1>3, <2>2, <2>4, <2>5, <2>13, <2>14, <2>15 DEF after, data, s
<1> QED
  BY <1>2, <1>3

-------------------------------------------------------------------------------
(***************************************************************************)
(* A pass of the queue.                                                    *)
(***************************************************************************)
Current == [buffer |-> statesBuffer, views |-> statesViews,
            updated |-> updated, infos |-> updateInfos]

(* Between two passes all the states are of an earlier generation. *)
PassInv ==
  /\ Current \in Sound
  /\ queue \in Seq(QueuedReports)
  /\ generation \in Int
  /\ \A s \in States : updateInfos[s].generation < generation

Passes(g) ==
  g = [n \in 0 .. Len(queue) |-> IF n = 0 THEN Current ELSE stored(g[n - 1], queue[n])]

LEMMA StoredAll ==
  ASSUME PassInv
  PROVE  \E g \in [0 .. Len(queue) -> Sound] :
            /\ g[0] = Current
            /\ \A n \in 1 .. Len(queue) : g[n] = stored(g[n - 1], queue[n])
            /\ storedAll = g[Len(queue)]
<1> DEFINE N == Len(queue)
           G == [n \in 1 .. N |-> [memory \in Sound |-> stored(memory, queue[n])]]
           after == CHOOSE g : Passes(g)
<1>1. N \in Nat /\ Current \in Sound /\ \A n \in 1 .. N : queue[n] \in QueuedReports
  BY DEF PassInv
<1>2. \A memory \in Sound, n \in 1 .. N : stored(memory, queue[n]) \in Sound
  BY <1>1, StoredOne DEF PassInv
<1>3. G \in [1 .. N -> [Sound -> Sound]]
  BY <1>2
<1>4. \A memory \in Sound, n \in 1 .. N : G[n][memory] = stored(memory, queue[n])
  OBVIOUS
<1> HIDE DEF G, N
<1>5. PICK f : Iterates(f, N, Sound, Current, G)
  BY <1>1, <1>3, Recursion
<1>6. Passes(f)
  <2>1. \A n \in 1 .. N : n - 1 \in 0 .. N
    BY <1>1
  <2>2. \A n \in 1 .. N : f[n - 1] \in Sound
    BY <1>5, <2>1 DEF Iterates
  <2>3. \A n \in 1 .. N : f[n] = stored(f[n - 1], queue[n])
    BY <1>4, <1>5, <2>2 DEF Iterates
  <2>4. \A n \in 0 .. N : f[n] = IF n = 0 THEN Current ELSE stored(f[n - 1], queue[n])
    BY <1>1, <1>5, <2>3 DEF Iterates
  <2> QED
    BY <1>5, <2>4 DEF Passes, Iterates, N
<1>7. Passes(after)
  BY <1>6
<1>8. storedAll = after[N]
  BY DEF storedAll, Passes, Current, N
<1> HIDE DEF after
<1>9. /\ DOMAIN after = 0 .. N /\ after = [n \in 0 .. N |-> after[n]]
      /\ after[0] = Current /\ \A n \in 1 .. N : after[n] = stored(after[n - 1], queue[n])
  <2>1. after = [n \in 0 .. N |-> IF n = 0 THEN Current ELSE stored(after[n - 1], queue[n])]
    BY <1>7 DEF Passes, N
  <2>2. \A n \in 0 .. N : after[n] = IF n = 0 THEN Current ELSE stored(after[n - 1], queue[n])
    BY <2>1
  <2>3. DOMAIN after = 0 .. N /\ after = [n \in 0 .. N |-> after[n]]
    BY <2>1, <2>2
  <2>4. 0 \in 0 .. N /\ \A n \in 1 .. N : n \in 0 .. N /\ n # 0
    BY <1>1
  <2>5. after[0] = Current
    BY <2>2, <2>4
  <2>6. \A n \in 1 .. N : after[n] = stored(after[n - 1], queue[n])
    BY <2>2, <2>4
  <2> QED
    BY <2>3, <2>5, <2>6
<1>10. \A n \in 0 .. N : after[n] \in Sound
  <2> DEFINE W == {n \in 0 .. N : after[n] \in Sound}
  <2>1. 0 \in W
    BY <1>1, <1>9
  <2>2. ASSUME NEW n \in 0 .. N - 1, n \in W PROVE n + 1 \in W
    <3>1. n + 1 \in 1 .. N /\ (n + 1) - 1 = n
      BY <1>1
    <3>2. after[n + 1] = stored(after[n], queue[n + 1])
      BY <1>9, <3>1
    <3> QED
      BY <1>1, <1>2, <2>2, <3>1, <3>2
  <2>3. 0 .. N \subseteq W
    <3> HIDE DEF W
    <3> QED
      BY <1>1, <2>1, <2>2, IntervalInduct
  <2> QED
    BY <2>3
<1> QED
  BY <1>8, <1>9, <1>10 DEF N

(* A report that differs from what its state says before the pass. *)
Differs(i, s) == queue[i].id = s /\ queue[i].data # state(s)

(* What a state is after some reports: as it was, if none of them differs, *)
(* or what the first of those that differ says.                            *)
Unchanged(memory, s) ==
  /\ says(memory, s) = state(s)
  /\ memory.updated[s] <=> updated[s]
  /\ memory.infos[s].generation < generation

ChangedBy(memory, s, i) ==
  /\ says(memory, s) = queue[i].data
  /\ memory.updated[s]
  /\ memory.infos[s].generation = generation

AfterSome(memory, s, n) ==
  \/ (\A i \in 1 .. n : ~ Differs(i, s)) /\ Unchanged(memory, s)
  \/ \E i \in 1 .. n : /\ Differs(i, s) /\ \A j \in 1 .. i - 1 : ~ Differs(j, s)
                      /\ ChangedBy(memory, s, i)

LEMMA PassResult ==
  ASSUME PassInv, NEW s \in States
  PROVE  storedAll \in Sound /\ AfterSome(storedAll, s, Len(queue))
<1> DEFINE N == Len(queue)
<1>1. N \in Nat /\ \A n \in 1 .. N : queue[n] \in QueuedReports
  BY DEF PassInv
<1>2. PICK g \in [0 .. N -> Sound] :
            /\ g[0] = Current
            /\ \A n \in 1 .. N : g[n] = stored(g[n - 1], queue[n])
            /\ storedAll = g[N]
  BY StoredAll
<1> HIDE DEF N
<1> DEFINE W == {n \in 0 .. N : AfterSome(g[n], s, n)}
<1>3. 0 \in W
  <2>1. Unchanged(Current, s)
    BY DEF PassInv, Unchanged, Current, says, state
  <2> QED
    BY <1>1, <1>2, <2>1 DEF AfterSome
<1>4. ASSUME NEW n \in 0 .. N - 1, n \in W PROVE n + 1 \in W
  <2> DEFINE m == n + 1
             report == queue[m]
             memory == g[n]
             after == g[m]
  <2>1. m \in 1 .. N /\ m \in 0 .. N /\ m - 1 = n /\ n \in 0 .. N /\ 1 .. m = (1 .. n) \cup {m}
    BY <1>1
  <2>2. memory \in Sound /\ report \in QueuedReports /\ generation \in Int
    BY <1>1, <1>2, <2>1 DEF PassInv
  <2>3. after = stored(memory, report)
    BY <1>2, <2>1
  <2>4. AfterSome(memory, s, n)
    BY <1>4
  <2>5. /\ ignored(memory, report) => after = memory
        /\ ~ ignored(memory, report) /\ report.id = s => ChangedBy(after, s, m)
        /\ report.id # s => /\ says(after, s) = says(memory, s)
                            /\ after.updated[s] = memory.updated[s]
                            /\ after.infos[s] = memory.infos[s]
    BY <2>2, <2>3, StoredOne DEF ChangedBy
  <2>6. ignored(memory, report) <=> \/ generation <= memory.infos[report.id].generation
                                    \/ says(memory, report.id) = report.data
    BY DEF ignored, says
  <2>7. memory.infos[s].generation \in Int
    BY <2>2 DEF Sound, Memories, Info
  <2>8. Differs(m, s) <=> report.id = s /\ report.data # state(s)
    BY DEF Differs
  <2> HIDE DEF m, memory, after, report
  <2>9. AfterSome(after, s, m)
    <3>1. CASE report.id # s
      <4>1. ~ Differs(m, s)
        BY <2>8, <3>1
      <4>2. Unchanged(memory, s) => Unchanged(after, s)
        BY <2>5, <3>1 DEF Unchanged
      <4>3. \A i : ChangedBy(memory, s, i) => ChangedBy(after, s, i)
        BY <2>5, <3>1 DEF ChangedBy
      <4> QED
        BY <2>1, <2>4, <4>1, <4>2, <4>3 DEF AfterSome
    <3>2. CASE report.id = s /\ Unchanged(memory, s) /\ \A i \in 1 .. n : ~ Differs(i, s)
      <4>1. CASE report.data = state(s)
        <5>1. after = memory /\ ~ Differs(m, s)
          BY <2>5, <2>6, <2>8, <3>2, <4>1 DEF Unchanged
        <5> QED
          BY <2>1, <3>2, <5>1 DEF AfterSome
      <4>2. CASE report.data # state(s)
        <5>1. ~ ignored(memory, report)
          BY <2>2, <2>6, <2>7, <3>2, <4>2 DEF Unchanged
        <5>2. ChangedBy(after, s, m) /\ Differs(m, s)
          BY <2>5, <2>8, <3>2, <4>2, <5>1
        <5> QED
          BY <2>1, <3>2, <5>2 DEF AfterSome
      <4> QED
        BY <4>1, <4>2
    <3>3. ASSUME report.id = s, NEW i \in 1 .. n, Differs(i, s),
                 \A j \in 1 .. i - 1 : ~ Differs(j, s), ChangedBy(memory, s, i)
          PROVE  AfterSome(after, s, m)
      <4>1. after = memory
        BY <2>2, <2>5, <2>6, <3>3 DEF ChangedBy
      <4>2. i \in 1 .. m
        BY <2>1
      <4> QED
        BY <3>3, <4>1, <4>2 DEF AfterSome
    <3> QED
      BY <2>4, <3>1, <3>2, <3>3 DEF AfterSome
  <2> QED
    BY <2>1, <2>9 DEF m, after
<1>5. 0 .. N \subseteq W
  <2> HIDE DEF W
  <2> QED
    BY <1>1, <1>3, <1>4, IntervalInduct
<1>6. N \in 0 .. N
  BY <1>1
<1> QED
  BY <1>2, <1>5, <1>6 DEF N

-------------------------------------------------------------------------------
(* What is queued was reported, and so was what the states say. *)
Truthful ==
  /\ reported \in [States -> SUBSET Reports]
  /\ \A i \in 1 .. Len(queue) : queue[i].data \in reported[queue[i].id]
  /\ \A s \in States : state(s) \in reported[s] \cup {<<>>}

StatesInv == PassInv /\ Truthful /\ now \in Int

LEMMA StatesInitially == Init => StatesInv
<1> SUFFICES ASSUME Init PROVE StatesInv
  OBVIOUS
<1>1. statesBuffer \in Buffers /\ Len(statesBuffer) = 0
  BY DEF Init, Buffers
<1>2. statesViews \in [States -> View] /\ updateInfos \in [States -> Info] /\ updated \in [States -> BOOLEAN]
  BY StatesAssumption DEF Init, View, Info
<1>3. \A s \in States : statesViews[s] = [first |-> 0, size |-> 0, capacity |-> 0]
  BY DEF Init
<1>4. Current \in Memories
  BY <1>1, <1>2 DEF Current, Memories
<1>5. Current \in Sound
  BY <1>1, <1>3, <1>4 DEF Current, Sound, Inside, Disjoint
<1>6. PassInv
  BY <1>5 DEF PassInv, Init
<1>7. \A s \in States : state(s) = <<>>
  BY <1>1, <1>3 DEF state, contentIn, Buffers
<1>8. Truthful
  BY <1>7 DEF Truthful, Init
<1> QED
  BY <1>6, <1>8 DEF StatesInv, Init

(* A pass keeps all of it, and does to every state what AfterSome says. *)
LEMMA PassKeeps ==
  ASSUME StatesInv, ProcessQueue
  PROVE  /\ Current' \in Sound /\ generation' = generation + 1 /\ generation' \in Int
         /\ \A s \in States : /\ updateInfos'[s].generation < generation'
                              /\ state(s)' \in reported[s] \cup {<<>>}
                              /\ AfterSome(Current', s, Len(queue))
                              /\ state(s)' = says(Current', s)
<1>1. storedAll \in Sound
  BY StoredAll DEF StatesInv, PassInv
<1>2. Current' = storedAll
  <2>1. storedAll \in Memories
    BY <1>1 DEF Sound
  <2>2. storedAll = [buffer |-> storedAll.buffer, views |-> storedAll.views,
                     updated |-> storedAll.updated, infos |-> storedAll.infos]
    BY <2>1 DEF Memories
  <2> QED
    BY <2>2 DEF ProcessQueue, Current
<1>3. generation \in Int /\ generation' = generation + 1
  BY DEF StatesInv, PassInv, ProcessQueue
<1>4. ASSUME NEW s \in States
      PROVE  /\ updateInfos'[s].generation < generation'
             /\ state(s)' \in reported[s] \cup {<<>>}
             /\ AfterSome(Current', s, Len(queue))
             /\ state(s)' = says(Current', s)
  <2>1. AfterSome(Current', s, Len(queue))
    BY <1>2, PassResult DEF StatesInv
  <2>2. state(s)' = says(Current', s) /\ updateInfos' = Current'.infos
    BY DEF state, says, Current
  <2>3. updateInfos'[s].generation \in Int
    BY <1>1, <1>2, <2>2 DEF Sound, Memories, Info
  <2>4. CASE Unchanged(Current', s)
    BY <1>3, <2>1, <2>2, <2>3, <2>4 DEF Unchanged, StatesInv, Truthful
  <2>5. ASSUME NEW i \in 1 .. Len(queue), Differs(i, s), ChangedBy(Current', s, i)
        PROVE  updateInfos'[s].generation < generation' /\ state(s)' \in reported[s]
    BY <1>3, <2>2, <2>3, <2>5 DEF ChangedBy, Differs, StatesInv, Truthful
  <2> QED
    BY <2>1, <2>2, <2>4, <2>5 DEF AfterSome
<1> QED
  BY <1>1, <1>2, <1>3, <1>4

LEMMA StatesInductive == StatesInv /\ [Next]_vars => StatesInv'
<1> SUFFICES ASSUME StatesInv, [Next]_vars PROVE StatesInv'
  OBVIOUS
<1>1. ASSUME NEW s \in States, NEW data \in Reports, updateState(s, data) PROVE StatesInv'
  <2> DEFINE report == [id |-> s, timestamp |-> now, data |-> data]
  <2>1. report \in QueuedReports /\ now \in Int /\ report.id = s /\ report.data = data
    BY DEF QueuedReports, StatesInv
  <2>2. /\ reported' \in [States -> SUBSET Reports] /\ data \in reported'[s]
        /\ \A u \in States : reported[u] \subseteq reported'[u]
        /\ now' = now
    BY <1>1 DEF updateState, StatesInv, Truthful
  <2> HIDE DEF report
  <2>3. CASE fits(data)
    <3>1. /\ queue' = <<report>> \o queue
          /\ UNCHANGED <<statesBuffer, statesViews, updated, updateInfos, generation>>
      BY <1>1, <2>3 DEF updateState, stateVars, report
    <3>2. /\ queue' \in Seq(QueuedReports) /\ Len(queue) \in Nat /\ Len(queue') = Len(queue) + 1
          /\ \A i \in 1 .. Len(queue') : queue'[i] = IF i = 1 THEN report ELSE queue[i - 1]
      BY <2>1, <3>1 DEF StatesInv, PassInv
    <3>3. PassInv'
      BY <3>1, <3>2 DEF StatesInv, PassInv, Current
    <3>4. \A u \in States : state(u)' = state(u)
      BY <3>1 DEF state
    <3>5. ASSUME NEW i \in 1 .. Len(queue') PROVE queue'[i].data \in reported'[queue'[i].id]
      <4>1. CASE i = 1
        BY <2>1, <2>2, <3>2, <4>1
      <4>2. CASE i # 1
        <5>1. i - 1 \in 1 .. Len(queue) /\ queue'[i] = queue[i - 1]
          BY <3>2, <4>2
        <5>2. queue[i - 1].data \in reported[queue[i - 1].id] /\ queue[i - 1].id \in States
          <6>1. queue[i - 1] \in QueuedReports
            BY <5>1 DEF StatesInv, PassInv
          <6> QED
            BY <5>1, <6>1 DEF StatesInv, Truthful, QueuedReports
        <5> QED
          BY <2>2, <5>1, <5>2
      <4> QED
        BY <4>1, <4>2
    <3>6. Truthful'
      BY <2>2, <3>4, <3>5 DEF StatesInv, Truthful
    <3> QED
      BY <2>1, <2>2, <3>3, <3>6 DEF StatesInv
  <2>4. CASE ~ fits(data)
    <3>1. ProcessQueue /\ queue' = <<report>>
      BY <1>1, <2>4 DEF updateState, report
    <3>2. /\ Current' \in Sound /\ generation' \in Int
          /\ \A u \in States : /\ updateInfos'[u].generation < generation'
                               /\ state(u)' \in reported[u] \cup {<<>>}
      BY <3>1, PassKeeps
    <3>3. queue' \in Seq(QueuedReports) /\ Len(queue') = 1 /\ queue'[1] = report
      BY <2>1, <3>1
    <3>4. PassInv'
      BY <3>2, <3>3 DEF PassInv
    <3>5. Truthful'
      BY <2>1, <2>2, <3>2, <3>3 DEF Truthful
    <3> QED
      BY <2>1, <2>2, <3>4, <3>5 DEF StatesInv
  <2> QED
    BY <2>3, <2>4
<1>2. CASE processCommandQueue
  <2>1. ProcessQueue /\ queue' = <<>> /\ UNCHANGED <<now, reported>>
    BY <1>2 DEF processCommandQueue
  <2>2. /\ Current' \in Sound /\ generation' \in Int
        /\ \A u \in States : /\ updateInfos'[u].generation < generation'
                             /\ state(u)' \in reported[u] \cup {<<>>}
    BY <2>1, PassKeeps
  <2>3. PassInv'
    BY <2>1, <2>2 DEF PassInv
  <2>4. Truthful'
    BY <2>1, <2>2 DEF Truthful, StatesInv
  <2> QED
    BY <2>1, <2>3, <2>4 DEF StatesInv
<1>3. CASE flushChangedStates
  <2>1. UNCHANGED <<queue, statesBuffer, statesViews, generation, now, reported>>
    BY <1>3 DEF flushChangedStates
  <2>2. updateInfos \in [States -> Info] /\ now \in Int
    BY DEF StatesInv, PassInv, Sound, Memories, Current
  <2>3. /\ updateInfos' \in [States -> Info]
        /\ \A s \in States : updateInfos'[s].generation = updateInfos[s].generation
    BY <1>3, <2>2 DEF flushChangedStates, Info
  <2>4. updated' \in [States -> BOOLEAN]
    <3>1. \A s \in States : stillUpdated(s) \in BOOLEAN
      BY DEF stillUpdated
    <3> QED
      BY <1>3, <3>1 DEF flushChangedStates
  <2>5. Current' \in Sound
    <3>1. Current' = [buffer |-> statesBuffer, views |-> statesViews, updated |-> updated', infos |-> updateInfos']
      BY <2>1 DEF Current
    <3>2. /\ statesBuffer \in Buffers /\ statesViews \in [States -> View]
          /\ \A s \in States : Inside(statesBuffer, statesViews[s])
          /\ \A s, u \in States : s # u => Disjoint(statesViews[s], statesViews[u])
      BY DEF StatesInv, PassInv, Sound, Memories, Current
    <3>3. Current' \in Memories
      BY <2>3, <2>4, <3>1, <3>2 DEF Memories
    <3> QED
      BY <3>1, <3>2, <3>3 DEF Sound
  <2>6. PassInv'
    BY <2>1, <2>3, <2>5 DEF StatesInv, PassInv
  <2>7. Truthful'
    BY <2>1 DEF StatesInv, Truthful, state
  <2> QED
    BY <2>1, <2>6, <2>7 DEF StatesInv
<1>4. CASE Tick \/ UNCHANGED vars
  <2>1. /\ UNCHANGED <<queue, statesBuffer, statesViews, updated, updateInfos, generation, reported>>
        /\ now' \in Int
    BY <1>4 DEF Tick, vars, stateVars, StatesInv
  <2> QED
    BY <2>1 DEF StatesInv, PassInv, Truthful, Current, state
<1> QED
  BY <1>1, <1>2, <1>3, <1>4 DEF Next

THEOREM StatesInvariant == Spec => []StatesInv
BY StatesInitially, StatesInductive, PTL DEF Spec

(* A state says nothing but what was reported for it, and its view lies    *)
(* within the buffer, for any number of states and reports of any length:  *)
(* processCommandQueue() never writes over another state.                  *)
THEOREM StatesAreReported == Spec => []StateWasReported
<1>1. StatesInv => StateWasReported
  <2> SUFFICES ASSUME StatesInv, NEW s \in States
               PROVE  /\ state(s) \in reported[s] \cup {<<>>}
                      /\ statesViews[s].size \in 0 .. statesViews[s].capacity
                      /\ statesViews[s].first \in 0 .. Len(statesBuffer) - statesViews[s].capacity
    BY DEF StateWasReported
  <2>1. /\ statesBuffer \in Buffers /\ statesViews[s] \in View
        /\ Inside(statesBuffer, statesViews[s])
    BY DEF StatesInv, PassInv, Sound, Memories, Current
  <2>2. Len(statesBuffer) \in Nat
    BY <2>1 DEF Buffers
  <2>3. /\ statesViews[s].size \in 0 .. statesViews[s].capacity
        /\ statesViews[s].first \in 0 .. Len(statesBuffer) - statesViews[s].capacity
    BY <2>1, <2>2 DEF Inside, View
  <2> QED
    BY <2>3 DEF StatesInv, Truthful
<1> QED
  BY <1>1, StatesInvariant, PTL
===============================================================================
