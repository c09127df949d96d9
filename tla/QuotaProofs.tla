----------------------------- MODULE QuotaProofs -----------------------------
(***************************************************************************)
(* The quota of a device, for any number of offers and streams: the device *)
(* never uses more than it was offered, and a stream that runs keeps the   *)
(* offers that satisfied its request.  Then the workflow around a device   *)
(* of one stream: the driver, which knows only the metrics it has read,    *)
(* never promises the same shared memory twice.                            *)
(***************************************************************************)
EXTENDS QuotaDevice, ResourceOffers, Induction

Offer == [sharedMemory : Int, timeslices : Int, age : Nat, runtime : Int,
          user : Streams \cup {Nobody}, valid : BOOLEAN]

AllOffers == [Slots -> Offer]

(* What the driver sends. *)
Fresh == {offer \in Offer :
            /\ offer.sharedMemory >= 0 /\ offer.timeslices >= 0
            /\ offer.age = 0 /\ offer.runtime = Runtime
            /\ offer.user = Nobody /\ offer.valid}

Consumers == [resource : Resources, amount : Nat]

QuotaTypes ==
  /\ mOffers \in AllOffers
  /\ pendingOffers \in Seq(Fresh)
  /\ mExpiredOffers \subseteq Slots
  /\ phase \in [Streams -> {"free", "running", "done"}]
  /\ offerConsumers \in Seq(Consumers)

(* An offer of a shorter runtime than a new one is as old as it gets, so   *)
(* that none becomes younger when another one is added to it.              *)
Aging(offers) ==
  \A i \in Slots :
    /\ offers[i].age <= Runtime + 1
    /\ offers[i].runtime <= Runtime
    /\ offers[i].runtime < Runtime => offers[i].age = Runtime + 1

(* An offer that was found expired stays so until it is handled.           *)
StillExpired(offers, expired) ==
  \A i \in expired : offers[i].valid /\ isExpired(offers[i])

(* Only an expired offer holds less than nothing, and no stream has it.    *)
Negative(offers) ==
  \A i \in Slots :
    offers[i].sharedMemory < 0 \/ offers[i].timeslices < 0 =>
      isExpired(offers[i]) /\ (offers[i].valid => offers[i].user = Nobody)

(* The offers of a stream that no completion of another one takes away.    *)
kept(offers, expired, s) ==
  {i \in Slots : offers[i].valid /\ offers[i].user = s /\ i \notin expired}

Satisfied(offers, some) ==
  /\ sumOf(offers, some, "sharedMemory") >= requestedSharedMemory
  /\ sumOf(offers, some, "timeslices") >= requestedTimeslices

RunningSatisfied(offers, expired, phases) ==
  \A s \in Streams : phases[s] # "free" => Satisfied(offers, kept(offers, expired, s))

OffersInv ==
  /\ Aging(mOffers)
  /\ StillExpired(mOffers, mExpiredOffers)
  /\ Negative(mOffers)
  /\ RunningSatisfied(mOffers, mExpiredOffers, phase)

(* What all slots hold, the invalid ones too: a signal may make one valid  *)
(* again that still has timeslices.                                        *)
inAll(offers, r) == SumFunction([i \in Slots |-> positive(offers[i][r])])

Accounted ==
  /\ given \in [Resources -> Int]
  /\ \A r \in Resources : inAll(mOffers, r) + waiting(r) <= given[r]

EvaluatorInv == QuotaTypes /\ OffersInv

QuotaInv == EvaluatorInv /\ Accounted

(* A step after which the device has at most so much more than before. *)
Adds(change) ==
  \A r \in Resources :
    /\ change[r] \in Int
    /\ inAll(mOffers, r)' + waiting(r)' <= inAll(mOffers, r) + waiting(r) + change[r]
-------------------------------------------------------------------------------
(***************************************************************************)
(* Offers and what they hold.                                              *)
(***************************************************************************)
LEMMA SlotsFinite == IsFiniteSet(Slots) /\ 0 \in Slots /\ NumOffers \in Nat
BY QuotaAssumption, FS_Interval DEF Slots

LEMMA Amount ==
  ASSUME NEW offer \in Offer
  PROVE  \A r \in Resources : offer[r] \in Int
BY DEF Offer, Resources

LEMMA Positive ==
  ASSUME NEW n \in Int
  PROVE  positive(n) \in Nat /\ positive(n) >= n /\ (n >= 0 => positive(n) = n) /\ (n <= 0 => positive(n) = 0)
BY DEF positive

(* One amount of an offer is set. *)
LEMMA AmountSet ==
  ASSUME NEW offer \in Offer, NEW r \in Resources, NEW a \in Int
  PROVE  LET new == [offer EXCEPT ![r] = a] IN
         /\ new \in Offer /\ new[r] = a
         /\ \A q \in Resources : q # r => new[q] = offer[q]
         /\ new.user = offer.user /\ new.valid = offer.valid
         /\ new.age = offer.age /\ new.runtime = offer.runtime
<1>1. CASE r = "sharedMemory"
  BY <1>1 DEF Offer, Resources
<1>2. CASE r = "timeslices"
  BY <1>2 DEF Offer, Resources
<1> QED
  BY <1>1, <1>2 DEF Resources

amounts(offers, r) == [i \in Slots |-> positive(offers[i][r])]

LEMMA InAll ==
  ASSUME NEW offers \in AllOffers, NEW r \in Resources
  PROVE  /\ inAll(offers, r) = SumFunctionOnSet(amounts(offers, r), Slots)
         /\ \A i \in Slots : offers[i][r] \in Int /\ amounts(offers, r)[i] \in Nat
         /\ inAll(offers, r) \in Int
<1>1. \A i \in Slots : offers[i] \in Offer
  BY DEF AllOffers
<1>2. \A i \in Slots : offers[i][r] \in Int
  BY <1>1, Amount
<1>3. \A i \in Slots : amounts(offers, r)[i] \in Nat
  BY <1>2, Positive DEF amounts
<1>4. inAll(offers, r) = SumFunctionOnSet(amounts(offers, r), Slots)
  BY DEF inAll, amounts, SumFunction, SumFunctionOnSet, FoldFunction
<1>5. SumFunctionOnSet(amounts(offers, r), Slots) \in Int
  BY <1>3, SlotsFinite, SumType
<1> QED
  BY <1>2, <1>3, <1>4, <1>5

(* Offers that hold the same, or less. *)
LEMMA InAllAtMost ==
  ASSUME NEW new \in AllOffers, NEW old \in AllOffers, NEW r \in Resources,
         \A i \in Slots : positive(new[i][r]) <= positive(old[i][r])
  PROVE  inAll(new, r) <= inAll(old, r)
<1>1. \A i \in Slots : amounts(new, r)[i] \in Int /\ amounts(old, r)[i] \in Int
  BY InAll
<1>2. \A i \in Slots : amounts(new, r)[i] <= amounts(old, r)[i]
  BY DEF amounts
<1>3. SumFunctionOnSet(amounts(new, r), Slots) <= SumFunctionOnSet(amounts(old, r), Slots)
  BY <1>1, <1>2, SumMonotone, SlotsFinite
<1> QED
  BY <1>3, InAll

LEMMA InAllSame ==
  ASSUME NEW new \in AllOffers, NEW old \in AllOffers, NEW r \in Resources,
         \A i \in Slots : new[i][r] = old[i][r]
  PROVE  inAll(new, r) = inAll(old, r)
<1>1. amounts(new, r) = amounts(old, r)
  BY DEF amounts
<1> QED
  BY <1>1, InAll

(* One slot is changed. *)
LEMMA InAllChanged ==
  ASSUME NEW new \in AllOffers, NEW old \in AllOffers, NEW r \in Resources, NEW e \in Slots,
         \A i \in Slots \ {e} : new[i][r] = old[i][r]
  PROVE  inAll(new, r) = inAll(old, r) - positive(old[e][r]) + positive(new[e][r])
<1>1. \A i \in Slots : amounts(new, r)[i] \in Int /\ amounts(old, r)[i] \in Int
  BY InAll
<1>2. \A i \in Slots \ {e} : amounts(old, r)[i] = amounts(new, r)[i]
  BY DEF amounts
<1>3. SumFunctionOnSet(amounts(new, r), Slots)
        = SumFunctionOnSet(amounts(old, r), Slots) - amounts(old, r)[e] + amounts(new, r)[e]
  <2> DEFINE f == amounts(old, r)
             h == amounts(new, r)
  <2> HIDE DEF f, h
  <2>1. \A i \in Slots : f[i] \in Int /\ h[i] \in Int
    BY <1>1 DEF f, h
  <2>2. \A i \in Slots \ {e} : f[i] = h[i]
    BY <1>2 DEF f, h
  <2>3. SumFunctionOnSet(h, Slots) = SumFunctionOnSet(f, Slots) - f[e] + h[e]
    BY <2>1, <2>2, SumChanged, SlotsFinite
  <2> QED
    BY <2>3 DEF f, h
<1>4. amounts(old, r)[e] = positive(old[e][r]) /\ amounts(new, r)[e] = positive(new[e][r])
  BY DEF amounts
<1> QED
  BY <1>3, <1>4, InAll

(* Sums over some of the slots. *)
LEMMA SumOf ==
  ASSUME NEW offers \in AllOffers, NEW some, some \subseteq Slots, NEW r \in Resources
  PROVE  /\ IsFiniteSet(some) /\ sumOf(offers, some, r) \in Int
         /\ sumOf(offers, some, r) = SumFunctionOnSet([i \in Slots |-> offers[i][r]], some)
<1> DEFINE f == [i \in some |-> offers[i][r]]
           g == [i \in Slots |-> offers[i][r]]
<1>1. IsFiniteSet(some)
  BY SlotsFinite, FS_Subset
<1>2. \A i \in some : f[i] \in Int /\ f[i] = g[i]
  BY InAll
<1>3. SumFunctionOnSet(f, some) = SumFunctionOnSet(g, some)
  BY <1>1, <1>2, SumSame
<1>4. SumFunctionOnSet(f, some) \in Int
  BY <1>1, <1>2, SumType
<1> QED
  BY <1>1, <1>3, <1>4 DEF sumOf

LEMMA SumOfSame ==
  ASSUME NEW new \in AllOffers, NEW old \in AllOffers, NEW some, some \subseteq Slots,
         NEW r \in Resources, \A i \in some : old[i][r] <= new[i][r]
  PROVE  sumOf(old, some, r) <= sumOf(new, some, r)
<1> DEFINE f == [i \in some |-> old[i][r]]
           g == [i \in some |-> new[i][r]]
<1>1. \A i \in some : f[i] \in Int /\ g[i] \in Int /\ f[i] <= g[i]
  BY InAll
<1>2. SumFunctionOnSet(f, some) <= SumFunctionOnSet(g, some)
  BY <1>1, SumMonotone, SumOf
<1> QED
  BY <1>2 DEF sumOf
-------------------------------------------------------------------------------
(***************************************************************************)
(* A consumer takes from the offers of its task, and from no other one; it *)
(* reports no more than they had.                                          *)
(***************************************************************************)
TakesFrom(new, old, task) ==
  \A i \in Slots :
    /\ new[i].user = old[i].user /\ new[i].valid = old[i].valid
    /\ new[i].age = old[i].age /\ new[i].runtime = old[i].runtime
    /\ old[i].user # task => new[i] = old[i]
    /\ \A r \in Resources : new[i][r] < 0 => old[i][r] < 0

LEMMA TakesFromBoth ==
  ASSUME NEW a, NEW b, NEW c, NEW task, TakesFrom(c, b, task), TakesFrom(b, a, task)
  PROVE  TakesFrom(c, a, task)
BY DEF TakesFrom

(* The states of a consumer on its way through the slots. *)
Consuming(old, task, r) ==
  {c \in [offers : AllOffers, left : Nat, disposed : Int, stop : BOOLEAN] :
     /\ TakesFrom(c.offers, old, task)
     /\ inAll(c.offers, r) + c.disposed <= inAll(old, r)
     /\ \A q \in Resources : q # r => inAll(c.offers, q) = inAll(old, q)}

(* The visit of consume() to a slot. *)
visited(c, i, task, r) ==
  LET toRemove == IF c.left < c.offers[i][r] THEN c.left ELSE c.offers[i][r]
  IN  IF c.stop \/ c.offers[i].user # task THEN c
      ELSE [offers |-> [c.offers EXCEPT ![i][r] = @ - toRemove],
            left |-> c.left - toRemove,
            disposed |-> c.disposed + toRemove,
            stop |-> c.left - toRemove <= 0]

LEMMA VisitTakes ==
  ASSUME NEW old \in AllOffers, NEW task, NEW r \in Resources, NEW i \in Slots,
         NEW c \in Consuming(old, task, r)
  PROVE  visited(c, i, task, r) \in Consuming(old, task, r)
<1> DEFINE a == c.offers[i][r]
           t == IF c.left < a THEN c.left ELSE a
           new == [c.offers EXCEPT ![i][r] = @ - t]
           v == visited(c, i, task, r)
<1>1. /\ c \in [offers : AllOffers, left : Nat, disposed : Int, stop : BOOLEAN]
      /\ TakesFrom(c.offers, old, task)
      /\ inAll(c.offers, r) + c.disposed <= inAll(old, r)
      /\ \A q \in Resources : q # r => inAll(c.offers, q) = inAll(old, q)
  BY DEF Consuming
<1>2. /\ c.offers \in AllOffers /\ c.left \in Nat /\ c.disposed \in Int /\ c.stop \in BOOLEAN
  BY <1>1
<1>3. c.offers[i] \in Offer /\ \A q \in Resources : c.offers[i][q] \in Int
  BY <1>2, Amount DEF AllOffers
<1>4. CASE c.stop \/ c.offers[i].user # task
  BY <1>4 DEF visited
<1>5. CASE ~ (c.stop \/ c.offers[i].user # task)
  <2>1. v = [offers |-> new, left |-> c.left - t, disposed |-> c.disposed + t, stop |-> c.left - t <= 0]
    BY <1>5 DEF visited
  <2>2. a \in Int /\ t \in Int /\ t <= a /\ t <= c.left /\ (a >= 0 => t >= 0) /\ (a < 0 => t = a)
    BY <1>2, <1>3
  <2> HIDE DEF t
  <2> DEFINE one == [c.offers[i] EXCEPT ![r] = a - t]
  <2>3. new = [c.offers EXCEPT ![i] = one]
    BY <1>2 DEF AllOffers
  <2>4. /\ one \in Offer /\ one[r] = a - t
        /\ \A q \in Resources : q # r => one[q] = c.offers[i][q]
        /\ one.user = c.offers[i].user /\ one.valid = c.offers[i].valid
        /\ one.age = c.offers[i].age /\ one.runtime = c.offers[i].runtime
    <3> HIDE DEF a
    <3>1. a - t \in Int
      BY <2>2
    <3> QED
      BY <1>3, <3>1, AmountSet
  <2> HIDE DEF one
  <2>5. new \in AllOffers /\ new[i] = one /\ \A j \in Slots \ {i} : new[j] = c.offers[j]
    BY <1>2, <2>3, <2>4 DEF AllOffers
  <2> HIDE DEF new
  <2>6. TakesFrom(new, c.offers, task)
    <3> SUFFICES ASSUME NEW j \in Slots
                 PROVE  /\ new[j].user = c.offers[j].user /\ new[j].valid = c.offers[j].valid
                        /\ new[j].age = c.offers[j].age /\ new[j].runtime = c.offers[j].runtime
                        /\ c.offers[j].user # task => new[j] = c.offers[j]
                        /\ \A q \in Resources : new[j][q] < 0 => c.offers[j][q] < 0
      BY DEF TakesFrom
    <3>1. CASE j # i
      BY <2>5, <3>1
    <3>2. CASE j = i
      <4>1. \A q \in Resources : one[q] < 0 => c.offers[i][q] < 0
        BY <1>2, <2>2, <2>4
      <4> QED
        BY <1>5, <2>4, <2>5, <3>2, <4>1
    <3> QED
      BY <3>1, <3>2
  <2>7. TakesFrom(new, old, task)
    BY <1>1, <2>6, TakesFromBoth
  <2>8. inAll(new, r) + (c.disposed + t) <= inAll(old, r)
    <3>1. inAll(new, r) = inAll(c.offers, r) - positive(a) + positive(a - t)
      <4>1. \A j \in Slots \ {i} : new[j][r] = c.offers[j][r]
        BY <2>5
      <4>2. new[i][r] = a - t
        BY <2>4, <2>5
      <4> HIDE DEF a
      <4>3. inAll(new, r) = inAll(c.offers, r) - positive(c.offers[i][r]) + positive(new[i][r])
        BY <1>2, <2>5, <4>1, InAllChanged
      <4> QED
        BY <4>2, <4>3 DEF a
    <3>2. positive(a - t) + t <= positive(a) /\ positive(a) \in Int /\ positive(a - t) \in Int
      <4> HIDE DEF a
      <4> QED
        BY <1>2, <2>2 DEF positive
    <3>3. inAll(c.offers, r) \in Int /\ inAll(old, r) \in Int
      BY <1>2, InAll
    <3> HIDE DEF a
    <3> QED
      BY <1>1, <1>2, <2>2, <3>1, <3>2, <3>3
  <2>9. ASSUME NEW q \in Resources, q # r PROVE inAll(new, q) = inAll(old, q)
    <3>1. \A j \in Slots : new[j][q] = c.offers[j][q]
      BY <2>4, <2>5, <2>9
    <3>2. inAll(new, q) = inAll(c.offers, q)
      BY <1>2, <2>5, <3>1, InAllSame
    <3> QED
      BY <1>1, <2>9, <3>2
  <2>10. v \in [offers : AllOffers, left : Nat, disposed : Int, stop : BOOLEAN]
    <3>1. c.left - t \in Nat /\ c.disposed + t \in Int /\ (c.left - t <= 0) \in BOOLEAN
      BY <1>2, <2>2
    <3> QED
      BY <2>1, <2>5, <3>1
  <2>11. v.offers = new /\ v.disposed = c.disposed + t
    BY <2>1
  <2> HIDE DEF v
  <2> QED
    BY <2>7, <2>8, <2>9, <2>10, <2>11 DEF Consuming, v
<1> QED
  BY <1>4, <1>5

(* consume(), over all the slots. *)
ConsumeVisits(g, offers, task, consumer) ==
  g = [n \in 0 .. NumOffers |->
         IF n = 0 THEN [offers |-> offers, left |-> consumer.amount, disposed |-> 0, stop |-> FALSE]
         ELSE visited(g[n - 1], n - 1, task, consumer.resource)]

(* The states it goes through. *)
ConsumePasses(g, offers, task, consumer) ==
  /\ g[0] = [offers |-> offers, left |-> consumer.amount, disposed |-> 0, stop |-> FALSE]
  /\ \A n \in 0 .. NumOffers : g[n] \in Consuming(offers, task, consumer.resource)
  /\ \A n \in 0 .. NumOffers - 1 : g[n + 1] = visited(g[n], n, task, consumer.resource)
  /\ consume(offers, task, consumer) = g[NumOffers]

LEMMA ConsumeSteps ==
  ASSUME NEW offers \in AllOffers, NEW task, NEW consumer \in Consumers
  PROVE  \E g : ConsumePasses(g, offers, task, consumer)
<1> DEFINE r == consumer.resource
           C == Consuming(offers, task, r)
           base == [offers |-> offers, left |-> consumer.amount, disposed |-> 0, stop |-> FALSE]
           G == [n \in 1 .. NumOffers |-> [c \in C |-> visited(c, n - 1, task, r)]]
           after == CHOOSE g : ConsumeVisits(g, offers, task, consumer)
<1>1. NumOffers \in Nat /\ \A n \in 1 .. NumOffers : n - 1 \in Slots
  BY SlotsFinite DEF Slots
<1>2. r \in Resources /\ consumer.amount \in Nat
  BY DEF Consumers
<1>3. base \in C
  <2>1. TakesFrom(offers, offers, task)
    BY DEF TakesFrom
  <2>2. inAll(offers, r) + 0 <= inAll(offers, r)
    BY <1>2, InAll
  <2> QED
    BY <1>2, <2>1, <2>2 DEF Consuming
<1>4. \A c \in C, n \in 1 .. NumOffers : visited(c, n - 1, task, r) \in C
  BY <1>1, <1>2, VisitTakes
<1>5. G \in [1 .. NumOffers -> [C -> C]]
  BY <1>4
<1>6. \A c \in C, n \in 1 .. NumOffers : G[n][c] = visited(c, n - 1, task, r)
  OBVIOUS
<1> HIDE DEF G, C, base
<1>7. PICK f : Iterates(f, NumOffers, C, base, G)
  BY <1>1, <1>3, <1>5, Recursion
<1>8. ConsumeVisits(f, offers, task, consumer)
  <2>1. \A n \in 1 .. NumOffers : n - 1 \in 0 .. NumOffers
    BY <1>1
  <2>2. \A n \in 1 .. NumOffers : f[n - 1] \in C
    BY <1>7, <2>1 DEF Iterates
  <2>3. \A n \in 1 .. NumOffers : f[n] = visited(f[n - 1], n - 1, task, r)
    BY <1>6, <1>7, <2>2 DEF Iterates
  <2>4. \A n \in 0 .. NumOffers : f[n] = IF n = 0 THEN base ELSE visited(f[n - 1], n - 1, task, r)
    BY <1>1, <1>7, <2>3 DEF Iterates
  <2> QED
    BY <1>7, <2>4 DEF ConsumeVisits, Iterates, base
<1>9. ConsumeVisits(after, offers, task, consumer)
  BY <1>8
<1>10. consume(offers, task, consumer) = after[NumOffers]
  BY DEF consume, ConsumeVisits, visited
<1> HIDE DEF after
<1>11. after = [n \in 0 .. NumOffers |-> IF n = 0 THEN base ELSE visited(after[n - 1], n - 1, task, r)]
  BY <1>9 DEF ConsumeVisits, base
<1>12. \A n \in 0 .. NumOffers : after[n] = IF n = 0 THEN base ELSE visited(after[n - 1], n - 1, task, r)
  BY <1>11
<1> DEFINE W == {n \in 0 .. NumOffers : after[n] \in C}
<1>13. 0 \in W
  BY <1>1, <1>3, <1>12
<1>14. ASSUME NEW n \in 0 .. NumOffers - 1, n \in W PROVE n + 1 \in W
  <2>1. n + 1 \in 1 .. NumOffers /\ n + 1 \in 0 .. NumOffers /\ (n + 1) - 1 = n /\ n + 1 # 0
    BY <1>1
  <2>2. after[n + 1] = visited(after[n], n, task, r)
    BY <1>12, <2>1
  <2>3. visited(after[n], (n + 1) - 1, task, r) \in C
    BY <1>4, <1>14, <2>1
  <2> QED
    BY <2>1, <2>2, <2>3
<1>15. 0 .. NumOffers \subseteq W
  <2> HIDE DEF W
  <2> QED
    BY <1>1, <1>13, <1>14, IntervalInduct
<1>16. \A n \in 0 .. NumOffers - 1 : after[n + 1] = visited(after[n], n, task, r)
  <2> SUFFICES ASSUME NEW n \in 0 .. NumOffers - 1 PROVE after[n + 1] = visited(after[n], n, task, r)
    OBVIOUS
  <2>1. n + 1 \in 0 .. NumOffers /\ (n + 1) - 1 = n /\ n + 1 # 0
    BY <1>1
  <2> QED
    BY <1>12, <2>1
<1>17. after[0] = base
  BY <1>1, <1>12
<1>18. ConsumePasses(after, offers, task, consumer)
  BY <1>1, <1>10, <1>15, <1>16, <1>17 DEF C, base, ConsumePasses
<1> QED
  BY <1>18

LEMMA ConsumeTakes ==
  ASSUME NEW offers \in AllOffers, NEW task, NEW consumer \in Consumers
  PROVE  consume(offers, task, consumer) \in Consuming(offers, task, consumer.resource)
<1>1. PICK g : ConsumePasses(g, offers, task, consumer)
  BY ConsumeSteps
<1>2. NumOffers \in 0 .. NumOffers
  BY SlotsFinite
<1> QED
  BY <1>1, <1>2 DEF ConsumePasses

(* A consumer that has visited n slots: it got all it wanted, or the task  *)
(* has nothing left in them.                                               *)
Charged(c, old, task, r, amount, n) ==
  /\ c.disposed + c.left = amount
  /\ c.stop => c.left = 0
  /\ ~ c.stop => \A j \in Slots : j < n /\ old[j].user = task => c.offers[j][r] = 0
  /\ \A j \in Slots, q \in Resources : q # r => c.offers[j][q] = old[j][q]

LEMMA VisitCharges ==
  ASSUME NEW old \in AllOffers, NEW task, NEW r \in Resources, NEW i \in Slots, NEW amount \in Nat,
         NEW c \in Consuming(old, task, r), Charged(c, old, task, r, amount, i)
  PROVE  Charged(visited(c, i, task, r), old, task, r, amount, i + 1)
<1> DEFINE a == c.offers[i][r]
           t == IF c.left < a THEN c.left ELSE a
           new == [c.offers EXCEPT ![i][r] = @ - t]
           v == visited(c, i, task, r)
<1>1. /\ c \in [offers : AllOffers, left : Nat, disposed : Int, stop : BOOLEAN]
      /\ TakesFrom(c.offers, old, task)
  BY DEF Consuming
<1>2. /\ c.offers \in AllOffers /\ c.left \in Nat /\ c.disposed \in Int /\ c.stop \in BOOLEAN
  BY <1>1
<1>3. c.offers[i] \in Offer /\ \A q \in Resources : c.offers[i][q] \in Int
  BY <1>2, Amount DEF AllOffers
<1>4. /\ c.disposed + c.left = amount
      /\ c.stop => c.left = 0
      /\ ~ c.stop => \A j \in Slots : j < i /\ old[j].user = task => c.offers[j][r] = 0
      /\ \A j \in Slots, q \in Resources : q # r => c.offers[j][q] = old[j][q]
  BY DEF Charged
<1>5. \A j \in Slots : j < i + 1 => j < i \/ j = i
  BY DEF Slots
<1>6. \A j \in Slots : c.offers[j].user = old[j].user
  BY <1>1 DEF TakesFrom
<1>7. CASE c.stop \/ c.offers[i].user # task
  <2>1. v = c
    BY <1>7 DEF visited
  <2>2. ~ c.stop => \A j \in Slots : j < i + 1 /\ old[j].user = task => c.offers[j][r] = 0
    BY <1>4, <1>5, <1>6, <1>7
  <2> QED
    BY <1>4, <2>1, <2>2 DEF Charged
<1>8. CASE ~ (c.stop \/ c.offers[i].user # task)
  <2>1. v = [offers |-> new, left |-> c.left - t, disposed |-> c.disposed + t, stop |-> c.left - t <= 0]
    BY <1>8 DEF visited
  <2>2. a \in Int /\ t \in Int /\ t <= c.left /\ (c.left - t > 0 => a - t = 0)
    BY <1>2, <1>3
  <2> HIDE DEF t
  <2> DEFINE one == [c.offers[i] EXCEPT ![r] = a - t]
  <2>3. new = [c.offers EXCEPT ![i] = one]
    BY <1>2 DEF AllOffers
  <2>4. /\ one \in Offer /\ one[r] = a - t
        /\ \A q \in Resources : q # r => one[q] = c.offers[i][q]
        /\ one.user = c.offers[i].user /\ one.valid = c.offers[i].valid
        /\ one.age = c.offers[i].age /\ one.runtime = c.offers[i].runtime
    <3> HIDE DEF a
    <3>1. a - t \in Int
      BY <2>2
    <3> QED
      BY <1>3, <3>1, AmountSet
  <2> HIDE DEF one
  <2>5. new[i] = one /\ \A j \in Slots \ {i} : new[j] = c.offers[j]
    BY <1>2, <2>3 DEF AllOffers
  <2> HIDE DEF new
  <2>6. /\ v.offers = new /\ v.left = c.left - t /\ v.disposed = c.disposed + t
        /\ v.stop = (c.left - t <= 0)
    <3> HIDE DEF v
    <3>1. v.stop = (c.left - t <= 0)
      BY <2>1, Zenon
    <3> QED
      BY <2>1, <3>1
  <2> HIDE DEF v, a
  <2>7. v.disposed + v.left = amount
    BY <1>2, <1>4, <2>2, <2>6
  <2>12. (v.stop => c.left - t <= 0) /\ (~ v.stop => ~ (c.left - t <= 0))
    BY <2>6, Zenon
  <2>8. v.stop => v.left = 0
    <3>1. c.left - t <= 0 => c.left - t = 0
      BY <1>2, <2>2
    <3> QED
      BY <2>6, <2>12, <3>1
  <2>9. ASSUME ~ v.stop, NEW j \in Slots, j < i + 1, old[j].user = task PROVE new[j][r] = 0
    <3>1. CASE j = i
      <4>1. c.left - t > 0
        BY <1>2, <2>2, <2>9, <2>12
      <4> QED
        BY <2>2, <2>4, <2>5, <3>1, <4>1
    <3>2. CASE j # i
      <4>1. j < i
        BY <1>5, <2>9, <3>2
      <4> QED
        BY <1>4, <1>8, <2>5, <2>9, <3>2, <4>1
    <3> QED
      BY <3>1, <3>2
  <2>10. \A j \in Slots, q \in Resources : q # r => new[j][q] = old[j][q]
    BY <1>4, <2>4, <2>5
  <2>11. Charged(v, old, task, r, amount, i + 1)
    BY <2>6, <2>7, <2>8, <2>9, <2>10 DEF Charged
  <2> QED
    BY <2>11 DEF v
<1> QED
  BY <1>7, <1>8

(* A consumer takes all it wants, or all the task has. *)
LEMMA ConsumeCharges ==
  ASSUME NEW offers \in AllOffers, NEW task, NEW consumer \in Consumers
  PROVE  LET c == consume(offers, task, consumer)
             r == consumer.resource IN
         /\ \A j \in Slots, q \in Resources : q # r => c.offers[j][q] = offers[j][q]
         /\ \/ c.disposed = consumer.amount
            \/ \A j \in Slots : offers[j].user = task => c.offers[j][r] = 0
<1> DEFINE r == consumer.resource
           amount == consumer.amount
<1>1. r \in Resources /\ amount \in Nat /\ NumOffers \in Nat
  BY SlotsFinite DEF Consumers
<1>2. PICK g : ConsumePasses(g, offers, task, consumer)
  BY ConsumeSteps
<1>3. /\ g[0] = [offers |-> offers, left |-> amount, disposed |-> 0, stop |-> FALSE]
      /\ \A n \in 0 .. NumOffers : g[n] \in Consuming(offers, task, r)
      /\ \A n \in 0 .. NumOffers - 1 : g[n + 1] = visited(g[n], n, task, r)
      /\ consume(offers, task, consumer) = g[NumOffers]
  BY <1>2 DEF ConsumePasses
<1> HIDE DEF r, amount
<1> DEFINE W == {n \in 0 .. NumOffers : Charged(g[n], offers, task, r, amount, n)}
<1>4. 0 \in W
  <2>1. 0 \in 0 .. NumOffers /\ 0 + amount = amount /\ \A j \in Slots : ~ (j < 0)
    BY <1>1 DEF Slots
  <2>2. Charged(g[0], offers, task, r, amount, 0)
    BY <1>3, <2>1 DEF Charged
  <2> QED
    BY <2>1, <2>2
<1>5. ASSUME NEW n \in 0 .. NumOffers - 1, n \in W PROVE n + 1 \in W
  <2>1. n + 1 \in 0 .. NumOffers /\ n \in 0 .. NumOffers /\ n \in Slots
    BY <1>1 DEF Slots
  <2>2. Charged(g[n], offers, task, r, amount, n) /\ g[n] \in Consuming(offers, task, r)
    BY <1>3, <1>5, <2>1
  <2>3. Charged(visited(g[n], n, task, r), offers, task, r, amount, n + 1)
    BY <1>1, <2>1, <2>2, VisitCharges
  <2> QED
    BY <1>3, <2>1, <2>3
<1>6. 0 .. NumOffers \subseteq W
  <2> HIDE DEF W
  <2> QED
    BY <1>1, <1>4, <1>5, IntervalInduct
<1> DEFINE c == g[NumOffers]
<1>7. Charged(c, offers, task, r, amount, NumOffers) /\ c \in Consuming(offers, task, r)
  BY <1>1, <1>3, <1>6
<1>8. c.left \in Nat /\ c.disposed \in Int /\ c.stop \in BOOLEAN
  BY <1>7 DEF Consuming
<1>9. \A j \in Slots : j < NumOffers
  BY <1>1 DEF Slots
<1> HIDE DEF c
<1>10. \A j \in Slots, q \in Resources : q # r => c.offers[j][q] = offers[j][q]
  BY <1>7 DEF Charged
<1>11. CASE c.stop
  <2>1. c.disposed = amount
    BY <1>1, <1>7, <1>8, <1>11 DEF Charged
  <2> QED
    BY <1>3, <1>10, <2>1 DEF c, r, amount
<1>12. CASE ~ c.stop
  <2>1. \A j \in Slots : offers[j].user = task => c.offers[j][r] = 0
    BY <1>7, <1>9, <1>12 DEF Charged
  <2> QED
    BY <1>3, <1>10, <2>1 DEF c, r, amount
<1> QED
  BY <1>8, <1>11, <1>12

(* Memory that a task has at least this much of is taken off its offers. *)
LEMMA ConsumeIsCharged ==
  ASSUME NEW offers \in AllOffers, NEW task, NEW bytes \in Nat, NEW some, some \subseteq Slots,
         \A i \in some : offers[i].user = task,
         bytes <= sumOf(offers, some, "sharedMemory"), NEW all \in Nat, bytes <= all
  PROVE  LET c == consume(offers, task, [resource |-> "sharedMemory", amount |-> all]) IN
         /\ c.offers \in AllOffers
         /\ inAll(c.offers, "sharedMemory") <= inAll(offers, "sharedMemory") - bytes
<1> DEFINE consumer == [resource |-> "sharedMemory", amount |-> all]
           m == "sharedMemory"
           c == consume(offers, task, consumer)
<1>1. consumer \in Consumers /\ consumer.resource = m /\ consumer.amount = all /\ m \in Resources
  BY DEF Consumers, Resources
<1> HIDE DEF consumer, m
<1>2. c \in Consuming(offers, task, m)
  BY <1>1, ConsumeTakes
<1>3. \/ c.disposed = all
      \/ \A j \in Slots : offers[j].user = task => c.offers[j][m] = 0
  BY <1>1, ConsumeCharges
<1> HIDE DEF c
<1>4. /\ c.offers \in AllOffers /\ c.disposed \in Int
      /\ inAll(c.offers, m) + c.disposed <= inAll(offers, m)
      /\ TakesFrom(c.offers, offers, task)
  BY <1>2 DEF Consuming
<1>5. /\ inAll(c.offers, m) \in Int /\ inAll(offers, m) \in Int
      /\ inAll(c.offers, m) = SumFunctionOnSet(amounts(c.offers, m), Slots)
      /\ inAll(offers, m) = SumFunctionOnSet(amounts(offers, m), Slots)
      /\ \A i \in Slots : /\ amounts(offers, m)[i] \in Nat /\ amounts(c.offers, m)[i] \in Nat
                          /\ offers[i][m] \in Int
  BY <1>1, <1>4, InAll
<1>6. CASE c.disposed = all
  <2>1. inAll(c.offers, m) <= inAll(offers, m) - bytes
    BY <1>4, <1>5, <1>6
  <2> QED
    BY <1>4, <2>1 DEF c, consumer, m
<1>7. CASE \A j \in Slots : offers[j].user = task => c.offers[j][m] = 0
  <2> DEFINE f == amounts(offers, m)
             g == amounts(c.offers, m)
             h == [i \in Slots |-> offers[i][m]]
             d == [i \in Slots |-> f[i] - g[i]]
  <2>1. \A i \in Slots : f[i] \in Int /\ g[i] \in Int /\ h[i] \in Int
    BY <1>5
  <2>2. \A i \in Slots : f[i] = positive(offers[i][m]) /\ g[i] = positive(c.offers[i][m])
    BY DEF amounts
  <2>3. \A i \in Slots : /\ offers[i].user # task => g[i] = f[i]
                         /\ offers[i].user = task => g[i] = 0
    <3>1. \A i \in Slots : offers[i].user # task => c.offers[i] = offers[i]
      BY <1>4 DEF TakesFrom
    <3>2. positive(0) = 0
      BY DEF positive
    <3> QED
      BY <1>7, <2>2, <3>1, <3>2
  <2>4. \A i \in Slots : f[i] >= 0 /\ f[i] >= h[i]
    <3>1. \A i \in Slots : h[i] = offers[i][m]
      OBVIOUS
    <3> HIDE DEF f, g, h
    <3> QED
      BY <2>1, <2>2, <3>1 DEF positive
  <2>5. \A i \in Slots : d[i] \in Int /\ d[i] >= 0 /\ f[i] = g[i] + d[i]
    <3>1. \A i \in Slots : d[i] = f[i] - g[i]
      OBVIOUS
    <3> HIDE DEF f, g, h, d
    <3>2. ASSUME NEW i \in Slots PROVE d[i] \in Int /\ d[i] >= 0 /\ f[i] = g[i] + d[i]
      <4>1. g[i] = f[i] \/ g[i] = 0
        BY <2>3
      <4>2. d[i] = f[i] - g[i] /\ f[i] \in Int /\ g[i] \in Int /\ f[i] >= 0
        BY <2>1, <2>4, <3>1
      <4> QED
        BY <4>1, <4>2
    <3> QED
      BY <3>2
  <2>6. \A i \in some : h[i] \in Int /\ d[i] \in Int /\ h[i] <= d[i]
    <3>1. \A i \in Slots : d[i] = f[i] - g[i]
      OBVIOUS
    <3> HIDE DEF f, g, h, d
    <3>2. ASSUME NEW i \in some PROVE h[i] \in Int /\ d[i] \in Int /\ h[i] <= d[i]
      <4>1. i \in Slots /\ offers[i].user = task
        OBVIOUS
      <4>2. g[i] = 0 /\ f[i] >= h[i] /\ d[i] = f[i] - g[i] /\ f[i] \in Int /\ h[i] \in Int
        BY <2>1, <2>3, <2>4, <3>1, <4>1
      <4> QED
        BY <4>2
    <3> QED
      BY <3>2
  <2>7. SumFunctionOnSet(h, some) = sumOf(offers, some, m) /\ IsFiniteSet(some) /\ sumOf(offers, some, m) \in Int
    BY <1>1, SumOf
  <2> HIDE DEF f, g, h, d
  <2>8. SumFunctionOnSet(h, some) <= SumFunctionOnSet(d, some)
    BY <2>6, <2>7, SumMonotone
  <2>9. SumFunctionOnSet(d, some) <= SumFunctionOnSet(d, Slots)
    BY <2>5, SlotsFinite, SumPart
  <2>10. SumFunctionOnSet(f, Slots) = SumFunctionOnSet(g, Slots) + SumFunctionOnSet(d, Slots)
    BY <2>1, <2>5, SlotsFinite, SumOfBoth
  <2>11. SumFunctionOnSet(d, some) \in Int /\ SumFunctionOnSet(d, Slots) \in Int
    BY <2>5, <2>6, <2>7, SlotsFinite, SumType
  <2>12. bytes <= sumOf(offers, some, m)
    BY DEF m
  <2>13. inAll(c.offers, m) = SumFunctionOnSet(g, Slots) /\ inAll(offers, m) = SumFunctionOnSet(f, Slots)
    BY <1>5 DEF f, g
  <2>14. inAll(c.offers, m) <= inAll(offers, m) - bytes
    BY <1>5, <2>7, <2>8, <2>9, <2>10, <2>11, <2>12, <2>13
  <2> QED
    BY <1>4, <2>14 DEF c, consumer, m
<1> QED
  BY <1>3, <1>6, <1>7

(* All the consumers, one after the other. *)
Completing(old, task) ==
  {c \in [offers : AllOffers, consumed : [Resources -> Int]] :
     /\ TakesFrom(c.offers, old, task)
     /\ \A r \in Resources : inAll(c.offers, r) + c.consumed[r] <= inAll(old, r)}

(* What consumeAll() does for one of them. *)
applied(c, task, consumer) ==
  LET result == consume(c.offers, task, consumer)
      reported == IF consumer.resource = "timeslices" /\ result.disposed > 1
                  THEN 1 ELSE result.disposed
  IN  [offers |-> result.offers,
       consumed |-> [c.consumed EXCEPT ![consumer.resource] = @ + reported]]

LEMMA AppliedTakes ==
  ASSUME NEW old \in AllOffers, NEW task, NEW consumer \in Consumers,
         NEW c \in Completing(old, task)
  PROVE  applied(c, task, consumer) \in Completing(old, task)
<1> DEFINE result == consume(c.offers, task, consumer)
           r == consumer.resource
           reported == IF r = "timeslices" /\ result.disposed > 1 THEN 1 ELSE result.disposed
           sum == [c.consumed EXCEPT ![r] = @ + reported]
           v == applied(c, task, consumer)
<1>1. /\ c \in [offers : AllOffers, consumed : [Resources -> Int]]
      /\ TakesFrom(c.offers, old, task)
      /\ \A q \in Resources : inAll(c.offers, q) + c.consumed[q] <= inAll(old, q)
  BY DEF Completing
<1>2. c.offers \in AllOffers /\ c.consumed \in [Resources -> Int] /\ r \in Resources
  BY <1>1 DEF Consumers
<1>3. result \in Consuming(c.offers, task, r)
  BY <1>2, ConsumeTakes
<1>4. v = [offers |-> result.offers, consumed |-> sum]
  BY DEF applied
<1> HIDE DEF result
<1>5. /\ result.offers \in AllOffers /\ result.disposed \in Int
      /\ TakesFrom(result.offers, c.offers, task)
      /\ inAll(result.offers, r) + result.disposed <= inAll(c.offers, r)
      /\ \A q \in Resources : q # r => inAll(result.offers, q) = inAll(c.offers, q)
  BY <1>3 DEF Consuming
<1>6. reported \in Int /\ reported <= result.disposed
  BY <1>5
<1> HIDE DEF reported
<1>7. /\ sum \in [Resources -> Int] /\ sum[r] = c.consumed[r] + reported
      /\ \A q \in Resources : q # r => sum[q] = c.consumed[q]
  BY <1>2, <1>6
<1> HIDE DEF sum
<1>8. TakesFrom(result.offers, old, task)
  BY <1>1, <1>5, TakesFromBoth
<1>9. ASSUME NEW q \in Resources PROVE inAll(result.offers, q) + sum[q] <= inAll(old, q)
  <2>1. /\ inAll(result.offers, q) \in Int /\ inAll(c.offers, q) \in Int /\ inAll(old, q) \in Int
        /\ c.consumed[q] \in Int
    BY <1>2, <1>5, InAll
  <2>2. inAll(c.offers, q) + c.consumed[q] <= inAll(old, q)
    BY <1>1
  <2>3. CASE q = r
    BY <1>5, <1>6, <1>7, <2>1, <2>2, <2>3
  <2>4. CASE q # r
    BY <1>5, <1>7, <2>1, <2>2, <2>4
  <2> QED
    BY <2>3, <2>4
<1>10. v \in [offers : AllOffers, consumed : [Resources -> Int]] /\ v.offers = result.offers /\ v.consumed = sum
  BY <1>4, <1>5, <1>7
<1> HIDE DEF v
<1> QED
  BY <1>8, <1>9, <1>10 DEF Completing, v

ConsumersApply(g, offers, task) ==
  g = [n \in 0 .. Len(offerConsumers) |->
         IF n = 0 THEN [offers |-> offers, consumed |-> nothing]
         ELSE applied(g[n - 1], task, offerConsumers[n])]

(* The states consumeAll() goes through. *)
ConsumersPass(g, offers, task) ==
  /\ g[0] = [offers |-> offers, consumed |-> nothing]
  /\ \A n \in 0 .. Len(offerConsumers) : g[n] \in Completing(offers, task)
  /\ \A n \in 0 .. Len(offerConsumers) - 1 : g[n + 1] = applied(g[n], task, offerConsumers[n + 1])
  /\ consumeAll(offers, task) = g[Len(offerConsumers)]

LEMMA ConsumeAllSteps ==
  ASSUME NEW offers \in AllOffers, NEW task, offerConsumers \in Seq(Consumers)
  PROVE  \E g : ConsumersPass(g, offers, task)
<1> DEFINE N == Len(offerConsumers)
           C == Completing(offers, task)
           base == [offers |-> offers, consumed |-> nothing]
           G == [n \in 1 .. N |-> [c \in C |-> applied(c, task, offerConsumers[n])]]
           after == CHOOSE g : ConsumersApply(g, offers, task)
<1>1. N \in Nat /\ \A n \in 1 .. N : offerConsumers[n] \in Consumers
  OBVIOUS
<1>2. base \in C
  <2>1. TakesFrom(offers, offers, task)
    BY DEF TakesFrom
  <2>2. \A r \in Resources : inAll(offers, r) + nothing[r] <= inAll(offers, r)
    BY InAll DEF nothing
  <2>3. nothing \in [Resources -> Int]
    BY DEF nothing
  <2> QED
    BY <2>1, <2>2, <2>3 DEF Completing
<1>4. \A c \in C, n \in 1 .. N : applied(c, task, offerConsumers[n]) \in C
  BY <1>1, AppliedTakes
<1>5. G \in [1 .. N -> [C -> C]]
  BY <1>4
<1>6. \A c \in C, n \in 1 .. N : G[n][c] = applied(c, task, offerConsumers[n])
  OBVIOUS
<1> HIDE DEF G, C, base, N
<1>7. PICK f : Iterates(f, N, C, base, G)
  BY <1>1, <1>2, <1>5, Recursion
<1>8. ConsumersApply(f, offers, task)
  <2>1. \A n \in 1 .. N : n - 1 \in 0 .. N
    BY <1>1
  <2>2. \A n \in 1 .. N : f[n - 1] \in C
    BY <1>7, <2>1 DEF Iterates
  <2>3. \A n \in 1 .. N : f[n] = applied(f[n - 1], task, offerConsumers[n])
    BY <1>6, <1>7, <2>2 DEF Iterates
  <2>4. \A n \in 0 .. N : f[n] = IF n = 0 THEN base ELSE applied(f[n - 1], task, offerConsumers[n])
    BY <1>1, <1>7, <2>3 DEF Iterates
  <2> QED
    BY <1>7, <2>4 DEF ConsumersApply, Iterates, base, N
<1>9. ConsumersApply(after, offers, task)
  BY <1>8
<1>10. consumeAll(offers, task) = after[N]
  BY DEF consumeAll, ConsumersApply, applied, N
<1> HIDE DEF after
<1>11. after = [n \in 0 .. N |-> IF n = 0 THEN base ELSE applied(after[n - 1], task, offerConsumers[n])]
  BY <1>9 DEF ConsumersApply, base, N
<1>12. \A n \in 0 .. N : after[n] = IF n = 0 THEN base ELSE applied(after[n - 1], task, offerConsumers[n])
  BY <1>11
<1> DEFINE W == {n \in 0 .. N : after[n] \in C}
<1>13. 0 \in W
  BY <1>1, <1>2, <1>12
<1>14. ASSUME NEW n \in 0 .. N - 1, n \in W PROVE n + 1 \in W
  <2>1. n + 1 \in 1 .. N /\ n + 1 \in 0 .. N /\ (n + 1) - 1 = n /\ n + 1 # 0
    BY <1>1
  <2>2. after[n + 1] = applied(after[n], task, offerConsumers[n + 1])
    BY <1>12, <2>1
  <2> QED
    BY <1>4, <1>14, <2>1, <2>2
<1>15. 0 .. N \subseteq W
  <2> HIDE DEF W
  <2> QED
    BY <1>1, <1>13, <1>14, IntervalInduct
<1>16. \A n \in 0 .. N - 1 : after[n + 1] = applied(after[n], task, offerConsumers[n + 1])
  <2> SUFFICES ASSUME NEW n \in 0 .. N - 1
               PROVE  after[n + 1] = applied(after[n], task, offerConsumers[n + 1])
    OBVIOUS
  <2>1. n + 1 \in 0 .. N /\ (n + 1) - 1 = n /\ n + 1 # 0
    BY <1>1
  <2> QED
    BY <1>12, <2>1
<1>17. after[0] = base
  BY <1>1, <1>12
<1>18. ConsumersPass(after, offers, task)
  BY <1>1, <1>10, <1>15, <1>16, <1>17 DEF C, N, base, ConsumersPass
<1> QED
  BY <1>18

LEMMA ConsumeAllTakes ==
  ASSUME NEW offers \in AllOffers, NEW task, offerConsumers \in Seq(Consumers)
  PROVE  consumeAll(offers, task) \in Completing(offers, task)
<1>1. PICK g : ConsumersPass(g, offers, task)
  BY ConsumeAllSteps
<1>2. Len(offerConsumers) \in 0 .. Len(offerConsumers)
  OBVIOUS
<1> QED
  BY <1>1, <1>2 DEF ConsumersPass
-------------------------------------------------------------------------------
(***************************************************************************)
(* selectOffer(): what it selects is usable and not expired, and adds up   *)
(* to what it says; what it finds expired is.                              *)
(***************************************************************************)
Selections == [sharedMemory : Int, timeslices : Int, selected : SUBSET Slots,
               expired : SUBSET Slots, enough : BOOLEAN]

Selects(r, offers, task) ==
  /\ r \in Selections
  /\ \A i \in r.selected : usable(offers[i], task) /\ ~ isExpired(offers[i])
  /\ \A i \in r.expired : usable(offers[i], task) /\ isExpired(offers[i])
  /\ r.sharedMemory = sumOf(offers, r.selected, "sharedMemory")
  /\ r.timeslices = sumOf(offers, r.selected, "timeslices")
  /\ r.enough => r.sharedMemory >= requestedSharedMemory /\ r.timeslices >= requestedTimeslices

(* The visit of selection() to a slot. *)
looked(r, i, offers, task) ==
  LET offer == offers[i]
      s == score(offer, r)
  IN  IF r.enough \/ ~ usable(offer, task) THEN r
      ELSE IF isExpired(offer) THEN [r EXCEPT !.expired = @ \cup {i}]
      ELSE IF s = "Unneeded" THEN r
      ELSE [r EXCEPT !.sharedMemory = @ + offer.sharedMemory,
                     !.timeslices = @ + offer.timeslices,
                     !.selected = @ \cup {i},
                     !.enough = s = "Enough"]

LEMMA SumOfMore ==
  ASSUME NEW offers \in AllOffers, NEW some, some \subseteq Slots, NEW e \in Slots, e \notin some,
         NEW r \in Resources
  PROVE  sumOf(offers, some \cup {e}, r) = sumOf(offers, some, r) + offers[e][r]
<1> DEFINE f == [i \in Slots |-> offers[i][r]]
<1>1. \A i \in Slots : f[i] \in Int /\ f[i] = offers[i][r]
  BY InAll
<1>2. some \cup {e} \subseteq Slots
  OBVIOUS
<1>3. /\ sumOf(offers, some, r) = SumFunctionOnSet(f, some)
      /\ sumOf(offers, some \cup {e}, r) = SumFunctionOnSet(f, some \cup {e})
      /\ IsFiniteSet(some)
  BY <1>2, SumOf
<1> HIDE DEF f
<1>4. SumFunctionOnSet(f, some \cup {e}) = SumFunctionOnSet(f, some) + f[e]
  BY ZenonT(60), <1>1, <1>2, <1>3, SumWith
<1> QED
  BY <1>1, <1>3, <1>4

LEMMA LookType ==
  ASSUME NEW offers \in AllOffers, NEW task, NEW i \in Slots, NEW r \in Selections
  PROVE  looked(r, i, offers, task) \in Selections
<1>1. offers[i] \in Offer /\ offers[i].sharedMemory \in Int /\ offers[i].timeslices \in Int
  BY DEF AllOffers, Offer
<1>2. /\ r.sharedMemory \in Int /\ r.timeslices \in Int /\ r.selected \subseteq Slots
      /\ r.expired \subseteq Slots /\ r.enough \in BOOLEAN
  BY DEF Selections
<1>3. [r EXCEPT !.expired = @ \cup {i}] \in Selections
  BY DEF Selections
<1>4. [r EXCEPT !.sharedMemory = @ + offers[i].sharedMemory,
                !.timeslices = @ + offers[i].timeslices,
                !.selected = @ \cup {i},
                !.enough = score(offers[i], r) = "Enough"] \in Selections
  <2> DEFINE a == offers[i].sharedMemory
             b == offers[i].timeslices
             e == score(offers[i], r) = "Enough"
  <2>1. r.sharedMemory + a \in Int /\ r.timeslices + b \in Int /\ e \in BOOLEAN /\ r.selected \cup {i} \subseteq Slots
    BY <1>1, <1>2
  <2> HIDE DEF a, b, e
  <2>2. [r EXCEPT !.sharedMemory = @ + a, !.timeslices = @ + b,
                  !.selected = @ \cup {i}, !.enough = e] \in Selections
    BY <2>1 DEF Selections
  <2> QED
    BY <2>2 DEF a, b, e
<1> QED
  BY <1>3, <1>4 DEF looked

LEMMA LookSelects ==
  ASSUME NEW offers \in AllOffers, NEW task, NEW i \in Slots, NEW r, Selects(r, offers, task),
         i \notin r.selected
  PROVE  /\ Selects(looked(r, i, offers, task), offers, task)
         /\ looked(r, i, offers, task).selected \subseteq r.selected \cup {i}
<1> DEFINE offer == offers[i]
           s == score(offer, r)
           v == looked(r, i, offers, task)
<1>1. /\ r \in Selections /\ v \in Selections
      /\ r.sharedMemory \in Int /\ r.timeslices \in Int /\ r.selected \subseteq Slots
      /\ r.expired \subseteq Slots /\ r.enough \in BOOLEAN
  BY LookType DEF Selections, Selects
<1>2. CASE r.enough \/ ~ usable(offer, task) \/ (~ isExpired(offer) /\ s = "Unneeded")
  BY <1>2 DEF looked
<1>3. CASE ~ (r.enough \/ ~ usable(offer, task)) /\ isExpired(offer)
  <2>1. v = [r EXCEPT !.expired = @ \cup {i}]
    BY <1>3 DEF looked
  <2>2. /\ v.sharedMemory = r.sharedMemory /\ v.timeslices = r.timeslices
        /\ v.selected = r.selected /\ v.expired = r.expired \cup {i} /\ v.enough = r.enough
    BY <1>1, <2>1 DEF Selections
  <2> HIDE DEF v
  <2> QED
    BY <1>1, <1>3, <2>2 DEF Selects, v
<1>4. CASE ~ (r.enough \/ ~ usable(offer, task)) /\ ~ isExpired(offer) /\ s # "Unneeded"
  <2>1. v = [r EXCEPT !.sharedMemory = @ + offer.sharedMemory,
                      !.timeslices = @ + offer.timeslices,
                      !.selected = @ \cup {i},
                      !.enough = s = "Enough"]
    BY <1>4 DEF looked
  <2>2. /\ v.sharedMemory = r.sharedMemory + offer.sharedMemory
        /\ v.timeslices = r.timeslices + offer.timeslices
        /\ v.selected = r.selected \cup {i} /\ v.expired = r.expired /\ v.enough = (s = "Enough")
    <3> HIDE DEF s, offer
    <3> QED
      BY <1>1, <2>1 DEF Selections
  <2>3. s = "Enough" => /\ r.sharedMemory + offer.sharedMemory >= requestedSharedMemory
                        /\ r.timeslices + offer.timeslices >= requestedTimeslices
    BY <1>4 DEF score
  <2>4. /\ sumOf(offers, r.selected \cup {i}, "sharedMemory") = sumOf(offers, r.selected, "sharedMemory") + offer.sharedMemory
        /\ sumOf(offers, r.selected \cup {i}, "timeslices") = sumOf(offers, r.selected, "timeslices") + offer.timeslices
    <3>1. "sharedMemory" \in Resources /\ "timeslices" \in Resources
      BY DEF Resources
    <3>2. \A q \in Resources : sumOf(offers, r.selected \cup {i}, q) = sumOf(offers, r.selected, q) + offers[i][q]
      BY ZenonT(60), <1>1, SumOfMore
    <3> QED
      BY <3>1, <3>2
  <2> HIDE DEF v, s
  <2> QED
    BY <1>1, <1>4, <2>2, <2>3, <2>4 DEF Selects, v
<1> QED
  BY <1>2, <1>3, <1>4

Looks(g, offers, task) ==
  g = [n \in 0 .. NumOffers |->
         IF n = 0 THEN [sharedMemory |-> 0, timeslices |-> 0, selected |-> {},
                        expired |-> {}, enough |-> FALSE]
         ELSE looked(g[n - 1], n - 1, offers, task)]

LEMMA Selection ==
  ASSUME NEW offers \in AllOffers, NEW task
  PROVE  Selects(selection(offers, task), offers, task)
<1> DEFINE N == NumOffers
           base == [sharedMemory |-> 0, timeslices |-> 0, selected |-> {},
                    expired |-> {}, enough |-> FALSE]
           G == [n \in 1 .. N |-> [r \in Selections |-> looked(r, n - 1, offers, task)]]
           after == CHOOSE g : Looks(g, offers, task)
<1>1. N \in Nat /\ \A n \in 1 .. N : n - 1 \in Slots
  BY SlotsFinite DEF Slots
<1>2. base \in Selections /\ Selects(base, offers, task) /\ base.selected = {}
  <2>1. \A q : sumOf(offers, {}, q) = 0
    BY SumOfNone DEF sumOf
  <2> QED
    BY <2>1 DEF Selects, Selections
<1>4. \A r \in Selections, n \in 1 .. N : looked(r, n - 1, offers, task) \in Selections
  BY <1>1, LookType
<1>5. G \in [1 .. N -> [Selections -> Selections]]
  BY <1>4
<1>6. \A r \in Selections, n \in 1 .. N : G[n][r] = looked(r, n - 1, offers, task)
  OBVIOUS
<1> HIDE DEF G, base, N
<1>7. PICK f : Iterates(f, N, Selections, base, G)
  BY <1>1, <1>2, <1>5, Recursion
<1>8. Looks(f, offers, task)
  <2>1. \A n \in 1 .. N : n - 1 \in 0 .. N
    BY <1>1
  <2>2. \A n \in 1 .. N : f[n - 1] \in Selections
    BY <1>7, <2>1 DEF Iterates
  <2>3. \A n \in 1 .. N : f[n] = looked(f[n - 1], n - 1, offers, task)
    BY <1>6, <1>7, <2>2 DEF Iterates
  <2>4. \A n \in 0 .. N : f[n] = IF n = 0 THEN base ELSE looked(f[n - 1], n - 1, offers, task)
    BY <1>1, <1>7, <2>3 DEF Iterates
  <2> QED
    BY <1>7, <2>4 DEF Looks, Iterates, base, N
<1>9. Looks(after, offers, task)
  BY <1>8
<1>10. selection(offers, task) = after[N]
  BY DEF selection, Looks, looked, N
<1> HIDE DEF after
<1>11. after = [n \in 0 .. N |-> IF n = 0 THEN base ELSE looked(after[n - 1], n - 1, offers, task)]
  BY <1>9 DEF Looks, base, N
<1>12. \A n \in 0 .. N : after[n] = IF n = 0 THEN base ELSE looked(after[n - 1], n - 1, offers, task)
  BY <1>11
<1> DEFINE W == {n \in 0 .. N : Selects(after[n], offers, task) /\ \A i \in after[n].selected : i < n}
<1>13. 0 \in W
  BY <1>1, <1>2, <1>12
<1>14. ASSUME NEW n \in 0 .. N - 1, n \in W PROVE n + 1 \in W
  <2>1. n + 1 \in 1 .. N /\ n + 1 \in 0 .. N /\ (n + 1) - 1 = n /\ n + 1 # 0 /\ n \in Slots
    BY <1>1 DEF N, Slots
  <2>2. after[n + 1] = looked(after[n], n, offers, task)
    BY <1>12, <2>1
  <2>3. Selects(after[n], offers, task) /\ n \notin after[n].selected /\ after[n].selected \subseteq Int
    BY <1>14, SlotsFinite DEF Selects, Selections, Slots
  <2>4. Selects(after[n + 1], offers, task) /\ after[n + 1].selected \subseteq after[n].selected \cup {n}
    BY <2>1, <2>2, <2>3, LookSelects
  <2>5. \A i \in after[n + 1].selected : i < n + 1
    BY <1>14, <2>3, <2>4
  <2> QED
    BY <2>1, <2>4, <2>5
<1>15. 0 .. N \subseteq W
  <2> HIDE DEF W
  <2> QED
    BY <1>1, <1>13, <1>14, IntervalInduct
<1> QED
  BY <1>1, <1>10, <1>15
-------------------------------------------------------------------------------
(***************************************************************************)
(* The other operations on the offers.                                     *)
(***************************************************************************)
(* Only the user and the validity differ. *)
HoldsTheSame(new, old) ==
  \A i \in Slots :
    /\ \A r \in Resources : new[i][r] = old[i][r]
    /\ new[i].age = old[i].age /\ new[i].runtime = old[i].runtime

LEMMA SelectOffers ==
  ASSUME NEW offers \in AllOffers, NEW s \in Streams, NEW selected
  PROVE  LET new == select(offers, s, selected) IN
         /\ new \in AllOffers /\ HoldsTheSame(new, offers)
         /\ \A i \in Slots : /\ new[i].valid = offers[i].valid
                             /\ new[i].user = IF i \in selected THEN s ELSE offers[i].user
                             /\ i \notin selected => new[i] = offers[i]
<1> DEFINE new == select(offers, s, selected)
<1> SUFFICES ASSUME NEW i \in Slots
             PROVE  /\ new[i] \in Offer
                    /\ \A r \in Resources : new[i][r] = offers[i][r]
                    /\ new[i].age = offers[i].age /\ new[i].runtime = offers[i].runtime
                    /\ new[i].valid = offers[i].valid
                    /\ new[i].user = IF i \in selected THEN s ELSE offers[i].user
                    /\ i \notin selected => new[i] = offers[i]
  BY DEF HoldsTheSame, AllOffers, select
<1>1. offers[i] \in Offer /\ s \in Streams \cup {Nobody}
  BY DEF AllOffers
<1>2. new[i] = IF i \in selected THEN [offers[i] EXCEPT !.user = s] ELSE offers[i]
  BY DEF select
<1> HIDE DEF new
<1> QED
  BY <1>1, <1>2 DEF Offer, Resources

LEMMA DisposeOffers ==
  ASSUME NEW offers \in AllOffers, NEW s \in Streams
  PROVE  LET new == dispose(offers, s) IN
         /\ new \in AllOffers /\ HoldsTheSame(new, offers)
         /\ \A i \in Slots : /\ new[i].valid => offers[i].valid
                             /\ new[i].user \in {offers[i].user, Nobody}
                             /\ offers[i].user # s => new[i] = offers[i]
<1> DEFINE new == dispose(offers, s)
           one(i) == [offers[i] EXCEPT !.user = Nobody, !.valid = @ /\ offers[i].sharedMemory > 0]
           first == [offers[0] EXCEPT !.user = Nobody]
<1>1. /\ 0 \in Slots /\ \A i \in Slots : offers[i] \in Offer
      /\ Nobody \in Streams \cup {Nobody}
  BY SlotsFinite DEF AllOffers
<1>2. CASE offers[0].user = s
  <2>1. new = [offers EXCEPT ![0] = first]
    BY <1>2 DEF dispose, AllOffers
  <2>2. /\ first \in Offer /\ first.valid = offers[0].valid /\ first.user = Nobody
        /\ first.age = offers[0].age /\ first.runtime = offers[0].runtime
        /\ \A r \in Resources : first[r] = offers[0][r]
    BY <1>1 DEF Offer, Resources
  <2> HIDE DEF first
  <2>3. /\ new \in AllOffers /\ new[0] = first
        /\ \A i \in Slots \ {0} : new[i] = offers[i]
    BY <1>1, <2>1, <2>2 DEF AllOffers
  <2> HIDE DEF new
  <2>4. HoldsTheSame(new, offers)
    BY <2>2, <2>3 DEF HoldsTheSame
  <2> QED
    BY <1>2, <2>2, <2>3, <2>4 DEF new
<1>3. CASE offers[0].user # s
  <2>1. new = [i \in Slots |-> IF offers[i].user = s THEN one(i) ELSE offers[i]]
    BY <1>3 DEF dispose
  <2>2. ASSUME NEW i \in Slots
        PROVE  /\ one(i) \in Offer /\ (one(i).valid => offers[i].valid) /\ one(i).user = Nobody
               /\ one(i).age = offers[i].age /\ one(i).runtime = offers[i].runtime
               /\ \A r \in Resources : one(i)[r] = offers[i][r]
    BY <1>1 DEF Offer, Resources
  <2> HIDE DEF one
  <2>3. \A i \in Slots : new[i] = IF offers[i].user = s THEN one(i) ELSE offers[i]
    BY <2>1
  <2>4. new \in AllOffers
    BY <1>1, <2>1, <2>2 DEF AllOffers
  <2>5. HoldsTheSame(new, offers)
    <3> HIDE DEF new
    <3> QED
      BY <2>2, <2>3 DEF HoldsTheSame
  <2>6. ASSUME NEW i \in Slots
        PROVE  /\ new[i].valid => offers[i].valid
               /\ new[i].user \in {offers[i].user, Nobody}
               /\ offers[i].user # s => new[i] = offers[i]
    <3> HIDE DEF new
    <3> QED
      BY <2>2, <2>3
  <2> QED
    BY <2>4, <2>5, <2>6
<1> QED
  BY <1>2, <1>3

LEMMA HoldsTheSameInAll ==
  ASSUME NEW new \in AllOffers, NEW old \in AllOffers, HoldsTheSame(new, old)
  PROVE  /\ \A r \in Resources : inAll(new, r) = inAll(old, r)
         /\ \A i \in Slots : /\ isExpired(new[i]) <=> isExpired(old[i])
                             /\ new[i].sharedMemory = old[i].sharedMemory
                             /\ new[i].timeslices = old[i].timeslices
<1>1. \A r \in Resources : inAll(new, r) = inAll(old, r)
  BY InAllSame DEF HoldsTheSame
<1>2. "sharedMemory" \in Resources /\ "timeslices" \in Resources
  BY DEF Resources
<1> QED
  BY <1>1, <1>2 DEF HoldsTheSame, isExpired

(* handleExpired(): what it takes from the offers is what it reports. *)
LEMMA ExpireOffers ==
  ASSUME NEW offers \in AllOffers, NEW E, E \subseteq Slots
  PROVE  LET new == handleExpired(offers, E) IN
         /\ new \in AllOffers
         /\ \A i \in Slots \ E : new[i] = offers[i]
         /\ \A i \in E : /\ ~ new[i].valid /\ new[i].user = offers[i].user
                         /\ new[i].age = offers[i].age /\ new[i].runtime = offers[i].runtime
         /\ \A r \in Resources : /\ expiredAmount(offers, E)[r] \in Nat
                                /\ inAll(new, r) + expiredAmount(offers, E)[r] = inAll(offers, r)
<1> DEFINE new == handleExpired(offers, E)
           one(i) == [offers[i] EXCEPT
                        !.sharedMemory = IF @ < 0 /\ offers[i].timeslices < 0 THEN @ ELSE -1,
                        !.timeslices = IF @ < 0 /\ offers[i].sharedMemory < 0 THEN @ ELSE -1,
                        !.valid = FALSE]
<1>1. \A i \in Slots : offers[i] \in Offer
  BY DEF AllOffers
<1>2. new = [i \in Slots |-> IF i \notin E THEN offers[i] ELSE one(i)]
  BY DEF handleExpired
<1>3. ASSUME NEW i \in Slots
      PROVE  /\ one(i) \in Offer /\ ~ one(i).valid /\ one(i).user = offers[i].user
             /\ one(i).age = offers[i].age /\ one(i).runtime = offers[i].runtime
             /\ \A r \in Resources : one(i)[r] < 0
  <2> DEFINE o == offers[i]
             a == IF o.sharedMemory < 0 /\ o.timeslices < 0 THEN o.sharedMemory ELSE -1
             b == IF o.timeslices < 0 /\ o.sharedMemory < 0 THEN o.timeslices ELSE -1
  <2>1. o \in Offer /\ o.sharedMemory \in Int /\ o.timeslices \in Int
    BY <1>1 DEF Offer
  <2>2. a \in Int /\ b \in Int /\ a < 0 /\ b < 0
    BY <2>1
  <2>3. one(i) = [o EXCEPT !.sharedMemory = a, !.timeslices = b, !.valid = FALSE]
    OBVIOUS
  <2> HIDE DEF o, a, b, one
  <2>4. /\ one(i) \in Offer /\ ~ one(i).valid /\ one(i).user = o.user
        /\ one(i).age = o.age /\ one(i).runtime = o.runtime
        /\ one(i).sharedMemory = a /\ one(i).timeslices = b
    BY <2>1, <2>2, <2>3 DEF Offer
  <2> QED
    BY <2>2, <2>4 DEF Resources, o
<1> HIDE DEF one
<1>4. \A i \in Slots : new[i] = IF i \notin E THEN offers[i] ELSE one(i)
  BY <1>2
<1>5. new \in AllOffers
  BY <1>1, <1>2, <1>3 DEF AllOffers
<1> HIDE DEF new
<1>6. ASSUME NEW r \in Resources
      PROVE  /\ expiredAmount(offers, E)[r] \in Nat
             /\ inAll(new, r) + expiredAmount(offers, E)[r] = inAll(offers, r)
  <2> DEFINE f == amounts(offers, r)
             h == amounts(new, r)
             p == [i \in E |-> positive(offers[i][r])]
             R == Slots \ E
  <2>1. /\ IsFiniteSet(E) /\ IsFiniteSet(R) /\ E \cup R = Slots /\ E \cap R = {} /\ R \subseteq Slots
    BY SlotsFinite, FS_Subset
  <2>2. \A i \in Slots : f[i] \in Int /\ h[i] \in Int
    BY <1>5, InAll
  <2>3. \A i \in E : p[i] = f[i] /\ h[i] = 0
    <3>1. \A i \in E : new[i][r] \in Int /\ new[i][r] < 0
      BY <1>3, <1>4, <1>5, InAll
    <3> QED
      BY <3>1, Positive DEF amounts
  <2>4. \A i \in R : h[i] = f[i]
    BY <1>4 DEF amounts
  <2>5. expiredAmount(offers, E)[r] = SumFunctionOnSet(p, E)
    BY DEF expiredAmount
  <2>6. inAll(new, r) = SumFunctionOnSet(h, Slots) /\ inAll(offers, r) = SumFunctionOnSet(f, Slots)
    BY <1>5, InAll
  <2>7. SumFunctionOnSet(h, E \cup R) = SumFunctionOnSet(h, Slots) /\ SumFunctionOnSet(f, E \cup R) = SumFunctionOnSet(f, Slots)
    BY <2>1
  <2> HIDE DEF f, h, p, R
  <2>8. SumFunctionOnSet(p, E) = SumFunctionOnSet(f, E)
    BY <2>1, <2>2, <2>3, SumSame
  <2>9. SumFunctionOnSet(h, E) = 0
    BY <2>1, <2>3, SumOfZeros
  <2>10. SumFunctionOnSet(h, R) = SumFunctionOnSet(f, R)
    BY <2>1, <2>2, <2>4, SumSame
  <2>11. /\ SumFunctionOnSet(h, E \cup R) = SumFunctionOnSet(h, E) + SumFunctionOnSet(h, R)
         /\ SumFunctionOnSet(f, E \cup R) = SumFunctionOnSet(f, E) + SumFunctionOnSet(f, R)
    BY <2>1, <2>2, SumUnion
  <2>12. SumFunctionOnSet(f, E) \in Int /\ SumFunctionOnSet(f, R) \in Int
    BY <2>1, <2>2, SumType
  <2>13. SumFunctionOnSet(f, E) >= 0
    <3>1. \A i \in E : f[i] \in Int /\ h[i] \in Int /\ h[i] <= f[i]
      <4>1. \A i \in Slots : f[i] \in Nat
        BY InAll DEF f
      <4> QED
        BY <2>1, <2>2, <2>3, <4>1
    <3>2. SumFunctionOnSet(h, E) <= SumFunctionOnSet(f, E)
      BY <2>1, <3>1, SumMonotone
    <3> QED
      BY <2>9, <2>12, <3>2
  <2> QED
    BY <2>5, <2>6, <2>7, <2>8, <2>9, <2>10, <2>11, <2>12, <2>13
<1> QED
  BY <1>3, <1>4, <1>5, <1>6 DEF new

(***************************************************************************)
(* updateOffers(): every pending offer goes into one slot.                 *)
(***************************************************************************)
LEMMA Rank ==
  ASSUME NEW U, U \subseteq Slots, NEW i \in U
  PROVE  /\ Cardinality(U) \in Nat
         /\ Cardinality({j \in U : j <= i}) \in 1 .. Cardinality(U)
<1> DEFINE T == {j \in U : j <= i}
<1>1. IsFiniteSet(U) /\ IsFiniteSet(T) /\ Cardinality(T) <= Cardinality(U)
  BY SlotsFinite, FS_Subset
<1>2. Cardinality(U) \in Nat /\ Cardinality(T) \in Nat
  BY <1>1, FS_CardinalityType
<1>3. i \in T
  BY SlotsFinite DEF Slots
<1>4. Cardinality(T) # 0
  BY <1>1, <1>3, FS_EmptySet
<1> HIDE DEF T
<1>5. Cardinality(T) \in 1 .. Cardinality(U)
  BY <1>1, <1>2, <1>4
<1> QED
  BY <1>2, <1>5 DEF T

LEMMA RankDiffers ==
  ASSUME NEW U, U \subseteq Slots, NEW i \in U, NEW k \in U, i < k
  PROVE  Cardinality({j \in U : j <= i}) # Cardinality({j \in U : j <= k})
<1> DEFINE T == {j \in U : j <= i}
           V == {j \in U : j <= k}
<1>1. U \subseteq Int
  BY SlotsFinite DEF Slots
<1>2. T \subseteq V /\ k \in V /\ k \notin T
  <2>1. i \in Int /\ k \in Int /\ \A j \in U : j \in Int
    BY <1>1
  <2>2. \A j \in U : j <= i => j <= k
    BY <2>1
  <2>3. k <= k /\ ~ (k <= i)
    BY <2>1
  <2> QED
    BY <2>2, <2>3
<1>3. IsFiniteSet(V)
  BY SlotsFinite, FS_Subset
<1> HIDE DEF T, V
<1>4. Cardinality(T) # Cardinality(V)
  BY <1>2, <1>3, FS_Subset
<1> QED
  BY <1>4 DEF T, V

(* What is pending, or some of it. *)
LEMMA Pending ==
  ASSUME NEW pending \in Seq(Fresh), NEW r \in Resources
  PROVE  LET L == Len(pending)
             P == [k \in 1 .. L |-> pending[k][r]] IN
         /\ L \in Nat /\ IsFiniteSet(1 .. L)
         /\ \A k \in 1 .. L : pending[k] \in Fresh /\ P[k] \in Nat
         /\ \A some \in SUBSET (1 .. L) :
              /\ IsFiniteSet(some)
              /\ sumOf(pending, some, r) = SumFunctionOnSet(P, some)
              /\ sumOf(pending, some, r) \in Nat
<1> DEFINE L == Len(pending)
           P == [k \in 1 .. L |-> pending[k][r]]
<1>1. L \in Nat /\ \A k \in 1 .. L : pending[k] \in Fresh
  OBVIOUS
<1>2. \A offer \in Fresh : offer[r] \in Nat
  BY DEF Fresh, Offer, Resources
<1>3. \A k \in 1 .. L : P[k] \in Nat
  BY <1>1, <1>2
<1>4. IsFiniteSet(1 .. L)
  BY <1>1, FS_Interval
<1>5. ASSUME NEW some \in SUBSET (1 .. L)
      PROVE  /\ IsFiniteSet(some)
             /\ sumOf(pending, some, r) = SumFunctionOnSet(P, some)
             /\ sumOf(pending, some, r) \in Nat
  <2> DEFINE f == [k \in some |-> pending[k][r]]
  <2>1. IsFiniteSet(some)
    BY <1>4, FS_Subset
  <2>2. \A k \in some : f[k] \in Int /\ f[k] = P[k]
    BY <1>3
  <2>3. SumFunctionOnSet(f, some) = SumFunctionOnSet(P, some)
    BY <2>1, <2>2, SumSame
  <2>7. \A k \in some : P[k] \in Int /\ P[k] >= 0
    BY <1>3
  <2>4. SumFunctionOnSet(P, {}) <= SumFunctionOnSet(P, some)
    <3> HIDE DEF P
    <3> QED
      BY <2>1, <2>7, SumPart
  <2>5. SumFunctionOnSet(P, {}) = 0
    BY SumOfNone
  <2>6. SumFunctionOnSet(P, some) \in Int
    <3> HIDE DEF P
    <3> QED
      BY <2>1, <2>7, SumType
  <2> HIDE DEF P
  <2> QED
    BY <2>1, <2>3, <2>4, <2>5, <2>6 DEF sumOf
<1> QED
  BY <1>1, <1>3, <1>4, <1>5

(* An offer to which others were added. *)
LEMMA AddedTo ==
  ASSUME NEW offer \in Offer, NEW extra, \A r \in Resources : extra[r] \in Nat
  PROVE  LET new == addTo(offer, extra) IN
         /\ new \in Offer /\ \A r \in Resources : new[r] = offer[r] + extra[r]
         /\ new.user = offer.user /\ new.valid = offer.valid /\ new.age = offer.age
         /\ new.runtime = IF offer.runtime < Runtime THEN Runtime ELSE offer.runtime
<1>1. /\ offer.sharedMemory \in Int /\ offer.timeslices \in Int /\ offer.runtime \in Int
      /\ extra.sharedMemory \in Nat /\ extra.timeslices \in Nat /\ Runtime \in Int
  BY QuotaAssumption DEF Offer, Resources
<1> DEFINE a == offer.sharedMemory + extra.sharedMemory
           b == offer.timeslices + extra.timeslices
           t == IF offer.runtime < Runtime THEN Runtime ELSE offer.runtime
<1>2. a \in Int /\ b \in Int /\ t \in Int
  BY <1>1
<1>3. addTo(offer, extra) = [offer EXCEPT !.sharedMemory = a, !.timeslices = b, !.runtime = t]
  BY DEF addTo
<1> HIDE DEF a, b, t
<1>4. LET new == addTo(offer, extra) IN
      /\ new \in Offer /\ new.sharedMemory = a /\ new.timeslices = b
      /\ new.user = offer.user /\ new.valid = offer.valid /\ new.age = offer.age
      /\ new.runtime = t
  BY <1>2, <1>3 DEF Offer
<1> QED
  BY <1>4 DEF Resources, a, b, t

LEMMA UpdateOffers ==
  ASSUME NEW offers \in AllOffers, NEW pending \in Seq(Fresh)
  PROVE  LET new == updateOffers(offers, pending) IN
         /\ new \in AllOffers
         /\ \A i \in Slots : ~ offers[i].valid => new[i] = offers[i] \/ new[i] \in Fresh
         /\ \A i \in Slots : offers[i].valid =>
              /\ new[i].valid /\ new[i].user = offers[i].user /\ new[i].age = offers[i].age
              /\ \/ new[i].runtime = offers[i].runtime
                 \/ offers[i].runtime < Runtime /\ new[i].runtime = Runtime
              /\ \A r \in Resources : offers[i][r] <= new[i][r]
         /\ \A r \in Resources :
              /\ inAll(new, r) <= inAll(offers, r) + sumOf(pending, 1 .. Len(pending), r)
              /\ \/ \E i \in Slots : offers[i].valid
                 \/ inAll(new, r) + sumOf(pending, 1 .. Len(pending) - NumOffers, r)
                      <= inAll(offers, r) + sumOf(pending, 1 .. Len(pending), r)
<1> DEFINE new == updateOffers(offers, pending)
           valid == {i \in Slots : offers[i].valid}
           U == Slots \ valid
           rank(i) == Cardinality({j \in U : j <= i})
           L == Len(pending)
           left == 1 .. L - Cardinality(U)
           extra == [r \in Resources |-> sumOf(pending, left, r)]
           last(i) == left # {} /\ i = Max(valid)
<1>1. new = [i \in Slots |->
               IF i \notin valid
               THEN IF rank(i) <= L THEN pending[L + 1 - rank(i)] ELSE offers[i]
               ELSE IF last(i) THEN addTo(offers[i], extra) ELSE offers[i]]
  BY DEF updateOffers
<1>2. \A i \in Slots : new[i] = IF i \notin valid
                               THEN IF rank(i) <= L THEN pending[L + 1 - rank(i)] ELSE offers[i]
                               ELSE IF last(i) THEN addTo(offers[i], extra) ELSE offers[i]
  BY <1>1
<1>3. /\ L \in Nat /\ U \subseteq Slots /\ valid \subseteq Slots /\ IsFiniteSet(U) /\ Cardinality(U) \in Nat
      /\ \A i \in Slots : offers[i] \in Offer /\ (i \in U <=> i \notin valid) /\ (i \in valid <=> offers[i].valid)
  BY SlotsFinite, FS_Subset, FS_CardinalityType DEF AllOffers
<1>4. left \subseteq 1 .. L
  <2> HIDE DEF L, U
  <2>1. L - Cardinality(U) <= L /\ L \in Int /\ L - Cardinality(U) \in Int
    BY <1>3
  <2> QED
    BY <2>1
<1>5. \A i \in U : rank(i) \in 1 .. Cardinality(U)
  BY <1>3, Rank
<1>6. \A i, k \in U : rank(i) = rank(k) => i = k
  <2> SUFFICES ASSUME NEW i \in U, NEW k \in U, i # k PROVE rank(i) # rank(k)
    OBVIOUS
  <2>1. i \in Int /\ k \in Int
    BY <1>3, SlotsFinite DEF Slots
  <2>2. CASE i < k
    BY ZenonT(60), <1>3, <2>2, RankDiffers
  <2>3. CASE k < i
    BY ZenonT(60), <1>3, <2>3, RankDiffers
  <2> HIDE DEF rank
  <2> QED
    BY <2>1, <2>2, <2>3
<1>7. \A r \in Resources : extra[r] \in Nat /\ extra[r] = sumOf(pending, left, r)
  BY <1>4, Pending
<1>16. valid = {} => left = 1 .. L - NumOffers
  <2>1. Slots \ {} = Slots /\ Cardinality(Slots) = NumOffers
    <3>1. Cardinality(0 .. NumOffers - 1) = NumOffers
      BY SlotsFinite, FS_Interval
    <3> QED
      BY <3>1 DEF Slots
  <2> QED
    BY <2>1
<1>8. \A k \in 1 .. L : pending[k] \in Fresh
  OBVIOUS
<1>9. \A k \in 1 .. L : pending[k] \in Offer /\ pending[k] \in Fresh
  BY <1>8 DEF Fresh
<1> HIDE DEF new, valid, U, rank, L, left, extra, last
<1>10. \A i \in U : rank(i) <= L => L + 1 - rank(i) \in 1 .. L
  BY <1>3, <1>5
<1>11. \A i \in Slots : /\ addTo(offers[i], extra) \in Offer
                        /\ \A r \in Resources : addTo(offers[i], extra)[r] = offers[i][r] + extra[r]
                        /\ addTo(offers[i], extra).user = offers[i].user
                        /\ addTo(offers[i], extra).valid = offers[i].valid
                        /\ addTo(offers[i], extra).age = offers[i].age
                        /\ addTo(offers[i], extra).runtime
                             = IF offers[i].runtime < Runtime THEN Runtime ELSE offers[i].runtime
  BY <1>3, <1>7, AddedTo
<1>12. new \in AllOffers
  <2>1. \A i \in Slots : new[i] \in Offer
    BY <1>2, <1>3, <1>9, <1>10, <1>11
  <2> QED
    BY <1>1, <2>1 DEF AllOffers
<1>13. \A i \in Slots : ~ offers[i].valid => new[i] = offers[i] \/ new[i] \in Fresh
  BY <1>2, <1>3, <1>8, <1>10
<1>14. ASSUME NEW i \in Slots, offers[i].valid
       PROVE  /\ new[i].valid /\ new[i].user = offers[i].user /\ new[i].age = offers[i].age
              /\ \/ new[i].runtime = offers[i].runtime
                 \/ offers[i].runtime < Runtime /\ new[i].runtime = Runtime
              /\ \A r \in Resources : offers[i][r] <= new[i][r]
  <2>1. \A r \in Resources : offers[i][r] \in Int /\ extra[r] \in Nat
    BY <1>7, InAll
  <2>2. new[i] = addTo(offers[i], extra) \/ new[i] = offers[i]
    BY <1>2, <1>3, <1>14
  <2>3. CASE new[i] = offers[i]
    BY <1>14, <2>1, <2>3
  <2>4. CASE new[i] = addTo(offers[i], extra)
    BY <1>11, <1>14, <2>1, <2>4
  <2> QED
    BY <2>2, <2>3, <2>4
<1>15. ASSUME NEW r \in Resources
       PROVE  /\ inAll(new, r) <= inAll(offers, r) + sumOf(pending, 1 .. L, r)
              /\ valid = {} => inAll(new, r) + extra[r] <= inAll(offers, r) + sumOf(pending, 1 .. L, r)
  <2> DEFINE P == [k \in 1 .. L |-> pending[k][r]]
             F == {i \in U : rank(i) <= L}
             h == [i \in Slots |-> L + 1 - rank(i)]
             image == {h[i] : i \in F}
             b == [i \in Slots |-> IF i \in F THEN P[h[i]] ELSE 0]
             c == [i \in Slots |-> IF i \in valid /\ last(i) THEN extra[r] ELSE 0]
             bc == [i \in Slots |-> b[i] + c[i]]
             old == amounts(offers, r)
             sum == [i \in Slots |-> old[i] + bc[i]]
  <2>1. /\ \A k \in 1 .. L : P[k] \in Nat /\ P[k] = pending[k][r]
        /\ IsFiniteSet(1 .. L)
        /\ \A some \in SUBSET (1 .. L) : /\ IsFiniteSet(some)
                                         /\ sumOf(pending, some, r) = SumFunctionOnSet(P, some)
                                         /\ sumOf(pending, some, r) \in Nat
    BY Pending DEF L
  <2> HIDE DEF P
  <2>2. /\ F \subseteq Slots /\ \A i \in F : h[i] = L + 1 - rank(i) /\ h[i] \in 1 .. L /\ h[i] \notin left
    BY <1>3, <1>5, <1>10 DEF left
  <2>3. \A i, k \in F : h[i] = h[k] => i = k
    BY <1>3, <1>5, <1>6
  <2>4. \A i \in Slots : b[i] \in Nat /\ c[i] \in Nat /\ bc[i] \in Nat /\ bc[i] = b[i] + c[i]
    <3> SUFFICES ASSUME NEW i \in Slots PROVE b[i] \in Nat /\ c[i] \in Nat
      OBVIOUS
    <3>1. b[i] \in Nat
      <4>1. CASE i \in F
        <5>1. P[h[i]] \in Nat
          BY <2>1, <2>2, <4>1
        <5> QED
          BY <4>1, <5>1
      <4>2. CASE i \notin F
        BY <4>2
      <4> QED
        BY <4>1, <4>2
    <3>2. c[i] \in Nat
      BY <1>7
    <3> QED
      BY <3>1, <3>2
  <2>5. \A i \in Slots : old[i] \in Nat /\ sum[i] \in Nat /\ sum[i] = old[i] + bc[i]
    BY <2>4, InAll
  <2>6. ASSUME NEW i \in Slots PROVE amounts(new, r)[i] \in Nat /\ amounts(new, r)[i] <= sum[i]
    <3>1. /\ amounts(new, r)[i] \in Nat /\ amounts(new, r)[i] = positive(new[i][r])
          /\ old[i] = positive(offers[i][r]) /\ offers[i][r] \in Int
      BY <1>12, InAll DEF amounts
    <3>2. \/ new[i] = offers[i]
          \/ i \in F /\ new[i] = pending[h[i]]
          \/ i \in valid /\ last(i) /\ new[i] = addTo(offers[i], extra)
      BY <1>2, <1>3
    <3>3. CASE new[i] = offers[i]
      BY <2>4, <2>5, <3>1, <3>3
    <3>4. CASE i \in F /\ new[i] = pending[h[i]]
      <4>1. new[i][r] = P[h[i]] /\ P[h[i]] \in Nat
        BY <2>1, <2>2, <3>4
      <4>2. b[i] = new[i][r] /\ new[i][r] \in Nat
        BY <3>4, <4>1
      <4>3. positive(new[i][r]) = new[i][r]
        BY <4>2, Positive
      <4> HIDE DEF b, c, bc, old, sum, F
      <4> QED
        BY <2>4, <2>5, <3>1, <4>2, <4>3
    <3>5. CASE i \in valid /\ last(i) /\ new[i] = addTo(offers[i], extra)
      <4>1. new[i][r] = offers[i][r] + extra[r] /\ extra[r] \in Nat
        BY <1>7, <1>11, <3>5
      <4>2. c[i] = extra[r]
        BY <3>5
      <4>3. positive(offers[i][r] + extra[r]) <= positive(offers[i][r]) + extra[r]
        BY <3>1, <4>1 DEF positive
      <4> HIDE DEF b, c, bc, old, sum, F
      <4> QED
        BY <2>4, <2>5, <3>1, <4>1, <4>2, <4>3
    <3> QED
      BY <3>2, <3>3, <3>4, <3>5
  <2>7. SumFunctionOnSet(b, Slots) = SumFunctionOnSet(P, image)
    <3>1. \A i \in Slots : b[i] \in Int
      BY <2>4
    <3>2. \A i \in Slots \ F : b[i] = 0
      OBVIOUS
    <3>3. ASSUME NEW i \in F PROVE P[h[i]] \in Int /\ b[i] = P[h[i]]
      <4>1. h[i] \in 1 .. L /\ i \in Slots
        BY <2>2
      <4>2. P[h[i]] \in Int
        <5> HIDE DEF h
        <5> QED
          BY <2>1, <4>1
      <4> QED
        BY <4>1, <4>2
    <3>4. IsFiniteSet(F)
      BY <2>2, SlotsFinite, FS_Subset
    <3> HIDE DEF b, F, h
    <3>5. SumFunctionOnSet(b, Slots) = SumFunctionOnSet(b, F)
      BY <2>2, <3>1, <3>2, SlotsFinite, SumSupport
    <3>6. SumFunctionOnSet(b, F) = SumFunctionOnSet(P, {h[i] : i \in F})
      BY <2>3, <3>3, <3>4, SumRenamed
    <3> QED
      BY <3>5, <3>6
  <2>8. image \in SUBSET (1 .. L) /\ image \cap left = {}
    <3> HIDE DEF h, F
    <3> QED
      BY <2>2
  <2>9. SumFunctionOnSet(P, image) + SumFunctionOnSet(P, left) <= SumFunctionOnSet(P, 1 .. L)
    <3> HIDE DEF image
    <3>1. IsFiniteSet(image) /\ IsFiniteSet(left)
      BY <1>4, <2>1, <2>8
    <3>2. \A k \in 1 .. L : P[k] \in Int /\ P[k] >= 0
      BY <2>1
    <3>3. image \cup left \subseteq 1 .. L
      BY <1>4, <2>8
    <3>4. SumFunctionOnSet(P, image \cup left) = SumFunctionOnSet(P, image) + SumFunctionOnSet(P, left)
      BY <2>8, <3>1, <3>2, <3>3, SumUnion
    <3>5. SumFunctionOnSet(P, image \cup left) <= SumFunctionOnSet(P, 1 .. L)
      BY <2>1, <3>2, <3>3, SumPart
    <3> QED
      BY <3>4, <3>5
  <2>10. SumFunctionOnSet(c, Slots) <= extra[r]
    <3> DEFINE m == Max(valid)
    <3>1. \A i \in Slots : c[i] \in Int /\ (i # m => c[i] = 0) /\ c[i] <= extra[r]
      BY <1>7, <2>4 DEF last
    <3> HIDE DEF m, c
    <3>2. CASE m \in Slots
      <4>1. SumFunctionOnSet(c, Slots) = SumFunctionOnSet(c, {m})
        BY <3>1, <3>2, SlotsFinite, SumSupport
      <4>2. SumFunctionOnSet(c, {m}) = c[m] + SumFunctionOnSet(c, {m} \ {m})
        BY <3>1, <3>2, SumWithout, FS_Singleton
      <4>3. {m} \ {m} = {} /\ SumFunctionOnSet(c, {}) = 0
        BY SumOfNone
      <4>4. SumFunctionOnSet(c, {m} \ {m}) = 0
        BY <4>3
      <4> QED
        BY <3>1, <3>2, <4>1, <4>2, <4>4
    <3>3. CASE m \notin Slots
      <4>1. SumFunctionOnSet(c, Slots) = 0
        BY <3>1, <3>3, SlotsFinite, SumOfZeros
      <4> QED
        BY <1>7, <4>1
    <3> QED
      BY <3>2, <3>3
  <2>16. valid = {} => SumFunctionOnSet(c, Slots) = 0
    <3>1. ASSUME valid = {} PROVE \A i \in Slots : c[i] = 0
      BY <3>1
    <3> HIDE DEF c
    <3> QED
      BY <3>1, SlotsFinite, SumOfZeros
  <2>11. /\ SumFunctionOnSet(sum, Slots) = SumFunctionOnSet(old, Slots) + SumFunctionOnSet(bc, Slots)
         /\ SumFunctionOnSet(bc, Slots) = SumFunctionOnSet(b, Slots) + SumFunctionOnSet(c, Slots)
    <3> HIDE DEF sum, old, bc, b, c
    <3>1. \A i \in Slots : b[i] \in Int /\ c[i] \in Int /\ bc[i] \in Int /\ old[i] \in Int
      BY <2>4, <2>5
    <3> QED
      BY <2>4, <2>5, <3>1, SlotsFinite, SumOfBoth
  <2>12. SumFunctionOnSet(amounts(new, r), Slots) <= SumFunctionOnSet(sum, Slots)
    <3> HIDE DEF sum
    <3>1. \A i \in Slots : sum[i] \in Int /\ amounts(new, r)[i] \in Int /\ amounts(new, r)[i] <= sum[i]
      BY <2>5, <2>6
    <3> QED
      BY <3>1, SlotsFinite, SumMonotone
  <2>13. /\ inAll(new, r) = SumFunctionOnSet(amounts(new, r), Slots) /\ inAll(new, r) \in Int
         /\ inAll(offers, r) = SumFunctionOnSet(old, Slots) /\ inAll(offers, r) \in Int
    BY <1>12, InAll
  <2>14. /\ sumOf(pending, 1 .. L, r) = SumFunctionOnSet(P, 1 .. L) /\ sumOf(pending, 1 .. L, r) \in Int
         /\ extra[r] = SumFunctionOnSet(P, left) /\ extra[r] \in Int
         /\ SumFunctionOnSet(P, image) \in Int
    <3> HIDE DEF image
    <3>1. left \in SUBSET (1 .. L) /\ 1 .. L \in SUBSET (1 .. L)
      BY <1>4
    <3>2. /\ sumOf(pending, 1 .. L, r) = SumFunctionOnSet(P, 1 .. L) /\ sumOf(pending, 1 .. L, r) \in Nat
      BY <2>1, <3>1
    <3>3. sumOf(pending, left, r) = SumFunctionOnSet(P, left) /\ sumOf(pending, left, r) \in Nat
      BY <2>1, <3>1
    <3>4. sumOf(pending, image, r) = SumFunctionOnSet(P, image) /\ sumOf(pending, image, r) \in Nat
      BY <2>1, <2>8
    <3>5. extra[r] = sumOf(pending, left, r)
      BY <1>7
    <3> QED
      BY <3>2, <3>3, <3>4, <3>5
  <2>15. SumFunctionOnSet(b, Slots) \in Int /\ SumFunctionOnSet(c, Slots) \in Int
    <3> HIDE DEF b, c
    <3>1. \A i \in Slots : b[i] \in Int /\ c[i] \in Int
      BY <2>4
    <3> QED
      BY <3>1, SlotsFinite, SumType
  <2> HIDE DEF sum, old, bc, b, c, image
  <2> QED
    BY <2>7, <2>9, <2>10, <2>11, <2>12, <2>13, <2>14, <2>15, <2>16
<1>17. ASSUME NEW r \in Resources
       PROVE  \/ \E i \in Slots : offers[i].valid
              \/ inAll(new, r) + sumOf(pending, 1 .. L - NumOffers, r)
                   <= inAll(offers, r) + sumOf(pending, 1 .. L, r)
  <2>1. valid # {} => \E i \in Slots : offers[i].valid
    BY <1>3
  <2>2. valid = {} => extra[r] = sumOf(pending, 1 .. L - NumOffers, r)
    BY <1>7, <1>16
  <2> QED
    BY <1>15, <2>1, <2>2
<1> QED
  BY <1>12, <1>13, <1>14, <1>15, <1>17 DEF new, L
-------------------------------------------------------------------------------
(***************************************************************************)
(* The steps of the specification.                                         *)
(***************************************************************************)
LEMMA StillSatisfied ==
  ASSUME NEW old \in AllOffers, NEW new \in AllOffers, NEW M, M \subseteq Slots, NEW K, K \subseteq M,
         \A i \in K, r \in Resources : old[i][r] <= new[i][r],
         \A i \in M \ K, r \in Resources : new[i][r] >= 0,
         Satisfied(old, K)
  PROVE  Satisfied(new, M)
<1>1. ASSUME NEW r \in Resources
      PROVE  /\ sumOf(old, K, r) <= sumOf(new, M, r)
             /\ sumOf(old, K, r) \in Int /\ sumOf(new, M, r) \in Int
  <2> DEFINE g == [i \in Slots |-> new[i][r]]
  <2>1. sumOf(old, K, r) <= sumOf(new, K, r)
    BY SumOfSame
  <2>2. /\ sumOf(new, K, r) = SumFunctionOnSet(g, K) /\ sumOf(new, M, r) = SumFunctionOnSet(g, M)
        /\ sumOf(old, K, r) \in Int /\ sumOf(new, M, r) \in Int /\ sumOf(new, K, r) \in Int
        /\ IsFiniteSet(M)
    BY SumOf
  <2>3. \A i \in M : g[i] \in Int
    BY InAll
  <2>4. \A i \in M \ K : g[i] >= 0
    OBVIOUS
  <2> HIDE DEF g
  <2>5. SumFunctionOnSet(g, K) <= SumFunctionOnSet(g, M)
    BY <2>2, <2>3, <2>4, SumPart
  <2> QED
    BY <2>1, <2>2, <2>5
<1>2. "sharedMemory" \in Resources /\ "timeslices" \in Resources
  BY DEF Resources
<1> QED
  BY <1>1, <1>2, QuotaAssumption DEF Satisfied

(* An offer that a stream has holds no less than nothing. *)
LEMMA OwnedIsPositive ==
  ASSUME NEW offers \in AllOffers, Negative(offers), NEW i \in Slots, offers[i].valid, offers[i].user # Nobody
  PROVE  \A r \in Resources : offers[i][r] >= 0
<1>1. offers[i].sharedMemory \in Int /\ offers[i].timeslices \in Int
  BY DEF AllOffers, Offer
<1>2. ~ (offers[i].sharedMemory < 0 \/ offers[i].timeslices < 0)
  BY DEF Negative
<1> QED
  BY <1>1, <1>2 DEF Resources

LEMMA StreamsAreSome ==
  /\ \A s \in Streams : s # Nobody /\ s \in Int
  /\ IsFiniteSet(Streams)
BY QuotaAssumption, FS_Interval DEF Streams, Nobody

LEMMA Accounts ==
  ASSUME QuotaTypes
  PROVE  \A r \in Resources : waiting(r) \in Nat /\ inAll(mOffers, r) \in Int
<1>1. pendingOffers \in Seq(Fresh) /\ mOffers \in AllOffers
  BY DEF QuotaTypes
<1>2. 1 .. Len(pendingOffers) \in SUBSET (1 .. Len(pendingOffers))
  OBVIOUS
<1> QED
  BY <1>1, <1>2, Pending, InAll DEF waiting

LEMMA AccountsLater ==
  (QuotaTypes => \A r \in Resources : waiting(r) \in Nat /\ inAll(mOffers, r) \in Int)'
<1>1. QuotaTypes => \A r \in Resources : waiting(r) \in Nat /\ inAll(mOffers, r) \in Int
  BY Accounts
<1> QED
  BY <1>1, PTL

(* The evaluator at the start holds nothing. *)
LEMMA EvaluatorInit ==
  ASSUME InitQuota
  PROVE  EvaluatorInv /\ \A r \in Resources : inAll(mOffers, r) = 0 /\ waiting(r) = 0
<1> USE DEF InitQuota
<1>1. \A i \in Slots : /\ emptyOffer(i) \in Offer /\ emptyOffer(i).sharedMemory = 0 /\ emptyOffer(i).timeslices = 0
                      /\ emptyOffer(i).age = Runtime + 1 /\ emptyOffer(i).runtime \in {-1, 0}
  BY QuotaAssumption DEF emptyOffer, Offer, Slots
<1>2. mOffers \in AllOffers /\ \A i \in Slots : mOffers[i] = emptyOffer(i)
  BY <1>1 DEF AllOffers
<1>3. QuotaTypes
  BY <1>2 DEF QuotaTypes
<1>4. Aging(mOffers) /\ Negative(mOffers) /\ StillExpired(mOffers, mExpiredOffers)
  BY <1>1, <1>2, QuotaAssumption DEF Aging, Negative, StillExpired
<1>5. RunningSatisfied(mOffers, mExpiredOffers, phase)
  BY DEF RunningSatisfied
<1>6. ASSUME NEW r \in Resources PROVE inAll(mOffers, r) = 0 /\ waiting(r) = 0
  <2>1. waiting(r) = 0
    <3>1. 1 .. Len(pendingOffers) = {}
      OBVIOUS
    <3> QED
      BY <3>1, SumOfNone DEF waiting, sumOf
  <2>2. inAll(mOffers, r) = 0
    <3>1. \A i \in Slots : mOffers[i][r] = 0
      BY <1>1, <1>2 DEF Resources
    <3>2. \A i \in Slots : amounts(mOffers, r)[i] = 0
      BY <3>1, Positive DEF amounts
    <3>3. SumFunctionOnSet(amounts(mOffers, r), Slots) = 0
      BY <3>2, SumOfZeros, SlotsFinite
    <3> QED
      BY <1>2, <3>3, InAll
  <2> QED
    BY <2>1, <2>2
<1> QED
  BY <1>3, <1>4, <1>5, <1>6 DEF EvaluatorInv, OffersInv

(* An offer arrives. *)
LEMMA EvaluatorReceives ==
  ASSUME EvaluatorInv, NEW offer \in Fresh, Receive(offer)
  PROVE  EvaluatorInv' /\ Adds([r \in Resources |-> offer[r]])
<1> USE DEF Receive
<1>1. QuotaTypes /\ QuotaTypes'
  BY DEF QuotaTypes, EvaluatorInv
<1>2. OffersInv'
  BY DEF EvaluatorInv, OffersInv
<1>3. ASSUME NEW r \in Resources
      PROVE  offer[r] \in Int /\ inAll(mOffers, r)' + waiting(r)' <= inAll(mOffers, r) + waiting(r) + offer[r]
  <2> DEFINE L == Len(pendingOffers)
             M == Len(pendingOffers')
             P == [k \in 1 .. L |-> pendingOffers[k][r]]
             Q == [k \in 1 .. M |-> pendingOffers'[k][r]]
  <2>1. /\ pendingOffers \in Seq(Fresh) /\ pendingOffers' \in Seq(Fresh)
        /\ pendingOffers' = Append(pendingOffers, offer)
    BY <1>1 DEF QuotaTypes
  <2>2. /\ L \in Nat /\ M = L + 1 /\ pendingOffers'[M] = offer
        /\ \A k \in 1 .. L : pendingOffers'[k] = pendingOffers[k]
        /\ 1 .. M = (1 .. L) \cup {M} /\ M \notin 1 .. L
    BY <2>1
  <2>3. /\ IsFiniteSet(1 .. L) /\ \A k \in 1 .. L : P[k] \in Nat
        /\ sumOf(pendingOffers, 1 .. L, r) = SumFunctionOnSet(P, 1 .. L)
        /\ sumOf(pendingOffers, 1 .. L, r) \in Nat
    BY <2>1, Pending
  <2>4. /\ \A k \in 1 .. M : Q[k] \in Nat
        /\ sumOf(pendingOffers', 1 .. M, r) = SumFunctionOnSet(Q, 1 .. M)
    BY <2>1, Pending
  <2>5. \A k \in 1 .. L : P[k] \in Int /\ P[k] = Q[k]
    BY <2>2, <2>3
  <2>6. M \in 1 .. M /\ Q[M] = offer[r]
    BY <2>2
  <2>7. SumFunctionOnSet(Q, 1 .. M) = SumFunctionOnSet(Q, (1 .. L) \cup {M})
    BY <2>2
  <2> HIDE DEF L, M, P, Q
  <2>8. SumFunctionOnSet(Q, (1 .. L) \cup {M}) = SumFunctionOnSet(Q, 1 .. L) + Q[M]
    <3>1. \A k \in (1 .. L) \cup {M} : Q[k] \in Int
      BY <2>2, <2>4
    <3> DEFINE S == 1 .. L
    <3>2. IsFiniteSet(S) /\ M \notin S /\ \A k \in S \cup {M} : Q[k] \in Int
      BY <2>2, <2>3, <3>1
    <3> HIDE DEF S
    <3>3. SumFunctionOnSet(Q, S \cup {M}) = SumFunctionOnSet(Q, S) + Q[M]
      BY <3>2, SumWith
    <3> QED
      BY <3>3 DEF S
  <2>9. SumFunctionOnSet(P, 1 .. L) = SumFunctionOnSet(Q, 1 .. L)
    BY <2>3, <2>5, SumSame
  <2>10. offer[r] \in Int
    BY <2>4, <2>6
  <2>11. waiting(r)' = waiting(r) + offer[r]
    <3>1. waiting(r) = sumOf(pendingOffers, 1 .. L, r) /\ waiting(r)' = sumOf(pendingOffers', 1 .. M, r)
      BY DEF waiting, L, M
    <3> QED
      BY <2>3, <2>4, <2>6, <2>7, <2>8, <2>9, <3>1
  <2>13. inAll(mOffers, r) \in Int /\ waiting(r) \in Int
    BY <1>1, Accounts
  <2>14. inAll(mOffers, r)' = inAll(mOffers, r)
    OBVIOUS
  <2> QED
    BY <2>10, <2>11, <2>13, <2>14
<1> QED
  BY <1>1, <1>2, <1>3 DEF EvaluatorInv, Adds

(* SIGUSR1. *)
LEMMA EvaluatorSignalled ==
  ASSUME EvaluatorInv, Signal(SignalledMemory)
  PROVE  EvaluatorInv' /\ Adds([r \in Resources |-> IF r = "sharedMemory" THEN SignalledMemory ELSE 0])
<1> USE DEF Signal
<1>1. PICK i \in Slots :
         /\ ~ mOffers[i].valid
         /\ mOffers' = [mOffers EXCEPT ![i].sharedMemory = SignalledMemory, ![i].valid = TRUE,
                                       ![i].user = Nobody]
  OBVIOUS
<1> DEFINE one == [mOffers[i] EXCEPT !.sharedMemory = SignalledMemory, !.valid = TRUE, !.user = Nobody]
<1>2. mOffers \in AllOffers /\ \A j \in Slots : mOffers[j] \in Offer
  BY DEF EvaluatorInv, QuotaTypes, AllOffers
<1>3. /\ one \in Offer /\ one.sharedMemory = SignalledMemory /\ one.timeslices = mOffers[i].timeslices
      /\ one.valid /\ one.user = Nobody /\ one.age = mOffers[i].age /\ one.runtime = mOffers[i].runtime
  <2> DEFINE o == mOffers[i]
  <2>1. o \in Offer /\ SignalledMemory \in Int /\ Nobody \in Streams \cup {Nobody}
    BY <1>2, DeviceAssumption
  <2> HIDE DEF o
  <2>2. LET new == [o EXCEPT !.sharedMemory = SignalledMemory, !.valid = TRUE, !.user = Nobody] IN
        /\ new \in Offer /\ new.sharedMemory = SignalledMemory /\ new.timeslices = o.timeslices
        /\ new.valid /\ new.user = Nobody /\ new.age = o.age /\ new.runtime = o.runtime
    BY <2>1 DEF Offer
  <2> QED
    BY <2>2 DEF o
<1>4. mOffers' = [mOffers EXCEPT ![i] = one]
  BY <1>1, <1>2 DEF AllOffers
<1> HIDE DEF one
<1>5. mOffers' \in AllOffers /\ mOffers'[i] = one /\ \A j \in Slots \ {i} : mOffers'[j] = mOffers[j]
  BY <1>2, <1>3, <1>4 DEF AllOffers
<1>6. QuotaTypes /\ QuotaTypes'
  BY <1>5 DEF QuotaTypes, EvaluatorInv
<1>7. Aging(mOffers)'
  <2>1. \A j \in Slots : mOffers'[j].age = mOffers[j].age /\ mOffers'[j].runtime = mOffers[j].runtime
    BY <1>3, <1>5
  <2> QED
    BY <2>1 DEF Aging, EvaluatorInv, OffersInv
<1>8. StillExpired(mOffers, mExpiredOffers)'
  <2>1. \A j \in mExpiredOffers : j \in Slots /\ j # i
    BY <1>1, <1>6 DEF StillExpired, EvaluatorInv, OffersInv, QuotaTypes
  <2> QED
    BY <1>5, <2>1 DEF StillExpired, EvaluatorInv, OffersInv
<1>9. Negative(mOffers)'
  <2> SUFFICES ASSUME NEW j \in Slots, mOffers'[j].sharedMemory < 0 \/ mOffers'[j].timeslices < 0
               PROVE  isExpired(mOffers'[j]) /\ (mOffers'[j].valid => mOffers'[j].user = Nobody)
    BY DEF Negative
  <2>1. Negative(mOffers)
    BY DEF EvaluatorInv, OffersInv
  <2>2. CASE j # i
    BY <1>5, <2>1, <2>2 DEF Negative
  <2>3. CASE j = i
    <3>1. mOffers[i].timeslices < 0
      BY <1>3, <1>5, <2>3, DeviceAssumption
    <3>2. isExpired(mOffers[i])
      BY <2>1, <3>1 DEF Negative
    <3> QED
      BY <1>3, <1>5, <2>3, <3>2 DEF isExpired
  <2> QED
    BY <2>2, <2>3
<1>10. RunningSatisfied(mOffers, mExpiredOffers, phase)'
  <2> SUFFICES ASSUME NEW s \in Streams, phase[s] # "free"
               PROVE  Satisfied(mOffers', kept(mOffers', mExpiredOffers, s))
    BY DEF RunningSatisfied
  <2> DEFINE K == kept(mOffers, mExpiredOffers, s)
             M == kept(mOffers', mExpiredOffers, s)
  <2>1. Satisfied(mOffers, K)
    BY DEF RunningSatisfied, EvaluatorInv, OffersInv
  <2>2. M \subseteq Slots /\ i \notin K /\ i \notin M
    BY <1>1, <1>3, <1>5, StreamsAreSome DEF kept
  <2>3. ASSUME NEW j \in Slots \ {i} PROVE j \in K <=> j \in M
    BY <1>5 DEF kept
  <2>4. K \subseteq M /\ M \subseteq K
    <3>1. K \subseteq Slots
      BY DEF kept
    <3> HIDE DEF K, M
    <3> QED
      BY <2>2, <2>3, <3>1
  <2>5. ASSUME NEW j \in K, NEW r \in Resources PROVE mOffers[j][r] <= mOffers'[j][r]
    <3>1. j \in Slots \ {i}
      BY <2>2, <2>4
    <3>2. mOffers'[j] = mOffers[j] /\ mOffers[j][r] \in Int
      BY <1>2, <1>5, <3>1, InAll
    <3> HIDE DEF K
    <3> QED
      BY <3>2
  <2> HIDE DEF K, M
  <2> QED
    BY <1>2, <1>5, <2>1, <2>2, <2>4, <2>5, StillSatisfied DEF M
<1>11. ASSUME NEW r \in Resources
       PROVE  inAll(mOffers, r)' + waiting(r)'
                <= inAll(mOffers, r) + waiting(r) + (IF r = "sharedMemory" THEN SignalledMemory ELSE 0)
  <2>1. inAll(mOffers, r) \in Int /\ waiting(r) \in Int /\ waiting(r)' = waiting(r)
    BY <1>6, Accounts DEF waiting
  <2>2. inAll(mOffers, r)' = inAll(mOffers, r) - positive(mOffers[i][r]) + positive(mOffers'[i][r])
    <3>1. \A j \in Slots \ {i} : mOffers'[j][r] = mOffers[j][r]
      BY <1>5
    <3> QED
      BY ZenonT(60), <1>2, <1>5, <3>1, InAllChanged
  <2>3. mOffers[i][r] \in Int /\ positive(mOffers[i][r]) \in Nat
    BY <1>2, Amount, Positive
  <2>4. CASE r = "sharedMemory"
    <3>1. mOffers'[i][r] = SignalledMemory
      BY <1>3, <1>5, <2>4
    <3>2. positive(SignalledMemory) = SignalledMemory
      BY Positive, DeviceAssumption
    <3> QED
      BY <2>1, <2>2, <2>3, <2>4, <3>1, <3>2, DeviceAssumption
  <2>5. CASE r = "timeslices"
    <3>1. mOffers'[i][r] = mOffers[i][r]
      BY <1>3, <1>5, <2>5
    <3> QED
      BY <2>1, <2>2, <2>3, <2>5, <3>1
  <2> QED
    BY <2>4, <2>5 DEF Resources
<1>12. Adds([r \in Resources |-> IF r = "sharedMemory" THEN SignalledMemory ELSE 0])
  <2> DEFINE change == [r \in Resources |-> IF r = "sharedMemory" THEN SignalledMemory ELSE 0]
  <2>1. \A r \in Resources : change[r] \in Int /\ change[r] = (IF r = "sharedMemory" THEN SignalledMemory ELSE 0)
    BY DeviceAssumption
  <2> HIDE DEF change
  <2>2. Adds(change)
    BY <1>11, <2>1 DEF Adds
  <2> QED
    BY <2>2 DEF change
<1> QED
  BY <1>6, <1>7, <1>8, <1>9, <1>10, <1>12 DEF EvaluatorInv, OffersInv

(* Time passes. *)
LEMMA EvaluatorAges ==
  ASSUME EvaluatorInv, AdvanceClock
  PROVE  EvaluatorInv' /\ Adds(nothing)
<1> USE DEF AdvanceClock
<1>1. mOffers \in AllOffers /\ \A i \in Slots : mOffers[i] \in Offer
  BY DEF EvaluatorInv, QuotaTypes, AllOffers
<1> DEFINE older(i) == [mOffers[i] EXCEPT !.age = IF @ <= Runtime THEN @ + 1 ELSE @]
<1>2. mOffers' = [i \in Slots |-> older(i)]
  OBVIOUS
<1>3. ASSUME NEW i \in Slots
      PROVE  /\ older(i) \in Offer /\ older(i).user = mOffers[i].user /\ older(i).valid = mOffers[i].valid
             /\ older(i).runtime = mOffers[i].runtime
             /\ older(i).age = (IF mOffers[i].age <= Runtime THEN mOffers[i].age + 1 ELSE mOffers[i].age)
             /\ older(i).sharedMemory = mOffers[i].sharedMemory
             /\ older(i).timeslices = mOffers[i].timeslices
  BY <1>1 DEF Offer
<1> HIDE DEF older
<1>4. /\ mOffers' \in AllOffers /\ \A i \in Slots : mOffers'[i] = older(i)
  BY <1>2, <1>3 DEF AllOffers
<1>5. ASSUME NEW i \in Slots, NEW r \in Resources PROVE mOffers'[i][r] = mOffers[i][r]
  BY <1>3, <1>4 DEF Resources
<1>6. QuotaTypes /\ QuotaTypes'
  BY <1>4 DEF QuotaTypes, EvaluatorInv
<1>7. \A i \in Slots : /\ mOffers[i].age \in Nat /\ mOffers[i].runtime \in Int
                      /\ mOffers'[i].age = (IF mOffers[i].age <= Runtime THEN mOffers[i].age + 1 ELSE mOffers[i].age)
                      /\ mOffers'[i].runtime = mOffers[i].runtime
                      /\ mOffers'[i].user = mOffers[i].user /\ mOffers'[i].valid = mOffers[i].valid
                      /\ mOffers'[i].sharedMemory = mOffers[i].sharedMemory
                      /\ mOffers'[i].timeslices = mOffers[i].timeslices
  BY <1>1, <1>3, <1>4 DEF Offer
<1>8. \A i \in Slots : isExpired(mOffers[i]) => isExpired(mOffers'[i])
  BY <1>7, QuotaAssumption DEF isExpired
<1>9. Aging(mOffers)'
  BY <1>7, QuotaAssumption DEF Aging, EvaluatorInv, OffersInv
<1>10. StillExpired(mOffers, mExpiredOffers)'
  <2>1. \A i \in mExpiredOffers : i \in Slots /\ mOffers[i].valid /\ isExpired(mOffers[i])
    BY DEF StillExpired, EvaluatorInv, OffersInv, QuotaTypes
  <2>2. ASSUME NEW i \in mExpiredOffers PROVE mOffers'[i].valid /\ isExpired(mOffers'[i])
    <3>1. i \in Slots /\ mOffers'[i].valid = mOffers[i].valid
      BY <1>7, <2>1
    <3>2. mOffers'[i].valid
      BY <2>1, <3>1
    <3> QED
      BY <1>8, <2>1, <3>2
  <2> QED
    BY <2>2 DEF StillExpired
<1>11. Negative(mOffers)'
  BY <1>7, <1>8 DEF Negative, EvaluatorInv, OffersInv
<1>12. RunningSatisfied(mOffers, mExpiredOffers, phase)'
  <2> SUFFICES ASSUME NEW s \in Streams, phase[s] # "free"
               PROVE  Satisfied(mOffers', kept(mOffers', mExpiredOffers, s))
    BY DEF RunningSatisfied
  <2> DEFINE K == kept(mOffers, mExpiredOffers, s)
             M == kept(mOffers', mExpiredOffers, s)
  <2>1. Satisfied(mOffers, K)
    BY DEF RunningSatisfied, EvaluatorInv, OffersInv
  <2>2. M \subseteq Slots /\ K = M
    BY <1>7 DEF kept
  <2>3. ASSUME NEW i \in Slots, NEW r \in Resources PROVE mOffers[i][r] <= mOffers'[i][r]
    <3>1. mOffers[i][r] \in Int
      BY <1>1, Amount
    <3> QED
      BY SMTT(30), <1>5, <3>1
  <2> HIDE DEF K, M
  <2> QED
    BY <1>1, <1>4, <2>1, <2>2, <2>3, StillSatisfied DEF M
<1>13. Adds(nothing)
  <2>1. ASSUME NEW r \in Resources PROVE inAll(mOffers', r) = inAll(mOffers, r)
    <3>1. \A i \in Slots : mOffers'[i][r] = mOffers[i][r]
      BY <1>5
    <3> QED
      BY ZenonT(60), <1>1, <1>4, <3>1, InAllSame
  <2>2. \A r \in Resources : waiting(r)' = waiting(r)
    BY DEF waiting
  <2> QED
    <3>1. \A r \in Resources : inAll(mOffers, r)' = inAll(mOffers, r)
      BY <2>1 DEF inAll
    <3>2. \A r \in Resources : nothing[r] = 0 /\ inAll(mOffers, r) \in Int /\ waiting(r) \in Nat
      BY <1>6, Accounts DEF nothing
    <3> QED
      BY <2>2, <3>1, <3>2 DEF Adds
<1> QED
  BY <1>6, <1>9, <1>10, <1>11, <1>12, <1>13 DEF EvaluatorInv, OffersInv

(* The pending offers are stored. *)
LEMMA EvaluatorStores ==
  ASSUME EvaluatorInv, StoreOffers
  PROVE  EvaluatorInv' /\ Adds(nothing)
<1> USE DEF StoreOffers
<1>1. /\ mOffers \in AllOffers /\ \A i \in Slots : mOffers[i] \in Offer
      /\ pendingOffers \in Seq(Fresh) /\ mExpiredOffers \subseteq Slots
  BY DEF EvaluatorInv, QuotaTypes, AllOffers
<1>2. /\ mOffers' \in AllOffers
      /\ \A i \in Slots : ~ mOffers[i].valid => mOffers'[i] = mOffers[i] \/ mOffers'[i] \in Fresh
      /\ \A i \in Slots : mOffers[i].valid =>
           /\ mOffers'[i].valid /\ mOffers'[i].user = mOffers[i].user /\ mOffers'[i].age = mOffers[i].age
           /\ \/ mOffers'[i].runtime = mOffers[i].runtime
              \/ mOffers[i].runtime < Runtime /\ mOffers'[i].runtime = Runtime
           /\ \A r \in Resources : mOffers[i][r] <= mOffers'[i][r]
      /\ \A r \in Resources :
           /\ inAll(mOffers', r) <= inAll(mOffers, r) + sumOf(pendingOffers, 1 .. Len(pendingOffers), r)
           /\ \/ \E i \in Slots : mOffers[i].valid
              \/ inAll(mOffers', r) + sumOf(pendingOffers, 1 .. Len(pendingOffers) - NumOffers, r)
                   <= inAll(mOffers, r) + sumOf(pendingOffers, 1 .. Len(pendingOffers), r)
  BY <1>1, UpdateOffers
<1>13. /\ pendingOffers' \in Seq(Fresh)
       /\ \/ pendingOffers' = <<>> /\ \E i \in Slots : mOffers[i].valid
          \/ /\ ~ \E i \in Slots : mOffers[i].valid
             /\ 1 .. Len(pendingOffers') = 1 .. Len(pendingOffers) - NumOffers
             /\ \A k \in 1 .. Len(pendingOffers) - NumOffers : pendingOffers'[k] = pendingOffers[k]
  <2> DEFINE k == Len(pendingOffers) - NumOffers
             q == SubSeq(pendingOffers, 1, k)
  <2>1. CASE \E i \in Slots : mOffers[i].valid
    BY <2>1 DEF stillPending
  <2>2. CASE ~ \E i \in Slots : mOffers[i].valid
    <3>1. pendingOffers' = q
      BY <2>2 DEF stillPending
    <3>2. Len(pendingOffers) \in Nat /\ k \in Int /\ k <= Len(pendingOffers)
      BY <1>1, SlotsFinite
    <3>3. CASE k <= 0
      <4>1. q = <<>> /\ 1 .. k = {}
        BY <3>2, <3>3
      <4>2. pendingOffers' = <<>>
        BY <3>1, <4>1
      <4>3. 1 .. Len(pendingOffers') = 1 .. k /\ pendingOffers' \in Seq(Fresh)
        BY <4>1, <4>2
      <4>4. \A j \in 1 .. k : pendingOffers'[j] = pendingOffers[j]
        BY <4>1
      <4> QED
        BY <2>2, <4>3, <4>4
    <3>4. CASE k > 0
      <4>1. q \in Seq(Fresh) /\ Len(q) = k /\ \A j \in 1 .. k : q[j] = pendingOffers[j]
        BY <1>1, <3>2, <3>4
      <4> QED
        BY <2>2, <3>1, <4>1
    <3> QED
      BY <3>2, <3>3, <3>4
  <2> QED
    BY <2>1, <2>2
<1>3. QuotaTypes /\ QuotaTypes'
  BY <1>2, <1>13 DEF QuotaTypes, EvaluatorInv
<1>4. Aging(mOffers) /\ StillExpired(mOffers, mExpiredOffers) /\ Negative(mOffers)
      /\ RunningSatisfied(mOffers, mExpiredOffers, phase)
  BY DEF EvaluatorInv, OffersInv
<1>5. \A i \in Slots : mOffers[i].age \in Nat /\ mOffers[i].runtime \in Int
                      /\ mOffers[i].sharedMemory \in Int /\ mOffers[i].timeslices \in Int
                      /\ mOffers'[i].sharedMemory \in Int /\ mOffers'[i].timeslices \in Int
  BY <1>1, <1>2 DEF Offer, AllOffers
<1>6. \A offer \in Fresh : /\ offer.age = 0 /\ offer.runtime = Runtime /\ offer.user = Nobody /\ offer.valid
                          /\ offer.sharedMemory >= 0 /\ offer.timeslices >= 0
  BY DEF Fresh
<1>7. ASSUME NEW i \in Slots
      PROVE  /\ mOffers'[i].age <= Runtime + 1
             /\ mOffers'[i].runtime <= Runtime
             /\ mOffers'[i].runtime < Runtime => mOffers'[i].age = Runtime + 1
             /\ mOffers[i].valid /\ isExpired(mOffers[i]) => mOffers'[i].valid /\ isExpired(mOffers'[i])
  <2>1. /\ mOffers[i].age <= Runtime + 1 /\ mOffers[i].runtime <= Runtime
        /\ mOffers[i].runtime < Runtime => mOffers[i].age = Runtime + 1
    BY <1>4 DEF Aging
  <2>2. CASE mOffers[i].valid
    BY <1>2, <1>5, <2>1, <2>2, QuotaAssumption DEF isExpired
  <2>3. CASE ~ mOffers[i].valid
    BY <1>2, <1>6, <2>1, <2>3, QuotaAssumption
  <2> QED
    BY <2>2, <2>3
<1>8. Aging(mOffers)'
  BY <1>7 DEF Aging
<1>9. StillExpired(mOffers, mExpiredOffers)'
  BY <1>1, <1>4, <1>7 DEF StillExpired
<1>10. Negative(mOffers)'
  <2> SUFFICES ASSUME NEW i \in Slots, mOffers'[i].sharedMemory < 0 \/ mOffers'[i].timeslices < 0
               PROVE  isExpired(mOffers'[i]) /\ (mOffers'[i].valid => mOffers'[i].user = Nobody)
    BY DEF Negative
  <2>1. CASE mOffers[i].valid
    <3>1. mOffers[i].sharedMemory <= mOffers'[i].sharedMemory /\ mOffers[i].timeslices <= mOffers'[i].timeslices
      BY <1>2, <2>1 DEF Resources
    <3>2. mOffers[i].sharedMemory < 0 \/ mOffers[i].timeslices < 0
      BY <1>5, <3>1
    <3>3. isExpired(mOffers[i]) /\ mOffers[i].user = Nobody
      BY <1>4, <2>1, <3>2 DEF Negative
    <3> QED
      BY <1>2, <1>7, <2>1, <3>3
  <2>2. CASE ~ mOffers[i].valid
    <3>1. mOffers'[i] \notin Fresh
      BY <1>5, <1>6
    <3>2. mOffers'[i] = mOffers[i]
      BY <1>2, <2>2, <3>1
    <3> QED
      BY <1>4, <2>2, <3>2 DEF Negative
  <2> QED
    BY <2>1, <2>2
<1>11. RunningSatisfied(mOffers, mExpiredOffers, phase)'
  <2> SUFFICES ASSUME NEW s \in Streams, phase[s] # "free"
               PROVE  Satisfied(mOffers', kept(mOffers', mExpiredOffers, s))
    BY DEF RunningSatisfied
  <2> DEFINE K == kept(mOffers, mExpiredOffers, s)
             M == kept(mOffers', mExpiredOffers, s)
  <2>1. Satisfied(mOffers, K)
    BY <1>4 DEF RunningSatisfied
  <2>2. ASSUME NEW i \in Slots PROVE i \in K <=> i \in M
    <3>1. CASE mOffers[i].valid
      BY <1>2, <3>1 DEF kept
    <3>2. CASE ~ mOffers[i].valid
      <4>1. ~ mOffers'[i].valid \/ mOffers'[i].user = Nobody
        BY <1>2, <1>6, <3>2
      <4> QED
        BY <3>2, <4>1, StreamsAreSome DEF kept
    <3> QED
      BY <3>1, <3>2
  <2>3. K \subseteq Slots /\ M \subseteq Slots /\ \A i \in K : mOffers[i].valid
    BY DEF kept
  <2> HIDE DEF K, M
  <2>4. K = M
    BY <2>2, <2>3
  <2>5. \A i \in K, r \in Resources : mOffers[i][r] <= mOffers'[i][r]
    BY <1>2, <2>3
  <2> QED
    BY <1>1, <1>2, <2>1, <2>3, <2>4, <2>5, StillSatisfied DEF M
<1>12. Adds(nothing)
  <2> SUFFICES ASSUME NEW r \in Resources PROVE inAll(mOffers', r) + waiting(r)' <= inAll(mOffers, r) + waiting(r) + 0
    BY DEF Adds, inAll, nothing
  <2>3. inAll(mOffers', r) \in Int /\ inAll(mOffers, r) \in Int /\ waiting(r) \in Int
    BY <1>2, <1>3, InAll, Accounts
  <2>4. CASE \E i \in Slots : mOffers[i].valid
    <3>1. pendingOffers' = <<>>
      BY <1>13, <2>4
    <3>2. 1 .. Len(pendingOffers') = {}
      BY <3>1
    <3>3. waiting(r)' = 0
      BY <3>2, SumOfNone DEF waiting, sumOf
    <3>4. inAll(mOffers', r) <= inAll(mOffers, r) + waiting(r)
      BY <1>2 DEF waiting
    <3> QED
      BY <2>3, <3>3, <3>4
  <2>5. CASE ~ \E i \in Slots : mOffers[i].valid
    <3> DEFINE K == 1 .. Len(pendingOffers) - NumOffers
    <3>1. 1 .. Len(pendingOffers') = K /\ \A k \in K : pendingOffers'[k] = pendingOffers[k]
      BY <1>13, <2>5
    <3>2. inAll(mOffers', r) + sumOf(pendingOffers, K, r) <= inAll(mOffers, r) + waiting(r)
      BY <1>2, <2>5 DEF waiting
    <3> HIDE DEF K
    <3>3. [i \in K |-> pendingOffers'[i][r]] = [i \in K |-> pendingOffers[i][r]]
      BY <3>1
    <3>4. waiting(r)' = sumOf(pendingOffers, K, r)
      BY <3>1, <3>3 DEF waiting, sumOf
    <3>5. waiting(r)' \in Int
      BY <1>3, AccountsLater
    <3> QED
      BY <2>3, <3>2, <3>4, <3>5
  <2> QED
    BY <2>4, <2>5
<1> QED
  BY <1>3, <1>8, <1>9, <1>10, <1>11, <1>12 DEF EvaluatorInv, OffersInv

LEMMA AddsLess ==
  ASSUME QuotaTypes, NEW less,
         \A r \in Resources :
           /\ less[r] \in Int
           /\ inAll(mOffers, r)' + waiting(r)' <= inAll(mOffers, r) + waiting(r) - less[r]
  PROVE  Adds([r \in Resources |-> - less[r]])
<1> DEFINE change == [r \in Resources |-> - less[r]]
<1>1. \A r \in Resources : change[r] = - less[r] /\ change[r] \in Int
  OBVIOUS
<1>2. \A r \in Resources : inAll(mOffers, r) \in Int /\ waiting(r) \in Int
  BY Accounts
<1> HIDE DEF change
<1>3. Adds(change)
  BY <1>1, <1>2 DEF Adds
<1> QED
  BY <1>3 DEF change

LEMMA MaxFreeStream ==
  ASSUME freeStreams # {}
  PROVE  Max(freeStreams) \in freeStreams
<1>1. \E x \in freeStreams : \A y \in freeStreams : x >= y
  <2> DEFINE T == {NumStreams - x : x \in freeStreams}
  <2>1. NumStreams \in Nat /\ \A x \in freeStreams : NumStreams - x \in Nat /\ x \in Int
    BY QuotaAssumption DEF freeStreams, Streams
  <2>2. T \subseteq Nat /\ T # {}
    BY <2>1
  <2>3. PICK t \in T : \A u \in T : t <= u
    BY <2>2, LeastElement
  <2>4. PICK x \in freeStreams : t = NumStreams - x
    BY <2>3
  <2>5. \A y \in freeStreams : NumStreams - x <= NumStreams - y
    BY <2>3, <2>4
  <2> QED
    BY <2>1, <2>5
<1> QED
  BY <1>1 DEF Max

(* A stream is given its chance. *)
LEMMA EvaluatorIterates ==
  ASSUME EvaluatorInv, Iterate
  PROVE  /\ EvaluatorInv' /\ Adds([r \in Resources |-> - iterationReturns[r]])
         /\ \A r \in Resources : iterationReturns[r] \in Nat
<1>0. UNCHANGED <<pendingOffers, offerConsumers>>
  BY DEF Iterate
<1>1. /\ mOffers \in AllOffers /\ \A i \in Slots : mOffers[i] \in Offer
      /\ mExpiredOffers \subseteq Slots /\ QuotaTypes /\ phase \in [Streams -> {"free", "running", "done"}]
  BY DEF EvaluatorInv, QuotaTypes, AllOffers
<1>2. /\ Aging(mOffers) /\ StillExpired(mOffers, mExpiredOffers) /\ Negative(mOffers)
      /\ RunningSatisfied(mOffers, mExpiredOffers, phase)
  BY DEF EvaluatorInv, OffersInv
<1>3. \A r \in Resources : waiting(r) \in Int /\ inAll(mOffers, r) \in Int /\ waiting(r)' = waiting(r)
  BY <1>0, <1>1, Accounts DEF waiting
<1>4. CASE freeStreams = {}
  <2>1. UNCHANGED <<mOffers, mExpiredOffers, phase>>
    BY <1>4 DEF Iterate, NoFreeStream
  <2>2. \A r \in Resources : iterationReturns[r] = 0
    BY <1>4 DEF iterationReturns, nothing
  <2>3. Adds([r \in Resources |-> - iterationReturns[r]])
    <3>1. \A r \in Resources : inAll(mOffers, r)' = inAll(mOffers, r)
      BY <2>1
    <3> QED
      BY <1>1, <1>3, <2>2, <3>1, AddsLess
  <2> QED
    BY <1>0, <2>1, <2>2, <2>3 DEF EvaluatorInv, QuotaTypes, OffersInv
<1>5. CASE freeStreams # {}
  <2> DEFINE s == Max(freeStreams)
             took == selection(mOffers, s)
             between == select(mOffers, s, took.selected)
             E == mExpiredOffers \cup took.expired
  <2>1. s \in Streams /\ phase[s] = "free"
    <3>1. s \in freeStreams
      BY <1>5, MaxFreeStream
    <3> QED
      BY <3>1 DEF freeStreams
  <2> HIDE DEF s
  <2>2. Selects(took, mOffers, s)
    BY <1>1, Selection
  <2>3. Skip(s, took) \/ Schedule(s, took)
    BY <1>5 DEF Iterate, NoFreeStream, s
  <2>4. iterationReturns = IF took.enough THEN nothing ELSE expiredAmount(mOffers, E)
    BY <1>5 DEF iterationReturns, s
  <2> HIDE DEF took
  <2>5. /\ took.selected \subseteq Slots /\ took.expired \subseteq Slots /\ E \subseteq Slots /\ took.enough \in BOOLEAN
        /\ \A i \in took.selected : usable(mOffers[i], s) /\ ~ isExpired(mOffers[i])
        /\ \A i \in took.expired : usable(mOffers[i], s) /\ isExpired(mOffers[i])
    BY <1>1, <2>2 DEF Selects, Selections
  <2>6. /\ between \in AllOffers /\ HoldsTheSame(between, mOffers)
        /\ \A i \in Slots : /\ between[i].valid = mOffers[i].valid
                            /\ between[i].user = IF i \in took.selected THEN s ELSE mOffers[i].user
                            /\ i \notin took.selected => between[i] = mOffers[i]
    BY <1>1, <2>1, SelectOffers
  <2> HIDE DEF between
  <2>7. /\ \A r \in Resources : inAll(between, r) = inAll(mOffers, r)
        /\ \A i \in Slots : /\ isExpired(between[i]) <=> isExpired(mOffers[i])
                            /\ between[i].sharedMemory = mOffers[i].sharedMemory
                            /\ between[i].timeslices = mOffers[i].timeslices
    BY <1>1, <2>6, HoldsTheSameInAll
  <2>8. \A i \in E : mOffers[i].valid /\ isExpired(mOffers[i])
    BY <1>2, <2>5 DEF StillExpired, usable
  <2>9. \A i \in took.selected : i \notin E /\ mOffers[i].valid /\ mOffers[i].user \in {Nobody, s}
    BY <2>5, <2>8 DEF usable
  <2>10. \A i \in took.expired : mOffers[i].user \in {Nobody, s}
    BY <2>5 DEF usable
  <2>11. Aging(between)
    BY <1>2, <2>6 DEF Aging, HoldsTheSame
  <2>12. Negative(between)
    <3> SUFFICES ASSUME NEW i \in Slots, between[i].sharedMemory < 0 \/ between[i].timeslices < 0
                 PROVE  isExpired(between[i]) /\ (between[i].valid => between[i].user = Nobody)
      BY DEF Negative
    <3>1. isExpired(mOffers[i]) /\ (mOffers[i].valid => mOffers[i].user = Nobody)
      BY <1>2, <2>7 DEF Negative
    <3>2. i \notin took.selected
      BY <2>5, <3>1
    <3> QED
      BY <2>6, <3>1, <3>2
  (* What another stream has kept stays with it. *)
  <2>13. ASSUME NEW u \in Streams, u # s
         PROVE  kept(mOffers, mExpiredOffers, u) = kept(between, E, u)
    <3> SUFFICES ASSUME NEW i \in Slots
                 PROVE  /\ mOffers[i].valid /\ mOffers[i].user = u /\ i \notin mExpiredOffers
                        <=> between[i].valid /\ between[i].user = u /\ i \notin E
      BY DEF kept
    <3>1. CASE i \in took.selected
      BY <2>6, <2>9, <2>13, <3>1, StreamsAreSome
    <3>2. CASE i \in took.expired
      BY <2>5, <2>6, <2>9, <2>10, <2>13, <3>2, StreamsAreSome
    <3>3. CASE i \notin took.selected /\ i \notin took.expired
      BY <2>6, <3>3
    <3> QED
      BY <3>1, <3>2, <3>3
  <2>14. CASE Skip(s, took)
    <3>1. /\ mOffers' = handleExpired(between, E) /\ mExpiredOffers' = {} /\ phase' = phase /\ ~ took.enough
      BY <2>14 DEF Skip, between
    <3>2. /\ mOffers' \in AllOffers
          /\ \A i \in Slots \ E : mOffers'[i] = between[i]
          /\ \A i \in E : /\ ~ mOffers'[i].valid /\ mOffers'[i].user = between[i].user
                          /\ mOffers'[i].age = between[i].age /\ mOffers'[i].runtime = between[i].runtime
          /\ \A r \in Resources : /\ expiredAmount(between, E)[r] \in Nat
                                 /\ inAll(mOffers', r) + expiredAmount(between, E)[r] = inAll(between, r)
      BY <2>5, <2>6, <3>1, ExpireOffers
    <3>3. expiredAmount(between, E) = expiredAmount(mOffers, E)
      <4>1. \A r \in Resources, i \in E : between[i][r] = mOffers[i][r]
        BY <2>5, <2>6 DEF HoldsTheSame
      <4>2. \A r \in Resources : [i \in E |-> positive(between[i][r])] = [i \in E |-> positive(mOffers[i][r])]
        BY <4>1
      <4> HIDE DEF E
      <4> QED
        BY <4>2 DEF expiredAmount
    <3> HIDE DEF E
    <3>4. QuotaTypes'
      BY <1>0, <1>1, <3>1, <3>2 DEF QuotaTypes
    <3>5. Aging(mOffers)' /\ StillExpired(mOffers, mExpiredOffers)'
      <4>1. \A i \in Slots : mOffers'[i].age = between[i].age /\ mOffers'[i].runtime = between[i].runtime
        BY <3>2
      <4> QED
        BY <2>11, <3>1, <4>1 DEF Aging, StillExpired
    <3>6. Negative(mOffers)'
      <4> SUFFICES ASSUME NEW i \in Slots, mOffers'[i].sharedMemory < 0 \/ mOffers'[i].timeslices < 0
                   PROVE  isExpired(mOffers'[i]) /\ (mOffers'[i].valid => mOffers'[i].user = Nobody)
        BY DEF Negative
      <4>1. CASE i \in E
        BY <2>7, <2>8, <3>2, <4>1 DEF isExpired
      <4>2. CASE i \notin E
        BY <2>12, <3>2, <4>2 DEF Negative
      <4> QED
        BY <4>1, <4>2
    <3>7. RunningSatisfied(mOffers, mExpiredOffers, phase)'
      <4> SUFFICES ASSUME NEW u \in Streams, phase[u] # "free"
                   PROVE  Satisfied(mOffers', kept(mOffers', {}, u))
        BY <3>1 DEF RunningSatisfied
      <4> DEFINE K == kept(mOffers, mExpiredOffers, u)
                 M == kept(mOffers', {}, u)
      <4>1. Satisfied(mOffers, K) /\ u # s
        BY <1>2, <2>1 DEF RunningSatisfied
      <4>2. K = kept(between, E, u) /\ K \subseteq Slots
        BY <2>13, <4>1 DEF kept
      <4>3. M \subseteq Slots /\ M = kept(between, E, u)
        BY <3>2 DEF kept
      <4>4. K = M /\ \A i \in K : i \in Slots /\ i \notin E
        BY <4>2, <4>3 DEF kept
      <4> HIDE DEF K, M
      <4>5. \A i \in K, r \in Resources : mOffers[i][r] <= mOffers'[i][r]
        <5>1. \A i \in K, r \in Resources : mOffers'[i] = between[i] /\ between[i][r] = mOffers[i][r] /\ mOffers[i][r] \in Int
          BY <1>1, <2>6, <3>2, <4>4, InAll DEF HoldsTheSame
        <5> QED
          BY <5>1
      <4> QED
        BY <1>1, <3>2, <4>1, <4>3, <4>4, <4>5, StillSatisfied DEF M
    <3>8. ASSUME NEW r \in Resources
          PROVE  /\ iterationReturns[r] \in Nat
                 /\ inAll(mOffers', r) + waiting(r) <= inAll(mOffers, r) + waiting(r) - iterationReturns[r]
      <4>1. iterationReturns[r] = expiredAmount(mOffers, E)[r]
        BY <2>4, <3>1
      <4>2. /\ expiredAmount(mOffers, E)[r] \in Nat
            /\ inAll(mOffers', r) + expiredAmount(mOffers, E)[r] = inAll(mOffers, r)
        BY <2>7, <3>2, <3>3
      <4>3. waiting(r) \in Int /\ inAll(mOffers', r) \in Int /\ inAll(mOffers, r) \in Int
        BY <1>3, <3>2, InAll
      <4> QED
        BY <4>1, <4>2, <4>3
    <3>9. Adds([r \in Resources |-> - iterationReturns[r]])
      <4>1. \A r \in Resources : inAll(mOffers, r)' = inAll(mOffers', r)
        BY DEF inAll
      <4> QED
        BY <1>1, <1>3, <3>8, <4>1, AddsLess
    <3> QED
      BY <3>4, <3>5, <3>6, <3>7, <3>8, <3>9 DEF EvaluatorInv, OffersInv
  <2>15. CASE Schedule(s, took)
    <3>1. /\ mOffers' = between /\ mExpiredOffers' = E /\ phase' = [phase EXCEPT ![s] = "running"] /\ took.enough
      BY <2>15 DEF Schedule, between
    <3>2. QuotaTypes'
      BY <1>0, <1>1, <2>1, <2>5, <2>6, <3>1 DEF QuotaTypes
    <3>3. Aging(mOffers)' /\ Negative(mOffers)'
      BY <2>11, <2>12, <3>1 DEF Aging, Negative
    <3>4. StillExpired(mOffers, mExpiredOffers)'
      <4>1. \A i \in E : between[i].valid /\ isExpired(between[i])
        BY <2>5, <2>6, <2>7, <2>8
      <4> QED
        BY <3>1, <4>1 DEF StillExpired
    <3>5. RunningSatisfied(mOffers, mExpiredOffers, phase)'
      <4> SUFFICES ASSUME NEW u \in Streams, phase'[u] # "free"
                   PROVE  Satisfied(between, kept(between, E, u))
        BY <3>1 DEF RunningSatisfied
      <4> DEFINE M == kept(between, E, u)
      <4>0. M \subseteq Slots
        BY DEF kept
      <4>1. CASE u # s
        <5> DEFINE K == kept(mOffers, mExpiredOffers, u)
        <5>1. Satisfied(mOffers, K)
          BY <1>1, <1>2, <2>1, <3>1, <4>1 DEF RunningSatisfied
        <5>2. K = M
          BY <2>13, <4>1
        <5> HIDE DEF K, M
        <5>3. \A i \in K, r \in Resources : mOffers[i][r] <= between[i][r]
          <6>1. \A i \in K, r \in Resources : between[i][r] = mOffers[i][r] /\ mOffers[i][r] \in Int
            BY <1>1, <2>6, <4>0, <5>2, InAll DEF HoldsTheSame
          <6> QED
            BY <6>1
        <5> QED
          BY <1>1, <2>6, <4>0, <5>1, <5>2, <5>3, StillSatisfied DEF M
      <4>2. CASE u = s
        <5> DEFINE K == took.selected
        <5>1. Satisfied(mOffers, K)
          BY <2>2, <3>1 DEF Selects, Satisfied
        <5>2. K \subseteq M
          BY <2>5, <2>6, <2>9, <4>2 DEF kept
        <5>3. \A i \in M : i \in Slots /\ between[i].valid /\ between[i].user = s
          BY <4>2 DEF kept
        <5> HIDE DEF K, M
        <5>4. \A i \in K, r \in Resources : mOffers[i][r] <= between[i][r]
          <6>1. \A i \in K, r \in Resources : between[i][r] = mOffers[i][r] /\ mOffers[i][r] \in Int
            BY <1>1, <2>6, <4>0, <5>2, InAll DEF HoldsTheSame
          <6> QED
            BY <6>1
        <5>5. \A i \in M \ K, r \in Resources : between[i][r] >= 0
          BY <2>1, <2>6, <2>12, <5>3, OwnedIsPositive, StreamsAreSome
        <5>6. Satisfied(between, M)
          BY <1>1, <2>6, <4>0, <5>1, <5>2, <5>4, <5>5, StillSatisfied
        <5> QED
          BY <5>6 DEF M
      <4> QED
        BY <4>1, <4>2
    <3>6. ASSUME NEW r \in Resources
          PROVE  /\ iterationReturns[r] \in Nat
                 /\ inAll(between, r) + waiting(r) <= inAll(mOffers, r) + waiting(r) - iterationReturns[r]
      <4>1. iterationReturns[r] = 0
        BY <2>4, <3>1 DEF nothing
      <4> QED
        BY <1>3, <2>7, <4>1
    <3>7. Adds([r \in Resources |-> - iterationReturns[r]])
      <4>1. \A r \in Resources : inAll(mOffers, r)' = inAll(between, r)
        BY <3>1 DEF inAll
      <4> QED
        BY <1>1, <1>3, <3>6, <4>1, AddsLess
    <3> QED
      BY <3>2, <3>3, <3>4, <3>5, <3>6, <3>7 DEF EvaluatorInv, OffersInv
  <2> QED
    BY <2>3, <2>14, <2>15
<1> QED
  BY <1>4, <1>5

(* A stream computes, or finds nothing to compute. *)
LEMMA EvaluatorWorks ==
  ASSUME EvaluatorInv, NEW s \in Streams, FindNothing(s) \/ \E bytes \in Payloads : Compute(s, bytes)
  PROVE  EvaluatorInv' /\ Adds(nothing)
<1>1. /\ phase[s] = "running" /\ phase' = [phase EXCEPT ![s] = "done"]
      /\ UNCHANGED <<mOffers, pendingOffers, loop, mExpiredOffers>>
  BY DEF Compute, FindNothing
<1>2. offerConsumers' \in Seq(Consumers)
  <2>1. offerConsumers \in Seq(Consumers)
    BY DEF EvaluatorInv, QuotaTypes
  <2>2. CASE offerConsumers' = offerConsumers
    BY <2>1, <2>2
  <2>3. ASSUME NEW bytes \in Payloads, offerConsumers' = offerConsumers \o consumersOf(bytes)
        PROVE  offerConsumers' \in Seq(Consumers)
    <3>1. bytes \in Nat
      BY QuotaAssumption
    <3>2. /\ [resource |-> "timeslices", amount |-> 1] \in Consumers
          /\ [resource |-> "sharedMemory", amount |-> bytes] \in Consumers
      BY <3>1 DEF Consumers, Resources
    <3>3. consumersOf(bytes) \in Seq(Consumers)
      BY <3>2 DEF consumersOf
    <3> QED
      BY <2>1, <2>3, <3>3
  <2> QED
    BY <2>2, <2>3 DEF Compute, FindNothing
<1>3. /\ phase \in [Streams -> {"free", "running", "done"}]
      /\ \A u \in Streams : phase'[u] # "free" => phase[u] # "free"
  BY <1>1 DEF EvaluatorInv, QuotaTypes
<1>4. QuotaTypes /\ QuotaTypes'
  BY <1>1, <1>2 DEF EvaluatorInv, QuotaTypes
<1>5. OffersInv'
  BY <1>1, <1>3 DEF EvaluatorInv, OffersInv, RunningSatisfied
<1>6. \A r \in Resources : inAll(mOffers, r)' = inAll(mOffers, r) /\ waiting(r)' = waiting(r)
  BY <1>1 DEF waiting
<1> QED
  BY <1>4, <1>5, <1>6, Accounts DEF EvaluatorInv, Adds, nothing

(* A stream completes. *)
LEMMA EvaluatorCompletes ==
  ASSUME EvaluatorInv, NEW s \in Streams, Complete(s)
  PROVE  /\ EvaluatorInv' /\ Adds([r \in Resources |-> - completionConsumes(s)[r] - completionReturns(s)[r]])
         /\ \A r \in Resources : /\ completionConsumes(s)[r] \in Int /\ completionReturns(s)[r] \in Nat
                                /\ inAll(mOffers, r)' <= inAll(consumeAll(mOffers, s).offers, r)
<1> DEFINE took == consumeAll(mOffers, s)
           handled == handleExpired(took.offers, mExpiredOffers)
<1>0. /\ phase' = [phase EXCEPT ![s] = "free"]
      /\ mOffers' = dispose(handled, s)
      /\ offerConsumers' = <<>> /\ mExpiredOffers' = {} /\ pendingOffers' = pendingOffers
      /\ completionConsumes(s) = took.consumed
      /\ completionReturns(s) = expiredAmount(took.offers, mExpiredOffers)
  BY DEF Complete, completionConsumes, completionReturns
<1>1. /\ mOffers \in AllOffers /\ mExpiredOffers \subseteq Slots /\ QuotaTypes
      /\ phase \in [Streams -> {"free", "running", "done"}] /\ offerConsumers \in Seq(Consumers)
  BY DEF EvaluatorInv, QuotaTypes
<1>2. /\ Aging(mOffers) /\ StillExpired(mOffers, mExpiredOffers) /\ Negative(mOffers)
      /\ RunningSatisfied(mOffers, mExpiredOffers, phase)
  BY DEF EvaluatorInv, OffersInv
<1>3. \A r \in Resources : waiting(r) \in Int /\ inAll(mOffers, r) \in Int /\ waiting(r)' = waiting(r)
  BY <1>0, <1>1, Accounts DEF waiting
<1>4. took \in Completing(mOffers, s)
  BY <1>1, ConsumeAllTakes
<1> HIDE DEF took
<1>5. /\ took.offers \in AllOffers /\ took.consumed \in [Resources -> Int]
      /\ TakesFrom(took.offers, mOffers, s)
      /\ \A r \in Resources : inAll(took.offers, r) + took.consumed[r] <= inAll(mOffers, r)
  BY <1>4 DEF Completing
<1>6. /\ handled \in AllOffers
      /\ \A i \in Slots \ mExpiredOffers : handled[i] = took.offers[i]
      /\ \A i \in mExpiredOffers :
           /\ ~ handled[i].valid /\ handled[i].user = took.offers[i].user
           /\ handled[i].age = took.offers[i].age /\ handled[i].runtime = took.offers[i].runtime
      /\ \A r \in Resources :
           /\ expiredAmount(took.offers, mExpiredOffers)[r] \in Nat
           /\ inAll(handled, r) + expiredAmount(took.offers, mExpiredOffers)[r] = inAll(took.offers, r)
  BY <1>1, <1>5, ExpireOffers
<1> HIDE DEF handled
<1>7. /\ mOffers' \in AllOffers /\ HoldsTheSame(mOffers', handled)
      /\ \A i \in Slots : /\ mOffers'[i].valid => handled[i].valid
                          /\ mOffers'[i].user \in {handled[i].user, Nobody}
                          /\ handled[i].user # s => mOffers'[i] = handled[i]
  BY <1>0, <1>6, DisposeOffers
<1>8. /\ \A r \in Resources : inAll(mOffers', r) = inAll(handled, r)
      /\ \A i \in Slots : /\ isExpired(mOffers'[i]) <=> isExpired(handled[i])
                          /\ mOffers'[i].sharedMemory = handled[i].sharedMemory
                          /\ mOffers'[i].timeslices = handled[i].timeslices
  BY <1>6, <1>7, HoldsTheSameInAll
<1>9. \A i \in Slots : /\ handled[i].user = mOffers[i].user
                      /\ handled[i].age = mOffers[i].age /\ handled[i].runtime = mOffers[i].runtime
  <2>1. \A i \in Slots : /\ took.offers[i].user = mOffers[i].user
                        /\ took.offers[i].age = mOffers[i].age /\ took.offers[i].runtime = mOffers[i].runtime
    BY <1>5 DEF TakesFrom
  <2> QED
    BY <1>6, <2>1
<1>10. QuotaTypes'
  BY <1>0, <1>1, <1>7 DEF QuotaTypes
<1>11. Aging(mOffers)' /\ StillExpired(mOffers, mExpiredOffers)'
  <2>1. \A i \in Slots : mOffers'[i].age = mOffers[i].age /\ mOffers'[i].runtime = mOffers[i].runtime
    BY <1>7, <1>9 DEF HoldsTheSame
  <2> QED
    BY <1>0, <1>2, <2>1 DEF Aging, StillExpired
<1>12. Negative(mOffers)'
  <2> SUFFICES ASSUME NEW i \in Slots, mOffers'[i].sharedMemory < 0 \/ mOffers'[i].timeslices < 0
               PROVE  isExpired(mOffers'[i]) /\ (mOffers'[i].valid => mOffers'[i].user = Nobody)
    BY DEF Negative
  <2>1. CASE i \in mExpiredOffers
    <3>1. isExpired(mOffers[i])
      BY <1>2, <2>1 DEF StillExpired
    <3>2. isExpired(mOffers'[i])
      BY <1>8, <1>9, <3>1 DEF isExpired
    <3>3. ~ mOffers'[i].valid
      BY <1>6, <1>7, <2>1
    <3> QED
      BY <3>2, <3>3
  <2>2. CASE i \notin mExpiredOffers
    <3>1. handled[i] = took.offers[i]
      BY <1>6, <2>2
    <3>2. took.offers[i].sharedMemory < 0 \/ took.offers[i].timeslices < 0
      BY <1>8, <3>1
    <3>3. mOffers[i].sharedMemory < 0 \/ mOffers[i].timeslices < 0
      BY <1>5, <3>2 DEF TakesFrom, Resources
    <3>4. isExpired(mOffers[i]) /\ (mOffers[i].valid => mOffers[i].user = Nobody)
      BY <1>2, <3>3 DEF Negative
    <3>5. isExpired(mOffers'[i])
      BY <1>8, <1>9, <3>4 DEF isExpired
    <3>6. ASSUME mOffers'[i].valid PROVE mOffers'[i].user = Nobody
      <4>1. took.offers[i].valid = mOffers[i].valid
        BY <1>5 DEF TakesFrom
      <4>2. handled[i].valid
        BY <1>7, <3>6
      <4>3. mOffers[i].valid
        BY <3>1, <4>1, <4>2
      <4>4. handled[i].user = Nobody
        BY <1>9, <3>4, <4>3
      <4> QED
        BY <1>7, <4>4
    <3> QED
      BY <3>5, <3>6
  <2> QED
    BY <2>1, <2>2
<1>13. RunningSatisfied(mOffers, mExpiredOffers, phase)'
  <2> SUFFICES ASSUME NEW u \in Streams, phase'[u] # "free"
               PROVE  Satisfied(mOffers', kept(mOffers', {}, u))
    BY <1>0 DEF RunningSatisfied
  <2> DEFINE K == kept(mOffers, mExpiredOffers, u)
             M == kept(mOffers', {}, u)
  <2>1. u # s /\ phase[u] # "free"
    BY <1>0, <1>1
  <2>2. Satisfied(mOffers, K)
    BY <1>2, <2>1 DEF RunningSatisfied
  <2>3. ASSUME NEW i \in Slots, mOffers[i].user = u
        PROVE  took.offers[i] = mOffers[i] /\ mOffers'[i] = handled[i]
    BY <1>5, <1>7, <1>9, <2>1, <2>3 DEF TakesFrom
  <2>4. ASSUME NEW i \in K PROVE i \in M /\ mOffers'[i] = mOffers[i]
    <3>1. i \in Slots /\ mOffers[i].valid /\ mOffers[i].user = u /\ i \notin mExpiredOffers
      BY <2>4 DEF kept
    <3>2. mOffers'[i] = mOffers[i]
      BY <1>6, <2>3, <3>1
    <3> QED
      BY <3>1, <3>2 DEF kept
  <2>5. ASSUME NEW i \in M PROVE i \in K
    <3>1. i \in Slots /\ mOffers'[i].valid /\ mOffers'[i].user = u
      BY DEF kept
    <3>2. mOffers[i].user = u
      BY <1>7, <1>9, <3>1, StreamsAreSome
    <3>3. i \notin mExpiredOffers
      BY <1>6, <2>3, <3>1, <3>2
    <3>4. mOffers'[i] = mOffers[i]
      BY <1>6, <2>3, <3>1, <3>2, <3>3
    <3> QED
      BY <3>1, <3>2, <3>3, <3>4 DEF kept
  <2>6. M \subseteq Slots
    BY DEF kept
  <2> HIDE DEF K, M
  <2>7. \A i \in K, r \in Resources : mOffers[i][r] <= mOffers'[i][r]
    <3>1. \A i \in K, r \in Resources : mOffers[i][r] \in Int
      BY <1>1, <2>4, <2>6, InAll
    <3> QED
      BY <2>4, <3>1
  <2>8. Satisfied(mOffers', M)
    BY <1>1, <1>7, <2>2, <2>4, <2>5, <2>6, <2>7, StillSatisfied
  <2> QED
    BY <2>8 DEF M
<1>14. ASSUME NEW r \in Resources
       PROVE  /\ completionConsumes(s)[r] \in Int /\ completionReturns(s)[r] \in Nat
              /\ inAll(mOffers', r) <= inAll(took.offers, r)
              /\ inAll(mOffers', r) + waiting(r)
                   <= inAll(mOffers, r) + waiting(r) + (- completionConsumes(s)[r] - completionReturns(s)[r])
  <2> DEFINE back == expiredAmount(took.offers, mExpiredOffers)[r]
  <2>1. completionConsumes(s)[r] = took.consumed[r] /\ completionReturns(s)[r] = back
    BY <1>0
  <2>2. back \in Nat /\ inAll(mOffers', r) + back = inAll(took.offers, r)
    BY <1>6, <1>8
  <2>3. inAll(took.offers, r) + took.consumed[r] <= inAll(mOffers, r)
    BY <1>5
  <2>4. /\ took.consumed[r] \in Int /\ inAll(took.offers, r) \in Int
        /\ inAll(mOffers', r) \in Int /\ inAll(mOffers, r) \in Int /\ waiting(r) \in Int
    BY <1>3, <1>5, <1>7, InAll
  <2> HIDE DEF back
  <2> QED
    BY <2>1, <2>2, <2>3, <2>4
<1>15. Adds([r \in Resources |-> - completionConsumes(s)[r] - completionReturns(s)[r]])
  <2> DEFINE change == [r \in Resources |-> - completionConsumes(s)[r] - completionReturns(s)[r]]
  <2>1. \A r \in Resources : change[r] = - completionConsumes(s)[r] - completionReturns(s)[r] /\ change[r] \in Int
    BY <1>14
  <2>2. \A r \in Resources : inAll(mOffers, r)' = inAll(mOffers', r)
    BY DEF inAll
  <2> HIDE DEF change
  <2>3. Adds(change)
    BY <1>3, <1>14, <2>1, <2>2 DEF Adds
  <2> QED
    BY <2>3 DEF change
<1> QED
  BY <1>10, <1>11, <1>12, <1>13, <1>14, <1>15 DEF EvaluatorInv, OffersInv, inAll, took

(* What the request covers of a payload. *)
LEMMA Covered ==
  ASSUME NEW bytes \in Nat
  PROVE  /\ covered(bytes) \in Nat /\ covered(bytes) <= bytes /\ covered(bytes) <= requestedSharedMemory
         /\ excess(bytes) \in Nat /\ bytes = covered(bytes) + excess(bytes)
BY QuotaAssumption DEF covered, excess

(* What one computation has created is taken off the offers that let it    *)
(* run, as far as they cover it, if its consumers are the only ones.       *)
LEMMA CompletionIsCharged ==
  ASSUME EvaluatorInv, NEW s \in Streams, phase[s] # "free",
         NEW bytes \in Payloads, offerConsumers = consumersOf(bytes)
  PROVE  inAll(consumeAll(mOffers, s).offers, "sharedMemory")
           <= inAll(mOffers, "sharedMemory") - covered(bytes)
<1> DEFINE m == "sharedMemory"
           slice == [resource |-> "timeslices", amount |-> 1]
           memory == [resource |-> "sharedMemory", amount |-> bytes]
           K == kept(mOffers, mExpiredOffers, s)
<1>1. mOffers \in AllOffers /\ offerConsumers \in Seq(Consumers) /\ Satisfied(mOffers, K)
  BY DEF EvaluatorInv, QuotaTypes, OffersInv, RunningSatisfied
<1>2. /\ bytes \in Nat /\ requestedSharedMemory \in Nat
      /\ covered(bytes) \in Nat /\ covered(bytes) <= bytes /\ covered(bytes) <= requestedSharedMemory
  BY QuotaAssumption, Covered
<1>3. offerConsumers = <<slice, memory>>
  BY DEF consumersOf
<1>4. Len(offerConsumers) = 2 /\ offerConsumers[1] = slice /\ offerConsumers[2] = memory
  BY <1>3
<1>5. slice \in Consumers /\ slice.resource = "timeslices" /\ memory \in Consumers
  BY <1>2 DEF Consumers, Resources
<1>6. PICK g : ConsumersPass(g, mOffers, s)
  BY <1>1, ConsumeAllSteps
<1>7. g[0].offers = mOffers
  BY <1>6 DEF ConsumersPass
<1>8. g[1] = applied(g[0], s, slice) /\ g[2] = applied(g[1], s, memory) /\ consumeAll(mOffers, s) = g[2]
  <2>1. \A n \in 0 .. 2 - 1 : g[n + 1] = applied(g[n], s, offerConsumers[n + 1])
    BY <1>4, <1>6 DEF ConsumersPass
  <2>2. 0 \in 0 .. 2 - 1 /\ 1 \in 0 .. 2 - 1 /\ 0 + 1 = 1 /\ 1 + 1 = 2
    OBVIOUS
  <2>3. g[1] = applied(g[0], s, offerConsumers[1]) /\ g[2] = applied(g[1], s, offerConsumers[2])
    BY <2>1, <2>2
  <2>4. consumeAll(mOffers, s) = g[2]
    BY <1>4, <1>6 DEF ConsumersPass
  <2> HIDE DEF slice, memory
  <2> QED
    BY <1>4, <2>3, <2>4
<1> DEFINE first == consume(mOffers, s, slice)
           second == consume(first.offers, s, memory)
<1>9. g[1].offers = first.offers /\ g[2].offers = second.offers
  <2> HIDE DEF slice, memory
  <2>1. g[1].offers = consume(g[0].offers, s, slice).offers
    BY <1>8 DEF applied
  <2>2. g[2].offers = consume(g[1].offers, s, memory).offers
    BY <1>8 DEF applied
  <2> QED
    BY <1>7, <2>1, <2>2
<1>10. m \in Resources /\ m # "timeslices"
  BY DEF Resources
<1>11. /\ first.offers \in AllOffers
       /\ \A i \in Slots : first.offers[i].user = mOffers[i].user
       /\ \A i \in Slots : first.offers[i][m] = mOffers[i][m]
  <2> HIDE DEF slice, m
  <2>1. first \in Consuming(mOffers, s, "timeslices")
    BY <1>1, <1>5, ConsumeTakes
  <2>2. \A i \in Slots, q \in Resources : q # slice.resource => first.offers[i][q] = mOffers[i][q]
    BY <1>1, <1>5, ConsumeCharges
  <2> HIDE DEF first
  <2>3. first.offers \in AllOffers /\ TakesFrom(first.offers, mOffers, s)
    BY <2>1 DEF Consuming
  <2> QED
    BY <1>5, <1>10, <2>2, <2>3 DEF TakesFrom
<1> HIDE DEF slice
<1>12. K \subseteq Slots /\ \A i \in K : mOffers[i].user = s
  BY DEF kept
<1>13. requestedSharedMemory <= sumOf(mOffers, K, m) /\ sumOf(mOffers, K, m) \in Int
  BY <1>1, <1>10, <1>12, SumOf DEF Satisfied
<1> HIDE DEF K, first
<1>14. sumOf(first.offers, K, m) = sumOf(mOffers, K, m)
  <2>1. [i \in K |-> first.offers[i][m]] = [i \in K |-> mOffers[i][m]]
    BY <1>11, <1>12
  <2> QED
    BY <2>1 DEF sumOf
<1>15. covered(bytes) <= sumOf(first.offers, K, m) /\ \A i \in K : first.offers[i].user = s
  BY <1>2, <1>11, <1>12, <1>13, <1>14
<1>16. inAll(second.offers, m) <= inAll(first.offers, m) - covered(bytes)
  BY <1>2, <1>11, <1>12, <1>15, ConsumeIsCharged
<1>17. inAll(first.offers, m) = inAll(mOffers, m)
  BY <1>1, <1>10, <1>11, InAllSame
<1> QED
  BY <1>8, <1>9, <1>16, <1>17

(* What the driver gave stays enough. *)
LEMMA StillAccounted ==
  ASSUME QuotaInv, EvaluatorInv', NEW change, Adds(change), given' \in [Resources -> Int],
         \A r \in Resources : given'[r] = given[r] + change[r]
  PROVE  QuotaInv'
<1> SUFFICES ASSUME NEW r \in Resources PROVE inAll(mOffers, r)' + waiting(r)' <= given'[r]
  BY DEF QuotaInv, Accounted
<1>1. /\ change[r] \in Int
      /\ inAll(mOffers, r)' + waiting(r)' <= inAll(mOffers, r) + waiting(r) + change[r]
  BY DEF Adds
<1>2. inAll(mOffers, r) \in Int /\ waiting(r) \in Int
  BY Accounts DEF QuotaInv, EvaluatorInv
<1>3. inAll(mOffers, r)' \in Int /\ waiting(r)' \in Int
  BY AccountsLater DEF EvaluatorInv
<1>4. given[r] \in Int /\ inAll(mOffers, r) + waiting(r) <= given[r]
  BY DEF QuotaInv, Accounted
<1> QED
  BY <1>1, <1>2, <1>3, <1>4

LEMMA QuotaInit == Init => QuotaInv
<1> SUFFICES ASSUME Init PROVE QuotaInv
  OBVIOUS
<1>1. EvaluatorInv /\ \A r \in Resources : inAll(mOffers, r) = 0 /\ waiting(r) = 0
  BY EvaluatorInit DEF Init
<1>2. given \in [Resources -> Int] /\ \A r \in Resources : given[r] = 0
  BY DEF Init, nothing
<1> QED
  BY <1>1, <1>2 DEF QuotaInv, Accounted

LEMMA QuotaReceive ==
  ASSUME QuotaInv, NEW offer \in Fresh, ReceiveOffer(offer)
  PROVE  QuotaInv'
<1> DEFINE change == [r \in Resources |-> offer[r]]
<1>1. EvaluatorInv' /\ Adds(change)
  BY EvaluatorReceives DEF QuotaInv, ReceiveOffer
<1>2. \A r \in Resources : given[r] \in Int /\ offer[r] \in Int
  BY Amount DEF QuotaInv, Accounted, Fresh
<1>3. given' \in [Resources -> Int] /\ \A r \in Resources : given'[r] = given[r] + change[r]
  BY <1>2 DEF ReceiveOffer
<1> HIDE DEF change
<1> QED
  BY <1>1, <1>3, StillAccounted

LEMMA QuotaSignal ==
  ASSUME QuotaInv, ReceiveSignal
  PROVE  QuotaInv'
<1> DEFINE change == [r \in Resources |-> IF r = "sharedMemory" THEN SignalledMemory ELSE 0]
<1>1. EvaluatorInv' /\ Adds(change)
  BY EvaluatorSignalled DEF QuotaInv, ReceiveSignal
<1>2. given \in [Resources -> Int] /\ SignalledMemory \in Int
  BY DeviceAssumption DEF QuotaInv, Accounted
<1>3. given' = [given EXCEPT !["sharedMemory"] = @ + SignalledMemory]
  BY DEF ReceiveSignal
<1>4. \A r \in Resources : given'[r] = given[r] + change[r]
  BY <1>2, <1>3 DEF Resources
<1>5. given' \in [Resources -> Int]
  BY <1>2, <1>3 DEF Resources
<1> HIDE DEF change
<1> QED
  BY <1>1, <1>4, <1>5, StillAccounted

(* The driver neither gives nor gets back anything. *)
LEMMA QuotaAlone ==
  ASSUME QuotaInv, EvaluatorInv', Adds(nothing), given' = given
  PROVE  QuotaInv'
<1>1. given' \in [Resources -> Int] /\ \A r \in Resources : given'[r] = given[r] + nothing[r]
  BY DEF QuotaInv, Accounted, nothing
<1> QED
  BY <1>1, StillAccounted

LEMMA QuotaSchedule ==
  ASSUME QuotaInv, LoopSchedules
  PROVE  QuotaInv'
<1> DEFINE change == [r \in Resources |-> - iterationReturns[r]]
<1>1. EvaluatorInv' /\ Adds(change)
  BY EvaluatorIterates DEF QuotaInv, LoopSchedules
<1>2. \A r \in Resources : given[r] \in Int /\ iterationReturns[r] \in Int
  BY EvaluatorIterates DEF QuotaInv, LoopSchedules, Accounted
<1>3. given' \in [Resources -> Int] /\ \A r \in Resources : given'[r] = given[r] + change[r]
  BY <1>2 DEF LoopSchedules
<1> HIDE DEF change
<1> QED
  BY <1>1, <1>3, StillAccounted

LEMMA QuotaComplete ==
  ASSUME QuotaInv, NEW s \in Streams, StreamCompletes(s)
  PROVE  QuotaInv'
<1> DEFINE change == [r \in Resources |-> - completionConsumes(s)[r] - completionReturns(s)[r]]
<1>1. EvaluatorInv' /\ Adds(change)
  BY EvaluatorCompletes DEF QuotaInv, StreamCompletes
<1>2. \A r \in Resources : /\ given[r] \in Int
                          /\ completionConsumes(s)[r] \in Int /\ completionReturns(s)[r] \in Nat
  BY EvaluatorCompletes DEF QuotaInv, StreamCompletes, Accounted
<1>3. given' \in [Resources -> Int] /\ \A r \in Resources : given'[r] = given[r] + change[r]
  BY <1>2 DEF StreamCompletes
<1> HIDE DEF change
<1> QED
  BY <1>1, <1>3, StillAccounted

LEMMA QuotaNext == QuotaInv /\ [Next]_vars => QuotaInv'
<1> SUFFICES ASSUME QuotaInv, [Next]_vars PROVE QuotaInv'
  OBVIOUS
<1>0. EvaluatorInv
  BY DEF QuotaInv
<1>1. CASE ReceiveSharedMemory
  <2>1. PICK bytes \in OfferSizes : ReceiveOffer(newOffer(bytes, 0))
    BY <1>1 DEF ReceiveSharedMemory
  <2>2. newOffer(bytes, 0) \in Fresh
    BY DeviceAssumption, QuotaAssumption DEF newOffer, Fresh, Offer
  <2> QED
    BY <2>1, <2>2, QuotaReceive
<1>2. CASE ReceiveTimeslice
  <2>1. newOffer(0, 1) \in Fresh
    BY QuotaAssumption DEF newOffer, Fresh, Offer
  <2> QED
    BY <1>2, <2>1, QuotaReceive DEF ReceiveTimeslice
<1>3. CASE ReceiveSignal
  BY <1>3, QuotaSignal
<1>4. CASE TimePasses
  BY <1>0, <1>4, EvaluatorAges, QuotaAlone DEF TimePasses
<1>5. CASE LoopStores
  BY <1>0, <1>5, EvaluatorStores, QuotaAlone DEF LoopStores
<1>6. CASE LoopSchedules
  BY <1>6, QuotaSchedule
<1>7. ASSUME NEW s \in Streams, StreamWorks(s) PROVE QuotaInv'
  <2>1. EvaluatorInv' /\ Adds(nothing)
    BY <1>0, <1>7, EvaluatorWorks DEF StreamWorks
  <2> QED
    BY <1>7, <2>1, QuotaAlone DEF StreamWorks
<1>8. ASSUME NEW s \in Streams, StreamCompletes(s) PROVE QuotaInv'
  BY <1>8, QuotaComplete
<1>9. CASE UNCHANGED vars
  <2>1. UNCHANGED <<mOffers, pendingOffers, mExpiredOffers, phase, offerConsumers, given>>
    BY <1>9 DEF vars, quotaVars
  <2> QED
    BY <2>1 DEF QuotaInv, EvaluatorInv, QuotaTypes, OffersInv, Accounted, waiting
<1> QED
  BY <1>1, <1>2, <1>3, <1>4, <1>5, <1>6, <1>7, <1>8, <1>9 DEF Next

(* The valid offers hold at most what all hold. *)
LEMMA HeldInAll ==
  ASSUME QuotaTypes, NEW r \in Resources
  PROVE  held(r) \in Int /\ held(r) <= inAll(mOffers, r)
<1> DEFINE f == [i \in Slots |-> IF mOffers[i].valid THEN positive(mOffers[i][r]) ELSE 0]
           g == amounts(mOffers, r)
<1>1. mOffers \in AllOffers
  BY DEF QuotaTypes
<1>2. held(r) = SumFunctionOnSet(f, Slots)
  BY DEF held, SumFunction
<1>3. \A i \in Slots : f[i] \in Int /\ g[i] \in Int /\ f[i] <= g[i]
  <2>1. \A i \in Slots : g[i] \in Nat /\ g[i] = positive(mOffers[i][r])
    BY <1>1, InAll DEF amounts
  <2> QED
    BY <2>1
<1> HIDE DEF f, g
<1>4. SumFunctionOnSet(f, Slots) <= SumFunctionOnSet(g, Slots) /\ SumFunctionOnSet(f, Slots) \in Int
  BY <1>3, SlotsFinite, SumMonotone, SumType
<1>5. inAll(mOffers, r) = SumFunctionOnSet(g, Slots)
  BY <1>1, InAll DEF g
<1> QED
  BY <1>2, <1>4, <1>5

(* What the invariant says of the offers that are valid. *)
LEMMA QuotaIsCovered == QuotaInv => NoResourceInvented
<1> SUFFICES ASSUME QuotaInv, NEW r \in Resources PROVE held(r) + waiting(r) <= given[r]
  BY DEF NoResourceInvented
<1>1. QuotaTypes
  BY DEF QuotaInv, EvaluatorInv
<1>2. held(r) \in Int /\ held(r) <= inAll(mOffers, r) /\ inAll(mOffers, r) \in Int /\ waiting(r) \in Int
  BY <1>1, HeldInAll, Accounts
<1>3. given[r] \in Int /\ inAll(mOffers, r) + waiting(r) <= given[r]
  BY DEF QuotaInv, Accounted
<1> QED
  BY <1>2, <1>3

LEMMA QuotaIsOwned == QuotaInv => RunningOwnsEnough
<1> SUFFICES ASSUME QuotaInv, NEW s \in Streams, phase[s] # "free"
             PROVE  Satisfied(mOffers, {i \in Slots : mOffers[i].valid /\ mOffers[i].user = s})
  BY DEF RunningOwnsEnough, Satisfied
<1> DEFINE M == {i \in Slots : mOffers[i].valid /\ mOffers[i].user = s}
           K == kept(mOffers, mExpiredOffers, s)
<1>1. mOffers \in AllOffers /\ Negative(mOffers) /\ Satisfied(mOffers, K)
  BY DEF QuotaInv, EvaluatorInv, QuotaTypes, OffersInv, RunningSatisfied
<1>2. K \subseteq M /\ M \subseteq Slots
  BY DEF kept
<1>3. \A i \in M, r \in Resources : mOffers[i][r] >= 0
  BY <1>1, OwnedIsPositive, StreamsAreSome
<1> HIDE DEF M, K
<1>4. \A i \in K, r \in Resources : mOffers[i][r] <= mOffers[i][r]
  <2>1. \A i \in K, r \in Resources : mOffers[i][r] \in Int
    BY <1>1, <1>2, InAll
  <2> QED
    BY <2>1
<1>5. Satisfied(mOffers, M)
  BY <1>1, <1>2, <1>3, <1>4, StillSatisfied
<1> QED
  BY <1>5 DEF M

(***************************************************************************)
(* The evaluator of a device, whatever the number of offers and streams,   *)
(* never holds more than the driver gave and has not got back: selecting,  *)
(* adding, consuming and expiring offers invent nothing.                   *)
(***************************************************************************)
THEOREM QuotaInventsNothing == Spec => []NoResourceInvented
BY QuotaInit, QuotaNext, QuotaIsCovered, PTL DEF Spec

(***************************************************************************)
(* A stream that was let run by selectOffer() has offers that satisfy the  *)
(* request until it completes, whatever the other streams do.              *)
(***************************************************************************)
THEOREM QuotaIsKept == Spec => []RunningOwnsEnough
BY QuotaInit, QuotaNext, QuotaIsOwned, PTL DEF Spec
-------------------------------------------------------------------------------
(***************************************************************************)
(* Sums along a list.                                                      *)
(***************************************************************************)
upTo(f, n) == SumFunctionOnSet(f, 1 .. n)

LEMMA UpToNone ==
  ASSUME NEW f
  PROVE  upTo(f, 0) = 0
<1>1. 1 .. 0 = {}
  OBVIOUS
<1> QED
  BY <1>1, SumOfNone DEF upTo

LEMMA UpToType ==
  ASSUME NEW n \in Nat, NEW f, \A i \in 1 .. n : f[i] \in Int
  PROVE  upTo(f, n) \in Int
<1>1. IsFiniteSet(1 .. n)
  BY FS_Interval
<1> QED
  BY <1>1, SumType DEF upTo

LEMMA UpToSame ==
  ASSUME NEW n \in Nat, NEW f, NEW g, \A i \in 1 .. n : f[i] \in Int /\ f[i] = g[i]
  PROVE  upTo(f, n) = upTo(g, n)
<1>1. IsFiniteSet(1 .. n)
  BY FS_Interval
<1> QED
  BY <1>1, SumSame DEF upTo

LEMMA UpToZeros ==
  ASSUME NEW n \in Nat, NEW f, \A i \in 1 .. n : f[i] = 0
  PROVE  upTo(f, n) = 0
<1>1. IsFiniteSet(1 .. n)
  BY FS_Interval
<1> QED
  BY <1>1, SumOfZeros DEF upTo

LEMMA UpToPositive ==
  ASSUME NEW n \in Nat, NEW f, \A i \in 1 .. n : f[i] \in Nat
  PROVE  upTo(f, n) \in Nat
<1> DEFINE zero == [i \in 1 .. n |-> 0]
<1>1. IsFiniteSet(1 .. n)
  BY FS_Interval
<1>2. upTo(zero, n) = 0
  BY UpToZeros
<1>3. \A i \in 1 .. n : zero[i] \in Int /\ f[i] \in Int /\ zero[i] <= f[i]
  OBVIOUS
<1> HIDE DEF zero
<1>4. upTo(zero, n) <= upTo(f, n)
  BY <1>1, <1>3, SumMonotone DEF upTo
<1>5. upTo(f, n) \in Int
  BY <1>3, UpToType
<1> QED
  BY <1>2, <1>4, <1>5

LEMMA UpToNext ==
  ASSUME NEW n \in Nat, NEW f, \A i \in 1 .. n + 1 : f[i] \in Int
  PROVE  upTo(f, n + 1) = upTo(f, n) + f[n + 1]
<1>1. IsFiniteSet(1 .. n)
  BY FS_Interval
<1>2. 1 .. n + 1 = (1 .. n) \cup {n + 1} /\ n + 1 \notin 1 .. n
  OBVIOUS
<1>3. SumFunctionOnSet(f, (1 .. n) \cup {n + 1}) = SumFunctionOnSet(f, 1 .. n) + f[n + 1]
  <2> DEFINE S == 1 .. n
             e == n + 1
  <2>1. IsFiniteSet(S) /\ e \notin S /\ \A i \in S \cup {e} : f[i] \in Int
    BY <1>1, <1>2
  <2> HIDE DEF S, e
  <2>2. SumFunctionOnSet(f, S \cup {e}) = SumFunctionOnSet(f, S) + f[e]
    BY <2>1, SumWith
  <2> QED
    BY <2>2 DEF S, e
<1> QED
  BY <1>2, <1>3 DEF upTo

(* What is left of a list when its first k elements are taken off. *)
Rest(g, f, k, N) ==
  /\ \A i \in 1 .. N + k : f[i] \in Int
  /\ \A i \in 1 .. N : g[i] = f[i + k]

LEMMA UpToRest ==
  ASSUME NEW k \in Nat, NEW N \in Nat, NEW f, NEW g, Rest(g, f, k, N)
  PROVE  \A n \in 0 .. N : upTo(g, n) = upTo(f, n + k) - upTo(f, k)
<1> USE DEF Rest
<1> DEFINE W == {n \in 0 .. N : upTo(g, n) = upTo(f, n + k) - upTo(f, k)}
<1>0. \A n \in 0 .. N : upTo(f, n + k) \in Int /\ upTo(f, k) \in Int
  BY UpToType
<1>1. 0 \in W
  BY <1>0, UpToNone
<1>2. ASSUME NEW n \in 0 .. N - 1, n \in W PROVE n + 1 \in W
  <2>1. n \in Nat /\ n + 1 \in 0 .. N /\ n + k \in Nat /\ (n + k) + 1 = (n + 1) + k
    OBVIOUS
  <2>2. \A i \in 1 .. n + 1 : g[i] \in Int
    OBVIOUS
  <2>3. upTo(g, n + 1) = upTo(g, n) + g[n + 1]
    BY <2>1, <2>2, UpToNext
  <2>4. \A i \in 1 .. (n + k) + 1 : f[i] \in Int
    OBVIOUS
  <2>5. upTo(f, (n + k) + 1) = upTo(f, n + k) + f[(n + k) + 1]
    BY <2>1, <2>4, UpToNext
  <2>6. g[n + 1] = f[(n + k) + 1] /\ g[n + 1] \in Int
    BY <2>1, <2>2
  <2>7. upTo(g, n) = upTo(f, n + k) - upTo(f, k)
    BY <1>2
  <2>8. upTo(f, n + k) \in Int /\ upTo(f, k) \in Int
    BY <1>0
  <2>9. upTo(g, n + 1) = upTo(f, (n + 1) + k) - upTo(f, k)
    BY <2>1, <2>3, <2>5, <2>6, <2>7, <2>8
  <2> QED
    BY <2>1, <2>9
<1>3. 0 .. N \subseteq W
  <2> HIDE DEF W
  <2> QED
    BY <1>1, <1>2, IntervalInduct
<1> QED
  BY <1>3

LEMMA UpToAppended ==
  ASSUME NEW N \in Nat, NEW f, NEW g, \A i \in 1 .. N : f[i] \in Int /\ g[i] = f[i],
         g[N + 1] \in Int
  PROVE  upTo(g, N + 1) = upTo(f, N) + g[N + 1]
<1>1. upTo(f, N) = upTo(g, N)
  BY UpToSame
<1>2. \A i \in 1 .. N + 1 : g[i] \in Int
  OBVIOUS
<1>3. upTo(g, N + 1) = upTo(g, N) + g[N + 1]
  BY <1>2, UpToNext
<1> QED
  BY <1>1, <1>3

LEMMA UpToTail ==
  ASSUME NEW N \in Nat, NEW f, NEW g, \A i \in 1 .. N + 1 : f[i] \in Int,
         \A i \in 1 .. N : g[i] = f[i + 1]
  PROVE  upTo(g, N) = upTo(f, N + 1) - f[1]
<1>1. N \in 0 .. N /\ 1 \in Nat
  OBVIOUS
<1>2. upTo(g, N) = upTo(f, N + 1) - upTo(f, 1)
  <2>0. Rest(g, f, 1, N)
    BY DEF Rest
  <2>1. \A n \in 0 .. N : upTo(g, n) = upTo(f, n + 1) - upTo(f, 1)
    BY <1>1, <2>0, UpToRest
  <2> QED
    BY <1>1, <2>1
<1>3. upTo(f, 0 + 1) = upTo(f, 0) + f[0 + 1]
  <2>1. 0 \in Nat /\ \A i \in 1 .. 0 + 1 : f[i] \in Int
    OBVIOUS
  <2> QED
    BY <2>1, UpToNext
<1>4. upTo(f, 0) = 0 /\ f[1] \in Int /\ 0 + 1 = 1
  BY UpToNone
<1> QED
  BY <1>2, <1>3, <1>4

(* The metrics of the reader, the tasks and the sink, and what the first   *)
(* n of them say about the shared memory.                                  *)
Amounts == [Resources -> Int]

Metrics == [returned : Amounts, disposed : Amounts, acquired : Amounts]

Fields == {"returned", "disposed", "acquired"}

column(q, field, r) == [j \in 1 .. Len(q) |-> q[j][field][r]]

sums(q, field, n) == upTo(column(q, field, "sharedMemory"), n)

LEMMA Columns ==
  ASSUME NEW q \in Seq(Metrics), NEW field \in Fields, NEW r \in Resources
  PROVE  /\ Len(q) \in Nat
         /\ \A j \in 1 .. Len(q) : /\ q[j] \in Metrics /\ q[j][field][r] \in Int
                                   /\ column(q, field, r)[j] = q[j][field][r]
         /\ total(q, field, r) \in Int
         /\ total(q, field, r) = upTo(column(q, field, r), Len(q))
<1>1. Len(q) \in Nat /\ \A j \in 1 .. Len(q) : q[j] \in Metrics
  OBVIOUS
<1>2. \A m \in Metrics : m[field][r] \in Int
  BY DEF Metrics, Fields, Amounts
<1>3. \A j \in 1 .. Len(q) : q[j][field][r] \in Int /\ column(q, field, r)[j] = q[j][field][r]
  BY <1>1, <1>2 DEF column
<1>4. total(q, field, r) = upTo(column(q, field, r), Len(q))
  BY DEF total, column, upTo
<1>5. upTo(column(q, field, r), Len(q)) \in Int
  BY <1>1, <1>3, UpToType
<1> QED
  BY <1>1, <1>3, <1>4, <1>5

LEMMA Memory == "sharedMemory" \in Resources /\ "timeslices" \in Resources
BY DEF Resources

LEMMA SumsType ==
  ASSUME NEW q \in Seq(Metrics), NEW field \in Fields
  PROVE  /\ Len(q) \in Nat
         /\ sums(q, field, 0) = 0
         /\ \A n \in 0 .. Len(q) : sums(q, field, n) \in Int
         /\ total(q, field, "sharedMemory") = sums(q, field, Len(q))
<1> DEFINE f == column(q, field, "sharedMemory")
<1>1. /\ Len(q) \in Nat
      /\ \A j \in 1 .. Len(q) : f[j] \in Int
      /\ total(q, field, "sharedMemory") = upTo(f, Len(q))
  BY Memory, Columns
<1> HIDE DEF f
<1>2. \A n \in 0 .. Len(q) : upTo(f, n) \in Int
  BY <1>1, UpToType
<1>3. upTo(f, 0) = 0
  BY UpToNone
<1> QED
  BY <1>1, <1>2, <1>3 DEF sums, f

LEMMA SumsAppended ==
  ASSUME NEW q \in Seq(Metrics), NEW m \in Metrics
  PROVE  /\ Append(q, m) \in Seq(Metrics) /\ Len(Append(q, m)) = Len(q) + 1
         /\ \A field \in Fields :
              /\ \A n \in 0 .. Len(q) : sums(Append(q, m), field, n) = sums(q, field, n)
              /\ sums(Append(q, m), field, Len(q) + 1) = sums(q, field, Len(q)) + m[field]["sharedMemory"]
<1> DEFINE N == Len(q)
           p == Append(q, m)
<1>1. p \in Seq(Metrics) /\ Len(p) = N + 1 /\ N \in Nat
  OBVIOUS
<1>2. \A j \in 1 .. N : p[j] = q[j]
  OBVIOUS
<1>3. p[N + 1] = m
  OBVIOUS
<1> HIDE DEF p, N
<1>4. ASSUME NEW field \in Fields
      PROVE  /\ \A n \in 0 .. N : sums(p, field, n) = sums(q, field, n)
             /\ sums(p, field, N + 1) = sums(q, field, N) + m[field]["sharedMemory"]
  <2> DEFINE f == column(q, field, "sharedMemory")
             g == column(p, field, "sharedMemory")
  <2>1. \A j \in 1 .. N : f[j] \in Int /\ f[j] = q[j][field]["sharedMemory"]
    BY Memory, Columns DEF N
  <2>2. \A j \in 1 .. N + 1 : g[j] \in Int /\ g[j] = p[j][field]["sharedMemory"]
    <3>0. p \in Seq(Metrics)
      BY <1>1
    <3>1. \A j \in 1 .. Len(p) : g[j] \in Int /\ g[j] = p[j][field]["sharedMemory"]
      BY <3>0, Memory, Columns
    <3> QED
      BY <1>1, <3>1
  <2> HIDE DEF f, g
  <2>3. \A j \in 1 .. N : f[j] \in Int /\ g[j] = f[j] /\ f[j] = g[j]
    BY <1>1, <1>2, <2>1, <2>2
  <2>4. N + 1 \in 1 .. N + 1
    BY <1>1
  <2>5. g[N + 1] \in Int /\ g[N + 1] = m[field]["sharedMemory"]
    BY <1>3, <2>2, <2>4
  <2>6. upTo(g, N + 1) = upTo(f, N) + g[N + 1]
    BY <1>1, <2>3, <2>5, UpToAppended
  <2>7. ASSUME NEW n \in 0 .. N PROVE upTo(g, n) = upTo(f, n)
    <3>1. n \in Nat /\ \A j \in 1 .. n : f[j] \in Int /\ f[j] = g[j]
      BY <1>1, <2>3
    <3> QED
      BY <3>1, UpToSame
  <2> QED
    BY <2>5, <2>6, <2>7 DEF sums, f, g
<1> QED
  BY <1>1, <1>4 DEF p, N

LEMMA SumsTaken ==
  ASSUME NEW q \in Seq(Metrics), NEW k \in 0 .. Len(q)
  PROVE  LET first == SubSeq(q, 1, k)
             rest == SubSeq(q, k + 1, Len(q)) IN
         /\ first \in Seq(Metrics) /\ rest \in Seq(Metrics) /\ Len(rest) = Len(q) - k
         /\ \A field \in Fields :
              /\ total(first, field, "sharedMemory") = sums(q, field, k)
              /\ \A n \in 0 .. Len(q) - k : sums(rest, field, n) = sums(q, field, n + k) - sums(q, field, k)
<1> DEFINE N == Len(q)
           first == SubSeq(q, 1, k)
           rest == SubSeq(q, k + 1, N)
<1>0. N \in Nat /\ k \in Nat /\ k <= N /\ N - k \in Nat
  OBVIOUS
<1>1. first \in Seq(Metrics) /\ Len(first) = k /\ \A j \in 1 .. k : first[j] = q[j]
  OBVIOUS
<1>2. rest \in Seq(Metrics) /\ Len(rest) = N - k /\ \A j \in 1 .. N - k : rest[j] = q[j + k]
  OBVIOUS
<1>3. \A j \in 1 .. k : j \in 1 .. N
  BY <1>0
<1>4. (N - k) + k = N
  BY <1>0
<1> HIDE DEF first, rest, N
<1>5. ASSUME NEW field \in Fields
      PROVE  /\ total(first, field, "sharedMemory") = sums(q, field, k)
             /\ \A n \in 0 .. N - k : sums(rest, field, n) = sums(q, field, n + k) - sums(q, field, k)
  <2> DEFINE f == column(q, field, "sharedMemory")
             g == column(rest, field, "sharedMemory")
             h == column(first, field, "sharedMemory")
  <2>1. \A j \in 1 .. N : f[j] \in Int /\ f[j] = q[j][field]["sharedMemory"]
    BY Memory, Columns DEF N
  <2>2. \A j \in 1 .. N - k : g[j] \in Int /\ g[j] = rest[j][field]["sharedMemory"]
    BY <1>2, Memory, Columns
  <2>3. /\ \A j \in 1 .. k : h[j] \in Int /\ h[j] = first[j][field]["sharedMemory"]
        /\ total(first, field, "sharedMemory") = upTo(h, k)
    <3>0. first \in Seq(Metrics)
      BY <1>1
    <3>1. /\ \A j \in 1 .. Len(first) : h[j] \in Int /\ h[j] = first[j][field]["sharedMemory"]
          /\ total(first, field, "sharedMemory") = upTo(h, Len(first))
      BY <3>0, Memory, Columns
    <3> QED
      BY <1>1, <3>1
  <2> HIDE DEF f, g, h
  <2>4. \A j \in 1 .. k : h[j] \in Int /\ h[j] = f[j]
    BY <1>1, <1>3, <2>1, <2>3
  <2>5. upTo(h, k) = upTo(f, k)
    BY <1>0, <2>4, UpToSame
  <2>6. \A j \in 1 .. N - k : g[j] = f[j + k]
    <3>1. \A j \in 1 .. N - k : j + k \in 1 .. N
      BY <1>0
    <3> QED
      BY <1>2, <2>1, <2>2, <3>1
  <2>7. \A j \in 1 .. (N - k) + k : f[j] \in Int
    BY <1>4, <2>1
  <2>8. \A n \in 0 .. N - k : upTo(g, n) = upTo(f, n + k) - upTo(f, k)
    <3> DEFINE L == N - k
    <3>1. L \in Nat
      BY <1>0
    <3> HIDE DEF L
    <3>2. /\ \A j \in 1 .. L + k : f[j] \in Int
          /\ \A j \in 1 .. L : g[j] = f[j + k]
      BY <2>6, <2>7 DEF L
    <3>3. Rest(g, f, k, L)
      BY <3>2 DEF Rest
    <3>4. \A n \in 0 .. L : upTo(g, n) = upTo(f, n + k) - upTo(f, k)
      BY <1>0, <3>1, <3>3, UpToRest
    <3> QED
      BY <3>4 DEF L
  <2> QED
    BY <2>3, <2>5, <2>8 DEF sums, f, g
<1> QED
  BY <1>1, <1>2, <1>5 DEF first, rest, N

(* What the first n of them acquired, as far as the request covers it. *)
coverage(q) == [j \in 1 .. Len(q) |-> covered(q[j].acquired["sharedMemory"])]

within(q, n) == upTo(coverage(q), n)

LEMMA Coverage ==
  ASSUME NEW q \in Seq(Metrics)
  PROVE  /\ Len(q) \in Nat
         /\ \A j \in 1 .. Len(q) : /\ coverage(q)[j] = covered(q[j].acquired["sharedMemory"])
                                   /\ coverage(q)[j] \in Int
         /\ within(q, 0) = 0
         /\ \A n \in 0 .. Len(q) : within(q, n) \in Int
<1> DEFINE f == coverage(q)
<1>1. Len(q) \in Nat /\ \A j \in 1 .. Len(q) : q[j] \in Metrics
  OBVIOUS
<1>2. \A m \in Metrics : m.acquired["sharedMemory"] \in Int
  BY Memory DEF Metrics, Amounts
<1>3. \A j \in 1 .. Len(q) : q[j].acquired["sharedMemory"] \in Int
  BY <1>1, <1>2
<1>4. \A j \in 1 .. Len(q) : f[j] = covered(q[j].acquired["sharedMemory"])
  BY DEF coverage
<1>5. \A b \in Int : covered(b) \in Int
  BY QuotaAssumption DEF covered
<1>6. \A j \in 1 .. Len(q) : f[j] \in Int
  BY <1>3, <1>4, <1>5
<1> HIDE DEF f
<1>7. upTo(f, 0) = 0 /\ \A n \in 0 .. Len(q) : upTo(f, n) \in Int
  BY <1>1, <1>6, UpToNone, UpToType
<1> QED
  BY <1>1, <1>4, <1>6, <1>7 DEF within, f

LEMMA CoverageAppended ==
  ASSUME NEW q \in Seq(Metrics), NEW m \in Metrics
  PROVE  /\ \A n \in 0 .. Len(q) : within(Append(q, m), n) = within(q, n)
         /\ within(Append(q, m), Len(q) + 1) = within(q, Len(q)) + covered(m.acquired["sharedMemory"])
<1> DEFINE N == Len(q)
           p == Append(q, m)
           f == coverage(q)
           g == coverage(p)
<1>1. p \in Seq(Metrics) /\ Len(p) = N + 1 /\ N \in Nat
  OBVIOUS
<1>2. (\A j \in 1 .. N : p[j] = q[j]) /\ p[N + 1] = m
  OBVIOUS
<1> HIDE DEF p
<1>3. \A j \in 1 .. N : f[j] \in Int /\ f[j] = covered(q[j].acquired["sharedMemory"])
  BY Coverage
<1>4. \A j \in 1 .. N + 1 : g[j] \in Int /\ g[j] = covered(p[j].acquired["sharedMemory"])
  <2>1. \A j \in 1 .. Len(p) : g[j] \in Int /\ g[j] = covered(p[j].acquired["sharedMemory"])
    BY <1>1, Coverage
  <2> QED
    BY <1>1, <2>1
<1> HIDE DEF f, g, N
<1>5. \A j \in 1 .. N : j \in 1 .. N + 1
  BY <1>1
<1>6. \A j \in 1 .. N : f[j] \in Int /\ g[j] = f[j] /\ f[j] = g[j]
  BY <1>2, <1>3, <1>4, <1>5
<1>7. N + 1 \in 1 .. N + 1
  BY <1>1
<1>8. g[N + 1] \in Int /\ g[N + 1] = covered(m.acquired["sharedMemory"])
  BY <1>2, <1>4, <1>7
<1>9. upTo(g, N + 1) = upTo(f, N) + g[N + 1]
  BY <1>1, <1>6, <1>8, UpToAppended
<1>10. ASSUME NEW n \in 0 .. N PROVE upTo(g, n) = upTo(f, n)
  <2>1. n \in Nat /\ \A j \in 1 .. n : f[j] \in Int /\ f[j] = g[j]
    BY <1>1, <1>6
  <2> QED
    BY <2>1, UpToSame
<1> QED
  BY <1>8, <1>9, <1>10 DEF within, f, g, p, N

LEMMA CoverageTaken ==
  ASSUME NEW q \in Seq(Metrics), NEW k \in 0 .. Len(q)
  PROVE  LET rest == SubSeq(q, k + 1, Len(q)) IN
         \A n \in 0 .. Len(q) - k : within(rest, n) = within(q, n + k) - within(q, k)
<1> DEFINE N == Len(q)
           L == N - k
           rest == SubSeq(q, k + 1, N)
           f == coverage(q)
           g == coverage(rest)
<1>1. N \in Nat /\ k \in Nat /\ k <= N /\ L \in Nat /\ L + k = N
  OBVIOUS
<1>2. rest \in Seq(Metrics) /\ Len(rest) = L /\ \A j \in 1 .. L : rest[j] = q[j + k]
  OBVIOUS
<1> HIDE DEF rest
<1>3. \A j \in 1 .. N : f[j] \in Int /\ f[j] = covered(q[j].acquired["sharedMemory"])
  BY Coverage
<1>4. \A j \in 1 .. L : g[j] = covered(rest[j].acquired["sharedMemory"])
  <2>1. \A j \in 1 .. Len(rest) : g[j] = covered(rest[j].acquired["sharedMemory"])
    BY <1>2, Coverage
  <2> QED
    BY <1>2, <2>1
<1> HIDE DEF f, g, N, L
<1>5. \A j \in 1 .. L : j + k \in 1 .. N
  BY <1>1
<1>6. \A j \in 1 .. L : g[j] = f[j + k]
  BY <1>2, <1>3, <1>4, <1>5
<1>7. \A j \in 1 .. L + k : f[j] \in Int
  BY <1>1, <1>3
<1>8. Rest(g, f, k, L)
  BY <1>6, <1>7 DEF Rest
<1>9. \A n \in 0 .. L : upTo(g, n) = upTo(f, n + k) - upTo(f, k)
  BY <1>1, <1>8, UpToRest
<1> QED
  BY <1>9 DEF within, f, g, rest, N, L

(* What is acquired is what the request covers and the excess. *)
LEMMA ExcessIsTheRest ==
  ASSUME readerMetrics \in Seq(Metrics)
  PROVE  /\ unseen \in Int
         /\ sums(readerMetrics, "acquired", Len(readerMetrics))
              = within(readerMetrics, Len(readerMetrics)) + unseen
<1> DEFINE q == readerMetrics
           S == 1 .. Len(q)
           a == column(q, "acquired", "sharedMemory")
           c == coverage(q)
           e == [j \in S |-> excess(q[j].acquired["sharedMemory"])]
<1>1. "acquired" \in Fields
  BY DEF Fields
<1>2. Len(q) \in Nat /\ \A j \in S : a[j] \in Int /\ a[j] = q[j].acquired["sharedMemory"]
  BY <1>1, Memory, Columns
<1>3. \A j \in S : c[j] \in Int /\ c[j] = covered(q[j].acquired["sharedMemory"])
  BY Coverage
<1>4. \A j \in S : e[j] = a[j] - c[j]
  BY <1>2, <1>3 DEF excess
<1>5. \A j \in S : c[j] \in Int /\ e[j] \in Int /\ a[j] \in Int /\ a[j] = c[j] + e[j]
  <2> HIDE DEF a, c, e
  <2> QED
    BY <1>2, <1>3, <1>4
<1>6. IsFiniteSet(S)
  BY <1>2, FS_Interval
<1>7. unseen = SumFunctionOnSet(e, S)
  BY DEF unseen
<1> HIDE DEF a, c, e, S
<1>8. SumFunctionOnSet(a, S) = SumFunctionOnSet(c, S) + SumFunctionOnSet(e, S)
  BY <1>5, <1>6, SumOfBoth
<1>9. SumFunctionOnSet(e, S) \in Int
  BY <1>5, <1>6, SumType
<1> QED
  BY <1>7, <1>8, <1>9 DEF sums, within, upTo, a, c, S

LEMMA SumsZero ==
  ASSUME NEW q \in Seq(Metrics), NEW field \in Fields, \A j \in 1 .. Len(q) : q[j][field]["sharedMemory"] = 0
  PROVE  \A n \in 0 .. Len(q) : sums(q, field, n) = 0
<1> DEFINE f == column(q, field, "sharedMemory")
<1>1. Len(q) \in Nat /\ \A j \in 1 .. Len(q) : f[j] = 0
  BY DEF column
<1> HIDE DEF f
<1>2. ASSUME NEW n \in 0 .. Len(q) PROVE upTo(f, n) = 0
  <2>1. n \in Nat /\ \A j \in 1 .. n : f[j] = 0
    BY <1>1
  <2> QED
    BY <2>1, UpToZeros
<1> QED
  BY <1>2 DEF sums, f

LEMMA TotalOfOne ==
  ASSUME NEW m \in Metrics, NEW field \in Fields
  PROVE  <<m>> \in Seq(Metrics) /\ total(<<m>>, field, "sharedMemory") = m[field]["sharedMemory"]
<1> DEFINE e == <<>>
           p == Append(e, m)
<1>1. e \in Seq(Metrics) /\ Len(e) = 0 /\ p = <<m>>
  OBVIOUS
<1> HIDE DEF e, p
<1>2. p \in Seq(Metrics) /\ Len(p) = Len(e) + 1
      /\ sums(p, field, Len(e) + 1) = sums(e, field, Len(e)) + m[field]["sharedMemory"]
  BY <1>1, SumsAppended DEF p
<1>3. total(p, field, "sharedMemory") = sums(p, field, Len(p)) /\ sums(e, field, 0) = 0
  BY <1>1, <1>2, SumsType
<1>4. m[field]["sharedMemory"] \in Int
  BY Memory DEF Metrics, Fields, Amounts
<1> QED
  BY <1>1, <1>2, <1>3, <1>4

LEMMA TotalOfTail ==
  ASSUME NEW q \in Seq(Metrics), q # <<>>, NEW field \in Fields
  PROVE  /\ Tail(q) \in Seq(Metrics) /\ Head(q) \in Metrics
         /\ total(Tail(q), field, "sharedMemory")
              = total(q, field, "sharedMemory") - Head(q)[field]["sharedMemory"]
<1> DEFINE t == Tail(q)
           N == Len(t)
           f == column(q, field, "sharedMemory")
           g == column(t, field, "sharedMemory")
<1>1. t \in Seq(Metrics) /\ Len(q) \in Nat /\ Len(t) = Len(q) - 1 /\ Len(q) > 0 /\ Head(q) = q[1]
  OBVIOUS
<1>2. \A j \in 1 .. Len(t) : t[j] = q[j + 1]
  OBVIOUS
<1>3. N \in Nat /\ N + 1 = Len(q) /\ Head(q) \in Metrics
  BY <1>1
<1> HIDE DEF t
<1>4. /\ \A j \in 1 .. Len(q) : f[j] \in Int /\ f[j] = q[j][field]["sharedMemory"]
      /\ total(q, field, "sharedMemory") = upTo(f, Len(q))
  BY Memory, Columns
<1>5. /\ \A j \in 1 .. N : g[j] = t[j][field]["sharedMemory"]
      /\ total(t, field, "sharedMemory") = upTo(g, N)
  <2>1. t \in Seq(Metrics)
    BY <1>1
  <2> QED
    BY <2>1, Memory, Columns
<1> HIDE DEF f, g, N
<1>6. \A j \in 1 .. N + 1 : f[j] \in Int
  BY <1>3, <1>4
<1>7. \A j \in 1 .. N : g[j] = f[j + 1]
  <2>1. \A j \in 1 .. N : j + 1 \in 1 .. Len(q)
    BY <1>3
  <2> QED
    BY <1>2, <1>4, <1>5, <2>1 DEF N
<1>8. upTo(g, N) = upTo(f, N + 1) - f[1]
  BY <1>3, <1>6, <1>7, UpToTail
<1>9. f[1] = Head(q)[field]["sharedMemory"]
  BY <1>1, <1>4
<1> QED
  BY <1>1, <1>3, <1>4, <1>5, <1>8, <1>9 DEF t

(* Offers on their way. *)
carried(q) == sumOf(q, 1 .. Len(q), "sharedMemory")

LEMMA Carried ==
  ASSUME NEW q \in Seq(Fresh)
  PROVE  LET f == [k \in 1 .. Len(q) |-> q[k]["sharedMemory"]] IN
         /\ Len(q) \in Nat /\ carried(q) \in Nat /\ carried(q) = upTo(f, Len(q))
         /\ \A k \in 1 .. Len(q) : q[k] \in Fresh /\ f[k] \in Nat
<1>1. 1 .. Len(q) \in SUBSET (1 .. Len(q))
  OBVIOUS
<1> QED
  BY <1>1, Memory, Pending DEF carried, upTo

LEMMA CarriedMore ==
  ASSUME NEW q \in Seq(Fresh), NEW offer \in Fresh
  PROVE  q \o <<offer>> \in Seq(Fresh) /\ carried(q \o <<offer>>) = carried(q) + offer["sharedMemory"]
<1> DEFINE p == q \o <<offer>>
           N == Len(q)
           f == [k \in 1 .. Len(q) |-> q[k]["sharedMemory"]]
           g == [k \in 1 .. Len(p) |-> p[k]["sharedMemory"]]
<1>1. p \in Seq(Fresh) /\ Len(p) = N + 1 /\ N \in Nat
  OBVIOUS
<1>2. \A k \in 1 .. N : p[k] = q[k]
  OBVIOUS
<1>3. p[N + 1] = offer
  OBVIOUS
<1> HIDE DEF p
<1>4. carried(q) = upTo(f, N) /\ \A k \in 1 .. N : f[k] \in Nat /\ f[k] = q[k]["sharedMemory"]
  BY Carried
<1>5. carried(p) = upTo(g, Len(p)) /\ \A k \in 1 .. Len(p) : g[k] \in Nat /\ g[k] = p[k]["sharedMemory"]
  BY <1>1, Carried
<1> HIDE DEF f, g, N
<1>6. N + 1 \in 1 .. N + 1 /\ \A k \in 1 .. N : k \in 1 .. N + 1
  BY <1>1
<1>7. g[N + 1] \in Int /\ g[N + 1] = offer["sharedMemory"]
  BY <1>1, <1>3, <1>5, <1>6
<1>8. \A k \in 1 .. N : f[k] \in Int /\ g[k] = f[k]
  <2>1. \A k \in 1 .. N + 1 : g[k] = p[k]["sharedMemory"]
    BY <1>1, <1>5
  <2>2. \A k \in 1 .. N : g[k] = p[k]["sharedMemory"]
    BY <1>6, <2>1
  <2> QED
    BY <1>2, <1>4, <2>2
<1>9. upTo(g, N + 1) = upTo(f, N) + g[N + 1]
  BY <1>1, <1>7, <1>8, UpToAppended
<1> QED
  BY <1>1, <1>4, <1>5, <1>7, <1>9 DEF p

LEMMA CarriedLess ==
  ASSUME NEW q \in Seq(Fresh), q # <<>>
  PROVE  /\ Tail(q) \in Seq(Fresh) /\ Head(q) \in Fresh
         /\ carried(Tail(q)) = carried(q) - Head(q)["sharedMemory"]
<1> DEFINE t == Tail(q)
           N == Len(t)
           f == [k \in 1 .. Len(q) |-> q[k]["sharedMemory"]]
           g == [k \in 1 .. Len(t) |-> t[k]["sharedMemory"]]
<1>1. t \in Seq(Fresh) /\ Len(q) \in Nat /\ Len(t) = Len(q) - 1 /\ Len(q) > 0 /\ Head(q) = q[1]
  OBVIOUS
<1>2. \A j \in 1 .. Len(t) : t[j] = q[j + 1]
  OBVIOUS
<1>3. N \in Nat /\ N + 1 = Len(q) /\ Head(q) \in Fresh
  BY <1>1
<1> HIDE DEF t
<1>4. carried(q) = upTo(f, Len(q)) /\ \A k \in 1 .. Len(q) : f[k] \in Nat /\ f[k] = q[k]["sharedMemory"]
  BY Carried
<1>5. carried(t) = upTo(g, N) /\ \A k \in 1 .. N : g[k] = t[k]["sharedMemory"]
  BY <1>1, Carried
<1> HIDE DEF f, g, N
<1>6. \A j \in 1 .. N + 1 : f[j] \in Int
  BY <1>3, <1>4
<1>7. \A j \in 1 .. N : g[j] = f[j + 1]
  <2>1. \A j \in 1 .. N : j + 1 \in 1 .. Len(q)
    BY <1>3
  <2> QED
    BY <1>2, <1>4, <1>5, <2>1 DEF N
<1>8. upTo(g, N) = upTo(f, N + 1) - f[1]
  BY <1>3, <1>6, <1>7, UpToTail
<1>9. f[1] = Head(q)["sharedMemory"]
  BY <1>1, <1>4
<1> QED
  BY <1>1, <1>3, <1>4, <1>5, <1>8, <1>9 DEF t
-------------------------------------------------------------------------------
(***************************************************************************)
(* The ledger of the shared memory.                                        *)
(***************************************************************************)
unit == metricOfferScaleFactor["sharedMemory"]

limit == maxAvailable["sharedMemory"]

(* Bytes the reader may still use: on their way to it, or in its offers,   *)
(* the invalid ones too.                                                   *)
promised == carried(messages) + waiting("sharedMemory") + inAll(mOffers, "sharedMemory")

(* Bytes the driver believes to be offered and not used. *)
outstanding == unit * offered["sharedMemory"] - returned["sharedMemory"]

disposing == total(taskMetrics, "disposed", "sharedMemory")

acquiredUpTo(n) == sums(readerMetrics, "acquired", n)

coveredUpTo(n) == within(readerMetrics, n)

returnedUpTo(n) == sums(readerMetrics, "returned", n)

MetricTypes ==
  /\ readerMetrics \in Seq(Metrics)
  /\ taskMetrics \in Seq(Metrics)
  /\ sinkMetrics \in Seq(Metrics)
  /\ inFlight \in Seq(Nat)
  /\ \A j \in 1 .. Len(readerMetrics) : readerMetrics[j].disposed["sharedMemory"] = 0
  /\ \A j \in 1 .. Len(taskMetrics) :
       /\ taskMetrics[j].disposed["sharedMemory"] \in Nat
       /\ taskMetrics[j].returned["sharedMemory"] = 0
       /\ taskMetrics[j].acquired["sharedMemory"] = 0
  /\ \A j \in 1 .. Len(sinkMetrics), field \in Fields : sinkMetrics[j][field]["sharedMemory"] = 0

DriverTypes ==
  /\ available \in Amounts /\ offered \in Amounts /\ returned \in Amounts /\ balance \in Amounts
  /\ returned["sharedMemory"] >= 0
  /\ available["sharedMemory"]
       = availableNow("sharedMemory", offered["sharedMemory"], balance["sharedMemory"])

(* The only computation that is not completed has the only consumers. *)
OneCharge ==
  \A s \in Streams :
    IF phase[s] = "done" THEN \E bytes \in Payloads : offerConsumers = consumersOf(bytes)
    ELSE offerConsumers = <<>>

(* What was created and the driver has not seen disposed of is in use. *)
UseIsKnown ==
  memoryInUse = acquiredUpTo(Len(readerMetrics)) - balance["sharedMemory"] - disposing

(* The reader reports no more than it was offered. *)
ReturnsAreOffered == returnedUpTo(Len(readerMetrics)) + promised <= outstanding

(* However much of the metrics the driver has read, what it has not seen   *)
(* acquired is still covered by what it believes to be unused, unless it   *)
(* was created beyond the request.                                         *)
UseIsCovered ==
  \A n \in 0 .. Len(readerMetrics) :
    coveredUpTo(Len(readerMetrics)) - coveredUpTo(n) + returnedUpTo(n) + promised - uncharged
      <= outstanding

WithinLimit ==
  /\ overAllocated \in Int
  /\ memoryInUse + promised - uncharged < (limit + 1) * unit + overAllocated

LedgerTypes == EvaluatorInv /\ messages \in Seq(Fresh) /\ MetricTypes /\ DriverTypes

Ledger == UseIsKnown /\ ReturnsAreOffered /\ UseIsCovered /\ WithinLimit

MemoryInv == LedgerTypes /\ OneCharge /\ Ledger

LEMMA Unit == unit \in Nat \ {0} /\ limit \in Nat
BY Memory, OffersAssumption DEF unit, limit

(* The amounts are integers. *)
LEMMA LedgerAmounts ==
  LedgerTypes =>
    /\ Len(readerMetrics) \in Nat
    /\ \A n \in 0 .. Len(readerMetrics) : acquiredUpTo(n) \in Int /\ coveredUpTo(n) \in Int /\ returnedUpTo(n) \in Int
    /\ promised \in Int /\ carried(messages) \in Int /\ waiting("sharedMemory") \in Int
    /\ inAll(mOffers, "sharedMemory") \in Int
    /\ outstanding \in Int /\ disposing \in Nat /\ memoryInUse \in Int
    /\ balance["sharedMemory"] \in Int /\ uncharged \in Nat
<1> SUFFICES ASSUME LedgerTypes
             PROVE  /\ Len(readerMetrics) \in Nat
                    /\ \A n \in 0 .. Len(readerMetrics) : acquiredUpTo(n) \in Int /\ coveredUpTo(n) \in Int /\ returnedUpTo(n) \in Int
                    /\ promised \in Int /\ carried(messages) \in Int /\ waiting("sharedMemory") \in Int
                    /\ inAll(mOffers, "sharedMemory") \in Int
                    /\ outstanding \in Int /\ disposing \in Nat /\ memoryInUse \in Int
                    /\ balance["sharedMemory"] \in Int /\ uncharged \in Nat
  OBVIOUS
<1>0. "returned" \in Fields /\ "acquired" \in Fields /\ "disposed" \in Fields
  BY DEF Fields
<1>1. readerMetrics \in Seq(Metrics) /\ taskMetrics \in Seq(Metrics) /\ inFlight \in Seq(Nat)
  BY DEF LedgerTypes, MetricTypes
<1>2. /\ Len(readerMetrics) \in Nat
      /\ \A n \in 0 .. Len(readerMetrics) : acquiredUpTo(n) \in Int /\ coveredUpTo(n) \in Int /\ returnedUpTo(n) \in Int
  BY <1>0, <1>1, SumsType, Coverage DEF acquiredUpTo, returnedUpTo, coveredUpTo
<1>3. carried(messages) \in Int
  <2>1. messages \in Seq(Fresh)
    BY DEF LedgerTypes, MetricTypes
  <2>2. carried(messages) \in Nat
    BY <2>1, Carried
  <2> QED
    BY <2>2
<1>4. waiting("sharedMemory") \in Int /\ inAll(mOffers, "sharedMemory") \in Int
  BY Accounts, Memory DEF LedgerTypes, EvaluatorInv
<1>5. /\ offered["sharedMemory"] \in Int /\ returned["sharedMemory"] \in Int
      /\ balance["sharedMemory"] \in Int
  BY Memory DEF LedgerTypes, DriverTypes, Amounts
<1>6. outstanding \in Int
  BY <1>5, Unit DEF outstanding
<1>7. disposing \in Nat
  <2> DEFINE f == column(taskMetrics, "disposed", "sharedMemory")
  <2>1. \A j \in 1 .. Len(taskMetrics) : taskMetrics[j].disposed["sharedMemory"] \in Nat
    BY DEF LedgerTypes, MetricTypes
  <2>2. Len(taskMetrics) \in Nat /\ disposing = upTo(f, Len(taskMetrics))
    BY <1>0, <1>1, Memory, Columns DEF disposing
  <2>3. \A j \in 1 .. Len(taskMetrics) : f[j] \in Nat
    BY <2>1 DEF column
  <2> HIDE DEF f
  <2> QED
    BY <2>2, <2>3, UpToPositive
<1>8. memoryInUse \in Int
  <2>1. Len(inFlight) \in Nat /\ \A j \in 1 .. Len(inFlight) : inFlight[j] \in Int
    BY <1>1
  <2> QED
    BY <2>1, UpToType DEF memoryInUse, upTo
<1>9. uncharged \in Nat
  <2> DEFINE f == [j \in 1 .. Len(offerConsumers) |->
                     IF offerConsumers[j].resource = "sharedMemory"
                     THEN covered(offerConsumers[j].amount) ELSE 0]
  <2>1. offerConsumers \in Seq(Consumers)
    BY DEF LedgerTypes, EvaluatorInv, QuotaTypes
  <2>2. Len(offerConsumers) \in Nat /\ \A j \in 1 .. Len(offerConsumers) : offerConsumers[j].amount \in Nat
    <3>1. Len(offerConsumers) \in Nat /\ \A j \in 1 .. Len(offerConsumers) : offerConsumers[j] \in Consumers
      BY <2>1
    <3>2. \A c \in Consumers : c.amount \in Nat
      BY DEF Consumers
    <3> QED
      BY <3>1, <3>2
  <2>3. \A j \in 1 .. Len(offerConsumers) : f[j] \in Nat
    BY <2>2, Covered
  <2>4. uncharged = upTo(f, Len(offerConsumers))
    BY DEF uncharged, upTo
  <2> HIDE DEF f
  <2> QED
    BY <2>2, <2>3, <2>4, UpToPositive
<1> QED
  BY <1>2, <1>3, <1>4, <1>5, <1>6, <1>7, <1>8, <1>9 DEF promised

LEMMA LedgerAmountsLater ==
  (LedgerTypes =>
    /\ Len(readerMetrics) \in Nat
    /\ \A n \in 0 .. Len(readerMetrics) : acquiredUpTo(n) \in Int /\ coveredUpTo(n) \in Int /\ returnedUpTo(n) \in Int
    /\ promised \in Int /\ carried(messages) \in Int /\ waiting("sharedMemory") \in Int
    /\ inAll(mOffers, "sharedMemory") \in Int
    /\ outstanding \in Int /\ disposing \in Nat /\ memoryInUse \in Int
    /\ balance["sharedMemory"] \in Int /\ uncharged \in Nat)'
BY LedgerAmounts, PTL

(* Nothing is charged, or what one computation has created. *)
LEMMA Uncharged ==
  /\ offerConsumers = <<>> => uncharged = 0
  /\ \A bytes \in Nat : offerConsumers = consumersOf(bytes) => uncharged = covered(bytes)
<1> DEFINE f == [j \in 1 .. Len(offerConsumers) |->
                   IF offerConsumers[j].resource = "sharedMemory"
                   THEN covered(offerConsumers[j].amount) ELSE 0]
<1>1. uncharged = upTo(f, Len(offerConsumers))
  BY DEF uncharged, upTo
<1>2. ASSUME offerConsumers = <<>> PROVE uncharged = 0
  <2>1. Len(offerConsumers) = 0
    BY <1>2
  <2> HIDE DEF f
  <2> QED
    BY <1>1, <2>1, UpToNone
<1>3. ASSUME NEW bytes \in Nat, offerConsumers = consumersOf(bytes) PROVE uncharged = covered(bytes)
  <2>1. Len(offerConsumers) = 2
    BY <1>3 DEF consumersOf
  <2>2. f[1] = 0 /\ f[2] = covered(bytes)
    BY <1>3, <2>1 DEF consumersOf
  <2>7. covered(bytes) \in Nat
    BY Covered
  <2> HIDE DEF f
  <2>3. upTo(f, 0) = 0
    BY UpToNone
  <2>4. 0 \in Nat /\ 1 \in Nat /\ 0 + 1 = 1 /\ 1 + 1 = 2 /\ 1 .. 1 = {1} /\ 1 .. 2 = {1, 2}
    OBVIOUS
  <2>5. upTo(f, 0 + 1) = upTo(f, 0) + f[0 + 1]
    <3>1. \A i \in 1 .. 0 + 1 : f[i] \in Int
      BY <2>2, <2>4
    <3> QED
      BY <2>4, <3>1, UpToNext
  <2>6. upTo(f, 1 + 1) = upTo(f, 1) + f[1 + 1]
    <3>1. \A i \in 1 .. 1 + 1 : f[i] \in Int
      BY <2>2, <2>4, <2>7
    <3> QED
      BY <2>4, <3>1, UpToNext
  <2> QED
    BY <1>1, <2>1, <2>2, <2>3, <2>4, <2>5, <2>6, <2>7
<1> QED
  BY <1>2, <1>3

LEMMA UnchargedLater ==
  (/\ offerConsumers = <<>> => uncharged = 0
   /\ \A bytes \in Nat : offerConsumers = consumersOf(bytes) => uncharged = covered(bytes))'
BY Uncharged, PTL
-------------------------------------------------------------------------------
(***************************************************************************)
(* The driver: divisions, and what it offers after a chunk of metrics.     *)
(***************************************************************************)
LEMMA Division ==
  ASSUME NEW a \in Int, NEW d \in Nat \ {0}
  PROVE  /\ a \div d \in Int /\ a % d \in Int
         /\ a = d * (a \div d) + (a % d) /\ 0 <= a % d /\ a % d < d
OBVIOUS

(* Rounded towards zero. *)
LEMMA DivideRounds ==
  ASSUME NEW b \in Int, NEW d \in Nat \ {0}
  PROVE  divide(b, d) \in Int /\ d * divide(b, d) < b + d
BY Division, - b \in Int DEF divide

(* The remainder stays in the account. *)
LEMMA RemainderKept ==
  ASSUME NEW a \in Int, NEW g \in Int, NEW d \in Nat \ {0}
  PROVE  d * (g - (a \div d)) - (a % d) = d * g - a
BY Division

(* Rounding costs less than one unit. *)
LEMMA RoomForOffer ==
  ASSUME NEW d \in Nat \ {0}, NEW max \in Int, NEW q \in Int, NEW o \in Int, NEW b \in Int,
         d * q < b + d, NEW t \in Int, t + b <= d * o, NEW m \in Int, m <= max + q - o
  PROVE  t + d * m < (max + 1) * d
OBVIOUS

LEMMA PossibleOffer ==
  ASSUME DriverTypes, NEW r \in Resources
  PROVE  possibleOffer(r) \in Nat /\ (possibleOffer(r) = 0 \/ possibleOffer(r) <= available[r])
<1>1. available[r] \in Int /\ minQuantum[r] \in Nat \ {0} /\ maxQuantum[r] \in Nat \ {0}
  BY OffersAssumption DEF DriverTypes, Amounts
<1> QED
  BY <1>1 DEF possibleOffer

LEMMA DriverOffers ==
  ASSUME LedgerTypes, NEW chunk \in Seq(Metrics), metricHandling(chunk)
  PROVE  LET gives == unit * possibleOffer("sharedMemory") IN
         /\ DriverTypes' /\ messages' \in Seq(Fresh)
         /\ gives \in Nat /\ carried(messages') = carried(messages) + gives
         /\ outstanding' = outstanding + gives - total(chunk, "returned", "sharedMemory")
         /\ balance'["sharedMemory"]
              = balance["sharedMemory"] + total(chunk, "disposed", "sharedMemory")
                  - total(chunk, "acquired", "sharedMemory")
         /\ overAllocated' = IF possibleOffer("sharedMemory") > 0 THEN unseen ELSE overAllocated
<1> DEFINE m == "sharedMemory"
           back == [r \in Resources |-> returned[r] + total(chunk, "returned", r)]
           difference == [r \in Resources |->
                            balance[r] + total(chunk, "disposed", r) - total(chunk, "acquired", r)]
           made == [r \in Resources |-> possibleOffer(r)]
           bytes == made[m] * metricOfferScaleFactor[m]
           unused == [r \in Resources |-> unusedOffered(r, offered[r] + made[r], back[r])]
           slices == IF made["timeslices"] > 0 THEN <<newOffer(0, made["timeslices"])>> ELSE <<>>
           memory == IF bytes > 0 THEN <<newOffer(bytes, 0)>> ELSE <<>>
<1>0. "returned" \in Fields /\ "acquired" \in Fields /\ "disposed" \in Fields
  BY DEF Fields
<1>1. /\ messages' = messages \o slices \o memory
      /\ available' = [r \in Resources |-> availableNow(r, unused[r], difference[r])]
      /\ offered' = unused
      /\ returned' = [r \in Resources |-> back[r] % metricOfferScaleFactor[r]]
      /\ balance' = difference
  BY DEF metricHandling, offerResources
<1>14. overAllocated' = IF possibleOffer(m) > 0 THEN unseen ELSE overAllocated
  BY Memory DEF metricHandling, offerResources
<1>2. /\ available \in Amounts /\ offered \in Amounts /\ returned \in Amounts /\ balance \in Amounts
      /\ DriverTypes /\ messages \in Seq(Fresh)
  BY DEF LedgerTypes, DriverTypes, MetricTypes
<1>3. \A r \in Resources : /\ offered[r] \in Int /\ returned[r] \in Int /\ balance[r] \in Int
                          /\ metricOfferScaleFactor[r] \in Nat \ {0} /\ maxAvailable[r] \in Nat
  BY <1>2, OffersAssumption DEF Amounts
<1>4. \A r \in Resources : /\ total(chunk, "returned", r) \in Int
                          /\ total(chunk, "disposed", r) \in Int
                          /\ total(chunk, "acquired", r) \in Int
  BY <1>0, Columns
<1>5. \A r \in Resources : made[r] \in Nat /\ made[r] = possibleOffer(r)
  BY <1>2, PossibleOffer
<1>6. \A r \in Resources :
        /\ back[r] \in Int /\ back[r] = returned[r] + total(chunk, "returned", r)
        /\ difference[r] \in Int
        /\ difference[r] = balance[r] + total(chunk, "disposed", r) - total(chunk, "acquired", r)
  BY <1>3, <1>4
<1> HIDE DEF back, difference, made
<1>7. \A r \in Resources :
        /\ unused[r] \in Int /\ unused[r] = (offered[r] + made[r]) - (back[r] \div metricOfferScaleFactor[r])
        /\ back[r] % metricOfferScaleFactor[r] \in Int /\ back[r] % metricOfferScaleFactor[r] >= 0
  <2> SUFFICES ASSUME NEW r \in Resources
               PROVE  /\ unused[r] \in Int
                      /\ unused[r] = (offered[r] + made[r]) - (back[r] \div metricOfferScaleFactor[r])
                      /\ back[r] % metricOfferScaleFactor[r] \in Int
                      /\ back[r] % metricOfferScaleFactor[r] >= 0
    OBVIOUS
  <2>1. unused[r] = (offered[r] + made[r]) - (back[r] \div metricOfferScaleFactor[r])
    BY DEF unusedOffered
  <2>2. back[r] \in Int /\ metricOfferScaleFactor[r] \in Nat \ {0}
    BY <1>3, <1>6
  <2>3. /\ back[r] \div metricOfferScaleFactor[r] \in Int
        /\ back[r] % metricOfferScaleFactor[r] \in Int
        /\ 0 <= back[r] % metricOfferScaleFactor[r]
    BY <2>2, Division
  <2> HIDE DEF unused
  <2> QED
    BY <1>3, <1>5, <2>1, <2>3
<1> HIDE DEF unused
<1>8. \A r \in Resources : availableNow(r, unused[r], difference[r]) \in Int
  <2> SUFFICES ASSUME NEW r \in Resources PROVE availableNow(r, unused[r], difference[r]) \in Int
    OBVIOUS
  <2>1. difference[r] \in Int /\ metricOfferScaleFactor[r] \in Nat \ {0}
    BY <1>3, <1>6
  <2>2. divide(difference[r], metricOfferScaleFactor[r]) \in Int
    BY <2>1, DivideRounds
  <2> QED
    BY <1>3, <1>7, <2>2 DEF availableNow
<1>9. DriverTypes'
  <2>1. available' \in Amounts
    BY <1>1, <1>8 DEF Amounts
  <2>2. offered' \in Amounts
    <3>1. offered' = [r \in Resources |-> unused[r]]
      BY <1>1 DEF unused
    <3> QED
      BY <1>7, <3>1 DEF Amounts
  <2>3. returned' \in Amounts /\ returned'[m] >= 0
    BY <1>1, <1>7, Memory DEF Amounts
  <2>4. balance' \in Amounts
    <3>1. balance' = [r \in Resources |-> difference[r]]
      BY <1>1 DEF difference
    <3> QED
      BY <1>6, <3>1 DEF Amounts
  <2>5. available'[m] = availableNow(m, offered'[m], balance'[m])
    BY <1>1, Memory
  <2> QED
    BY <2>1, <2>2, <2>3, <2>4, <2>5 DEF DriverTypes, availableNow
<1>10. bytes \in Nat /\ bytes = unit * possibleOffer(m)
  BY <1>3, <1>5, Memory, Unit DEF unit
<1>11. messages' \in Seq(Fresh) /\ carried(messages') = carried(messages) + bytes
  <2> DEFINE mid == messages \o slices
  <2>1. \A a, b \in Nat : newOffer(a, b) \in Fresh /\ newOffer(a, b)["sharedMemory"] = a
    BY QuotaAssumption DEF newOffer, Fresh, Offer
  <2>2. made["timeslices"] \in Nat /\ carried(messages) \in Nat
    BY <1>2, <1>5, Memory, Carried
  <2>3. mid \in Seq(Fresh) /\ carried(mid) = carried(messages)
    <3>1. CASE made["timeslices"] > 0
      <4> DEFINE x == newOffer(0, made["timeslices"])
      <4>1. x \in Fresh /\ x["sharedMemory"] = 0 /\ mid = messages \o <<x>>
        BY <2>1, <2>2, <3>1
      <4> HIDE DEF x, mid
      <4> QED
        BY <1>2, <2>2, <4>1, CarriedMore
    <3>2. CASE ~ (made["timeslices"] > 0)
      <4>1. mid = messages
        BY <1>2, <3>2
      <4> QED
        BY <1>2, <4>1
    <3> QED
      BY <3>1, <3>2
  <2>4. messages' = mid \o memory
    BY <1>1
  <2> HIDE DEF mid
  <2>5. CASE bytes > 0
    <3> DEFINE x == newOffer(bytes, 0)
    <3>1. x \in Fresh /\ x["sharedMemory"] = bytes /\ messages' = mid \o <<x>>
      BY <1>10, <2>1, <2>4, <2>5
    <3> HIDE DEF x, bytes
    <3> QED
      BY <2>3, <3>1, CarriedMore
  <2>6. CASE ~ (bytes > 0)
    <3>1. messages' = mid
      BY <2>3, <2>4, <2>6
    <3>2. bytes = 0
      BY <1>10, <2>6
    <3> QED
      BY <2>2, <2>3, <3>1, <3>2
  <2> QED
    BY <2>5, <2>6
<1> HIDE DEF bytes
<1>12. outstanding' = outstanding + bytes - total(chunk, "returned", m)
  <2> DEFINE d == metricOfferScaleFactor[m]
             g == offered[m] + made[m]
             a == back[m]
  <2>1. offered'[m] = g - (a \div d) /\ returned'[m] = a % d
    <3>1. m \in Resources
      BY Memory
    <3>2. unused[m] = g - (a \div d)
      BY <1>7, <3>1
    <3>3. returned'[m] = a % d
      BY <1>1, <3>1
    <3> QED
      BY <1>1, <3>2, <3>3
  <2>2. a \in Int /\ g \in Int /\ d \in Nat \ {0}
    BY <1>3, <1>5, <1>6, Memory
  <2>3. a = returned[m] + total(chunk, "returned", m) /\ bytes = d * made[m]
    BY <1>5, <1>6, <1>10, Memory DEF unit
  <2>4. offered[m] \in Int /\ made[m] \in Int /\ returned[m] \in Int /\ total(chunk, "returned", m) \in Int
    BY <1>3, <1>4, <1>5, Memory
  <2>5. g = offered[m] + made[m]
    OBVIOUS
  <2>6. outstanding' = d * offered'[m] - returned'[m] /\ outstanding = d * offered[m] - returned[m]
    BY DEF outstanding, unit
  <2> HIDE DEF a, g, d
  <2>7. d * (g - (a \div d)) - (a % d) = d * g - a
    BY <2>2, RemainderKept
  <2>8. outstanding' = d * g - a
    BY <2>1, <2>6, <2>7
  <2>9. d * g = d * offered[m] + d * made[m]
    BY <2>2, <2>4, <2>5
  <2> DEFINE u == d * offered[m]
             w == d * made[m]
  <2>10. u \in Int /\ w \in Int
    BY <2>2, <2>4
  <2>11. /\ outstanding' = (u + w) - a /\ bytes = w /\ outstanding = u - returned[m]
    BY <2>3, <2>6, <2>8, <2>9
  <2> HIDE DEF u, w
  <2> QED
    BY <2>3, <2>4, <2>10, <2>11
<1>13. balance'[m] = balance[m] + total(chunk, "disposed", m) - total(chunk, "acquired", m)
  BY <1>1, <1>6, Memory
<1> QED
  BY <1>9, <1>10, <1>11, <1>12, <1>13, <1>14

(* There is room for what is offered, but for the excess not heard of. *)
LEMMA OfferFits ==
  ASSUME MemoryInv, possibleOffer("sharedMemory") # 0
  PROVE  (memoryInUse + promised - uncharged - unseen) + unit * possibleOffer("sharedMemory") < (limit + 1) * unit
<1> DEFINE m == "sharedMemory"
           t == memoryInUse + promised - uncharged - unseen
           made == possibleOffer(m)
           q == divide(balance[m], unit)
           o == offered[m]
           b == balance[m]
<1>0. m \in Resources
  BY Memory
<1>1. LedgerTypes /\ DriverTypes /\ UseIsKnown /\ UseIsCovered /\ WithinLimit
  BY DEF MemoryInv, LedgerTypes, Ledger
<1>2. /\ Len(readerMetrics) \in Nat
      /\ \A n \in 0 .. Len(readerMetrics) : acquiredUpTo(n) \in Int /\ coveredUpTo(n) \in Int /\ returnedUpTo(n) \in Int
      /\ promised \in Int /\ outstanding \in Int /\ disposing \in Nat /\ memoryInUse \in Int
      /\ b \in Int /\ uncharged \in Int
  BY <1>1, LedgerAmounts
<1>3. made \in Nat /\ (made = 0 \/ made <= available[m])
  BY <1>0, <1>1, PossibleOffer
<1>4. /\ unseen \in Int
      /\ acquiredUpTo(Len(readerMetrics)) = coveredUpTo(Len(readerMetrics)) + unseen
  <2>1. readerMetrics \in Seq(Metrics)
    BY <1>1 DEF LedgerTypes, MetricTypes
  <2> QED
    BY <2>1, ExcessIsTheRest DEF acquiredUpTo, coveredUpTo
<1>5. CASE made <= available[m]
  <2>1. o \in Int /\ returned[m] \in Int /\ returned[m] >= 0
    BY <1>0, <1>1 DEF DriverTypes, Amounts
  <2>2. q \in Int /\ unit * q < b + unit
    BY <1>2, Unit, DivideRounds
  <2>3. available[m] = limit + q - o
    BY <1>1 DEF DriverTypes, availableNow, limit, unit
  <2>4. coveredUpTo(0) = 0 /\ returnedUpTo(0) = 0
    <3>1. readerMetrics \in Seq(Metrics) /\ "returned" \in Fields
      BY <1>1 DEF LedgerTypes, MetricTypes, Fields
    <3> QED
      BY <3>1, SumsType, Coverage DEF coveredUpTo, returnedUpTo
  <2>5. coveredUpTo(Len(readerMetrics)) - coveredUpTo(0) + returnedUpTo(0) + promised - uncharged <= outstanding
    BY <1>1, <1>2 DEF UseIsCovered
  <2>6. memoryInUse = acquiredUpTo(Len(readerMetrics)) - b - disposing
    BY <1>1 DEF UseIsKnown
  <2>7. acquiredUpTo(Len(readerMetrics)) \in Int /\ coveredUpTo(Len(readerMetrics)) \in Int
    BY <1>2
  <2>8. outstanding = unit * o - returned[m] /\ unit * o \in Int
    BY <2>1, Unit DEF outstanding
  <2>9. t + b <= unit * o
    <3> DEFINE u == unit * o
    <3>1. u \in Int /\ outstanding = u - returned[m]
      BY <2>8
    <3> DEFINE A == acquiredUpTo(Len(readerMetrics))
               K == coveredUpTo(Len(readerMetrics))
               x == returned[m]
    <3>3. /\ A \in Int /\ K \in Int /\ x \in Int /\ x >= 0 /\ A = K + unseen
          /\ t = (A - b - disposing) + promised - uncharged - unseen
          /\ K - 0 + 0 + promised - uncharged <= u - x
      BY <1>4, <2>1, <2>4, <2>5, <2>6, <2>7, <3>1
    <3> HIDE DEF u, A, K, x, t, b
    <3>2. t + b <= u
      BY <1>2, <1>4, <3>1, <3>3
    <3> QED
      BY <3>2 DEF u
  <2>10. t \in Int /\ limit \in Int
    BY <1>2, <1>4, Unit
  <2> HIDE DEF t, made, q, o, b
  <2>11. made <= limit + q - o
    BY <1>5, <2>3
  <2>12. b \in Int /\ made \in Int
    BY <1>2, <1>3
  <2>13. t + unit * made < (limit + 1) * unit
    BY <2>1, <2>2, <2>9, <2>10, <2>11, <2>12, Unit, RoomForOffer
  <2> QED
    BY <2>13 DEF t, made
<1> QED
  BY <1>3, <1>5

(* The sums when the driver has read what was acquired (a), returned (c)   *)
(* and disposed of (x), and offers g.                                      *)
LEMMA UseStaysKnown ==
  ASSUME NEW A \in Int, NEW a \in Int, NEW b \in Int, NEW d \in Int, NEW x \in Int
  PROVE  A - b - d = (A - a) - (b + x - a) - (d - x)
OBVIOUS

LEMMA ReturnsStayOffered ==
  ASSUME NEW R \in Int, NEW c \in Int, NEW P \in Int, NEW D \in Int, NEW g \in Int, R + P <= D
  PROVE  (R - c) + (P + g) <= D + g - c
OBVIOUS

LEMMA UseStaysCovered ==
  ASSUME NEW A \in Int, NEW a \in Int, NEW An \in Int, NEW Rn \in Int, NEW c \in Int,
         NEW P \in Int, NEW U \in Int, NEW D \in Int, NEW g \in Int, A - An + Rn + P - U <= D
  PROVE  (A - a) - (An - a) + (Rn - c) + (P + g) - U <= D + g - c
OBVIOUS

(* The driver reads some of the metrics and offers. *)
LEMMA DriverKeeps ==
  ASSUME MemoryInv, NEW chunk \in Seq(Metrics), metricHandling(chunk),
         UNCHANGED <<quotaVars, dataVars>>, MetricTypes',
         NEW k \in 0 .. Len(readerMetrics), Len(readerMetrics)' = Len(readerMetrics) - k,
         total(chunk, "returned", "sharedMemory") = returnedUpTo(k),
         total(chunk, "acquired", "sharedMemory") = acquiredUpTo(k),
         \A n \in 0 .. Len(readerMetrics) - k :
           /\ acquiredUpTo(n)' = acquiredUpTo(n + k) - acquiredUpTo(k)
           /\ coveredUpTo(n)' = coveredUpTo(n + k) - coveredUpTo(k)
           /\ returnedUpTo(n)' = returnedUpTo(n + k) - returnedUpTo(k),
         disposing' = disposing - total(chunk, "disposed", "sharedMemory"),
         total(chunk, "disposed", "sharedMemory") \in Int
  PROVE  MemoryInv'
<1> DEFINE gives == unit * possibleOffer("sharedMemory")
           x == total(chunk, "disposed", "sharedMemory")
<1>0. PICK N : N = Len(readerMetrics)
  OBVIOUS
<1>1. LedgerTypes /\ UseIsKnown /\ ReturnsAreOffered /\ UseIsCovered /\ WithinLimit /\ OneCharge
  BY DEF MemoryInv, Ledger
<1>2. /\ N \in Nat
      /\ \A n \in 0 .. N : acquiredUpTo(n) \in Int /\ coveredUpTo(n) \in Int /\ returnedUpTo(n) \in Int
      /\ promised \in Int /\ outstanding \in Int /\ disposing \in Nat /\ memoryInUse \in Int
      /\ balance["sharedMemory"] \in Int /\ uncharged \in Int /\ carried(messages) \in Int /\ waiting("sharedMemory") \in Int
      /\ inAll(mOffers, "sharedMemory") \in Int
  BY <1>0, <1>1, LedgerAmounts
<1>3. /\ DriverTypes' /\ messages' \in Seq(Fresh)
      /\ gives \in Nat /\ carried(messages') = carried(messages) + gives
      /\ outstanding' = outstanding + gives - returnedUpTo(k)
      /\ balance'["sharedMemory"] = balance["sharedMemory"] + x - acquiredUpTo(k)
  BY <1>1, DriverOffers
<1>4. /\ possibleOffer("sharedMemory") \in Nat
      /\ overAllocated' = IF possibleOffer("sharedMemory") > 0 THEN unseen ELSE overAllocated
      /\ possibleOffer("sharedMemory") # 0 =>
           (memoryInUse + promised - uncharged - unseen) + gives < (limit + 1) * unit
  <2>1. DriverTypes
    BY <1>1 DEF LedgerTypes
  <2> QED
    BY <1>1, <2>1, DriverOffers, PossibleOffer, Memory, OfferFits
<1>23. unseen \in Int
  <2>1. readerMetrics \in Seq(Metrics)
    BY <1>1 DEF LedgerTypes, MetricTypes
  <2> QED
    BY <2>1, ExcessIsTheRest
<1>24. possibleOffer("sharedMemory") = 0 => gives = 0
  BY Unit
<1>5. UNCHANGED <<mOffers, pendingOffers, mExpiredOffers, phase, offerConsumers, inFlight>>
  BY DEF quotaVars, dataVars
<1>6. EvaluatorInv'
  BY <1>1, <1>5 DEF LedgerTypes, EvaluatorInv, QuotaTypes, OffersInv
<1>7. OneCharge'
  BY <1>1, <1>5 DEF OneCharge
<1>8. memoryInUse' = memoryInUse /\ uncharged' = uncharged
  BY <1>5 DEF memoryInUse, uncharged
<1>9. promised' = promised + gives
  <2>1. waiting("sharedMemory")' = waiting("sharedMemory")
    BY <1>5 DEF waiting
  <2>2. inAll(mOffers, "sharedMemory")' = inAll(mOffers, "sharedMemory")
    BY <1>5 DEF inAll
  <2>3. promised' = carried(messages') + waiting("sharedMemory")' + inAll(mOffers, "sharedMemory")'
    BY DEF promised, carried, sumOf
  <2>4. promised = carried(messages) + waiting("sharedMemory") + inAll(mOffers, "sharedMemory")
    BY DEF promised
  <2> HIDE DEF gives
  <2>5. /\ carried(messages) \in Int /\ waiting("sharedMemory") \in Int /\ inAll(mOffers, "sharedMemory") \in Int
        /\ gives \in Int /\ carried(messages') = carried(messages) + gives
    BY <1>2, <1>3
  <2>6. promised' = (carried(messages) + gives) + waiting("sharedMemory") + inAll(mOffers, "sharedMemory")
    BY <2>1, <2>2, <2>3, <2>5
  <2> QED
    BY <2>4, <2>5, <2>6
<1>10. LedgerTypes'
  BY <1>3, <1>6 DEF LedgerTypes
<1> HIDE DEF gives, x
<1>11. k \in Nat /\ k <= N /\ N - k \in Nat /\ N - k \in 0 .. N - k /\ (N - k) + k = N /\ k \in 0 .. N /\ N \in 0 .. N
  BY <1>0, <1>2
<1>12. Len(readerMetrics)' = N - k
  BY <1>0
<1>13. \A n \in 0 .. N - k : /\ acquiredUpTo(n)' = acquiredUpTo(n + k) - acquiredUpTo(k)
                            /\ coveredUpTo(n)' = coveredUpTo(n + k) - coveredUpTo(k)
                            /\ returnedUpTo(n)' = returnedUpTo(n + k) - returnedUpTo(k)
  BY <1>0
<1>14. /\ acquiredUpTo(N - k)' = acquiredUpTo(N) - acquiredUpTo(k)
       /\ coveredUpTo(N - k)' = coveredUpTo(N) - coveredUpTo(k)
       /\ returnedUpTo(N - k)' = returnedUpTo(N) - returnedUpTo(k)
  BY <1>11, <1>13
<1>15. /\ acquiredUpTo(N) \in Int /\ returnedUpTo(N) \in Int /\ acquiredUpTo(k) \in Int /\ returnedUpTo(k) \in Int
       /\ coveredUpTo(N) \in Int /\ coveredUpTo(k) \in Int
  BY <1>2, <1>11
<1>16. x \in Int /\ disposing' = disposing - x
  BY DEF x
<1>21. /\ promised \in Int /\ outstanding \in Int /\ disposing \in Int /\ memoryInUse \in Int
       /\ balance["sharedMemory"] \in Int /\ uncharged \in Int /\ gives \in Int
  BY <1>2, <1>3
<1>22. /\ outstanding' = outstanding + gives - returnedUpTo(k)
       /\ balance'["sharedMemory"] = balance["sharedMemory"] + x - acquiredUpTo(k)
  BY <1>3
<1>17. UseIsKnown'
  <2>1. memoryInUse = acquiredUpTo(N) - balance["sharedMemory"] - disposing
    BY <1>0, <1>1 DEF UseIsKnown
  <2>2. memoryInUse' = acquiredUpTo(N - k)' - balance'["sharedMemory"] - disposing'
    <3>1. acquiredUpTo(N) - balance["sharedMemory"] - disposing
            = (acquiredUpTo(N) - acquiredUpTo(k))
                - (balance["sharedMemory"] + x - acquiredUpTo(k)) - (disposing - x)
      <4>1. /\ acquiredUpTo(N) \in Int /\ acquiredUpTo(k) \in Int /\ balance["sharedMemory"] \in Int
            /\ disposing \in Int /\ x \in Int
        BY <1>15, <1>16, <1>21
      <4> HIDE DEF x
      <4> QED
        BY <4>1, UseStaysKnown
    <3> QED
      BY <1>8, <1>14, <1>16, <1>22, <2>1, <3>1
  <2> QED
    BY <1>12, <2>2 DEF UseIsKnown, acquiredUpTo
<1>18. ReturnsAreOffered'
  <2>1. returnedUpTo(N) + promised <= outstanding
    BY <1>0, <1>1 DEF ReturnsAreOffered
  <2>2. returnedUpTo(N - k)' + promised' <= outstanding'
    <3>1. (returnedUpTo(N) - returnedUpTo(k)) + (promised + gives) <= outstanding + gives - returnedUpTo(k)
      BY <1>15, <1>21, <2>1, ReturnsStayOffered, Zenon
    <3> QED
      BY <1>9, <1>14, <1>22, <3>1
  <2> QED
    BY <1>12, <2>2 DEF ReturnsAreOffered, returnedUpTo
<1>19. UseIsCovered'
  <2>1. ASSUME NEW n \in 0 .. N - k
        PROVE  coveredUpTo(N - k)' - coveredUpTo(n)' + returnedUpTo(n)' + promised' - uncharged' <= outstanding'
    <3>1. n + k \in 0 .. N
      BY <1>11
    <3>2. coveredUpTo(N) - coveredUpTo(n + k) + returnedUpTo(n + k) + promised - uncharged <= outstanding
      BY <1>0, <1>1, <3>1 DEF UseIsCovered
    <3>3. coveredUpTo(n + k) \in Int /\ returnedUpTo(n + k) \in Int
      BY <1>2, <3>1
    <3>4. /\ coveredUpTo(n)' = coveredUpTo(n + k) - coveredUpTo(k)
          /\ returnedUpTo(n)' = returnedUpTo(n + k) - returnedUpTo(k)
      BY <1>13
    <3> QED
      <4>1. (coveredUpTo(N) - coveredUpTo(k)) - (coveredUpTo(n + k) - coveredUpTo(k))
              + (returnedUpTo(n + k) - returnedUpTo(k)) + (promised + gives) - uncharged
                <= outstanding + gives - returnedUpTo(k)
        BY <1>15, <1>21, <3>2, <3>3, UseStaysCovered, Zenon
      <4> QED
        BY <1>8, <1>9, <1>14, <1>22, <3>4, <4>1
  <2> QED
    BY <1>12, <2>1 DEF UseIsCovered, coveredUpTo
<1>20. WithinLimit'
  <2> DEFINE roof == (limit + 1) * unit
             t == memoryInUse + promised - uncharged
  <2>1. roof \in Int /\ t \in Int /\ gives \in Int
    BY <1>21, Unit
  <2>2. memoryInUse' + promised' - uncharged' = t + gives
    BY <1>8, <1>9, <1>21
  <2>3. overAllocated \in Int /\ t < roof + overAllocated
    BY <1>1 DEF WithinLimit
  <2>4. possibleOffer("sharedMemory") # 0 => (t - unseen) + gives < roof
    <3>1. ASSUME possibleOffer("sharedMemory") # 0
          PROVE  (memoryInUse + promised - uncharged - unseen) + gives < (limit + 1) * unit
      BY <1>4, <3>1
    <3>2. memoryInUse + promised - uncharged - unseen = t - unseen
      BY <1>2, <1>23
    <3> QED
      BY <3>1, <3>2
  <2> HIDE DEF roof, t
  <2>5. overAllocated' \in Int /\ t + gives < roof + overAllocated'
    <3>1. CASE possibleOffer("sharedMemory") = 0
      BY <1>4, <1>24, <2>1, <2>3, <3>1
    <3>2. CASE possibleOffer("sharedMemory") # 0
      <4>1. overAllocated' = unseen
        BY <1>4, <3>2
      <4> QED
        BY <1>23, <2>1, <2>4, <3>2, <4>1
    <3> QED
      BY <3>1, <3>2
  <2>6. overAllocated' \in Int /\ memoryInUse' + promised' - uncharged' < roof + overAllocated'
    BY <2>2, <2>5
  <2> QED
    BY <2>6 DEF WithinLimit, limit, unit, roof
<1> QED
  BY <1>7, <1>10, <1>17, <1>18, <1>19, <1>20 DEF MemoryInv, Ledger

LEMMA FieldNames == "returned" \in Fields /\ "acquired" \in Fields /\ "disposed" \in Fields
BY DEF Fields

LEMMA DriverReadsReader ==
  ASSUME MemoryInv, DriverHandlesReader
  PROVE  MemoryInv'
<1>1. PICK k \in 1 .. Len(readerMetrics) : readerChunk(k)
  BY DEF DriverHandlesReader
<1> DEFINE q == readerMetrics
           first == SubSeq(q, 1, k)
           rest == SubSeq(q, k + 1, Len(q))
<1>2. /\ metricHandling(first) /\ readerMetrics' = rest
      /\ UNCHANGED <<quotaVars, dataVars>> /\ UNCHANGED <<taskMetrics, sinkMetrics>> /\ UNCHANGED inFlight
  BY <1>1 DEF readerChunk, dataVars
<1>3. q \in Seq(Metrics) /\ MetricTypes /\ Len(q) \in Nat
  BY DEF MemoryInv, LedgerTypes, MetricTypes
<1>4. k \in 0 .. Len(q)
  BY <1>3
<1>5. /\ first \in Seq(Metrics) /\ rest \in Seq(Metrics) /\ Len(rest) = Len(q) - k
      /\ \A field \in Fields :
           /\ total(first, field, "sharedMemory") = sums(q, field, k)
           /\ \A n \in 0 .. Len(q) - k : sums(rest, field, n) = sums(q, field, n + k) - sums(q, field, k)
  BY <1>3, <1>4, SumsTaken
<1>6. \A j \in 1 .. Len(q) - k : rest[j] = q[j + k]
  BY <1>3, <1>4
<1>7. \A j \in 1 .. Len(q) : q[j].disposed["sharedMemory"] = 0
  BY <1>3 DEF MetricTypes
<1>8. MetricTypes'
  <2>1. \A j \in 1 .. Len(rest) : rest[j].disposed["sharedMemory"] = 0
    <3>1. \A j \in 1 .. Len(q) - k : j + k \in 1 .. Len(q)
      BY <1>3, <1>4
    <3> QED
      BY <1>5, <1>6, <1>7, <3>1
  <2> HIDE DEF rest
  <2> QED
    BY <1>2, <1>3, <1>5, <2>1 DEF MetricTypes
<1>9. total(first, "disposed", "sharedMemory") = 0
  <2>1. sums(q, "disposed", k) = 0
    BY <1>3, <1>4, <1>7, FieldNames, SumsZero
  <2> QED
    BY <1>5, <2>1, FieldNames
<1> HIDE DEF first, rest
<1>10. disposing' = disposing - total(first, "disposed", "sharedMemory") /\ 0 \in Int
  <2>1. disposing' = disposing
    BY <1>2 DEF disposing, total
  <2>2. disposing \in Int
    BY LedgerAmounts DEF MemoryInv
  <2> QED
    BY <1>9, <2>1, <2>2
<1>14. \A n \in 0 .. Len(q) - k : within(rest, n) = within(q, n + k) - within(q, k)
  BY <1>3, <1>4, CoverageTaken DEF rest
<1>11. \A n \in 0 .. Len(q) - k :
         /\ acquiredUpTo(n)' = acquiredUpTo(n + k) - acquiredUpTo(k)
         /\ coveredUpTo(n)' = coveredUpTo(n + k) - coveredUpTo(k)
         /\ returnedUpTo(n)' = returnedUpTo(n + k) - returnedUpTo(k)
  <2>1. \A n \in 0 .. Len(q) - k : /\ acquiredUpTo(n)' = sums(rest, "acquired", n)
                                  /\ returnedUpTo(n)' = sums(rest, "returned", n)
    BY <1>2 DEF acquiredUpTo, returnedUpTo, sums, column, upTo
  <2>2. \A n \in 0 .. Len(q) - k : coveredUpTo(n)' = within(rest, n)
    BY <1>2 DEF coveredUpTo, within, coverage, upTo
  <2>3. \A n \in 0 .. Len(q) - k : coveredUpTo(n)' = coveredUpTo(n + k) - coveredUpTo(k)
    BY <1>14, <2>2 DEF coveredUpTo
  <2> QED
    BY <1>5, <2>1, <2>3, FieldNames DEF acquiredUpTo, returnedUpTo
<1>12. Len(readerMetrics)' = Len(readerMetrics) - k
  BY <1>2, <1>5
<1>13. /\ total(first, "returned", "sharedMemory") = returnedUpTo(k)
       /\ total(first, "acquired", "sharedMemory") = acquiredUpTo(k)
  BY <1>5, FieldNames DEF acquiredUpTo, returnedUpTo
<1> QED
  BY <1>2, <1>4, <1>5, <1>8, <1>9, <1>10, <1>11, <1>12, <1>13, DriverKeeps

(* The metrics of the reader stay unread. *)
LEMMA DriverReadsOther ==
  ASSUME MemoryInv, NEW chunk \in Seq(Metrics), metricHandling(chunk),
         UNCHANGED <<quotaVars, dataVars>>, MetricTypes', UNCHANGED readerMetrics,
         total(chunk, "returned", "sharedMemory") = 0,
         total(chunk, "acquired", "sharedMemory") = 0,
         disposing' = disposing - total(chunk, "disposed", "sharedMemory"),
         total(chunk, "disposed", "sharedMemory") \in Int
  PROVE  MemoryInv'
<1>1. /\ Len(readerMetrics) \in Nat
      /\ \A n \in 0 .. Len(readerMetrics) : acquiredUpTo(n) \in Int /\ coveredUpTo(n) \in Int /\ returnedUpTo(n) \in Int
  BY LedgerAmounts DEF MemoryInv
<1>2. acquiredUpTo(0) = 0 /\ coveredUpTo(0) = 0 /\ returnedUpTo(0) = 0
  <2>1. readerMetrics \in Seq(Metrics)
    BY DEF MemoryInv, LedgerTypes, MetricTypes
  <2> QED
    BY <2>1, FieldNames, SumsType, Coverage DEF acquiredUpTo, coveredUpTo, returnedUpTo
<1>3. 0 \in 0 .. Len(readerMetrics) /\ Len(readerMetrics)' = Len(readerMetrics) - 0 /\ Len(readerMetrics) - 0 = Len(readerMetrics)
  BY <1>1
<1>4. \A n \in 0 .. Len(readerMetrics) :
        /\ acquiredUpTo(n)' = acquiredUpTo(n) /\ coveredUpTo(n)' = coveredUpTo(n)
        /\ returnedUpTo(n)' = returnedUpTo(n)
  BY DEF acquiredUpTo, coveredUpTo, returnedUpTo, sums, column, within, coverage, upTo
<1>5. \A n \in 0 .. Len(readerMetrics) - 0 :
        /\ acquiredUpTo(n)' = acquiredUpTo(n + 0) - acquiredUpTo(0)
        /\ coveredUpTo(n)' = coveredUpTo(n + 0) - coveredUpTo(0)
        /\ returnedUpTo(n)' = returnedUpTo(n + 0) - returnedUpTo(0)
  <2> SUFFICES ASSUME NEW n \in 0 .. Len(readerMetrics)
               PROVE  /\ acquiredUpTo(n)' = acquiredUpTo(n + 0) - acquiredUpTo(0)
                      /\ coveredUpTo(n)' = coveredUpTo(n + 0) - coveredUpTo(0)
                      /\ returnedUpTo(n)' = returnedUpTo(n + 0) - returnedUpTo(0)
    BY <1>3
  <2>1. n + 0 = n
    BY <1>1
  <2>2. /\ acquiredUpTo(n) - 0 = acquiredUpTo(n) /\ coveredUpTo(n) - 0 = coveredUpTo(n)
        /\ returnedUpTo(n) - 0 = returnedUpTo(n)
    BY <1>1
  <2> QED
    BY <1>2, <1>4, <2>1, <2>2
<1> QED
  BY <1>2, <1>3, <1>5, DriverKeeps

LEMMA DriverReadsTask ==
  ASSUME MemoryInv, DriverHandlesTask
  PROVE  MemoryInv'
<1> DEFINE h == Head(taskMetrics)
           t == Tail(taskMetrics)
<1>1. /\ taskMetrics # <<>> /\ metricHandling(<<h>>) /\ taskMetrics' = t
      /\ UNCHANGED <<quotaVars, dataVars>> /\ UNCHANGED <<readerMetrics, sinkMetrics, inFlight>>
  BY DEF DriverHandlesTask, dataVars
<1>2. taskMetrics \in Seq(Metrics) /\ MetricTypes
  BY DEF MemoryInv, LedgerTypes, MetricTypes
<1>3. /\ t \in Seq(Metrics) /\ h \in Metrics
      /\ total(t, "disposed", "sharedMemory") = disposing - h.disposed["sharedMemory"]
  BY <1>1, <1>2, FieldNames, TotalOfTail DEF disposing
<1>4. <<h>> \in Seq(Metrics) /\ \A field \in Fields : total(<<h>>, field, "sharedMemory") = h[field]["sharedMemory"]
  BY <1>3, TotalOfOne
<1>5. /\ Len(taskMetrics) \in Nat /\ Len(taskMetrics) > 0 /\ h = taskMetrics[1] /\ Len(t) = Len(taskMetrics) - 1
      /\ \A j \in 1 .. Len(taskMetrics) - 1 : t[j] = taskMetrics[j + 1]
  BY <1>1, <1>2
<1> HIDE DEF h, t
<1>6. \A j \in 1 .. Len(taskMetrics) :
        /\ taskMetrics[j].disposed["sharedMemory"] \in Nat
        /\ taskMetrics[j].returned["sharedMemory"] = 0
        /\ taskMetrics[j].acquired["sharedMemory"] = 0
  BY <1>2 DEF MetricTypes
<1>7. /\ h.disposed["sharedMemory"] \in Nat
      /\ h.returned["sharedMemory"] = 0 /\ h.acquired["sharedMemory"] = 0
  BY <1>5, <1>6
<1>8. MetricTypes'
  <2>1. \A j \in 1 .. Len(t) : /\ t[j].disposed["sharedMemory"] \in Nat
                              /\ t[j].returned["sharedMemory"] = 0
                              /\ t[j].acquired["sharedMemory"] = 0
    <3>1. \A j \in 1 .. Len(taskMetrics) - 1 : j + 1 \in 1 .. Len(taskMetrics)
      BY <1>5
    <3> QED
      BY <1>5, <1>6, <3>1
  <2> QED
    BY <1>1, <1>2, <1>3, <2>1 DEF MetricTypes
<1>9. disposing' = total(t, "disposed", "sharedMemory")
  BY <1>1 DEF disposing, total
<1>10. /\ total(<<h>>, "returned", "sharedMemory") = 0 /\ total(<<h>>, "acquired", "sharedMemory") = 0
       /\ total(<<h>>, "disposed", "sharedMemory") = h.disposed["sharedMemory"]
  BY <1>4, <1>7, FieldNames
<1>11. disposing' = disposing - total(<<h>>, "disposed", "sharedMemory") /\ total(<<h>>, "disposed", "sharedMemory") \in Int
  BY <1>3, <1>7, <1>9, <1>10
<1> QED
  BY <1>1, <1>4, <1>8, <1>10, <1>11, DriverReadsOther

LEMMA DriverReadsSink ==
  ASSUME MemoryInv, DriverHandlesSink
  PROVE  MemoryInv'
<1> DEFINE h == Head(sinkMetrics)
           t == Tail(sinkMetrics)
<1>1. /\ sinkMetrics # <<>> /\ metricHandling(<<h>>) /\ sinkMetrics' = t
      /\ UNCHANGED <<quotaVars, dataVars>> /\ UNCHANGED <<readerMetrics, taskMetrics, inFlight>>
  BY DEF DriverHandlesSink, dataVars
<1>2. sinkMetrics \in Seq(Metrics) /\ MetricTypes
  BY DEF MemoryInv, LedgerTypes, MetricTypes
<1>3. t \in Seq(Metrics) /\ h \in Metrics
  BY <1>1, <1>2, FieldNames, TotalOfTail
<1>4. <<h>> \in Seq(Metrics) /\ \A field \in Fields : total(<<h>>, field, "sharedMemory") = h[field]["sharedMemory"]
  BY <1>3, TotalOfOne
<1>5. /\ Len(sinkMetrics) \in Nat /\ Len(sinkMetrics) > 0 /\ h = sinkMetrics[1] /\ Len(t) = Len(sinkMetrics) - 1
      /\ \A j \in 1 .. Len(sinkMetrics) - 1 : t[j] = sinkMetrics[j + 1]
  BY <1>1, <1>2
<1> HIDE DEF h, t
<1>6. \A j \in 1 .. Len(sinkMetrics), field \in Fields : sinkMetrics[j][field]["sharedMemory"] = 0
  BY <1>2 DEF MetricTypes
<1>7. \A field \in Fields : h[field]["sharedMemory"] = 0
  BY <1>5, <1>6
<1>8. MetricTypes'
  <2>1. \A j \in 1 .. Len(t), field \in Fields : t[j][field]["sharedMemory"] = 0
    <3>1. \A j \in 1 .. Len(sinkMetrics) - 1 : j + 1 \in 1 .. Len(sinkMetrics)
      BY <1>5
    <3> QED
      BY <1>5, <1>6, <3>1
  <2> QED
    BY <1>1, <1>2, <1>3, <2>1 DEF MetricTypes
<1>9. disposing' = disposing /\ disposing \in Int
  <2>1. disposing' = disposing
    BY <1>1 DEF disposing, total
  <2>2. disposing \in Int
    BY LedgerAmounts DEF MemoryInv
  <2> QED
    BY <2>1, <2>2
<1>10. /\ total(<<h>>, "returned", "sharedMemory") = 0 /\ total(<<h>>, "acquired", "sharedMemory") = 0
       /\ total(<<h>>, "disposed", "sharedMemory") = 0
  BY <1>4, <1>7, FieldNames
<1>11. disposing' = disposing - total(<<h>>, "disposed", "sharedMemory") /\ total(<<h>>, "disposed", "sharedMemory") \in Int
  BY <1>9, <1>10
<1> QED
  BY <1>1, <1>4, <1>8, <1>10, <1>11, DriverReadsOther

LEMMA DriverReadsNothing ==
  ASSUME MemoryInv, DriverHandlesOther
  PROVE  MemoryInv'
<1> DEFINE e == <<>>
<1>1. /\ metricHandling(e) /\ UNCHANGED <<quotaVars, dataVars>>
      /\ UNCHANGED <<readerMetrics, taskMetrics, sinkMetrics, inFlight>>
  BY DEF DriverHandlesOther, dataVars, metricVars
<1>2. e \in Seq(Metrics) /\ Len(e) = 0 /\ MetricTypes
  BY DEF MemoryInv, LedgerTypes
<1> HIDE DEF e
<1>3. \A field \in Fields : total(e, field, "sharedMemory") = 0
  <2>1. \A field \in Fields : total(e, field, "sharedMemory") = sums(e, field, Len(e)) /\ sums(e, field, 0) = 0
    BY <1>2, SumsType
  <2> QED
    BY <1>2, <2>1
<1>4. MetricTypes'
  BY <1>1, <1>2 DEF MetricTypes
<1>5. disposing' = disposing - total(e, "disposed", "sharedMemory") /\ total(e, "disposed", "sharedMemory") \in Int
  <2>1. disposing' = disposing
    BY <1>1 DEF disposing, total
  <2>2. disposing \in Int
    BY LedgerAmounts DEF MemoryInv
  <2> QED
    BY <1>3, <2>1, <2>2, FieldNames
<1> QED
  BY <1>1, <1>2, <1>3, <1>4, <1>5, FieldNames, DriverReadsOther
-------------------------------------------------------------------------------
(***************************************************************************)
(* The reader.                                                             *)
(***************************************************************************)
(* The metrics p are q and reports of x bytes in all that came back.       *)
Reports(q, p, x) ==
  /\ sums(p, "acquired", Len(p)) = sums(q, "acquired", Len(q)) /\ within(p, Len(p)) = within(q, Len(q))
  /\ sums(p, "returned", Len(p)) = sums(q, "returned", Len(q)) + x
  /\ \A n \in 0 .. Len(p) :
       \/ /\ n \in 0 .. Len(q)
          /\ sums(p, "acquired", n) = sums(q, "acquired", n) /\ within(p, n) = within(q, n)
          /\ sums(p, "returned", n) = sums(q, "returned", n)
       \/ /\ sums(p, "acquired", n) = sums(q, "acquired", Len(q)) /\ within(p, n) = within(q, Len(q))
          /\ sums(p, "returned", n) <= sums(q, "returned", Len(q)) + x

NothingDisposed(q) == \A j \in 1 .. Len(q) : q[j].disposed["sharedMemory"] = 0

LEMMA SilentReport ==
  ASSUME NEW q \in Seq(Metrics)
  PROVE  Reports(q, q, 0)
<1>1. /\ Len(q) \in Nat /\ \A n \in 0 .. Len(q) : sums(q, "returned", n) \in Int
  BY FieldNames, SumsType
<1>2. sums(q, "returned", Len(q)) \in Int
  BY <1>1
<1>3. sums(q, "returned", Len(q)) + 0 = sums(q, "returned", Len(q))
  BY <1>2
<1> QED
  BY <1>3 DEF Reports

(* What one report says. *)
LEMMA ReportIs ==
  ASSUME NEW amount \in Amounts
  PROVE  LET m == metric(amount, nothing, nothing) IN
         /\ m \in Metrics
         /\ m.returned["sharedMemory"] = amount["sharedMemory"]
         /\ m.acquired["sharedMemory"] = 0 /\ m.disposed["sharedMemory"] = 0
         /\ \/ report(amount) = <<>> /\ amount["sharedMemory"] = 0
            \/ report(amount) = <<m>>
<1>1. nothing \in Amounts /\ nothing["sharedMemory"] = 0
  BY Memory DEF nothing, Amounts
<1>2. amount = nothing => amount["sharedMemory"] = 0
  BY <1>1
<1>3. metric(amount, nothing, nothing) = [returned |-> amount, disposed |-> nothing, acquired |-> nothing]
  BY DEF metric
<1>4. /\ metric(amount, nothing, nothing) \in Metrics
      /\ metric(amount, nothing, nothing).returned = amount
      /\ metric(amount, nothing, nothing).acquired = nothing
      /\ metric(amount, nothing, nothing).disposed = nothing
  BY <1>1, <1>3 DEF Metrics
<1>5. report(amount) = IF amount = nothing THEN <<>> ELSE <<metric(amount, nothing, nothing)>>
  BY DEF report
<1> QED
  BY <1>1, <1>2, <1>4, <1>5, Zenon

LEMMA AppendedReport ==
  ASSUME NEW q \in Seq(Metrics), NothingDisposed(q), NEW amount \in Amounts
  PROVE  LET p == q \o report(amount) IN
         /\ p \in Seq(Metrics) /\ NothingDisposed(p)
         /\ \/ p = q /\ amount["sharedMemory"] = 0
            \/ /\ Len(p) = Len(q) + 1
               /\ \A field \in Fields, n \in 0 .. Len(q) : sums(p, field, n) = sums(q, field, n)
               /\ \A n \in 0 .. Len(q) : within(p, n) = within(q, n)
               /\ sums(p, "acquired", Len(p)) = sums(q, "acquired", Len(q)) /\ within(p, Len(p)) = within(q, Len(q))
               /\ sums(p, "returned", Len(p)) = sums(q, "returned", Len(q)) + amount["sharedMemory"]
<1> DEFINE m == metric(amount, nothing, nothing)
           p == q \o report(amount)
<1>1. /\ m \in Metrics /\ m.returned["sharedMemory"] = amount["sharedMemory"]
      /\ m.acquired["sharedMemory"] = 0 /\ m.disposed["sharedMemory"] = 0
      /\ \/ report(amount) = <<>> /\ amount["sharedMemory"] = 0
         \/ report(amount) = <<m>>
  BY ReportIs
<1> HIDE DEF m
<1>2. CASE report(amount) = <<>> /\ amount["sharedMemory"] = 0
  <2>1. p = q
    BY <1>2
  <2> QED
    BY <1>2, <2>1
<1>3. CASE report(amount) = <<m>>
  <2>1. p = Append(q, m)
    BY <1>1, <1>3
  <2> HIDE DEF p
  <2>2. /\ p \in Seq(Metrics) /\ Len(p) = Len(q) + 1
        /\ \A field \in Fields :
             /\ \A n \in 0 .. Len(q) : sums(p, field, n) = sums(q, field, n)
             /\ sums(p, field, Len(q) + 1) = sums(q, field, Len(q)) + m[field]["sharedMemory"]
    BY <1>1, <2>1, SumsAppended
  <2>3. NothingDisposed(p)
    <3>1. Len(q) \in Nat /\ \A j \in 1 .. Len(q) : p[j] = q[j]
      BY <1>1, <2>1
    <3>2. p[Len(q) + 1] = m
      BY <1>1, <2>1
    <3>3. \A j \in 1 .. Len(q) + 1 : j \in 1 .. Len(q) \/ j = Len(q) + 1
      BY <3>1
    <3> QED
      BY <1>1, <2>2, <3>1, <3>2, <3>3 DEF NothingDisposed
  <2>4. sums(q, "acquired", Len(q)) \in Int
    <3>1. Len(q) \in Nat /\ \A n \in 0 .. Len(q) : sums(q, "acquired", n) \in Int
      BY FieldNames, SumsType
    <3> QED
      BY <3>1
  <2>5. sums(p, "acquired", Len(p)) = sums(q, "acquired", Len(q)) + 0
    BY <1>1, <2>2, FieldNames
  <2>6. sums(p, "returned", Len(p)) = sums(q, "returned", Len(q)) + amount["sharedMemory"]
    BY <1>1, <2>2, FieldNames
  <2>9. /\ \A n \in 0 .. Len(q) : within(p, n) = within(q, n)
        /\ within(p, Len(p)) = within(q, Len(q))
    <3>1. /\ \A n \in 0 .. Len(q) : within(p, n) = within(q, n)
          /\ within(p, Len(q) + 1) = within(q, Len(q)) + covered(0)
      BY <1>1, <2>1, CoverageAppended
    <3>2. covered(0) = 0
      BY QuotaAssumption DEF covered
    <3>3. within(q, Len(q)) \in Int
      <4>1. Len(q) \in Nat /\ \A n \in 0 .. Len(q) : within(q, n) \in Int
        BY Coverage
      <4> QED
        BY <4>1
    <3> QED
      BY <2>2, <3>1, <3>2, <3>3
  <2>7. sums(p, "acquired", Len(p)) = sums(q, "acquired", Len(q)) /\ within(p, Len(p)) = within(q, Len(q))
    BY <2>4, <2>5, <2>9
  <2>8. \A field \in Fields, n \in 0 .. Len(q) : sums(p, field, n) = sums(q, field, n)
    BY <2>2
  <2> QED
    BY <2>2, <2>3, <2>6, <2>7, <2>8, <2>9 DEF p
<1> QED
  BY <1>1, <1>2, <1>3

LEMMA FirstReport ==
  ASSUME NEW q \in Seq(Metrics), NothingDisposed(q), NEW amount \in Amounts
  PROVE  LET p == q \o report(amount) IN
         p \in Seq(Metrics) /\ NothingDisposed(p) /\ Reports(q, p, amount["sharedMemory"])
<1> DEFINE p == q \o report(amount)
           a == amount["sharedMemory"]
<1>1. /\ p \in Seq(Metrics) /\ NothingDisposed(p)
      /\ \/ p = q /\ a = 0
         \/ /\ Len(p) = Len(q) + 1
            /\ \A field \in Fields, n \in 0 .. Len(q) : sums(p, field, n) = sums(q, field, n)
            /\ \A n \in 0 .. Len(q) : within(p, n) = within(q, n)
            /\ sums(p, "acquired", Len(p)) = sums(q, "acquired", Len(q)) /\ within(p, Len(p)) = within(q, Len(q))
            /\ sums(p, "returned", Len(p)) = sums(q, "returned", Len(q)) + a
  BY AppendedReport
<1>2. CASE p = q /\ a = 0
  <2>1. Reports(q, q, 0)
    BY SilentReport
  <2> QED
    BY <1>1, <1>2, <2>1
<1>3. CASE /\ Len(p) = Len(q) + 1
           /\ \A field \in Fields, n \in 0 .. Len(q) : sums(p, field, n) = sums(q, field, n)
           /\ \A n \in 0 .. Len(q) : within(p, n) = within(q, n)
           /\ sums(p, "acquired", Len(p)) = sums(q, "acquired", Len(q)) /\ within(p, Len(p)) = within(q, Len(q))
           /\ sums(p, "returned", Len(p)) = sums(q, "returned", Len(q)) + a
  <2>1. Len(q) \in Nat /\ \A n \in 0 .. Len(q) : sums(q, "returned", n) \in Int
    BY FieldNames, SumsType
  <2>2. sums(p, "returned", Len(p)) <= sums(q, "returned", Len(q)) + a
    <3>1. sums(q, "returned", Len(q)) \in Int /\ a \in Int
      BY <2>1, Memory DEF Amounts
    <3>2. sums(q, "returned", Len(q)) + a <= sums(q, "returned", Len(q)) + a
      BY <3>1
    <3> QED
      BY <1>3, <3>2
  <2>3. \A n \in 0 .. Len(p) : n \in 0 .. Len(q) \/ n = Len(p)
    BY <1>3, <2>1
  <2> HIDE DEF p, a
  <2>4. Reports(q, p, a)
    BY <1>3, <2>2, <2>3, FieldNames, Zenon DEF Reports
  <2> QED
    BY <1>1, <2>4 DEF p, a
<1> QED
  BY <1>1, <1>2, <1>3

LEMMA AtMostMore ==
  ASSUME NEW s \in Int, NEW R \in Int, NEW x \in Int, NEW a \in Nat, s <= R + x
  PROVE  s <= R + (x + a)
OBVIOUS

LEMMA NextReport ==
  ASSUME NEW q \in Seq(Metrics), NEW p \in Seq(Metrics), NothingDisposed(p), NEW x \in Int, Reports(q, p, x),
         NEW amount \in Amounts, amount["sharedMemory"] \in Nat
  PROVE  LET t == p \o report(amount) IN
         t \in Seq(Metrics) /\ NothingDisposed(t) /\ Reports(q, t, x + amount["sharedMemory"])
<1> DEFINE t == p \o report(amount)
           a == amount["sharedMemory"]
<1>1. /\ t \in Seq(Metrics) /\ NothingDisposed(t)
      /\ \/ t = p /\ a = 0
         \/ /\ Len(t) = Len(p) + 1
            /\ \A field \in Fields, n \in 0 .. Len(p) : sums(t, field, n) = sums(p, field, n)
            /\ \A n \in 0 .. Len(p) : within(t, n) = within(p, n)
            /\ sums(t, "acquired", Len(t)) = sums(p, "acquired", Len(p)) /\ within(t, Len(t)) = within(p, Len(p))
            /\ sums(t, "returned", Len(t)) = sums(p, "returned", Len(p)) + a
  BY AppendedReport
<1>2. CASE t = p /\ a = 0
  <2>1. x + a = x
    BY <1>2
  <2> QED
    BY <1>1, <1>2, <2>1
<1>3. CASE /\ Len(t) = Len(p) + 1
           /\ \A field \in Fields, n \in 0 .. Len(p) : sums(t, field, n) = sums(p, field, n)
           /\ \A n \in 0 .. Len(p) : within(t, n) = within(p, n)
           /\ sums(t, "acquired", Len(t)) = sums(p, "acquired", Len(p)) /\ within(t, Len(t)) = within(p, Len(p))
           /\ sums(t, "returned", Len(t)) = sums(p, "returned", Len(p)) + a
  <2> DEFINE R == sums(q, "returned", Len(q))
  <2>0. a \in Nat
    OBVIOUS
  <2>1. Len(p) \in Nat /\ \A n \in 0 .. Len(p) : sums(p, "returned", n) \in Int
    BY FieldNames, SumsType
  <2>2. R \in Int
    <3>1. Len(q) \in Nat /\ \A n \in 0 .. Len(q) : sums(q, "returned", n) \in Int
      BY FieldNames, SumsType
    <3> QED
      BY <3>1
  <2>3. \A n \in 0 .. Len(t) : n \in 0 .. Len(p) \/ n = Len(t)
    BY <1>3, <2>1
  <2> HIDE DEF t, a, R
  <2>4. /\ sums(p, "acquired", Len(p)) = sums(q, "acquired", Len(q)) /\ within(p, Len(p)) = within(q, Len(q))
        /\ sums(p, "returned", Len(p)) = R + x
        /\ \A n \in 0 .. Len(p) :
             \/ /\ n \in 0 .. Len(q)
                /\ sums(p, "acquired", n) = sums(q, "acquired", n) /\ within(p, n) = within(q, n)
                /\ sums(p, "returned", n) = sums(q, "returned", n)
             \/ /\ sums(p, "acquired", n) = sums(q, "acquired", Len(q)) /\ within(p, n) = within(q, Len(q))
                /\ sums(p, "returned", n) <= R + x
    BY DEF Reports, R
  <2>5. \A n \in 0 .. Len(p) : sums(p, "returned", n) <= R + x => sums(p, "returned", n) <= R + (x + a)
    BY <2>0, <2>1, <2>2, AtMostMore, Zenon
  <2>6. sums(t, "returned", Len(t)) = R + (x + a)
    <3>1. (R + x) + a = R + (x + a)
      BY <2>0, <2>2
    <3> QED
      BY <1>3, <2>4, <3>1
  <2>7. R + (x + a) <= R + (x + a)
    BY <2>0, <2>2
  <2>8. Reports(q, t, x + a)
    <3>1. sums(t, "acquired", Len(t)) = sums(q, "acquired", Len(q)) /\ within(t, Len(t)) = within(q, Len(q))
      BY <1>3, <2>4
    <3>2. ASSUME NEW n \in 0 .. Len(t)
          PROVE  \/ /\ n \in 0 .. Len(q)
                    /\ sums(t, "acquired", n) = sums(q, "acquired", n) /\ within(t, n) = within(q, n)
                    /\ sums(t, "returned", n) = sums(q, "returned", n)
                 \/ /\ sums(t, "acquired", n) = sums(q, "acquired", Len(q)) /\ within(t, n) = within(q, Len(q))
                    /\ sums(t, "returned", n) <= R + (x + a)
      <4>1. CASE n \in 0 .. Len(p)
        <5>1. sums(t, "acquired", n) = sums(p, "acquired", n) /\ within(t, n) = within(p, n) /\ sums(t, "returned", n) = sums(p, "returned", n)
          BY <1>3, <4>1, FieldNames
        <5> QED
          BY <2>4, <2>5, <4>1, <5>1, Zenon
      <4>2. CASE n = Len(t)
        <5>1. sums(t, "returned", n) <= R + (x + a)
          BY <2>6, <2>7, <4>2
        <5> QED
          BY <3>1, <4>2, <5>1
      <4> QED
        BY <2>3, <4>1, <4>2
    <3> QED
      BY <2>6, <3>1, <3>2, Zenon DEF Reports, R
  <2> QED
    BY <1>1, <2>8 DEF t, a
<1> QED
  BY <1>1, <1>2, <1>3

(* A step that takes x bytes off the offers and reports them. *)
LEMMA ReturnsStill ==
  ASSUME NEW R \in Int, NEW P \in Int, NEW D \in Int, NEW x \in Int, NEW P2 \in Int, R + P <= D, P2 + x <= P
  PROVE  (R + x) + P2 <= D
OBVIOUS

LEMMA CoveredStill ==
  ASSUME NEW A \in Int, NEW An \in Int, NEW Rn \in Int, NEW P \in Int, NEW U \in Int, NEW P2 \in Int,
         NEW U2 \in Int, NEW D \in Int, A - An + Rn + P - U <= D, P2 - U2 <= P - U
  PROVE  A - An + Rn + P2 - U2 <= D
OBVIOUS

LEMMA CoveredByReturns ==
  ASSUME NEW A \in Int, NEW Rn \in Int, NEW R \in Int, NEW x \in Int, NEW P2 \in Int,
         NEW U2 \in Nat, NEW D \in Int, Rn <= R + x, (R + x) + P2 <= D
  PROVE  A - A + Rn + P2 - U2 <= D
OBVIOUS

LEMMA LimitStill ==
  ASSUME NEW M \in Int, NEW P \in Int, NEW U \in Int, NEW P2 \in Int, NEW U2 \in Int, NEW L \in Int,
         M + P - U < L, P2 - U2 <= P - U
  PROVE  M + P2 - U2 < L
OBVIOUS

LEMMA ReaderKeeps ==
  ASSUME MemoryInv, LedgerTypes', OneCharge', UNCHANGED <<driverVars, taskMetrics, inFlight>>,
         NEW x \in Int, Reports(readerMetrics, readerMetrics', x),
         promised' + x <= promised, promised' - uncharged' <= promised - uncharged
  PROVE  MemoryInv'
<1>0. PICK N, M : N = Len(readerMetrics) /\ M = Len(readerMetrics')
  OBVIOUS
<1>1. LedgerTypes /\ UseIsKnown /\ ReturnsAreOffered /\ UseIsCovered /\ WithinLimit
  BY DEF MemoryInv, Ledger
<1>2. /\ N \in Nat
      /\ \A n \in 0 .. N : acquiredUpTo(n) \in Int /\ coveredUpTo(n) \in Int /\ returnedUpTo(n) \in Int
      /\ promised \in Int /\ outstanding \in Int /\ disposing \in Int /\ memoryInUse \in Int
      /\ balance["sharedMemory"] \in Int /\ uncharged \in Int
  BY <1>0, <1>1, LedgerAmounts
<1>3. M \in Nat /\ promised' \in Int /\ uncharged' \in Nat
  BY <1>0, LedgerAmountsLater
<1>4. /\ memoryInUse' = memoryInUse /\ disposing' = disposing /\ outstanding' = outstanding
      /\ balance' = balance /\ overAllocated' = overAllocated
  BY DEF memoryInUse, disposing, total, outstanding, unit, driverVars
<1>5. Len(readerMetrics)' = M
  BY <1>0
<1>6. \A n \in 0 .. M : /\ acquiredUpTo(n)' = sums(readerMetrics', "acquired", n)
                       /\ coveredUpTo(n)' = within(readerMetrics', n)
                       /\ returnedUpTo(n)' = sums(readerMetrics', "returned", n)
  BY DEF acquiredUpTo, coveredUpTo, returnedUpTo, sums, column, upTo, within, coverage
<1>7. M \in 0 .. M /\ N \in 0 .. N
  BY <1>2, <1>3
<1>8. /\ acquiredUpTo(M)' = acquiredUpTo(N) /\ coveredUpTo(M)' = coveredUpTo(N)
      /\ returnedUpTo(M)' = returnedUpTo(N) + x
  BY <1>0, <1>6, <1>7 DEF Reports, acquiredUpTo, coveredUpTo, returnedUpTo
<1>9. \A n \in 0 .. M :
        \/ n \in 0 .. N /\ coveredUpTo(n)' = coveredUpTo(n) /\ returnedUpTo(n)' = returnedUpTo(n)
        \/ coveredUpTo(n)' = coveredUpTo(N) /\ returnedUpTo(n)' <= returnedUpTo(N) + x
  BY <1>0, <1>6 DEF Reports, acquiredUpTo, coveredUpTo, returnedUpTo
<1>10. acquiredUpTo(N) \in Int /\ coveredUpTo(N) \in Int /\ returnedUpTo(N) \in Int
  BY <1>2, <1>7
<1>11. UseIsKnown'
  <2>1. memoryInUse = acquiredUpTo(N) - balance["sharedMemory"] - disposing
    BY <1>0, <1>1 DEF UseIsKnown
  <2>2. memoryInUse' = acquiredUpTo(M)' - balance'["sharedMemory"] - disposing'
    BY <1>4, <1>8, <2>1
  <2> QED
    BY <1>5, <2>2 DEF UseIsKnown, acquiredUpTo
<1>12. returnedUpTo(M)' + promised' <= outstanding'
  <2>1. returnedUpTo(N) + promised <= outstanding
    BY <1>0, <1>1 DEF ReturnsAreOffered
  <2>2. (returnedUpTo(N) + x) + promised' <= outstanding
    BY <1>2, <1>3, <1>10, <2>1, ReturnsStill, Zenon
  <2> QED
    BY <1>4, <1>8, <2>2
<1>13. ReturnsAreOffered'
  BY <1>5, <1>12 DEF ReturnsAreOffered, returnedUpTo
<1>14. UseIsCovered'
  <2>1. ASSUME NEW n \in 0 .. M
        PROVE  coveredUpTo(M)' - coveredUpTo(n)' + returnedUpTo(n)' + promised' - uncharged' <= outstanding'
    <3>1. CASE n \in 0 .. N /\ coveredUpTo(n)' = coveredUpTo(n) /\ returnedUpTo(n)' = returnedUpTo(n)
      <4>1. coveredUpTo(N) - coveredUpTo(n) + returnedUpTo(n) + promised - uncharged <= outstanding
        BY <1>0, <1>1, <3>1 DEF UseIsCovered
      <4>2. coveredUpTo(n) \in Int /\ returnedUpTo(n) \in Int
        BY <1>2, <3>1
      <4>3. uncharged' \in Int
        BY <1>3
      <4>4. coveredUpTo(N) - coveredUpTo(n) + returnedUpTo(n) + promised' - uncharged' <= outstanding
        BY <1>2, <1>3, <1>10, <4>1, <4>2, <4>3, CoveredStill, Zenon
      <4> QED
        BY <1>4, <1>8, <3>1, <4>4
    <3>2. CASE coveredUpTo(n)' = coveredUpTo(N) /\ returnedUpTo(n)' <= returnedUpTo(N) + x
      <4>1. returnedUpTo(n)' \in Int
        <5>1. \A j \in 0 .. M : returnedUpTo(j)' \in Int
          BY <1>5, LedgerAmountsLater
        <5> QED
          BY <5>1
      <4>2. (returnedUpTo(N) + x) + promised' <= outstanding
        BY <1>4, <1>8, <1>12
      <4>3. coveredUpTo(N) - coveredUpTo(N) + returnedUpTo(n)' + promised' - uncharged' <= outstanding
        BY <1>2, <1>3, <1>10, <3>2, <4>1, <4>2, CoveredByReturns, Zenon
      <4> QED
        BY <1>4, <1>8, <3>2, <4>3
    <3> QED
      BY <1>9, <3>1, <3>2
  <2> QED
    BY <1>5, <2>1 DEF UseIsCovered, coveredUpTo
<1>15. WithinLimit'
  <2> DEFINE roof == (limit + 1) * unit + overAllocated
  <2>1. roof \in Int
    BY <1>1, Unit DEF WithinLimit
  <2>2. memoryInUse + promised - uncharged < roof
    BY <1>1 DEF WithinLimit
  <2> HIDE DEF roof
  <2>3. uncharged' \in Int
    BY <1>3
  <2>4. memoryInUse + promised' - uncharged' < roof
    BY <1>2, <1>3, <2>1, <2>2, <2>3, LimitStill, Zenon
  <2>5. memoryInUse' + promised' - uncharged' < roof
    BY <1>4, <2>4
  <2> QED
    BY <1>1, <1>4, <2>5 DEF WithinLimit, limit, unit, roof
<1> QED
  BY <1>11, <1>13, <1>14, <1>15 DEF MemoryInv, Ledger

LEMMA LessPromised ==
  ASSUME NEW P \in Int, NEW P2 \in Int, NEW U \in Int, P2 <= P
  PROVE  P2 + 0 <= P /\ P2 - U <= P - U /\ 0 \in Int
OBVIOUS

(* Nothing is reported and the consumers stay. *)
LEMMA PromiseKeeps ==
  ASSUME MemoryInv, EvaluatorInv', messages' \in Seq(Fresh), OneCharge',
         UNCHANGED <<driverVars, metricVars, dataVars, offerConsumers>>, promised' <= promised
  PROVE  MemoryInv'
<1>1. LedgerTypes /\ readerMetrics \in Seq(Metrics) /\ MetricTypes /\ DriverTypes
  BY DEF MemoryInv, LedgerTypes, MetricTypes
<1>2. UNCHANGED <<available, offered, returned, balance, overAllocated, readerMetrics, taskMetrics, sinkMetrics, inFlight>>
  BY DEF driverVars, metricVars, dataVars
<1>3. MetricTypes' /\ DriverTypes'
  <2>1. MetricTypes'
    BY <1>1, <1>2 DEF MetricTypes
  <2>2. DriverTypes'
    BY <1>1, <1>2 DEF DriverTypes, availableNow
  <2> QED
    BY <2>1, <2>2
<1>4. LedgerTypes'
  BY <1>3 DEF LedgerTypes
<1>5. Reports(readerMetrics, readerMetrics, 0)
  BY <1>1, SilentReport
<1>6. Reports(readerMetrics, readerMetrics', 0)
  BY <1>2, <1>5
<1>7. uncharged' = uncharged
  BY DEF uncharged
<1>8. promised \in Int /\ promised' \in Int /\ uncharged \in Int
  BY <1>1, <1>4, LedgerAmounts, LedgerAmountsLater
<1>9. promised' + 0 <= promised /\ promised' - uncharged <= promised - uncharged /\ 0 \in Int
  BY <1>8, LessPromised, Zenon
<1>10. promised' - uncharged' <= promised - uncharged
  BY <1>7, <1>9
<1>11. UNCHANGED <<driverVars, taskMetrics, inFlight>>
  BY <1>2 DEF driverVars
<1> QED
  BY <1>4, <1>6, <1>9, <1>10, <1>11, ReaderKeeps

LEMMA PromiseMoves ==
  ASSUME NEW C \in Int, NEW W \in Int, NEW I \in Int, NEW W2 \in Int, NEW I2 \in Int, NEW d \in Int, NEW c \in Int,
         I2 + W2 <= I + W + d
  PROVE  (C - c) + W2 + I2 <= (C + W + I) + d - c
OBVIOUS

(* What is promised after a step of the evaluator. *)
LEMMA AddsPromise ==
  ASSUME LedgerTypes, EvaluatorInv', messages' \in Seq(Fresh), NEW change, Adds(change),
         NEW c \in Int, carried(messages') = carried(messages) - c
  PROVE  promised' <= promised + change["sharedMemory"] - c
<1>1. /\ carried(messages) \in Int /\ waiting("sharedMemory") \in Int /\ inAll(mOffers, "sharedMemory") \in Int
  BY LedgerAmounts
<1>2. QuotaTypes'
  BY DEF EvaluatorInv
<1>3. waiting("sharedMemory")' \in Int /\ inAll(mOffers, "sharedMemory")' \in Int
  BY <1>2, AccountsLater, Memory
<1>4. /\ change["sharedMemory"] \in Int
      /\ inAll(mOffers, "sharedMemory")' + waiting("sharedMemory")'
           <= inAll(mOffers, "sharedMemory") + waiting("sharedMemory") + change["sharedMemory"]
  BY Memory DEF Adds
<1>5. promised' = carried(messages') + waiting("sharedMemory")' + inAll(mOffers, "sharedMemory")'
  BY DEF promised, carried, sumOf
<1>6. promised' = (carried(messages) - c) + waiting("sharedMemory")' + inAll(mOffers, "sharedMemory")'
  BY <1>5
<1>7. promised = carried(messages) + waiting("sharedMemory") + inAll(mOffers, "sharedMemory")
  BY DEF promised
<1>8. (carried(messages) - c) + waiting("sharedMemory")' + inAll(mOffers, "sharedMemory")'
        <= (carried(messages) + waiting("sharedMemory") + inAll(mOffers, "sharedMemory")) + change["sharedMemory"] - c
  BY <1>1, <1>3, <1>4, PromiseMoves, Zenon
<1> QED
  BY <1>6, <1>7, <1>8

LEMMA OfferArrives ==
  ASSUME MemoryInv, DeliverOffer
  PROVE  MemoryInv'
<1> DEFINE h == Head(messages)
<1>1. messages # <<>> /\ Receive(h) /\ messages' = Tail(messages) /\ UNCHANGED <<driverVars, metricVars, dataVars>>
  BY DEF DeliverOffer
<1>2. LedgerTypes /\ EvaluatorInv /\ messages \in Seq(Fresh) /\ OneCharge
  BY DEF MemoryInv, LedgerTypes
<1>3. h \in Fresh /\ messages' \in Seq(Fresh) /\ carried(messages') = carried(messages) - h["sharedMemory"]
  BY <1>1, <1>2, CarriedLess
<1> HIDE DEF h
<1>4. EvaluatorInv' /\ Adds([r \in Resources |-> h[r]])
  BY <1>1, <1>2, <1>3, EvaluatorReceives
<1>5. UNCHANGED <<phase, offerConsumers>>
  BY <1>1 DEF Receive
<1>6. OneCharge'
  BY <1>2, <1>5 DEF OneCharge
<1>7. promised' <= promised
  <2> DEFINE c == h["sharedMemory"]
             change == [r \in Resources |-> h[r]]
  <2>1. c \in Int
    BY <1>3 DEF Fresh, Offer
  <2>2. change["sharedMemory"] = c
    BY Memory
  <2>3. Adds(change) /\ carried(messages') = carried(messages) - c
    BY <1>3, <1>4
  <2>4. promised \in Int
    BY <1>2, LedgerAmounts
  <2> HIDE DEF c, change
  <2>5. promised' <= promised + change["sharedMemory"] - c
    BY <1>2, <1>3, <1>4, <2>1, <2>3, AddsPromise
  <2>6. promised + c - c = promised
    BY <2>1, <2>4
  <2> QED
    BY <2>2, <2>5, <2>6
<1>8. UNCHANGED <<driverVars, metricVars, dataVars, offerConsumers>>
  BY <1>1, <1>5
<1> QED
  BY <1>3, <1>4, <1>6, <1>7, <1>8, PromiseKeeps

(* Steps of the evaluator that report nothing. *)
LEMMA SilentStep ==
  ASSUME MemoryInv, EvaluatorInv', Adds(nothing), UNCHANGED <<phase, offerConsumers>>,
         UNCHANGED <<driverVars, messages, metricVars, dataVars>>
  PROVE  MemoryInv'
<1>1. LedgerTypes /\ messages \in Seq(Fresh) /\ OneCharge
  BY DEF MemoryInv, LedgerTypes
<1>2. OneCharge'
  BY <1>1 DEF OneCharge
<1>3. messages' \in Seq(Fresh)
  BY <1>1
<1>4. nothing["sharedMemory"] = 0
  BY Memory DEF nothing
<1>5. carried(messages') = carried(messages) - 0 /\ 0 \in Int
  <2>1. carried(messages) \in Int
    BY <1>1, LedgerAmounts
  <2>2. carried(messages') = carried(messages)
    OBVIOUS
  <2> QED
    BY <2>1, <2>2
<1>6. promised' <= promised + nothing["sharedMemory"] - 0
  BY <1>1, <1>3, <1>5, AddsPromise
<1>7. promised' <= promised
  <2>1. promised \in Int
    BY <1>1, LedgerAmounts
  <2>2. promised + 0 - 0 = promised
    BY <2>1
  <2> QED
    BY <1>4, <1>6, <2>2
<1>8. UNCHANGED <<driverVars, metricVars, dataVars, offerConsumers>>
  OBVIOUS
<1> QED
  BY <1>2, <1>3, <1>7, <1>8, PromiseKeeps

LEMMA ReaderWaits ==
  ASSUME MemoryInv, ReaderClock \/ ReaderStoresOffers
  PROVE  MemoryInv'
<1>1. EvaluatorInv
  BY DEF MemoryInv, LedgerTypes
<1>2. UNCHANGED <<driverVars, messages, metricVars, dataVars>>
  BY DEF ReaderClock, ReaderStoresOffers
<1>3. CASE ReaderClock
  <2>1. AdvanceClock
    BY <1>3 DEF ReaderClock
  <2>2. EvaluatorInv' /\ Adds(nothing)
    BY <1>1, <2>1, EvaluatorAges
  <2>3. UNCHANGED <<phase, offerConsumers>>
    BY <2>1 DEF AdvanceClock
  <2> QED
    BY <1>2, <2>2, <2>3, SilentStep
<1>4. CASE ReaderStoresOffers
  <2>1. StoreOffers
    BY <1>4 DEF ReaderStoresOffers
  <2>2. EvaluatorInv' /\ Adds(nothing)
    BY <1>1, <2>1, EvaluatorStores
  <2>3. UNCHANGED <<phase, offerConsumers>>
    BY <2>1 DEF StoreOffers
  <2> QED
    BY <1>2, <2>2, <2>3, SilentStep
<1> QED
  BY <1>3, <1>4

LEMMA PromiseLess ==
  ASSUME NEW P \in Int, NEW P2 \in Int, NEW x \in Int, P2 <= P + (- x) - 0
  PROVE  P2 + x <= P
OBVIOUS

(* A step that reports what it takes off the offers. *)
LEMMA ReportingStep ==
  ASSUME MemoryInv, EvaluatorInv', OneCharge', UNCHANGED <<driverVars, messages, taskMetrics, sinkMetrics, dataVars>>,
         NEW x \in Int, readerMetrics' \in Seq(Metrics), NothingDisposed(readerMetrics'),
         Reports(readerMetrics, readerMetrics', x),
         NEW change, Adds(change), change["sharedMemory"] = - x, promised' - uncharged' <= promised - uncharged
  PROVE  MemoryInv'
<1>1. LedgerTypes /\ messages \in Seq(Fresh) /\ MetricTypes /\ DriverTypes
  BY DEF MemoryInv, LedgerTypes
<1>2. UNCHANGED <<available, offered, returned, balance, overAllocated, messages, taskMetrics, sinkMetrics, inFlight>>
  BY DEF driverVars, dataVars
<1>3. MetricTypes'
  BY <1>1, <1>2 DEF MetricTypes, NothingDisposed
<1>4. DriverTypes'
  BY <1>1, <1>2 DEF DriverTypes, availableNow
<1>5. LedgerTypes'
  BY <1>1, <1>2, <1>3, <1>4 DEF LedgerTypes
<1>6. carried(messages') = carried(messages) - 0 /\ 0 \in Int /\ messages' \in Seq(Fresh)
  <2>1. carried(messages) \in Int
    BY <1>1, LedgerAmounts
  <2>2. carried(messages') = carried(messages)
    BY <1>2
  <2> QED
    BY <1>1, <1>2, <2>1, <2>2
<1>7. promised' <= promised + change["sharedMemory"] - 0
  BY <1>1, <1>6, AddsPromise
<1>8. promised' + x <= promised
  <2>1. promised \in Int /\ promised' \in Int
    BY <1>1, <1>5, LedgerAmounts, LedgerAmountsLater
  <2>2. promised' <= promised + (- x) - 0
    BY <1>7
  <2> QED
    BY <2>1, <2>2, PromiseLess, Zenon
<1>9. UNCHANGED <<driverVars, taskMetrics, inFlight>>
  BY <1>2 DEF driverVars
<1> QED
  BY <1>5, <1>8, <1>9, ReaderKeeps

LEMMA PromisedLater ==
  ASSUME EvaluatorInv', messages' \in Seq(Fresh)
  PROVE  promised' \in Int
<1>1. QuotaTypes'
  BY DEF EvaluatorInv
<1>2. waiting("sharedMemory")' \in Int /\ inAll(mOffers, "sharedMemory")' \in Int
  BY <1>1, AccountsLater, Memory
<1>3. carried(messages') \in Nat
  BY Carried
<1>4. promised' = carried(messages') + waiting("sharedMemory")' + inAll(mOffers, "sharedMemory")'
  BY DEF promised, carried, sumOf
<1> QED
  BY <1>2, <1>3, <1>4

LEMMA LessUncharged ==
  ASSUME NEW P \in Int, NEW P2 \in Int, NEW U \in Int, NEW x \in Nat, P2 <= P + (- x) - 0
  PROVE  P2 - U <= P - U
OBVIOUS

LEMMA ReaderExpires ==
  ASSUME MemoryInv, ReaderIterates
  PROVE  MemoryInv'
<1> DEFINE amount == [r \in Resources |-> iterationReturns[r]]
           x == iterationReturns["sharedMemory"]
           change == [r \in Resources |-> - iterationReturns[r]]
<1>1. /\ Iterate /\ readerMetrics' = readerMetrics \o report(iterationReturns)
      /\ UNCHANGED <<driverVars, messages, taskMetrics, sinkMetrics, dataVars>>
  BY DEF ReaderIterates
<1>2. LedgerTypes /\ EvaluatorInv /\ OneCharge /\ readerMetrics \in Seq(Metrics) /\ NothingDisposed(readerMetrics)
      /\ messages \in Seq(Fresh)
  BY DEF MemoryInv, LedgerTypes, MetricTypes, NothingDisposed
<1>3. EvaluatorInv' /\ Adds(change) /\ \A r \in Resources : iterationReturns[r] \in Nat
  BY <1>1, <1>2, EvaluatorIterates
<1>4. iterationReturns = amount
  BY DEF iterationReturns, nothing, expiredAmount
<1>5. iterationReturns \in Amounts /\ x \in Nat
  <2>1. amount \in Amounts
    BY <1>3 DEF Amounts
  <2> HIDE DEF amount
  <2> QED
    BY <1>3, <1>4, <2>1, Memory
<1>6. change["sharedMemory"] = - x
  BY Memory
<1>7. /\ readerMetrics' \in Seq(Metrics) /\ NothingDisposed(readerMetrics')
      /\ Reports(readerMetrics, readerMetrics', x)
  BY <1>1, <1>2, <1>5, FirstReport
<1>8. offerConsumers' = offerConsumers /\ \A s \in Streams : phase'[s] = "done" <=> phase[s] = "done"
  <2>1. offerConsumers' = offerConsumers
    BY <1>1 DEF Iterate
  <2>2. \/ phase' = phase
        \/ /\ freeStreams # {}
           /\ phase' = [phase EXCEPT ![Max(freeStreams)] = "running"]
    BY <1>1 DEF Iterate, NoFreeStream, Skip, Schedule
  <2>3. phase \in [Streams -> {"free", "running", "done"}]
    BY <1>2 DEF EvaluatorInv, QuotaTypes
  <2>4. freeStreams # {} => phase[Max(freeStreams)] = "free"
    <3>1. ASSUME freeStreams # {} PROVE Max(freeStreams) \in freeStreams
      BY <3>1, MaxFreeStream
    <3> QED
      BY <3>1 DEF freeStreams
  <2> QED
    BY <2>1, <2>2, <2>3, <2>4
<1>9. OneCharge'
  BY <1>2, <1>8 DEF OneCharge
<1>10. uncharged' = uncharged
  BY <1>8 DEF uncharged
<1> HIDE DEF amount, x, change
<1>11. promised' - uncharged' <= promised - uncharged
  <2>1. carried(messages') = carried(messages) - 0 /\ 0 \in Int /\ messages' \in Seq(Fresh)
    <3>1. carried(messages) \in Int
      BY <1>2, LedgerAmounts
    <3>2. carried(messages') = carried(messages)
      BY <1>1
    <3> QED
      BY <1>1, <1>2, <3>1, <3>2
  <2>2. promised' <= promised + change["sharedMemory"] - 0
    BY <1>2, <1>3, <2>1, AddsPromise
  <2>3. promised' <= promised + (- x) - 0
    BY <1>6, <2>2
  <2>4. promised \in Int /\ uncharged \in Int
    BY <1>2, LedgerAmounts
  <2>5. promised' \in Int
    BY <1>2, <1>3, <2>1, PromisedLater
  <2>6. promised' - uncharged <= promised - uncharged
    BY <1>5, <2>3, <2>4, <2>5, LessUncharged, Zenon
  <2> QED
    BY <1>10, <2>6
<1>12. x \in Int
  BY <1>5
<1> QED
  BY <1>1, <1>3, <1>6, <1>7, <1>9, <1>11, <1>12, ReportingStep

LEMMA AtMostThrough ==
  ASSUME NEW I2 \in Int, NEW J \in Int, NEW I \in Int, NEW b \in Nat, I2 <= J, J <= I - b
  PROVE  I2 <= I - b
OBVIOUS

LEMMA ChargedLess ==
  ASSUME NEW C \in Int, NEW W \in Int, NEW I \in Int, NEW I2 \in Int, NEW b \in Int, I2 <= I - b
  PROVE  (C + W + I2) - 0 <= (C + W + I) - b
OBVIOUS

(* The computation is charged to the offers that were selected for it. *)
LEMMA ReaderCharges ==
  ASSUME MemoryInv, NEW s \in Streams, NumStreams = 1, ReaderCompletes(s)
  PROVE  MemoryInv'
<1> DEFINE took == completionConsumes(s)["sharedMemory"]
           used == only("sharedMemory", took)
           back == completionReturns(s)
           c == back["sharedMemory"]
           first == readerMetrics \o report(used)
           change == [r \in Resources |-> - completionConsumes(s)[r] - completionReturns(s)[r]]
           x == took + c
<1>1. /\ Complete(s) /\ readerMetrics' = first \o report(back)
      /\ UNCHANGED <<driverVars, messages, taskMetrics, sinkMetrics, dataVars>>
  BY DEF ReaderCompletes
<1>2. /\ LedgerTypes /\ EvaluatorInv /\ OneCharge /\ readerMetrics \in Seq(Metrics) /\ NothingDisposed(readerMetrics)
      /\ messages \in Seq(Fresh)
  BY DEF MemoryInv, LedgerTypes, MetricTypes, NothingDisposed
<1>3. /\ EvaluatorInv' /\ Adds(change)
      /\ \A r \in Resources : /\ completionConsumes(s)[r] \in Int /\ completionReturns(s)[r] \in Nat
                             /\ inAll(mOffers, r)' <= inAll(consumeAll(mOffers, s).offers, r)
  BY <1>1, <1>2, EvaluatorCompletes
<1>4. took \in Int /\ c \in Nat
  BY <1>3, Memory
<1>5. used \in Amounts /\ used["sharedMemory"] = took
  BY <1>4, Memory DEF only, nothing, Amounts
<1>6. back \in Amounts
  <2>1. back = [r \in Resources |-> back[r]]
    BY DEF completionReturns, expiredAmount
  <2>2. \A r \in Resources : back[r] \in Int
    BY <1>3
  <2> HIDE DEF back
  <2> QED
    BY <2>1, <2>2 DEF Amounts
<1>7. change["sharedMemory"] = - x
  <2>1. change["sharedMemory"] = - took - c
    BY Memory
  <2> HIDE DEF took, c
  <2>2. - took - c = - (took + c)
    BY <1>4
  <2> QED
    BY <2>1, <2>2
<1> HIDE DEF took, used, back, c, change
<1>8. first \in Seq(Metrics) /\ NothingDisposed(first) /\ Reports(readerMetrics, first, took)
  BY <1>2, <1>5, FirstReport
<1> HIDE DEF first
<1>9. /\ readerMetrics' \in Seq(Metrics) /\ NothingDisposed(readerMetrics')
      /\ Reports(readerMetrics, readerMetrics', x)
  BY <1>1, <1>2, <1>4, <1>6, <1>8, NextReport DEF c
<1>10. /\ phase[s] = "done" /\ phase' = [phase EXCEPT ![s] = "free"] /\ offerConsumers' = <<>>
       /\ pendingOffers' = pendingOffers
  BY <1>1 DEF Complete
<1>11. PICK bytes \in Payloads : offerConsumers = consumersOf(bytes)
  BY <1>2, <1>10 DEF OneCharge
<1>12. covered(bytes) \in Nat /\ uncharged = covered(bytes) /\ uncharged' = 0
  <2>1. bytes \in Nat
    BY QuotaAssumption
  <2>2. uncharged = covered(bytes)
    BY <1>11, <2>1, Uncharged
  <2>4. covered(bytes) \in Nat
    BY <2>1, Covered
  <2>3. uncharged' = 0
    BY <1>10, UnchargedLater
  <2> QED
    BY <2>2, <2>3, <2>4
<1>13. OneCharge'
  <2>1. phase \in [Streams -> {"free", "running", "done"}]
    BY <1>2 DEF EvaluatorInv, QuotaTypes
  <2>2. \A t \in Streams : t = s
    BY DEF Streams
  <2>3. \A t \in Streams : phase'[t] = "free"
    BY <1>10, <2>1, <2>2
  <2> QED
    BY <1>10, <2>3 DEF OneCharge
<1>14. promised' - uncharged' <= promised - uncharged
  <2>1. inAll(mOffers, "sharedMemory")' <= inAll(mOffers, "sharedMemory") - covered(bytes)
    <3>1. inAll(consumeAll(mOffers, s).offers, "sharedMemory") <= inAll(mOffers, "sharedMemory") - covered(bytes)
      BY <1>2, <1>10, <1>11, CompletionIsCharged
    <3>2. inAll(mOffers, "sharedMemory")' <= inAll(consumeAll(mOffers, s).offers, "sharedMemory")
      BY <1>3, Memory
    <3>3. QuotaTypes'
      BY <1>3 DEF EvaluatorInv
    <3>4. inAll(mOffers, "sharedMemory")' \in Int /\ inAll(mOffers, "sharedMemory") \in Int
      BY <1>2, <3>3, AccountsLater, LedgerAmounts, Memory
    <3>5. inAll(consumeAll(mOffers, s).offers, "sharedMemory") \in Int
      <4>1. mOffers \in AllOffers /\ offerConsumers \in Seq(Consumers)
        BY <1>2 DEF EvaluatorInv, QuotaTypes
      <4>2. consumeAll(mOffers, s) \in Completing(mOffers, s)
        BY <4>1, ConsumeAllTakes
      <4>3. consumeAll(mOffers, s).offers \in AllOffers
        BY <4>2 DEF Completing
      <4> QED
        BY <4>3, InAll, Memory
    <3> QED
      BY <1>12, <3>1, <3>2, <3>4, <3>5, AtMostThrough, Zenon
  <2>2. promised = carried(messages) + waiting("sharedMemory") + inAll(mOffers, "sharedMemory")
    BY DEF promised
  <2>3. promised' = carried(messages) + waiting("sharedMemory") + inAll(mOffers, "sharedMemory")'
    <3>1. promised' = carried(messages') + waiting("sharedMemory")' + inAll(mOffers, "sharedMemory")'
      BY DEF promised, carried, sumOf
    <3>2. waiting("sharedMemory")' = waiting("sharedMemory")
      BY <1>10 DEF waiting
    <3>3. carried(messages') = carried(messages)
      BY <1>1
    <3> QED
      BY <3>1, <3>2, <3>3
  <2>4. /\ carried(messages) \in Int /\ waiting("sharedMemory") \in Int
        /\ inAll(mOffers, "sharedMemory") \in Int
    BY <1>2, LedgerAmounts
  <2>5. inAll(mOffers, "sharedMemory")' \in Int /\ covered(bytes) \in Int
    <3>1. QuotaTypes'
      BY <1>3 DEF EvaluatorInv
    <3> QED
      BY <1>12, <3>1, AccountsLater, Memory
  <2>6. (carried(messages) + waiting("sharedMemory") + inAll(mOffers, "sharedMemory")') - 0
          <= (carried(messages) + waiting("sharedMemory") + inAll(mOffers, "sharedMemory")) - covered(bytes)
    BY <2>1, <2>4, <2>5, ChargedLess, Zenon
  <2> QED
    BY <1>12, <2>2, <2>3, <2>6
<1>15. x \in Int
  BY <1>4
<1> QED
  BY <1>1, <1>3, <1>7, <1>9, <1>13, <1>14, <1>15, ReportingStep

LEMMA CreatedIsKnown ==
  ASSUME NEW A \in Int, NEW b \in Int, NEW d \in Int, NEW x \in Int
  PROVE  (A - b - d) + x = (A + x) - b - d
OBVIOUS

LEMMA CreatedIsCovered ==
  ASSUME NEW A \in Int, NEW An \in Int, NEW Rn \in Int, NEW P \in Int, NEW P2 \in Int, NEW D \in Int, NEW x \in Int,
         A - An + Rn + P - 0 <= D, P2 <= P
  PROVE  (A + x) - An + Rn + P2 - x <= D
OBVIOUS

LEMMA CreatedIsReturned ==
  ASSUME NEW A \in Int, NEW R \in Int, NEW P \in Int, NEW P2 \in Int, NEW D \in Int, NEW x \in Nat,
         R + P <= D, P2 <= P
  PROVE  A - A + R + P2 - x <= D /\ R + P2 <= D
OBVIOUS

LEMMA CreatedWithin ==
  ASSUME NEW M \in Int, NEW P \in Int, NEW P2 \in Int, NEW b \in Int, NEW x \in Int, NEW e \in Int, NEW L \in Int,
         NEW E \in Int, M + P - 0 < L + E, P2 <= P, b = x + e
  PROVE  (M + b) + P2 - x < L + (E + e)
OBVIOUS

(* What one computation creates is in use, and acquired of the driver. *)
LEMMA ReaderCreates ==
  ASSUME MemoryInv, NEW s \in Streams, NumStreams = 1, NEW bytes \in Payloads, ReaderComputes(s, bytes)
  PROVE  MemoryInv'
<1> DEFINE got == [r \in Resources |-> IF r = "timeslices" THEN 1 ELSE bytes]
           m == metric(nothing, nothing, got)
<1>0. PICK N, q : q = readerMetrics /\ N = Len(readerMetrics)
  OBVIOUS
<1>1. /\ Compute(s, bytes) /\ inFlight' = Append(inFlight, bytes) /\ readerMetrics' = Append(readerMetrics, m)
      /\ overAllocated' = overAllocated + excess(bytes)
      /\ UNCHANGED <<available, offered, returned, balance, messages, taskMetrics, sinkMetrics>>
  BY DEF ReaderComputes
<1>2. /\ LedgerTypes /\ EvaluatorInv /\ OneCharge /\ MetricTypes /\ DriverTypes /\ readerMetrics \in Seq(Metrics)
      /\ inFlight \in Seq(Nat) /\ messages \in Seq(Fresh)
      /\ UseIsKnown /\ ReturnsAreOffered /\ UseIsCovered /\ WithinLimit
  BY DEF MemoryInv, Ledger, LedgerTypes, MetricTypes
<1>3. /\ bytes \in Nat /\ covered(bytes) \in Nat /\ covered(bytes) \in Int /\ excess(bytes) \in Int
      /\ bytes = covered(bytes) + excess(bytes)
  <2>1. bytes \in Nat
    BY QuotaAssumption
  <2>2. covered(bytes) \in Nat /\ excess(bytes) \in Nat /\ bytes = covered(bytes) + excess(bytes)
    BY <2>1, Covered
  <2> QED
    BY <2>1, <2>2
<1>4. /\ m \in Metrics /\ m.acquired["sharedMemory"] = bytes
      /\ m.returned["sharedMemory"] = 0 /\ m.disposed["sharedMemory"] = 0
  <2>1. nothing \in Amounts /\ nothing["sharedMemory"] = 0
    BY Memory DEF nothing, Amounts
  <2>2. got \in Amounts /\ got["sharedMemory"] = bytes
    BY <1>3, Memory DEF Amounts
  <2> HIDE DEF got
  <2>3. m = [returned |-> nothing, disposed |-> nothing, acquired |-> got]
    BY DEF metric
  <2>4. m \in Metrics /\ m.acquired = got /\ m.returned = nothing /\ m.disposed = nothing
    BY <2>1, <2>2, <2>3 DEF Metrics
  <2> QED
    BY <2>1, <2>2, <2>4
<1> HIDE DEF m, got
<1>5. EvaluatorInv' /\ Adds(nothing)
  BY <1>1, <1>2, EvaluatorWorks
<1>6. phase[s] = "running" /\ phase' = [phase EXCEPT ![s] = "done"] /\ offerConsumers' = offerConsumers \o consumersOf(bytes)
  BY <1>1 DEF Compute
<1>7. offerConsumers = <<>> /\ offerConsumers' = consumersOf(bytes)
  <2>1. offerConsumers = <<>>
    BY <1>2, <1>6 DEF OneCharge
  <2>2. <<>> \o consumersOf(bytes) = consumersOf(bytes)
    BY DEF consumersOf
  <2> QED
    BY <1>6, <2>1, <2>2
<1>8. OneCharge'
  <2>1. phase \in [Streams -> {"free", "running", "done"}]
    BY <1>2 DEF EvaluatorInv, QuotaTypes
  <2>2. \A t \in Streams : t = s
    BY DEF Streams
  <2>3. \A t \in Streams : phase'[t] = "done"
    BY <1>6, <2>1, <2>2
  <2> QED
    BY <1>7, <2>3 DEF OneCharge
<1>9. uncharged = 0 /\ uncharged' = covered(bytes)
  <2>1. uncharged = 0
    BY <1>7, Uncharged
  <2>2. uncharged' = covered(bytes)
    BY <1>3, <1>7, UnchargedLater
  <2> QED
    BY <2>1, <2>2
<1>10. /\ readerMetrics' \in Seq(Metrics) /\ Len(readerMetrics') = Len(readerMetrics) + 1
       /\ \A field \in Fields :
            /\ \A n \in 0 .. Len(readerMetrics) : sums(readerMetrics', field, n) = sums(readerMetrics, field, n)
            /\ sums(readerMetrics', field, Len(readerMetrics) + 1)
                 = sums(readerMetrics, field, Len(readerMetrics)) + m[field]["sharedMemory"]
  BY <1>1, <1>2, <1>4, SumsAppended
<1>29. /\ \A n \in 0 .. Len(readerMetrics) : within(readerMetrics', n) = within(readerMetrics, n)
       /\ within(readerMetrics', Len(readerMetrics) + 1)
            = within(readerMetrics, Len(readerMetrics)) + covered(bytes)
  BY <1>1, <1>2, <1>4, CoverageAppended
<1>11. MetricTypes'
  <2>1. Len(readerMetrics) \in Nat /\ \A j \in 1 .. Len(readerMetrics) : readerMetrics'[j] = readerMetrics[j]
    BY <1>1, <1>2, <1>4
  <2>2. readerMetrics'[Len(readerMetrics) + 1] = m
    BY <1>1, <1>2, <1>4
  <2>3. \A j \in 1 .. Len(readerMetrics) + 1 : j \in 1 .. Len(readerMetrics) \/ j = Len(readerMetrics) + 1
    BY <2>1
  <2>4. \A j \in 1 .. Len(readerMetrics) : readerMetrics[j].disposed["sharedMemory"] = 0
    BY <1>2 DEF MetricTypes
  <2>5. \A j \in 1 .. Len(readerMetrics') : readerMetrics'[j].disposed["sharedMemory"] = 0
    BY <1>4, <1>10, <2>1, <2>2, <2>3, <2>4
  <2>6. inFlight' \in Seq(Nat)
    BY <1>1, <1>2, <1>3
  <2> QED
    BY <1>1, <1>2, <1>10, <2>5, <2>6 DEF MetricTypes
<1>12. LedgerTypes'
  <2>1. UNCHANGED <<available, offered, returned, balance, messages>>
    BY <1>1
  <2>2. DriverTypes'
    BY <1>2, <2>1 DEF DriverTypes, availableNow
  <2> QED
    BY <1>2, <1>5, <1>11, <2>1, <2>2 DEF LedgerTypes
<1>13. memoryInUse' = memoryInUse + bytes
  <2>1. Len(inFlight) \in Nat /\ Len(inFlight') = Len(inFlight) + 1
    BY <1>1, <1>2, <1>3
  <2>2. \A j \in 1 .. Len(inFlight) : inFlight[j] \in Int /\ inFlight'[j] = inFlight[j]
    BY <1>1, <1>2, <1>3
  <2>3. inFlight'[Len(inFlight) + 1] = bytes /\ bytes \in Int
    BY <1>1, <1>2, <1>3
  <2>4. upTo(inFlight', Len(inFlight) + 1) = upTo(inFlight, Len(inFlight)) + inFlight'[Len(inFlight) + 1]
    BY <2>1, <2>2, <2>3, UpToAppended
  <2>5. memoryInUse' = upTo(inFlight', Len(inFlight'))
    BY DEF memoryInUse, upTo
  <2>6. memoryInUse = upTo(inFlight, Len(inFlight))
    BY DEF memoryInUse, upTo
  <2> QED
    BY <2>1, <2>3, <2>4, <2>5, <2>6
<1>14. promised' <= promised
  <2>1. nothing["sharedMemory"] = 0
    BY Memory DEF nothing
  <2>2. carried(messages') = carried(messages) - 0 /\ 0 \in Int /\ messages' \in Seq(Fresh)
    <3>1. carried(messages) \in Int
      BY <1>2, LedgerAmounts
    <3>2. carried(messages') = carried(messages)
      BY <1>1
    <3> QED
      BY <1>1, <1>2, <3>1, <3>2
  <2>3. promised' <= promised + nothing["sharedMemory"] - 0
    BY <1>2, <1>5, <2>2, AddsPromise
  <2>4. promised \in Int
    BY <1>2, LedgerAmounts
  <2>5. promised + 0 - 0 = promised
    BY <2>4
  <2> QED
    BY <2>1, <2>3, <2>5
<1>15. /\ N \in Nat
       /\ \A n \in 0 .. N : acquiredUpTo(n) \in Int /\ coveredUpTo(n) \in Int /\ returnedUpTo(n) \in Int
       /\ promised \in Int /\ outstanding \in Int /\ disposing \in Int /\ memoryInUse \in Int
       /\ balance["sharedMemory"] \in Int
  BY <1>0, <1>2, LedgerAmounts
<1>16. promised' \in Int
  BY <1>12, LedgerAmountsLater
<1>17. disposing' = disposing /\ outstanding' = outstanding /\ balance' = balance
  BY <1>1 DEF disposing, total, outstanding, unit
<1>18. Len(readerMetrics)' = N + 1 /\ N \in 0 .. N
  BY <1>0, <1>10, <1>15
<1>19. \A n \in 0 .. N + 1 : /\ acquiredUpTo(n)' = sums(readerMetrics', "acquired", n)
                            /\ coveredUpTo(n)' = within(readerMetrics', n)
                            /\ returnedUpTo(n)' = sums(readerMetrics', "returned", n)
  BY DEF acquiredUpTo, coveredUpTo, returnedUpTo, sums, column, upTo, within, coverage
<1>20. \A n \in 0 .. N : coveredUpTo(n)' = coveredUpTo(n) /\ returnedUpTo(n)' = returnedUpTo(n)
  <2>1. \A n \in 0 .. N : n \in 0 .. N + 1
    BY <1>15
  <2> QED
    BY <1>0, <1>10, <1>19, <1>29, <2>1, FieldNames DEF coveredUpTo, returnedUpTo
<1>21. acquiredUpTo(N) \in Int /\ coveredUpTo(N) \in Int /\ returnedUpTo(N) \in Int
  BY <1>15, <1>18
<1>22. /\ acquiredUpTo(N + 1)' = acquiredUpTo(N) + bytes
       /\ coveredUpTo(N + 1)' = coveredUpTo(N) + covered(bytes) /\ returnedUpTo(N + 1)' = returnedUpTo(N)
  <2>1. N + 1 \in 0 .. N + 1
    BY <1>15
  <2>2. /\ sums(readerMetrics', "acquired", N + 1) = sums(readerMetrics, "acquired", N) + bytes
        /\ sums(readerMetrics', "returned", N + 1) = sums(readerMetrics, "returned", N) + 0
        /\ within(readerMetrics', N + 1) = within(readerMetrics, N) + covered(bytes)
    BY <1>0, <1>4, <1>10, <1>29, FieldNames
  <2>3. returnedUpTo(N) + 0 = returnedUpTo(N)
    BY <1>21
  <2> QED
    BY <1>19, <2>1, <2>2, <2>3 DEF acquiredUpTo, coveredUpTo, returnedUpTo
<1>23. UseIsKnown'
  <2>1. memoryInUse = acquiredUpTo(N) - balance["sharedMemory"] - disposing
    BY <1>0, <1>2 DEF UseIsKnown
  <2>2. bytes \in Int
    BY <1>3
  <2>3. (acquiredUpTo(N) - balance["sharedMemory"] - disposing) + bytes
          = (acquiredUpTo(N) + bytes) - balance["sharedMemory"] - disposing
    BY <1>15, <1>21, <2>2, CreatedIsKnown
  <2>4. memoryInUse' = acquiredUpTo(N + 1)' - balance'["sharedMemory"] - disposing'
    BY <1>13, <1>17, <1>22, <2>1, <2>3
  <2> QED
    BY <1>18, <2>4 DEF UseIsKnown, acquiredUpTo
<1>24. returnedUpTo(N) + promised <= outstanding
  BY <1>0, <1>2 DEF ReturnsAreOffered
<1>25. /\ coveredUpTo(N + 1)' \in Int
       /\ coveredUpTo(N + 1)' - coveredUpTo(N + 1)' + returnedUpTo(N) + promised' - covered(bytes) <= outstanding
       /\ returnedUpTo(N) + promised' <= outstanding
  <2>1. coveredUpTo(N + 1)' \in Int
    BY <1>3, <1>21, <1>22
  <2> QED
    BY <1>3, <1>14, <1>15, <1>16, <1>21, <1>24, <2>1, CreatedIsReturned, Zenon
<1>26. ReturnsAreOffered'
  <2>1. returnedUpTo(N + 1)' + promised' <= outstanding'
    BY <1>17, <1>22, <1>25
  <2> QED
    BY <1>18, <2>1 DEF ReturnsAreOffered, returnedUpTo
<1>27. UseIsCovered'
  <2>1. ASSUME NEW n \in 0 .. N + 1
        PROVE  coveredUpTo(N + 1)' - coveredUpTo(n)' + returnedUpTo(n)' + promised' - uncharged' <= outstanding'
    <3>1. CASE n \in 0 .. N
      <4>1. coveredUpTo(N) - coveredUpTo(n) + returnedUpTo(n) + promised - uncharged <= outstanding
        BY <1>0, <1>2, <3>1 DEF UseIsCovered
      <4>2. coveredUpTo(N) - coveredUpTo(n) + returnedUpTo(n) + promised - 0 <= outstanding
        BY <1>9, <4>1
      <4>3. coveredUpTo(n) \in Int /\ returnedUpTo(n) \in Int /\ covered(bytes) \in Int
        BY <1>3, <1>15, <3>1
      <4>4. (coveredUpTo(N) + covered(bytes)) - coveredUpTo(n) + returnedUpTo(n) + promised' - covered(bytes) <= outstanding
        BY <1>14, <1>15, <1>16, <1>21, <4>2, <4>3, CreatedIsCovered, Zenon
      <4>5. coveredUpTo(n)' = coveredUpTo(n) /\ returnedUpTo(n)' = returnedUpTo(n)
        BY <1>20, <3>1
      <4> QED
        BY <1>9, <1>17, <1>22, <4>4, <4>5
    <3>2. CASE n = N + 1
      BY <1>9, <1>17, <1>22, <1>25, <3>2
    <3>3. n \in 0 .. N \/ n = N + 1
      BY <1>15
    <3> QED
      BY <3>1, <3>2, <3>3
  <2> QED
    BY <1>18, <2>1 DEF UseIsCovered, coveredUpTo
<1>28. WithinLimit'
  <2> DEFINE roof == (limit + 1) * unit
  <2>1. roof \in Int /\ overAllocated \in Int
    BY <1>2, Unit DEF WithinLimit
  <2>2. memoryInUse + promised - 0 < roof + overAllocated
    BY <1>2, <1>9 DEF WithinLimit
  <2> HIDE DEF roof
  <2>3. bytes \in Int
    BY <1>3
  <2>4. (memoryInUse + bytes) + promised' - covered(bytes) < roof + (overAllocated + excess(bytes))
    BY <1>3, <1>14, <1>15, <1>16, <2>1, <2>2, <2>3, CreatedWithin, Zenon
  <2>5. memoryInUse' + promised' - uncharged' < roof + overAllocated'
    BY <1>1, <1>9, <1>13, <2>4
  <2>6. overAllocated' \in Int
    BY <1>1, <1>3, <2>1
  <2> QED
    BY <2>5, <2>6 DEF WithinLimit, limit, unit, roof
<1> QED
  BY <1>8, <1>12, <1>23, <1>26, <1>27, <1>28 DEF MemoryInv, Ledger
-------------------------------------------------------------------------------
(***************************************************************************)
(* The tasks and the sink.                                                 *)
(***************************************************************************)
LEMMA DisposedIsKnown ==
  ASSUME NEW A \in Int, NEW b \in Int, NEW d \in Int, NEW x \in Int
  PROVE  (A - b - d) - x = A - b - (d + x)
OBVIOUS

LEMMA DisposedWithin ==
  ASSUME NEW M \in Int, NEW P \in Int, NEW U \in Int, NEW L \in Int, NEW x \in Nat, M + P - U < L
  PROVE  (M - x) + P - U < L
OBVIOUS

(* The reader and what the driver knows stay. *)
LEMMA OthersKeep ==
  ASSUME MemoryInv, MetricTypes', UNCHANGED <<quotaVars, driverVars, messages, readerMetrics>>,
         NEW x \in Nat, memoryInUse' = memoryInUse - x, disposing' = disposing + x
  PROVE  MemoryInv'
<1>1. UNCHANGED <<mOffers, pendingOffers, mExpiredOffers, phase, offerConsumers, available, offered, returned, balance,
               overAllocated>>
  BY DEF quotaVars, driverVars
<1>2. LedgerTypes /\ EvaluatorInv /\ OneCharge /\ DriverTypes /\ messages \in Seq(Fresh)
      /\ UseIsKnown /\ ReturnsAreOffered /\ UseIsCovered /\ WithinLimit
  BY DEF MemoryInv, Ledger, LedgerTypes
<1>3. LedgerTypes'
  <2>1. EvaluatorInv'
    BY <1>1, <1>2 DEF EvaluatorInv, QuotaTypes, OffersInv
  <2>2. DriverTypes'
    BY <1>1, <1>2 DEF DriverTypes, availableNow
  <2> QED
    BY <1>2, <2>1, <2>2 DEF LedgerTypes
<1>4. OneCharge'
  BY <1>1, <1>2 DEF OneCharge
<1>5. promised' = promised
  BY <1>1 DEF promised, carried, sumOf, waiting, inAll
<1>6. uncharged' = uncharged /\ outstanding' = outstanding
  BY <1>1 DEF uncharged, outstanding, unit
<1>7. \A n : /\ acquiredUpTo(n)' = acquiredUpTo(n) /\ coveredUpTo(n)' = coveredUpTo(n)
             /\ returnedUpTo(n)' = returnedUpTo(n)
  BY DEF acquiredUpTo, coveredUpTo, returnedUpTo
<1>8. PICK N : N = Len(readerMetrics)
  OBVIOUS
<1>9. Len(readerMetrics)' = N
  BY <1>8
<1>10. /\ N \in Nat
       /\ \A n \in 0 .. N : acquiredUpTo(n) \in Int
       /\ promised \in Int /\ disposing \in Int /\ memoryInUse \in Int /\ uncharged \in Int
       /\ balance["sharedMemory"] \in Int
  BY <1>2, <1>8, LedgerAmounts
<1>11. UseIsKnown'
  <2>1. memoryInUse = acquiredUpTo(N) - balance["sharedMemory"] - disposing
    BY <1>2, <1>8 DEF UseIsKnown
  <2>2. acquiredUpTo(N) \in Int /\ x \in Int
    BY <1>10
  <2>3. (acquiredUpTo(N) - balance["sharedMemory"] - disposing) - x
          = acquiredUpTo(N) - balance["sharedMemory"] - (disposing + x)
    BY <1>10, <2>2, DisposedIsKnown
  <2>4. memoryInUse' = acquiredUpTo(N)' - balance'["sharedMemory"] - disposing'
    BY <1>1, <1>7, <2>1, <2>3
  <2> QED
    BY <1>9, <2>4 DEF UseIsKnown, acquiredUpTo
<1>12. ReturnsAreOffered'
  <2>1. returnedUpTo(N)' + promised' <= outstanding'
    BY <1>2, <1>5, <1>6, <1>7, <1>8 DEF ReturnsAreOffered
  <2> QED
    BY <1>9, <2>1 DEF ReturnsAreOffered, returnedUpTo
<1>13. UseIsCovered'
  <2>1. ASSUME NEW n \in 0 .. N
        PROVE  coveredUpTo(N)' - coveredUpTo(n)' + returnedUpTo(n)' + promised' - uncharged' <= outstanding'
    <3>1. coveredUpTo(N) - coveredUpTo(n) + returnedUpTo(n) + promised - uncharged <= outstanding
      BY <1>2, <1>8 DEF UseIsCovered
    <3> QED
      BY <1>5, <1>6, <1>7, <3>1
  <2> QED
    BY <1>9, <2>1 DEF UseIsCovered, coveredUpTo
<1>14. WithinLimit'
  <2> DEFINE roof == (limit + 1) * unit + overAllocated
  <2>1. roof \in Int
    BY <1>2, Unit DEF WithinLimit
  <2>2. memoryInUse + promised - uncharged < roof
    BY <1>2 DEF WithinLimit
  <2> HIDE DEF roof
  <2>3. (memoryInUse - x) + promised - uncharged < roof
    BY <1>10, <2>1, <2>2, DisposedWithin, Zenon
  <2>4. memoryInUse' + promised' - uncharged' < roof
    BY <1>5, <1>6, <2>3
  <2> QED
    BY <1>1, <1>2, <2>4 DEF WithinLimit, limit, unit, roof
<1> QED
  BY <1>3, <1>4, <1>11, <1>12, <1>13, <1>14 DEF MemoryInv, Ledger

LEMMA TaskGivesBack ==
  ASSUME MemoryInv, TaskDisposes
  PROVE  MemoryInv'
<1> DEFINE x == Head(inFlight)
           m == metric(nothing, only("sharedMemory", x), nothing)
<1>1. /\ inFlight # <<>> /\ inFlight' = Tail(inFlight) /\ taskMetrics' = Append(taskMetrics, m)
      /\ UNCHANGED <<quotaVars, driverVars, messages, readerMetrics, sinkMetrics>>
  BY DEF TaskDisposes
<1>2. MetricTypes /\ taskMetrics \in Seq(Metrics) /\ inFlight \in Seq(Nat)
  BY DEF MemoryInv, LedgerTypes, MetricTypes
<1>3. /\ x \in Nat /\ Len(inFlight) \in Nat /\ Len(inFlight') \in Nat /\ Len(inFlight) = Len(inFlight') + 1
      /\ x = inFlight[1] /\ inFlight' \in Seq(Nat)
  BY <1>1, <1>2
<1>4. \A j \in 1 .. Len(inFlight') : inFlight'[j] = inFlight[j + 1]
  BY <1>1, <1>2
<1>5. \A j \in 1 .. Len(inFlight) : inFlight[j] \in Int
  BY <1>2
<1> HIDE DEF x
<1>6. memoryInUse' = memoryInUse - x
  <2>1. upTo(inFlight', Len(inFlight')) = upTo(inFlight, Len(inFlight') + 1) - inFlight[1]
    BY <1>3, <1>4, <1>5, UpToTail
  <2>2. memoryInUse' = upTo(inFlight', Len(inFlight'))
    BY DEF memoryInUse, upTo
  <2>3. memoryInUse = upTo(inFlight, Len(inFlight))
    BY DEF memoryInUse, upTo
  <2> QED
    BY <1>3, <2>1, <2>2, <2>3
<1>7. /\ m \in Metrics /\ m.disposed["sharedMemory"] = x
      /\ m.returned["sharedMemory"] = 0 /\ m.acquired["sharedMemory"] = 0
  <2> DEFINE freed == only("sharedMemory", x)
  <2>1. nothing \in Amounts /\ nothing["sharedMemory"] = 0
    BY Memory DEF nothing, Amounts
  <2>2. freed \in Amounts /\ freed["sharedMemory"] = x
    BY <1>3, <2>1, Memory DEF only, Amounts
  <2> HIDE DEF freed
  <2>3. m = [returned |-> nothing, disposed |-> freed, acquired |-> nothing]
    BY DEF metric, freed
  <2>4. m \in Metrics /\ m.disposed = freed /\ m.returned = nothing /\ m.acquired = nothing
    BY <2>1, <2>2, <2>3 DEF Metrics
  <2> QED
    BY <2>1, <2>2, <2>4
<1> HIDE DEF m
<1>8. /\ taskMetrics' \in Seq(Metrics) /\ Len(taskMetrics') = Len(taskMetrics) + 1
      /\ \A field \in Fields :
           /\ \A n \in 0 .. Len(taskMetrics) : sums(taskMetrics', field, n) = sums(taskMetrics, field, n)
           /\ sums(taskMetrics', field, Len(taskMetrics) + 1)
                = sums(taskMetrics, field, Len(taskMetrics)) + m[field]["sharedMemory"]
  BY <1>1, <1>2, <1>7, SumsAppended
<1>9. disposing' = disposing + x
  <2>1. disposing = sums(taskMetrics, "disposed", Len(taskMetrics))
    BY <1>2, FieldNames, SumsType DEF disposing
  <2>2. total(taskMetrics', "disposed", "sharedMemory") = sums(taskMetrics', "disposed", Len(taskMetrics'))
    BY <1>8, FieldNames, SumsType
  <2>3. disposing' = total(taskMetrics', "disposed", "sharedMemory")
    BY DEF disposing, total
  <2> QED
    BY <1>7, <1>8, <2>1, <2>2, <2>3, FieldNames
<1>10. MetricTypes'
  <2>1. Len(taskMetrics) \in Nat /\ \A j \in 1 .. Len(taskMetrics) : taskMetrics'[j] = taskMetrics[j]
    BY <1>1, <1>2, <1>7
  <2>2. taskMetrics'[Len(taskMetrics) + 1] = m
    BY <1>1, <1>2, <1>7
  <2>3. \A j \in 1 .. Len(taskMetrics) + 1 : j \in 1 .. Len(taskMetrics) \/ j = Len(taskMetrics) + 1
    BY <2>1
  <2>4. \A j \in 1 .. Len(taskMetrics) :
          /\ taskMetrics[j].disposed["sharedMemory"] \in Nat
          /\ taskMetrics[j].returned["sharedMemory"] = 0
          /\ taskMetrics[j].acquired["sharedMemory"] = 0
    BY <1>2 DEF MetricTypes
  <2>5. \A j \in 1 .. Len(taskMetrics') :
          /\ taskMetrics'[j].disposed["sharedMemory"] \in Nat
          /\ taskMetrics'[j].returned["sharedMemory"] = 0
          /\ taskMetrics'[j].acquired["sharedMemory"] = 0
    BY <1>3, <1>7, <1>8, <2>1, <2>2, <2>3, <2>4
  <2> QED
    BY <1>1, <1>2, <1>3, <1>8, <2>5 DEF MetricTypes
<1> QED
  BY <1>1, <1>3, <1>6, <1>9, <1>10, OthersKeep

LEMMA SinkSees ==
  ASSUME MemoryInv, SinkIsPast
  PROVE  MemoryInv'
<1> DEFINE one == only("timeslices", 1)
           m == metric(one, one, nothing)
<1>1. /\ sinkMetrics' = Append(sinkMetrics, m)
      /\ UNCHANGED <<quotaVars, driverVars, messages, readerMetrics>> /\ UNCHANGED <<taskMetrics, inFlight>>
  BY DEF SinkIsPast
<1>2. MetricTypes /\ sinkMetrics \in Seq(Metrics)
  BY DEF MemoryInv, LedgerTypes, MetricTypes
<1>3. m \in Metrics /\ \A field \in Fields : m[field]["sharedMemory"] = 0
  <2>1. nothing \in Amounts /\ nothing["sharedMemory"] = 0
    BY Memory DEF nothing, Amounts
  <2>2. one \in Amounts /\ one["sharedMemory"] = 0
    BY <2>1, Memory DEF only, Amounts
  <2> HIDE DEF one
  <2>3. m = [returned |-> one, disposed |-> one, acquired |-> nothing]
    BY DEF metric
  <2>4. m \in Metrics /\ m.returned = one /\ m.disposed = one /\ m.acquired = nothing
    BY <2>1, <2>2, <2>3 DEF Metrics
  <2> QED
    BY <2>1, <2>2, <2>4 DEF Fields
<1> HIDE DEF m, one
<1>4. MetricTypes'
  <2>1. Len(sinkMetrics) \in Nat /\ \A j \in 1 .. Len(sinkMetrics) : sinkMetrics'[j] = sinkMetrics[j]
    BY <1>1, <1>2, <1>3
  <2>2. sinkMetrics'[Len(sinkMetrics) + 1] = m /\ Len(sinkMetrics') = Len(sinkMetrics) + 1
    BY <1>1, <1>2, <1>3
  <2>3. \A j \in 1 .. Len(sinkMetrics) + 1 : j \in 1 .. Len(sinkMetrics) \/ j = Len(sinkMetrics) + 1
    BY <2>1
  <2>4. \A j \in 1 .. Len(sinkMetrics), field \in Fields : sinkMetrics[j][field]["sharedMemory"] = 0
    BY <1>2 DEF MetricTypes
  <2>5. \A j \in 1 .. Len(sinkMetrics'), field \in Fields : sinkMetrics'[j][field]["sharedMemory"] = 0
    BY <1>3, <2>1, <2>2, <2>3, <2>4
  <2>6. sinkMetrics' \in Seq(Metrics)
    BY <1>1, <1>2, <1>3
  <2> QED
    BY <1>1, <1>2, <2>5, <2>6 DEF MetricTypes
<1>5. memoryInUse' = memoryInUse - 0 /\ disposing' = disposing + 0 /\ 0 \in Nat
  <2>1. memoryInUse \in Int /\ disposing \in Int
    BY LedgerAmounts DEF MemoryInv
  <2>2. memoryInUse' = memoryInUse
    BY <1>1 DEF memoryInUse
  <2>3. disposing' = disposing
    BY <1>1 DEF disposing, total
  <2> QED
    BY <2>1, <2>2, <2>3
<1> QED
  BY <1>1, <1>4, <1>5, OthersKeep

(* Nothing happens to the workflow. *)
LEMMA MemoryStutters ==
  ASSUME MemoryInv, UNCHANGED allVars
  PROVE  MemoryInv'
<1>1. UNCHANGED <<quotaVars, driverVars, messages, readerMetrics>> /\ UNCHANGED <<taskMetrics, sinkMetrics, inFlight>>
  BY DEF allVars, metricVars, dataVars
<1>2. MetricTypes'
  BY <1>1 DEF MemoryInv, LedgerTypes, MetricTypes
<1>3. memoryInUse' = memoryInUse - 0 /\ disposing' = disposing + 0 /\ 0 \in Nat
  <2>1. memoryInUse \in Int /\ disposing \in Int
    BY LedgerAmounts DEF MemoryInv
  <2>2. memoryInUse' = memoryInUse
    BY <1>1 DEF memoryInUse
  <2>3. disposing' = disposing
    BY <1>1 DEF disposing, total
  <2> QED
    BY <2>1, <2>2, <2>3
<1> QED
  BY <1>1, <1>2, <1>3, OthersKeep
-------------------------------------------------------------------------------
LEMMA MemoryNext ==
  ASSUME NumStreams = 1, MemoryInv, [NextOffers]_allVars
  PROVE  MemoryInv'
<1>1. CASE DriverStep
  BY <1>1, DriverReadsReader, DriverReadsTask, DriverReadsSink, DriverReadsNothing DEF DriverStep
<1>2. CASE ReaderStep
  <2>1. CASE DeliverOffer
    BY <2>1, OfferArrives
  <2>2. CASE ReaderClock \/ ReaderStoresOffers
    BY <2>2, ReaderWaits
  <2>3. CASE ReaderIterates
    BY <2>3, ReaderExpires
  <2>4. ASSUME NEW s \in Streams, ReaderCompletes(s) PROVE MemoryInv'
    BY <2>4, ReaderCharges
  <2>5. ASSUME NEW s \in Streams, NEW bytes \in Payloads, ReaderComputes(s, bytes) PROVE MemoryInv'
    BY <2>5, ReaderCreates
  <2> QED
    BY <1>2, <2>1, <2>2, <2>3, <2>4, <2>5 DEF ReaderStep
<1>3. CASE TaskDisposes
  BY <1>3, TaskGivesBack
<1>4. CASE SinkIsPast
  BY <1>4, SinkSees
<1>5. CASE UNCHANGED allVars
  BY <1>5, MemoryStutters
<1> QED
  BY <1>1, <1>2, <1>3, <1>4, <1>5 DEF NextOffers

LEMMA MemoryInit == InitOffers => MemoryInv
<1> SUFFICES ASSUME InitOffers PROVE MemoryInv
  OBVIOUS
<1>1. /\ InitQuota /\ available = maxAvailable /\ offered = nothing /\ returned = nothing /\ balance = nothing
      /\ overAllocated = 0
      /\ messages = <<>> /\ readerMetrics = <<>> /\ taskMetrics = <<>> /\ sinkMetrics = <<>> /\ inFlight = <<>>
  BY DEF InitOffers
<1>2. /\ EvaluatorInv /\ inAll(mOffers, "sharedMemory") = 0 /\ waiting("sharedMemory") = 0
  BY <1>1, EvaluatorInit, Memory
<1>3. nothing \in Amounts /\ nothing["sharedMemory"] = 0
  BY Memory DEF nothing, Amounts
<1>4. DriverTypes
  <2>1. maxAvailable \in Amounts /\ maxAvailable["sharedMemory"] \in Nat
    BY OffersAssumption, Memory DEF Amounts
  <2>2. divide(0, unit) = 0
    <3>1. unit \in Nat \ {0}
      BY Unit
    <3>2. 0 = unit * (0 \div unit) + (0 % unit) /\ 0 \div unit \in Int /\ 0 <= 0 % unit /\ 0 % unit < unit /\ 0 % unit \in Int
      BY <3>1, Division
    <3>3. 0 \div unit = 0
      BY <3>1, <3>2
    <3> QED
      BY <3>3 DEF divide
  <2>3. availableNow("sharedMemory", 0, 0) = maxAvailable["sharedMemory"] + 0 - 0
    BY <2>2 DEF availableNow, unit
  <2>4. maxAvailable["sharedMemory"] + 0 - 0 = maxAvailable["sharedMemory"]
    BY <2>1
  <2> QED
    BY <1>1, <1>3, <2>1, <2>3, <2>4 DEF DriverTypes
<1>5. MetricTypes
  BY <1>1 DEF MetricTypes
<1>6. LedgerTypes
  BY <1>1, <1>2, <1>4, <1>5 DEF LedgerTypes
<1>7. OneCharge
  BY <1>1 DEF OneCharge, InitQuota
<1>8. Len(readerMetrics) = 0 /\ readerMetrics \in Seq(Metrics) /\ taskMetrics \in Seq(Metrics) /\ Len(taskMetrics) = 0
  BY <1>1
<1>9. acquiredUpTo(0) = 0 /\ coveredUpTo(0) = 0 /\ returnedUpTo(0) = 0
  BY <1>8, FieldNames, SumsType, Coverage DEF acquiredUpTo, coveredUpTo, returnedUpTo
<1>10. disposing = 0
  <2>1. disposing = sums(taskMetrics, "disposed", Len(taskMetrics)) /\ sums(taskMetrics, "disposed", 0) = 0
    BY <1>8, FieldNames, SumsType DEF disposing
  <2> QED
    BY <1>8, <2>1
<1>11. memoryInUse = 0
  <2>1. Len(inFlight) = 0
    BY <1>1
  <2> QED
    BY <2>1, UpToNone DEF memoryInUse, upTo
<1>12. uncharged = 0
  BY <1>1, Uncharged DEF InitQuota
<1>13. promised = 0
  <2>1. carried(messages) = 0
    <3>1. Len(messages) = 0
      BY <1>1
    <3>2. carried(messages) = upTo([k \in 1 .. Len(messages) |-> messages[k]["sharedMemory"]], Len(messages))
      BY DEF carried, sumOf, upTo
    <3> QED
      BY <3>1, <3>2, UpToNone
  <2> QED
    BY <1>2, <2>1 DEF promised
<1>14. outstanding = 0
  <2>1. unit * 0 - 0 = 0
    BY Unit
  <2> QED
    BY <1>1, <1>3, <2>1 DEF outstanding
<1>15. UseIsKnown
  BY <1>1, <1>3, <1>8, <1>9, <1>10, <1>11 DEF UseIsKnown
<1>16. ReturnsAreOffered
  BY <1>8, <1>9, <1>13, <1>14 DEF ReturnsAreOffered
<1>17. UseIsCovered
  <2>1. \A n \in 0 .. 0 : n = 0
    OBVIOUS
  <2> QED
    BY <1>8, <1>9, <1>12, <1>13, <1>14, <2>1 DEF UseIsCovered
<1>18. WithinLimit
  <2>1. 0 < (limit + 1) * unit + 0
    BY Unit
  <2> QED
    BY <1>1, <1>11, <1>12, <1>13, <2>1 DEF WithinLimit
<1> QED
  BY <1>6, <1>7, <1>15, <1>16, <1>17, <1>18 DEF MemoryInv, Ledger

LEMMA HeldWithin ==
  ASSUME NEW M \in Int, NEW C \in Int, NEW W \in Int, NEW I \in Int, NEW H \in Int, NEW U \in Int, NEW L \in Int,
         H <= I, M + (C + W + I) - U < L
  PROVE  M + (C + W + (H - U)) < L
OBVIOUS

LEMMA MemoryIsWithin == MemoryInv => MemoryNeverOvercommitted
<1> SUFFICES ASSUME MemoryInv PROVE MemoryNeverOvercommitted
  OBVIOUS
<1> DEFINE roof == (limit + 1) * unit + overAllocated
<1>1. LedgerTypes /\ QuotaTypes /\ WithinLimit
  BY DEF MemoryInv, Ledger, LedgerTypes, EvaluatorInv
<1>2. held("sharedMemory") \in Int /\ held("sharedMemory") <= inAll(mOffers, "sharedMemory")
  BY <1>1, HeldInAll, Memory
<1>3. /\ carried(messages) \in Int /\ waiting("sharedMemory") \in Int /\ inAll(mOffers, "sharedMemory") \in Int
      /\ memoryInUse \in Int /\ uncharged \in Int
  BY <1>1, LedgerAmounts
<1>4. memoryInUse + (carried(messages) + waiting("sharedMemory") + inAll(mOffers, "sharedMemory")) - uncharged < roof
  BY <1>1 DEF WithinLimit, promised
<1>5. roof \in Int
  BY <1>1, Unit DEF WithinLimit
<1>6. onTheWay("sharedMemory") = carried(messages)
  BY DEF onTheWay, carried
<1> HIDE DEF roof
<1>7. memoryInUse + (carried(messages) + waiting("sharedMemory") + (held("sharedMemory") - uncharged)) < roof
  BY <1>2, <1>3, <1>4, <1>5, HeldWithin, Zenon
<1> QED
  BY <1>6, <1>7 DEF MemoryNeverOvercommitted, memoryPromised, roof, limit, unit

(* A workflow whose reader computes on one stream (the default) never uses *)
(* and promises a whole unit more of shared memory than it may and than    *)
(* its computations have created beyond their request since the driver     *)
(* heard of it, whatever the payloads, the quanta, the number of offers    *)
(* and the delay of the metrics: metricHandling() of the driver against    *)
(* the evaluator.                                                          *)
THEOREM MemoryIsNeverOvercommitted ==
  ASSUME NumStreams = 1
  PROVE  SpecOffers => []MemoryNeverOvercommitted
<1>1. MemoryInv /\ [NextOffers]_allVars => MemoryInv'
  BY MemoryNext
<1> QED
  BY <1>1, MemoryInit, MemoryIsWithin, PTL DEF SpecOffers
==============================================================================
