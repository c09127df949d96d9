------------------------------ MODULE Induction ------------------------------
(***************************************************************************)
(* Induction and recursion over the natural numbers, stated for sets and   *)
(* functions.                                                              *)
(***************************************************************************)
EXTENDS Integers, FiniteSets, Functions, FiniteSetTheorems, WellFoundedInduction, TLAPS

(* Every set of natural numbers that is not empty has a least element. *)
LEMMA LeastElement ==
  ASSUME NEW T, T \subseteq Nat, T # {}
  PROVE  \E x \in T : \A y \in T : x <= y
<1>1. PICK x \in T : \A y \in T : ~ (<<y, x>> \in OpToRel(<, Nat))
  BY NatLessThanWellFounded, WFMin
<1>2. \A y \in T : ~ (y < x)
  BY <1>1 DEF OpToRel
<1> QED
  BY <1>2

(* Induction over the natural numbers. *)
LEMMA NatInduct ==
  ASSUME NEW S, 0 \in S, \A n \in Nat : n \in S => n + 1 \in S
  PROVE  Nat \subseteq S
<1> SUFFICES ASSUME Nat \ S # {} PROVE FALSE
  OBVIOUS
<1>1. PICK x \in Nat \ S : \A y \in Nat \ S : x <= y
  BY LeastElement
<1>2. x - 1 \in Nat /\ x - 1 \in S
  BY <1>1
<1> QED
  BY <1>2

(* The same up to a bound. *)
LEMMA IntervalInduct ==
  ASSUME NEW N \in Nat, NEW S, 0 \in S, \A n \in 0 .. N - 1 : n \in S => n + 1 \in S
  PROVE  0 .. N \subseteq S
<1> DEFINE T == {n \in Nat : n <= N => n \in S}
<1>1. 0 \in T
  OBVIOUS
<1>2. \A n \in Nat : n \in T => n + 1 \in T
  OBVIOUS
<1>3. Nat \subseteq T
  <2> HIDE DEF T
  <2> QED
    BY <1>1, <1>2, NatInduct
<1> QED
  BY <1>3

(* Induction from the end of an interval down. *)
LEMMA DownwardInduct ==
  ASSUME NEW N \in Nat, NEW S, N \in S, \A n \in 0 .. N - 1 : n + 1 \in S => n \in S
  PROVE  0 .. N \subseteq S
<1> DEFINE T == {n \in 0 .. N : N - n \in S}
<1>1. 0 \in T
  OBVIOUS
<1>2. ASSUME NEW n \in 0 .. N - 1, n \in T PROVE n + 1 \in T
  <2>1. N - (n + 1) \in 0 .. N - 1 /\ (N - (n + 1)) + 1 = N - n /\ n + 1 \in 0 .. N
    OBVIOUS
  <2>2. N - (n + 1) \in S
    BY <1>2, <2>1
  <2> QED
    BY <2>1, <2>2
<1>3. 0 .. N \subseteq T
  <2> HIDE DEF T
  <2> QED
    BY <1>1, <1>2, IntervalInduct
<1> SUFFICES ASSUME NEW n \in 0 .. N PROVE n \in S
  OBVIOUS
<1>4. N - n \in 0 .. N /\ N - (N - n) = n
  OBVIOUS
<1> QED
  BY <1>3, <1>4

(* A function may be defined by recursion. *)
Iterates(f, N, S, base, G) ==
  /\ f \in [0 .. N -> S]
  /\ f[0] = base
  /\ \A n \in 1 .. N : f[n] = G[n][f[n - 1]]

LEMMA Recursion ==
  ASSUME NEW N \in Nat, NEW S, NEW base \in S, NEW G \in [1 .. N -> [S -> S]]
  PROVE  \E f : Iterates(f, N, S, base, G)
<1> DEFINE Upto(f, k) == f[0] = base /\ \A n \in 1 .. N : n <= k => f[n] = G[n][f[n - 1]]
           K == {k \in Nat : \E f \in [0 .. N -> S] : Upto(f, k)}
<1>1. 0 \in K
  <2> DEFINE f == [n \in 0 .. N |-> base]
  <2>1. f \in [0 .. N -> S] /\ Upto(f, 0)
    OBVIOUS
  <2> HIDE DEF f, Upto
  <2> QED
    BY <2>1
<1>2. ASSUME NEW k \in Nat, k \in K PROVE k + 1 \in K
  <2>1. PICK f \in [0 .. N -> S] : Upto(f, k)
    BY <1>2
  <2> DEFINE h == [n \in 0 .. N |-> IF n = k + 1 THEN G[k + 1][f[k]] ELSE f[n]]
  <2>2. h \in [0 .. N -> S]
    OBVIOUS
  <2>3. h[0] = base
    BY <2>1
  <2>4. ASSUME NEW n \in 1 .. N, n <= k + 1 PROVE h[n] = G[n][h[n - 1]]
    <3>1. h[n - 1] = f[n - 1]
      BY <2>4
    <3>2. CASE n = k + 1
      <4>1. n - 1 = k /\ h[n] = G[k + 1][f[k]]
        BY <3>2
      <4> QED
        BY <3>1, <3>2, <4>1
    <3>3. CASE n # k + 1
      <4>1. h[n] = f[n] /\ n <= k
        BY <2>4, <3>3
      <4>2. f[n] = G[n][f[n - 1]]
        BY <2>1, <4>1
      <4> QED
        BY <3>1, <4>1, <4>2
    <3> QED
      BY <3>2, <3>3
  <2>5. Upto(h, k + 1)
    BY <2>3, <2>4
  <2> HIDE DEF h, Upto
  <2> QED
    BY <2>2, <2>5
<1>3. Nat \subseteq K
  <2> HIDE DEF K
  <2> QED
    BY <1>1, <1>2, NatInduct
<1>4. PICK f \in [0 .. N -> S] : Upto(f, N)
  BY <1>3
<1> QED
  BY <1>4 DEF Iterates

(* Induction over the subsets of a finite set. *)
LEMMA SubsetInduct ==
  ASSUME NEW S, IsFiniteSet(S), NEW W, {} \in W,
         \A T \in SUBSET S : T # {} /\ (\A x \in T : T \ {x} \in W) => T \in W
  PROVE  SUBSET S \subseteq W
<1> DEFINE N == {n \in Nat : \A T \in SUBSET S : Cardinality(T) = n => T \in W}
<1>1. \A T \in SUBSET S : IsFiniteSet(T) /\ Cardinality(T) \in Nat
  BY FS_Subset, FS_CardinalityType
<1>2. 0 \in N
  <2> SUFFICES ASSUME NEW T \in SUBSET S, Cardinality(T) = 0 PROVE T \in W
    OBVIOUS
  <2>1. T = {}
    BY <1>1, FS_EmptySet
  <2> QED
    BY <2>1
<1>3. ASSUME NEW n \in Nat, n \in N PROVE n + 1 \in N
  <2> SUFFICES ASSUME NEW T \in SUBSET S, Cardinality(T) = n + 1 PROVE T \in W
    OBVIOUS
  <2>1. T # {}
    BY FS_EmptySet
  <2>2. ASSUME NEW x \in T PROVE T \ {x} \in W
    <3>1. Cardinality(T \ {x}) = n
      BY <1>1, FS_RemoveElement
    <3> QED
      BY <1>3, <3>1
  <2> QED
    BY <2>1, <2>2
<1>4. Nat \subseteq N
  <2> HIDE DEF N
  <2> QED
    BY <1>2, <1>3, NatInduct
<1> QED
  BY <1>1, <1>4

(***************************************************************************)
(* Sums: SumFunctionOnSet of the community module Functions.               *)
(***************************************************************************)
chosen(s) == CHOOSE x \in s : TRUE

(* What SumFunctionOnSet iterates. *)
Sums(f, S, g) ==
  g = [s \in SUBSET S |-> IF s = {} THEN 0 ELSE f[chosen(s)] + g[s \ {chosen(s)}]]

LEMMA SumsExist ==
  ASSUME NEW S, IsFiniteSet(S), NEW f, \A i \in S : f[i] \in Int
  PROVE  \E g : Sums(f, S, g)
<1> DEFINE eqn(g, s) == IF s = {} THEN 0 ELSE f[chosen(s)] + g[s \ {chosen(s)}]
           N == {n \in Nat : \E g \in [SUBSET S -> Int] :
                   \A s \in SUBSET S : Cardinality(s) <= n => g[s] = eqn(g, s)}
<1>1. \A s \in SUBSET S : IsFiniteSet(s) /\ Cardinality(s) \in Nat /\ Cardinality(s) <= Cardinality(S)
  BY FS_Subset, FS_CardinalityType
<1>2. \A s \in SUBSET S : s # {} => /\ chosen(s) \in s
                                  /\ s \ {chosen(s)} \in SUBSET S
                                  /\ Cardinality(s \ {chosen(s)}) = Cardinality(s) - 1
  <2> SUFFICES ASSUME NEW s \in SUBSET S, s # {}
               PROVE  chosen(s) \in s /\ Cardinality(s \ {chosen(s)}) = Cardinality(s) - 1
    OBVIOUS
  <2>1. chosen(s) \in s
    BY DEF chosen
  <2> QED
    BY <1>1, <2>1, FS_RemoveElement
<1>3. 0 \in N
  <2> DEFINE g == [s \in SUBSET S |-> 0]
  <2>1. \A s \in SUBSET S : Cardinality(s) <= 0 => s = {}
    BY <1>1, FS_EmptySet
  <2>2. g \in [SUBSET S -> Int] /\ \A s \in SUBSET S : Cardinality(s) <= 0 => g[s] = eqn(g, s)
    BY <2>1
  <2> HIDE DEF eqn, g
  <2> QED
    BY <2>2
<1>4. ASSUME NEW n \in Nat, n \in N PROVE n + 1 \in N
  <2>1. PICK g \in [SUBSET S -> Int] : \A s \in SUBSET S : Cardinality(s) <= n => g[s] = eqn(g, s)
    BY <1>4
  <2> DEFINE h == [s \in SUBSET S |-> IF Cardinality(s) <= n THEN g[s] ELSE eqn(g, s)]
  <2>2. \A s \in SUBSET S : eqn(g, s) \in Int
    BY <1>2
  <2>3. h \in [SUBSET S -> Int]
    BY <2>2
  <2>4. \A s \in SUBSET S : h[s] = eqn(g, s)
    BY <2>1
  <2>5. ASSUME NEW s \in SUBSET S, Cardinality(s) <= n + 1 PROVE eqn(h, s) = eqn(g, s)
    <3>1. CASE s = {}
      BY <3>1
    <3>2. CASE s # {}
      <4>1. s \ {chosen(s)} \in SUBSET S /\ Cardinality(s \ {chosen(s)}) <= n
        BY <1>1, <1>2, <2>5, <3>2
      <4> QED
        BY <3>2, <4>1
    <3> QED
      BY <3>1, <3>2
  <2> HIDE DEF h, eqn
  <2>6. \A s \in SUBSET S : Cardinality(s) <= n + 1 => h[s] = eqn(h, s)
    BY <2>4, <2>5
  <2> QED
    BY <2>3, <2>6
<1>5. Nat \subseteq N
  <2> HIDE DEF N
  <2> QED
    BY <1>3, <1>4, NatInduct
<1>6. Cardinality(S) \in N
  BY <1>1, <1>5
<1>7. PICK g \in [SUBSET S -> Int] : \A s \in SUBSET S : Cardinality(s) <= Cardinality(S) => g[s] = eqn(g, s)
  BY <1>6
<1>8. g = [s \in SUBSET S |-> eqn(g, s)]
  <2> HIDE DEF eqn
  <2> QED
    BY <1>1, <1>7
<1> QED
  BY <1>8 DEF Sums

(* Two of them agree on the sets both have, if the functions do. *)
LEMMA SumsAgree ==
  ASSUME NEW S, IsFiniteSet(S), NEW T, T \subseteq S, NEW f, NEW g, NEW h, NEW k,
         Sums(f, S, g), Sums(h, T, k), \A i \in T : f[i] = h[i]
  PROVE  \A s \in SUBSET T : g[s] = k[s]
<1> DEFINE W == {s \in SUBSET T : g[s] = k[s]}
<1>1. {} \in W
  BY DEF Sums
<1>2. ASSUME NEW s \in SUBSET T, s # {}, \A x \in s : s \ {x} \in W PROVE s \in W
  <2>1. chosen(s) \in s
    BY <1>2 DEF chosen
  <2>2. g[s] = f[chosen(s)] + g[s \ {chosen(s)}]
    BY <1>2 DEF Sums
  <2>3. k[s] = h[chosen(s)] + k[s \ {chosen(s)}]
    BY <1>2 DEF Sums
  <2> QED
    BY <1>2, <2>1, <2>2, <2>3
<1>3. SUBSET T \subseteq W
  <2> HIDE DEF W
  <2> QED
    BY <1>1, <1>2, SubsetInduct, FS_Subset
<1> QED
  BY <1>3

LEMMA SumIsIterated ==
  ASSUME NEW S, IsFiniteSet(S), NEW f, \A i \in S : f[i] \in Int
  PROVE  \E g : Sums(f, S, g) /\ SumFunctionOnSet(f, S) = g[S]
<1> DEFINE G == CHOOSE g : Sums(f, S, g)
<1>1. Sums(f, S, G)
  BY SumsExist
<1>2. SumFunctionOnSet(f, S) = G[S]
  BY DEF SumFunctionOnSet, FoldFunctionOnSet, MapThenFoldSet, Sums, chosen
<1> QED
  BY <1>1, <1>2

(* Nothing sums up to zero, and integers to an integer. *)
LEMMA SumOfNone ==
  ASSUME NEW f
  PROVE  SumFunctionOnSet(f, {}) = 0
<1>1. PICK g : Sums(f, {}, g) /\ SumFunctionOnSet(f, {}) = g[{}]
  BY SumIsIterated, FS_EmptySet
<1> QED
  BY <1>1 DEF Sums

(* Functions that agree on a set have the same sum. *)
LEMMA SumSame ==
  ASSUME NEW S, IsFiniteSet(S), NEW f, NEW h, \A i \in S : f[i] \in Int /\ f[i] = h[i]
  PROVE  SumFunctionOnSet(f, S) = SumFunctionOnSet(h, S)
<1>1. PICK g : Sums(f, S, g) /\ SumFunctionOnSet(f, S) = g[S]
  BY SumIsIterated
<1>2. PICK k : Sums(h, S, k) /\ SumFunctionOnSet(h, S) = k[S]
  BY SumIsIterated
<1>3. S \in SUBSET S
  OBVIOUS
<1> QED
  BY <1>1, <1>2, <1>3, SumsAgree

LEMMA SumWithoutChosen ==
  ASSUME NEW S, IsFiniteSet(S), S # {}, NEW f, \A i \in S : f[i] \in Int
  PROVE  SumFunctionOnSet(f, S) = f[chosen(S)] + SumFunctionOnSet(f, S \ {chosen(S)})
<1> DEFINE c == chosen(S)
           T == S \ {c}
<1>1. PICK g : Sums(f, S, g) /\ SumFunctionOnSet(f, S) = g[S]
  BY SumIsIterated
<1>2. T \subseteq S /\ IsFiniteSet(T) /\ \A i \in T : f[i] \in Int
  BY FS_Subset
<1> HIDE DEF T
<1>3. PICK k : Sums(f, T, k) /\ SumFunctionOnSet(f, T) = k[T]
  BY <1>2, SumIsIterated
<1>4. g[T] = k[T]
  <2>1. \A s \in SUBSET T : g[s] = k[s]
    BY <1>1, <1>2, <1>3, SumsAgree
  <2> QED
    BY <2>1
<1>5. g[S] = f[c] + g[T]
  BY <1>1 DEF Sums, T
<1> QED
  BY <1>1, <1>3, <1>4, <1>5 DEF T

LEMMA SumType ==
  ASSUME NEW S, IsFiniteSet(S), NEW f, \A i \in S : f[i] \in Int
  PROVE  SumFunctionOnSet(f, S) \in Int
<1> DEFINE W == {T \in SUBSET S : SumFunctionOnSet(f, T) \in Int}
<1>1. {} \in W
  BY SumOfNone
<1>2. ASSUME NEW T \in SUBSET S, T # {}, \A x \in T : T \ {x} \in W PROVE T \in W
  <2>1. chosen(T) \in T /\ IsFiniteSet(T)
    BY <1>2, FS_Subset DEF chosen
  <2>2. SumFunctionOnSet(f, T) = f[chosen(T)] + SumFunctionOnSet(f, T \ {chosen(T)})
    BY <1>2, <2>1, SumWithoutChosen
  <2> QED
    BY <1>2, <2>1, <2>2
<1>3. SUBSET S \subseteq W
  <2> HIDE DEF W
  <2> QED
    BY <1>1, <1>2, SubsetInduct
<1> QED
  BY <1>3

(* Any element may be taken out of a sum. *)
LEMMA SumWithout ==
  ASSUME NEW S, IsFiniteSet(S), NEW f, \A i \in S : f[i] \in Int, NEW e \in S
  PROVE  SumFunctionOnSet(f, S) = f[e] + SumFunctionOnSet(f, S \ {e})
<1> DEFINE sum(T) == SumFunctionOnSet(f, T)
           W == {T \in SUBSET S : \A x \in T : sum(T) = f[x] + sum(T \ {x})}
<1>0. \A T \in SUBSET S : IsFiniteSet(T) /\ sum(T) \in Int
  BY FS_Subset, SumType
<1>1. {} \in W
  OBVIOUS
<1>2. ASSUME NEW T \in SUBSET S, T # {}, \A x \in T : T \ {x} \in W,
             NEW x \in T
      PROVE  sum(T) = f[x] + sum(T \ {x})
  <2> DEFINE c == chosen(T)
  <2>1. c \in T
    BY <1>2 DEF chosen
  <2>2. sum(T) = f[c] + sum(T \ {c})
    BY <1>0, <1>2, SumWithoutChosen
  <2> HIDE DEF c, sum
  <2>3. CASE x = c
    BY <2>2, <2>3
  <2>4. CASE x # c
    <3>1. sum(T \ {c}) = f[x] + sum((T \ {c}) \ {x})
      BY <1>2, <2>1, <2>4
    <3>2. sum(T \ {x}) = f[c] + sum((T \ {x}) \ {c})
      BY <1>2, <2>1, <2>4
    <3>3. sum((T \ {x}) \ {c}) = sum((T \ {c}) \ {x})
      <4>1. (T \ {x}) \ {c} = (T \ {c}) \ {x}
        OBVIOUS
      <4> QED
        BY <4>1
    <3>4. f[c] \in Int /\ f[x] \in Int /\ sum((T \ {c}) \ {x}) \in Int
      BY <1>0, <2>1
    <3> HIDE DEF W
    <3> QED
      BY <2>2, <3>1, <3>2, <3>3, <3>4
  <2> QED
    BY <2>3, <2>4
<1>3. SUBSET S \subseteq W
  <2>1. \A T \in SUBSET S : T # {} /\ (\A x \in T : T \ {x} \in W) => T \in W
    BY <1>2
  <2> HIDE DEF W
  <2> QED
    BY <1>1, <2>1, SubsetInduct
<1> QED
  BY <1>3

LEMMA SumWith ==
  ASSUME NEW S, IsFiniteSet(S), NEW e, e \notin S, NEW f, \A i \in S \cup {e} : f[i] \in Int
  PROVE  SumFunctionOnSet(f, S \cup {e}) = SumFunctionOnSet(f, S) + f[e]
<1>1. IsFiniteSet(S \cup {e}) /\ (S \cup {e}) \ {e} = S
  BY FS_AddElement
<1>2. SumFunctionOnSet(f, S) \in Int /\ f[e] \in Int
  BY SumType
<1>3. SumFunctionOnSet(f, S \cup {e}) = f[e] + SumFunctionOnSet(f, (S \cup {e}) \ {e})
  <2>1. e \in S \cup {e}
    OBVIOUS
  <2> QED
    BY <1>1, <2>1, SumWithout
<1>4. SumFunctionOnSet(f, (S \cup {e}) \ {e}) = SumFunctionOnSet(f, S)
  BY <1>1
<1> QED
  BY <1>2, <1>3, <1>4

(* A sum grows with what is summed. *)
LEMMA SumMonotone ==
  ASSUME NEW S, IsFiniteSet(S), NEW f, NEW h,
         \A i \in S : f[i] \in Int /\ h[i] \in Int /\ f[i] <= h[i]
  PROVE  SumFunctionOnSet(f, S) <= SumFunctionOnSet(h, S)
<1> DEFINE W == {T \in SUBSET S : SumFunctionOnSet(f, T) <= SumFunctionOnSet(h, T)}
<1>1. {} \in W
  BY SumOfNone
<1>2. ASSUME NEW T \in SUBSET S, T # {}, \A x \in T : T \ {x} \in W PROVE T \in W
  <2>1. PICK x \in T : TRUE
    BY <1>2
  <2>2. IsFiniteSet(T) /\ IsFiniteSet(T \ {x})
    BY FS_Subset
  <2>3. /\ SumFunctionOnSet(f, T) = f[x] + SumFunctionOnSet(f, T \ {x})
        /\ SumFunctionOnSet(h, T) = h[x] + SumFunctionOnSet(h, T \ {x})
    BY <2>2, SumWithout
  <2>4. SumFunctionOnSet(f, T \ {x}) \in Int /\ SumFunctionOnSet(h, T \ {x}) \in Int
    BY <2>2, SumType
  <2> QED
    BY <1>2, <2>3, <2>4
<1>3. SUBSET S \subseteq W
  <2> HIDE DEF W
  <2> QED
    BY <1>1, <1>2, SubsetInduct
<1> QED
  BY <1>3

(* One value of the function is changed. *)
LEMMA SumChanged ==
  ASSUME NEW S, IsFiniteSet(S), NEW f, NEW h, NEW e \in S,
         \A i \in S : f[i] \in Int /\ h[i] \in Int,
         \A i \in S \ {e} : f[i] = h[i]
  PROVE  SumFunctionOnSet(h, S) = SumFunctionOnSet(f, S) - f[e] + h[e]
<1>1. IsFiniteSet(S \ {e})
  BY FS_Subset
<1>2. SumFunctionOnSet(f, S \ {e}) = SumFunctionOnSet(h, S \ {e})
  BY <1>1, SumSame
<1>3. /\ SumFunctionOnSet(f, S) = f[e] + SumFunctionOnSet(f, S \ {e})
      /\ SumFunctionOnSet(h, S) = h[e] + SumFunctionOnSet(h, S \ {e})
  BY SumWithout
<1>4. SumFunctionOnSet(f, S \ {e}) \in Int
  BY <1>1, SumType
<1> QED
  BY <1>2, <1>3, <1>4

(* The sum over two sets that have nothing in common. *)
LEMMA SumUnion ==
  ASSUME NEW S, IsFiniteSet(S), NEW T, IsFiniteSet(T), S \cap T = {},
         NEW f, \A i \in S \cup T : f[i] \in Int
  PROVE  SumFunctionOnSet(f, S \cup T) = SumFunctionOnSet(f, S) + SumFunctionOnSet(f, T)
<1> DEFINE sum(U) == SumFunctionOnSet(f, U)
           W == {U \in SUBSET T : sum(S \cup U) = sum(S) + sum(U)}
<1>0. \A U \in SUBSET T : IsFiniteSet(U) /\ IsFiniteSet(S \cup U) /\ sum(U) \in Int
  BY FS_Subset, FS_Union, SumType
<1>1. sum(S) \in Int
  BY SumType
<1>2. {} \in W
  <2>1. S \cup {} = S /\ sum({}) = 0
    BY SumOfNone
  <2> HIDE DEF sum
  <2> QED
    BY <1>1, <2>1
<1>3. ASSUME NEW U \in SUBSET T, U # {}, \A x \in U : U \ {x} \in W PROVE U \in W
  <2>1. PICK x \in U : TRUE
    BY <1>3
  <2>2. (S \cup U) \ {x} = S \cup (U \ {x}) /\ x \in S \cup U
    BY <2>1
  <2>3. sum(U) = f[x] + sum(U \ {x})
    BY <1>0, SumWithout
  <2>4. sum(S \cup U) = f[x] + sum((S \cup U) \ {x})
    BY <1>0, <2>2, SumWithout
  <2>5. f[x] \in Int /\ sum(U \ {x}) \in Int
    BY <1>0
  <2>6. sum(S \cup (U \ {x})) = sum(S) + sum(U \ {x})
    BY <1>3
  <2>7. sum((S \cup U) \ {x}) = sum(S \cup (U \ {x}))
    BY <2>2
  <2>8. sum(S \cup U) = sum(S) + sum(U)
    <3> HIDE DEF sum
    <3> QED
      BY <1>1, <2>3, <2>4, <2>5, <2>6, <2>7
  <2> QED
    BY <2>8
<1>4. SUBSET T \subseteq W
  <2> HIDE DEF W
  <2> QED
    BY <1>2, <1>3, SubsetInduct
<1> QED
  BY <1>4

(* Zeros sum up to zero, and what is not negative to no less. *)
LEMMA SumOfZeros ==
  ASSUME NEW S, IsFiniteSet(S), NEW f, \A i \in S : f[i] = 0
  PROVE  SumFunctionOnSet(f, S) = 0
<1> DEFINE W == {T \in SUBSET S : SumFunctionOnSet(f, T) = 0}
<1>1. {} \in W
  BY SumOfNone
<1>2. ASSUME NEW T \in SUBSET S, T # {}, \A x \in T : T \ {x} \in W PROVE T \in W
  <2>1. PICK x \in T : TRUE
    BY <1>2
  <2>2. SumFunctionOnSet(f, T) = f[x] + SumFunctionOnSet(f, T \ {x})
    BY FS_Subset, SumWithout
  <2> QED
    BY <1>2, <2>2
<1>3. SUBSET S \subseteq W
  <2> HIDE DEF W
  <2> QED
    BY <1>1, <1>2, SubsetInduct
<1> QED
  BY <1>3

LEMMA SumPart ==
  ASSUME NEW S, IsFiniteSet(S), NEW T, T \subseteq S, NEW f, \A i \in S : f[i] \in Int,
         \A i \in S \ T : f[i] >= 0
  PROVE  SumFunctionOnSet(f, T) <= SumFunctionOnSet(f, S)
<1> DEFINE R == S \ T
           zero == [i \in R |-> 0]
<1>1. IsFiniteSet(T) /\ IsFiniteSet(R) /\ T \cup R = S /\ T \cap R = {}
  BY FS_Subset
<1>2. SumFunctionOnSet(f, T) \in Int /\ SumFunctionOnSet(f, R) \in Int
  BY <1>1, SumType
<1>3. SumFunctionOnSet(f, T \cup R) = SumFunctionOnSet(f, T) + SumFunctionOnSet(f, R)
  BY <1>1, SumUnion
<1>4. SumFunctionOnSet(zero, R) = 0
  BY <1>1, SumOfZeros
<1>5. SumFunctionOnSet(zero, R) <= SumFunctionOnSet(f, R)
  BY <1>1, SumMonotone
<1>6. SumFunctionOnSet(f, S) = SumFunctionOnSet(f, T \cup R)
  BY <1>1
<1> HIDE DEF zero, R
<1> QED
  BY <1>2, <1>3, <1>4, <1>5, <1>6

(* Two functions are summed together. *)
LEMMA SumOfBoth ==
  ASSUME NEW S, IsFiniteSet(S), NEW f, NEW h, NEW g,
         \A i \in S : f[i] \in Int /\ h[i] \in Int /\ g[i] = f[i] + h[i]
  PROVE  SumFunctionOnSet(g, S) = SumFunctionOnSet(f, S) + SumFunctionOnSet(h, S)
<1> DEFINE W == {T \in SUBSET S :
                   SumFunctionOnSet(g, T) = SumFunctionOnSet(f, T) + SumFunctionOnSet(h, T)}
<1>1. {} \in W
  BY SumOfNone
<1>2. ASSUME NEW T \in SUBSET S, T # {}, \A x \in T : T \ {x} \in W PROVE T \in W
  <2>1. PICK x \in T : TRUE
    BY <1>2
  <2>2. IsFiniteSet(T) /\ IsFiniteSet(T \ {x}) /\ \A i \in T : g[i] \in Int
    BY FS_Subset
  <2>3. /\ SumFunctionOnSet(f, T) = f[x] + SumFunctionOnSet(f, T \ {x})
        /\ SumFunctionOnSet(h, T) = h[x] + SumFunctionOnSet(h, T \ {x})
        /\ SumFunctionOnSet(g, T) = g[x] + SumFunctionOnSet(g, T \ {x})
    BY <2>2, SumWithout
  <2>4. SumFunctionOnSet(f, T \ {x}) \in Int /\ SumFunctionOnSet(h, T \ {x}) \in Int
    BY <2>2, SumType
  <2> QED
    BY <1>2, <2>3, <2>4
<1>3. SUBSET S \subseteq W
  <2> HIDE DEF W
  <2> QED
    BY <1>1, <1>2, SubsetInduct
<1> QED
  BY <1>3

(* A sum may be taken over other names of the same values. *)
LEMMA SumRenamed ==
  ASSUME NEW S, IsFiniteSet(S), NEW h, NEW f, NEW g,
         \A i \in S : f[h[i]] \in Int /\ g[i] = f[h[i]],
         \A i, j \in S : h[i] = h[j] => i = j
  PROVE  SumFunctionOnSet(g, S) = SumFunctionOnSet(f, {h[i] : i \in S})
<1> DEFINE image(T) == {h[i] : i \in T}
           W == {T \in SUBSET S : /\ IsFiniteSet(image(T))
                                  /\ SumFunctionOnSet(g, T) = SumFunctionOnSet(f, image(T))}
<1>1. {} \in W
  <2>1. image({}) = {}
    OBVIOUS
  <2> QED
    BY <2>1, FS_EmptySet, SumOfNone
<1>2. ASSUME NEW T \in SUBSET S, T # {}, \A x \in T : T \ {x} \in W PROVE T \in W
  <2>1. PICK x \in T : TRUE
    BY <1>2
  <2> DEFINE I == image(T \ {x})
  <2>2. IsFiniteSet(T) /\ \A i \in T : g[i] \in Int
    BY FS_Subset
  <2>3. SumFunctionOnSet(g, T) = g[x] + SumFunctionOnSet(g, T \ {x})
    BY <2>2, SumWithout
  <2>4. image(T) = I \cup {h[x]} /\ h[x] \notin I
    BY <2>1
  <2>5. IsFiniteSet(I) /\ SumFunctionOnSet(g, T \ {x}) = SumFunctionOnSet(f, I)
    BY <1>2, <2>1
  <2>6. \A i \in I \cup {h[x]} : f[i] \in Int
    OBVIOUS
  <2>7. g[x] = f[h[x]] /\ f[h[x]] \in Int
    OBVIOUS
  <2> HIDE DEF I
  <2>8. SumFunctionOnSet(f, I \cup {h[x]}) = SumFunctionOnSet(f, I) + f[h[x]]
    <3> DEFINE e == h[x]
    <3>1. e \notin I /\ \A i \in I \cup {e} : f[i] \in Int
      BY <2>4, <2>6
    <3> HIDE DEF e
    <3>2. SumFunctionOnSet(f, I \cup {e}) = SumFunctionOnSet(f, I) + f[e]
      BY SMTT(30), <2>5, <3>1, SumWith
    <3> QED
      BY <3>2 DEF e
  <2>9. SumFunctionOnSet(f, I) \in Int /\ IsFiniteSet(I \cup {h[x]})
    BY <2>5, <2>6, SumType, FS_AddElement
  <2>10. /\ SumFunctionOnSet(f, image(T)) = SumFunctionOnSet(f, I \cup {h[x]})
         /\ IsFiniteSet(image(T))
    BY <2>4, <2>9
  <2>11. SumFunctionOnSet(g, T) = SumFunctionOnSet(f, image(T))
    <3> HIDE DEF image
    <3> QED
      BY <2>3, <2>5, <2>7, <2>8, <2>9, <2>10
  <2> QED
    BY <2>10, <2>11
<1>3. SUBSET S \subseteq W
  <2> HIDE DEF W
  <2> QED
    BY <1>1, <1>2, SubsetInduct
<1> QED
  BY <1>3

(* Only what is not zero counts. *)
LEMMA SumSupport ==
  ASSUME NEW S, IsFiniteSet(S), NEW T, T \subseteq S, NEW f, \A i \in S : f[i] \in Int,
         \A i \in S \ T : f[i] = 0
  PROVE  SumFunctionOnSet(f, S) = SumFunctionOnSet(f, T)
<1> DEFINE R == S \ T
<1>1. IsFiniteSet(T) /\ IsFiniteSet(R) /\ T \cup R = S /\ T \cap R = {}
  BY FS_Subset
<1>2. SumFunctionOnSet(f, T \cup R) = SumFunctionOnSet(f, T) + SumFunctionOnSet(f, R)
  BY <1>1, SumUnion
<1>3. SumFunctionOnSet(f, R) = 0
  BY <1>1, SumOfZeros
<1>4. SumFunctionOnSet(f, S) = SumFunctionOnSet(f, T \cup R)
  BY <1>1
<1>5. SumFunctionOnSet(f, T) \in Int
  BY <1>1, SumType
<1> HIDE DEF R
<1> QED
  BY <1>2, <1>3, <1>4, <1>5

==============================================================================
