---------------------------------- MODULE Sums ----------------------------------
(***************************************************************************)
(* What SumFunctionOnSet computes on finite sets.  The module is about     *)
(* every sum the other modules take.                                       *)
(***************************************************************************)
EXTENDS Integers, Functions, FiniteSetTheorems, NaturalsInduction,
        WellFoundedInduction, TLAPS

(* A set of subsets of a finite set that is not empty has a least member:  *)
(* induction over finite sets, for a property that is a set.               *)
LEMMA LeastSubset ==
  ASSUME NEW S, IsFiniteSet(S), NEW C \in SUBSET SUBSET S, C # {}
  PROVE  \E T \in C : \A U \in C : U \subseteq T => U = T
  <1>1. C \subseteq FiniteSubsetsOf(S)
    BY FS_Subset DEF FiniteSubsetsOf
  <1>2. PICK T \in C : \A U \in C : ~ (<<U, T>> \in StrictSubsetOrdering(S))
    BY <1>1, FS_StrictSubsetOrderingWellFounded, WFMin
  <1>3. ASSUME NEW U \in C, U \subseteq T PROVE U = T
    BY <1>2, <1>3 DEF StrictSubsetOrdering
  <1> QED  BY <1>3

(* A set of natural numbers that is not empty has a least one. *)
LEMMA LeastNumber ==
  ASSUME NEW S \in SUBSET Nat, S # {}
  PROVE  \E x \in S : \A y \in S : x <= y
  <1> DEFINE R == {ss \in Nat \X Nat : ss[1] < ss[2]}
  <1>1. IsWellFoundedOn(R, Nat)
    BY NatLessThanWellFounded DEF OpToRel
  <1>2. PICK x \in S : \A y \in S : ~ (<<y, x>> \in R)
    BY <1>1, WFMin
  <1>3. ASSUME NEW y \in S PROVE x <= y
    <2>1. <<y, x>> \in Nat \X Nat /\ <<y, x>>[1] = y /\ <<y, x>>[2] = x
      OBVIOUS
    <2>2. ~ (y < x)
      BY <1>2, <2>1
    <2> QED  BY <2>2
  <1> QED  BY <1>3

-------------------------------------------------------------------------------
(* The sum is well defined. *)

One(s) == CHOOSE x \in s : TRUE

(* The equation of the function of which SumFunctionOnSet is a value. *)
IsSum(it, f, S) ==
    it = [s \in SUBSET S |-> IF s = {} THEN 0 ELSE f[One(s)] + it[s \ {One(s)}]]

TheSum(f, S) == CHOOSE it : IsSum(it, f, S)

LEMMA SumIsValue ==
  ASSUME NEW f, NEW S
  PROVE  SumFunctionOnSet(f, S) = TheSum(f, S)[S]
  BY DEF SumFunctionOnSet, FoldFunctionOnSet, MapThenFoldSet, TheSum, IsSum, One

(* Two functions that satisfy the equation agree where both are defined. *)
LEMMA SumIsUnique ==
  ASSUME NEW f, NEW S, NEW T, NEW a, NEW b, IsSum(a, f, S), IsSum(b, f, T),
         NEW V, V \subseteq S, V \subseteq T, IsFiniteSet(V)
  PROVE  a[V] = b[V]
  <1> DEFINE C == {U \in SUBSET V : a[U] # b[U]}
  <1>1. SUFFICES ASSUME C # {} PROVE FALSE
    OBVIOUS
  <1>2. PICK U \in C : \A W \in C : W \subseteq U => W = U
    <2>1. C \in SUBSET SUBSET V
      OBVIOUS
    <2> HIDE DEF C
    <2> QED  BY <1>1, <2>1, LeastSubset
  <1>3. U \in SUBSET S /\ U \in SUBSET T
    OBVIOUS
  <1>4. CASE U = {}
    <2>1. a[U] = 0 /\ b[U] = 0
      BY <1>3, <1>4 DEF IsSum
    <2> QED  BY <2>1, <1>2
  <1>5. CASE U # {}
    <2> DEFINE W == U \ {One(U)}
    <2>1. One(U) \in U
      BY <1>5 DEF One
    <2>2. a[W] = b[W]
      BY <1>2, <2>1
    <2>3. a[U] = f[One(U)] + a[W] /\ b[U] = f[One(U)] + b[W]
      BY <1>3, <1>5 DEF IsSum
    <2> QED  BY <2>2, <2>3, <1>2
  <1> QED  BY <1>4, <1>5

(* There is one. *)
LEMMA SumExists ==
  ASSUME NEW f, NEW S, IsFiniteSet(S)
  PROVE  IsSum(TheSum(f, S), f, S)
  <1> DEFINE C == {T \in SUBSET S : ~ \E it : IsSum(it, f, T)}
  <1>1. SUFFICES ASSUME C # {} PROVE FALSE
    <2>1. S \notin C => \E it : IsSum(it, f, S)
      OBVIOUS
    <2> QED  BY <1>1, <2>1 DEF TheSum
  <1>2. PICK T \in C : \A U \in C : U \subseteq T => U = T
    <2>1. C \in SUBSET SUBSET S
      OBVIOUS
    <2> HIDE DEF C
    <2> QED  BY <1>1, <2>1, LeastSubset
  <1>3. \A U \in SUBSET T : U # T => IsSum(TheSum(f, U), f, U)
    BY <1>2 DEF TheSum
  <1> DEFINE g == [s \in SUBSET T |->
                     IF s = {} THEN 0
                     ELSE f[One(s)] + TheSum(f, s \ {One(s)})[s \ {One(s)}]]
  <1>4. ASSUME NEW s \in SUBSET T, s # {}
        PROVE  g[s \ {One(s)}] = TheSum(f, s \ {One(s)})[s \ {One(s)}]
    <2> DEFINE U == s \ {One(s)}
    <2>1. One(s) \in s
      BY <1>4 DEF One
    <2>2. U \in SUBSET T /\ U # T
      BY <2>1
    <2>3. IsSum(TheSum(f, U), f, U)
      BY <1>3, <2>2
    <2>4. CASE U = {}
      BY <2>2, <2>3, <2>4 DEF IsSum
    <2>5. CASE U # {}
      <3> DEFINE W == U \ {One(U)}
      <3>1. One(U) \in U
        BY <2>5 DEF One
      <3>2. W \in SUBSET T /\ W # T
        BY <3>1
      <3>3. IsSum(TheSum(f, W), f, W)
        BY <1>3, <3>2
      <3>4. IsFiniteSet(W)
        BY FS_Subset
      <3>5. TheSum(f, U)[W] = TheSum(f, W)[W]
        BY <2>3, <3>3, <3>4, SumIsUnique
      <3>6. TheSum(f, U)[U] = f[One(U)] + TheSum(f, U)[W]
        BY <2>3, <2>5 DEF IsSum
      <3>7. g[U] = f[One(U)] + TheSum(f, W)[W]
        BY <2>2, <2>5
      <3> QED  BY <3>5, <3>6, <3>7
    <2> QED  BY <2>4, <2>5
  <1>5. IsSum(g, f, T)
    BY <1>4 DEF IsSum
  <1> QED  BY <1>2, <1>5

(* The sum of nothing. *)
LEMMA SumEmpty ==
  ASSUME NEW f
  PROVE  SumFunctionOnSet(f, {}) = 0
  <1>1. IsSum(TheSum(f, {}), f, {})
    BY SumExists, FS_EmptySet
  <1> QED  BY <1>1, SumIsValue DEF IsSum

(* The sum of a set is that of one of its elements and the rest. *)
LEMMA SumOne ==
  ASSUME NEW f, NEW S, IsFiniteSet(S), S # {}
  PROVE  SumFunctionOnSet(f, S) = f[One(S)] + SumFunctionOnSet(f, S \ {One(S)})
  <1> DEFINE T == S \ {One(S)}
  <1>1. IsFiniteSet(T)
    BY FS_Subset
  <1>2. IsSum(TheSum(f, S), f, S) /\ IsSum(TheSum(f, T), f, T)
    BY SumExists, <1>1
  <1>3. TheSum(f, S)[T] = TheSum(f, T)[T]
    BY <1>1, <1>2, SumIsUnique
  <1>4. TheSum(f, S)[S] = f[One(S)] + TheSum(f, S)[T]
    BY <1>2 DEF IsSum
  <1> QED  BY <1>3, <1>4, SumIsValue

-------------------------------------------------------------------------------
(* Sums of numbers. *)

(* The sum of integers is one. *)
LEMMA SumInt ==
  ASSUME NEW f, NEW S, IsFiniteSet(S), \A x \in S : f[x] \in Int
  PROVE  SumFunctionOnSet(f, S) \in Int
  <1> DEFINE C == {T \in SUBSET S : SumFunctionOnSet(f, T) \notin Int}
  <1>1. SUFFICES ASSUME C # {} PROVE FALSE
    OBVIOUS
  <1>2. PICK T \in C : \A U \in C : U \subseteq T => U = T
    <2>1. C \in SUBSET SUBSET S
      OBVIOUS
    <2> HIDE DEF C
    <2> QED  BY <1>1, <2>1, LeastSubset
  <1>3. T # {}
    BY <1>2, SumEmpty
  <1>4. One(T) \in T
    BY <1>3 DEF One
  <1>5. T \ {One(T)} \notin C
    BY <1>2, <1>4
  <1>6. SumFunctionOnSet(f, T \ {One(T)}) \in Int
    BY <1>5
  <1>7. SumFunctionOnSet(f, T) = f[One(T)] + SumFunctionOnSet(f, T \ {One(T)})
    BY <1>3, SumOne, FS_Subset
  <1>8. f[One(T)] \in Int
    BY <1>4
  <1> QED  BY <1>2, <1>6, <1>7, <1>8

(* Any of the elements may be the one. *)
LEMMA SumRemove ==
  ASSUME NEW f, NEW S, IsFiniteSet(S), \A x \in S : f[x] \in Int, NEW e \in S
  PROVE  SumFunctionOnSet(f, S) = f[e] + SumFunctionOnSet(f, S \ {e})
  <1> DEFINE C == {T \in SUBSET S : \E x \in T :
                     SumFunctionOnSet(f, T) # f[x] + SumFunctionOnSet(f, T \ {x})}
  <1>1. SUFFICES ASSUME C # {} PROVE FALSE
    OBVIOUS
  <1>2. PICK T \in C : \A U \in C : U \subseteq T => U = T
    <2>1. C \in SUBSET SUBSET S
      OBVIOUS
    <2> HIDE DEF C
    <2> QED  BY <1>1, <2>1, LeastSubset
  <1>3. PICK x \in T : SumFunctionOnSet(f, T) # f[x] + SumFunctionOnSet(f, T \ {x})
    BY <1>2
  <1> DEFINE o == One(T)
  <1>4. o \in T /\ IsFiniteSet(T)
    BY <1>3, FS_Subset DEF One
  <1>5. SumFunctionOnSet(f, T) = f[o] + SumFunctionOnSet(f, T \ {o})
    BY <1>4, SumOne
  <1>6. x # o
    BY <1>3, <1>5
  <1>7. T \ {o} \notin C /\ T \ {x} \notin C
    BY <1>2, <1>4
  <1>8. SumFunctionOnSet(f, T \ {o}) = f[x] + SumFunctionOnSet(f, (T \ {o}) \ {x})
    BY <1>6, <1>7
  <1>9. SumFunctionOnSet(f, T \ {x}) = f[o] + SumFunctionOnSet(f, (T \ {x}) \ {o})
    BY <1>4, <1>6, <1>7
  <1>10. (T \ {o}) \ {x} = (T \ {x}) \ {o} /\ IsFiniteSet((T \ {o}) \ {x})
    BY <1>4, FS_Subset
  <1>11. SumFunctionOnSet(f, (T \ {o}) \ {x}) \in Int
    BY <1>10, SumInt
  <1>12. f[x] \in Int /\ f[o] \in Int
    BY <1>4
  <1> DEFINE rest == SumFunctionOnSet(f, (T \ {o}) \ {x})
  <1>13. SumFunctionOnSet(f, T \ {x}) = f[o] + rest
    BY <1>9, <1>10
  <1>14. SumFunctionOnSet(f, T) = f[o] + (f[x] + rest)
    BY <1>5, <1>8
  <1> HIDE DEF o, rest, C
  <1>15. SumFunctionOnSet(f, T) = f[x] + SumFunctionOnSet(f, T \ {x})
    BY <1>11, <1>12, <1>13, <1>14 DEF rest
  <1> QED  BY <1>3, <1>15

(* What is added to the set is added to the sum. *)
LEMMA SumAdd ==
  ASSUME NEW f, NEW S, IsFiniteSet(S), \A x \in S : f[x] \in Int,
         NEW e, e \notin S, f[e] \in Int
  PROVE  SumFunctionOnSet(f, S \cup {e}) = f[e] + SumFunctionOnSet(f, S)
  <1>1. IsFiniteSet(S \cup {e}) /\ (S \cup {e}) \ {e} = S
    BY FS_AddElement
  <1> QED  BY <1>1, SumRemove

(* Two functions of which one is nowhere greater have such sums. *)
LEMMA SumMonotone ==
  ASSUME NEW f, NEW g, NEW S, IsFiniteSet(S),
         \A x \in S : f[x] \in Int /\ g[x] \in Int /\ f[x] <= g[x]
  PROVE  SumFunctionOnSet(f, S) <= SumFunctionOnSet(g, S)
  <1> DEFINE C == {T \in SUBSET S : ~ (SumFunctionOnSet(f, T) <= SumFunctionOnSet(g, T))}
  <1>1. SUFFICES ASSUME C # {} PROVE FALSE
    OBVIOUS
  <1>2. PICK T \in C : \A U \in C : U \subseteq T => U = T
    <2>1. C \in SUBSET SUBSET S
      OBVIOUS
    <2> HIDE DEF C
    <2> QED  BY <1>1, <2>1, LeastSubset
  <1>3. PICK x \in T : TRUE
    <2>1. SumFunctionOnSet(f, {}) = 0 /\ SumFunctionOnSet(g, {}) = 0
      BY SumEmpty
    <2>2. {} \notin C
      BY <2>1
    <2> QED  BY <1>2, <2>2
  <1> DEFINE U == T \ {x}
  <1>4. IsFiniteSet(T) /\ IsFiniteSet(U)
    BY FS_Subset
  <1>5. SumFunctionOnSet(f, U) <= SumFunctionOnSet(g, U)
    BY <1>2, <1>3
  <1>6. /\ SumFunctionOnSet(f, T) = f[x] + SumFunctionOnSet(f, U)
        /\ SumFunctionOnSet(g, T) = g[x] + SumFunctionOnSet(g, U)
    BY <1>3, <1>4, SumRemove
  <1>7. SumFunctionOnSet(f, U) \in Int /\ SumFunctionOnSet(g, U) \in Int
    BY <1>4, SumInt
  <1>8. f[x] \in Int /\ g[x] \in Int /\ f[x] <= g[x]
    BY <1>3
  <1> HIDE DEF U
  <1> QED  BY <1>2, <1>5, <1>6, <1>7, <1>8

(* Functions that agree on the set have the same sum. *)
LEMMA SumSame ==
  ASSUME NEW f, NEW g, NEW S, IsFiniteSet(S),
         \A x \in S : f[x] \in Int /\ f[x] = g[x]
  PROVE  SumFunctionOnSet(f, S) = SumFunctionOnSet(g, S)
  <1>1. SumFunctionOnSet(f, S) <= SumFunctionOnSet(g, S)
    BY SumMonotone
  <1>2. SumFunctionOnSet(g, S) <= SumFunctionOnSet(f, S)
    BY SumMonotone
  <1>3. SumFunctionOnSet(f, S) \in Int /\ SumFunctionOnSet(g, S) \in Int
    BY SumInt
  <1> QED  BY <1>1, <1>2, <1>3

(* The sum of natural numbers is one, and no smaller than the sum over a   *)
(* part of the set.                                                        *)
LEMMA SumNat ==
  ASSUME NEW f, NEW S, IsFiniteSet(S), \A x \in S : f[x] \in Nat
  PROVE  /\ SumFunctionOnSet(f, S) \in Nat
         /\ \A U \in SUBSET S : SumFunctionOnSet(f, U) <= SumFunctionOnSet(f, S)
  <1> DEFINE C == {T \in SUBSET S :
                ~ \A U \in SUBSET T : 0 <= SumFunctionOnSet(f, U)
                                       /\ SumFunctionOnSet(f, U) <= SumFunctionOnSet(f, T)}
  <1>1. SUFFICES ASSUME C # {} PROVE FALSE
    <2>1. S \notin C
      BY <1>1
    <2>2. SumFunctionOnSet(f, S) \in Int
      BY SumInt
    <2> QED  BY <2>1, <2>2
  <1>2. PICK T \in C : \A U \in C : U \subseteq T => U = T
    <2>1. C \in SUBSET SUBSET S
      OBVIOUS
    <2> HIDE DEF C
    <2> QED  BY <1>1, <2>1, LeastSubset
  <1>3. PICK U \in SUBSET T : ~ (/\ 0 <= SumFunctionOnSet(f, U)
                                 /\ SumFunctionOnSet(f, U) <= SumFunctionOnSet(f, T))
    BY <1>2
  <1>4. IsFiniteSet(T) /\ IsFiniteSet(U)
    BY FS_Subset
  <1>5. SumFunctionOnSet(f, T) \in Int /\ SumFunctionOnSet(f, U) \in Int
    BY <1>4, SumInt
  <1>6. CASE U # T
    <2>1. PICK x \in T : x \notin U
      BY <1>6
    <2> DEFINE W == T \ {x}
    <2>2. W \notin C /\ U \in SUBSET W /\ W \in SUBSET S /\ IsFiniteSet(W)
      BY <1>2, <1>4, <2>1, FS_Subset
    <2>3. 0 <= SumFunctionOnSet(f, U) /\ SumFunctionOnSet(f, U) <= SumFunctionOnSet(f, W)
      BY <2>2
    <2>4. SumFunctionOnSet(f, T) = f[x] + SumFunctionOnSet(f, W)
      BY <1>4, <2>1, SumRemove
    <2>5. f[x] \in Nat /\ SumFunctionOnSet(f, W) \in Int
      BY <2>1, <2>2, SumInt
    <2> HIDE DEF W
    <2> QED  BY <1>3, <1>5, <2>3, <2>4, <2>5
  <1>7. CASE U = T
    <2>1. CASE T = {}
      BY <1>3, <1>7, <2>1, SumEmpty
    <2>2. CASE T # {}
      <3>1. PICK x \in T : TRUE
        BY <2>2
      <3> DEFINE W == T \ {x}
      <3>2. W \notin C /\ W \in SUBSET S /\ IsFiniteSet(W)
        BY <1>2, <1>4, <3>1, FS_Subset
      <3>3. 0 <= SumFunctionOnSet(f, W)
        BY <3>2
      <3>4. SumFunctionOnSet(f, T) = f[x] + SumFunctionOnSet(f, W)
        BY <1>4, <3>1, SumRemove
      <3>5. f[x] \in Nat /\ SumFunctionOnSet(f, W) \in Int
        BY <3>1, <3>2, SumInt
      <3> HIDE DEF W
      <3> QED  BY <1>3, <1>5, <1>7, <3>3, <3>4, <3>5
    <2> QED  BY <2>1, <2>2
  <1> QED  BY <1>6, <1>7

(* No term of a sum of natural numbers is greater than the sum. *)
LEMMA SumTerm ==
  ASSUME NEW f, NEW S, IsFiniteSet(S), \A x \in S : f[x] \in Nat, NEW e \in S
  PROVE  f[e] <= SumFunctionOnSet(f, S)
  <1>1. SumFunctionOnSet(f, S) = f[e] + SumFunctionOnSet(f, S \ {e})
    BY SumRemove
  <1>2. SumFunctionOnSet(f, S \ {e}) \in Nat
    BY SumNat, FS_Subset
  <1> QED  BY <1>1, <1>2

(* Zeros sum up to zero. *)
LEMMA SumZero ==
  ASSUME NEW f, NEW S, IsFiniteSet(S), \A x \in S : f[x] = 0
  PROVE  SumFunctionOnSet(f, S) = 0
  <1> DEFINE C == {T \in SUBSET S : SumFunctionOnSet(f, T) # 0}
  <1>1. SUFFICES ASSUME C # {} PROVE FALSE
    OBVIOUS
  <1>2. PICK T \in C : \A U \in C : U \subseteq T => U = T
    <2>1. C \in SUBSET SUBSET S
      OBVIOUS
    <2> HIDE DEF C
    <2> QED  BY <1>1, <2>1, LeastSubset
  <1>3. T # {}
    BY <1>2, SumEmpty
  <1>4. PICK e \in T : TRUE
    BY <1>3
  <1>5. IsFiniteSet(T) /\ \A x \in T : f[x] \in Int
    BY <1>2, FS_Subset
  <1>6. SumFunctionOnSet(f, T) = f[e] + SumFunctionOnSet(f, T \ {e})
    BY <1>5, SumRemove
  <1>7. SumFunctionOnSet(f, T \ {e}) = 0 /\ f[e] = 0 /\ SumFunctionOnSet(f, T) # 0
    BY <1>2
  <1> QED  BY <1>6, <1>7

(* When one term grows, the sum grows by as much. *)
LEMMA SumUpdate ==
  ASSUME NEW f, NEW g, NEW S, IsFiniteSet(S), NEW e \in S, NEW d \in Int,
         \A x \in S : f[x] \in Int,
         g[e] = f[e] + d, \A x \in S \ {e} : g[x] = f[x]
  PROVE  SumFunctionOnSet(g, S) = SumFunctionOnSet(f, S) + d
  <1> DEFINE T == S \ {e}
  <1>1. IsFiniteSet(T) /\ \A x \in T : f[x] \in Int /\ f[x] = g[x]
    BY FS_Subset
  <1>2. \A x \in S : g[x] \in Int
    OBVIOUS
  <1> HIDE DEF T
  <1>3. SumFunctionOnSet(f, T) = SumFunctionOnSet(g, T) /\ SumFunctionOnSet(f, T) \in Int
    BY <1>1, SumSame, SumInt
  <1>4. SumFunctionOnSet(f, S) = f[e] + SumFunctionOnSet(f, T)
    BY SumRemove DEF T
  <1>5. SumFunctionOnSet(g, S) = g[e] + SumFunctionOnSet(g, T)
    BY <1>2, SumRemove DEF T
  <1>6. f[e] \in Int /\ g[e] = f[e] + d
    OBVIOUS
  <1> QED  BY <1>3, <1>4, <1>5, <1>6, SMT
-------------------------------------------------------------------------------
(* Sums of steps. *)

(* The terms from first to final are the steps of g.                       *)
AreSteps(f, g, first, final) ==
    /\ first \in Int /\ final \in Int /\ first <= final + 1
    /\ \A i \in first - 1..final : g[i] \in Int
    /\ \A i \in first..final : f[i] = g[i] - g[i - 1]

(* When the terms are steps of a function along an interval, the sum is    *)
(* what it gains from the beginning to the end.                            *)
LEMMA SumTelescopes ==
  ASSUME NEW first, NEW final, NEW f, NEW g, AreSteps(f, g, first, final)
  PROVE  SumFunctionOnSet(f, first..final) = g[final] - g[first - 1]
  <1> DEFINE m == first - 1
             n == final - (first - 1)
  <1>0. /\ m \in Int /\ n \in Nat /\ m + n = final /\ m + 1 = first
        /\ \A i \in m..m + n : g[i] \in Int
        /\ \A i \in m + 1..m + n : f[i] = g[i] - g[i - 1]
    BY DEF AreSteps
  <1> SUFFICES SumFunctionOnSet(f, m + 1..m + n) = g[m + n] - g[m]
    BY <1>0
  <1> HIDE DEF m, n
  <1> USE <1>0
  <1> DEFINE P(k) == SumFunctionOnSet(f, m + 1..m + k) = g[m + k] - g[m]
             C == {k \in 0..n : ~ P(k)}
  <1>1. SUFFICES ASSUME C # {} PROVE FALSE
    <2>1. P(n)
      <3>1. n \in 0..n
        OBVIOUS
      <3> HIDE DEF P
      <3> QED  BY <1>1, <3>1
    <2> QED  BY <2>1
  <1>2. PICK k \in 0..n : ~ P(k) /\ \A l \in 0..n : ~ P(l) => k <= l
    <2>1. C \in SUBSET Nat
      OBVIOUS
    <2> HIDE DEF C, P
    <2>2. PICK k \in C : \A l \in C : k <= l
      BY <1>1, <2>1, LeastNumber
    <2> QED  BY <2>2 DEF C
  <1>3. P(0)
    <2>1. m + 1..m + 0 = {} /\ g[m + 0] - g[m] = 0
      OBVIOUS
    <2> QED  BY <2>1, SumEmpty
  <1>4. k \in 1..n /\ ~ P(k)
    <2> HIDE DEF P
    <2>1. k # 0
      BY <1>2, <1>3
    <2> QED  BY <1>2, <2>1
  <1>5. P(k - 1)
    <2>1. k - 1 \in 0..n /\ ~ (k <= k - 1)
      BY <1>4
    <2> HIDE DEF P
    <2> QED  BY <1>2, <2>1
  <1> DEFINE S == m + 1..m + (k - 1)
  <1>6. IsFiniteSet(S) /\ m + k \notin S /\ m + 1..m + k = S \cup {m + k}
    <2>1. m + 1 \in Int /\ m + (k - 1) \in Int
      BY <1>4
    <2>2. IsFiniteSet(S)
      BY <2>1, FS_Interval
    <2>3. m + k \notin S
      BY <1>4
    <2>4. ASSUME NEW i \in m + 1..m + k PROVE i \in S \cup {m + k}
      BY <1>4
    <2>5. ASSUME NEW i \in S \cup {m + k} PROVE i \in m + 1..m + k
      BY <1>4
    <2> QED  BY <2>2, <2>3, <2>4, <2>5
  <1>7. \A i \in S \cup {m + k} : f[i] \in Int
    <2>1. ASSUME NEW i \in m + 1..m + n PROVE f[i] \in Int
      <3>1. i \in m..m + n /\ i - 1 \in m..m + n
        OBVIOUS
      <3> QED  BY <3>1
    <2>2. \A i \in m + 1..m + k : i \in m + 1..m + n
      BY <1>4
    <2> HIDE DEF S
    <2> QED  BY <1>6, <2>1, <2>2
  <1>8. SumFunctionOnSet(f, m + 1..m + k) = f[m + k] + SumFunctionOnSet(f, S)
    <2> HIDE DEF S
    <2> QED  BY <1>6, <1>7, SumAdd
  <1>9. f[m + k] = g[m + k] - g[m + (k - 1)] /\ g[m + k] \in Int /\ g[m + (k - 1)] \in Int
        /\ g[m] \in Int
    <2>1. m + k - 1 = m + (k - 1) /\ m + k \in m + 1..m + n
      BY <1>4
    <2> QED  BY <1>4, <2>1
  <1>10. P(k)
    BY <1>5, <1>8, <1>9
  <1> QED  BY <1>4, <1>10

(* The terms for S are at most a step of g each, those that key names, and *)
(* no two the same.                                                        *)
WithinSteps(f, g, S, key, first, final) ==
    /\ IsFiniteSet(S)
    /\ first \in Int /\ final \in Int /\ first <= final + 1
    /\ \A x \in S : key[x] \in first..final
    /\ \A x \in S : \A y \in S : key[x] = key[y] => x = y
    /\ \A i \in first - 1..final : g[i] \in Int
    /\ \A i \in first..final : g[i - 1] <= g[i]
    /\ \A x \in S : f[x] \in Int /\ f[x] <= g[key[x]] - g[key[x] - 1]

(* When each of the terms is at most a step, and no two are the same, the  *)
(* sum is at most what the function gains from the beginning to the end.   *)
LEMMA SumOfSteps ==
  ASSUME NEW first, NEW final, NEW f, NEW g, NEW S, NEW key,
         WithinSteps(f, g, S, key, first, final)
  PROVE  SumFunctionOnSet(f, S) <= g[final] - g[first - 1]
  <1> DEFINE m == first - 1
             n == final - (first - 1)
  <1>0. /\ m \in Int /\ n \in Nat /\ m + n = final /\ m + 1 = first
        /\ \A x \in S : key[x] \in m + 1..m + n
        /\ \A i \in m..m + n : g[i] \in Int
        /\ \A i \in m + 1..m + n : g[i - 1] <= g[i]
        /\ IsFiniteSet(S)
        /\ \A x \in S : \A y \in S : key[x] = key[y] => x = y
        /\ \A x \in S : f[x] \in Int /\ f[x] <= g[key[x]] - g[key[x] - 1]
    BY DEF WithinSteps
  <1> SUFFICES SumFunctionOnSet(f, S) <= g[m + n] - g[m]
    BY <1>0
  <1> HIDE DEF m, n
  <1> USE <1>0
  <1> DEFINE Upto(k) == {x \in S : key[x] <= m + k}
             P(k) == SumFunctionOnSet(f, Upto(k)) <= g[m + k] - g[m]
             C == {k \in 0..n : ~ P(k)}
  <1>1. SUFFICES ASSUME C # {} PROVE FALSE
    <2>1. Upto(n) = S
      OBVIOUS
    <2>2. P(n)
      <3>1. n \in 0..n
        OBVIOUS
      <3> HIDE DEF P
      <3> QED  BY <1>1, <3>1
    <2> QED  BY <2>1, <2>2
  <1>2. PICK k \in 0..n : ~ P(k) /\ \A l \in 0..n : ~ P(l) => k <= l
    <2>1. C \in SUBSET Nat
      OBVIOUS
    <2> HIDE DEF C, P
    <2>2. PICK k \in C : \A l \in C : k <= l
      BY <1>1, <2>1, LeastNumber
    <2> QED  BY <2>2 DEF C
  <1>3. P(0)
    <2>1. Upto(0) = {} /\ g[m + 0] - g[m] = 0
      OBVIOUS
    <2>2. SumFunctionOnSet(f, Upto(0)) = 0
      BY <2>1, SumEmpty
    <2> QED  BY <2>1, <2>2
  <1>4. k \in 1..n /\ ~ P(k)
    <2> HIDE DEF P
    <2>1. k # 0
      BY <1>2, <1>3
    <2> QED  BY <1>2, <2>1
  <1>5. P(k - 1)
    <2>1. k - 1 \in 0..n /\ ~ (k <= k - 1)
      BY <1>4
    <2> HIDE DEF P
    <2> QED  BY <1>2, <2>1
  <1> DEFINE U == Upto(k - 1)
  <1>6. IsFiniteSet(U) /\ \A x \in U : f[x] \in Int
    BY FS_Subset
  <1>7. SumFunctionOnSet(f, U) \in Int
    <2> HIDE DEF U
    <2> QED  BY <1>6, SumInt
  <1>8. g[m + k] \in Int /\ g[m + (k - 1)] \in Int /\ g[m] \in Int
        /\ g[m + (k - 1)] <= g[m + k]
    <2>1. m + k - 1 = m + (k - 1) /\ m + k \in m + 1..m + n
      BY <1>4
    <2> QED  BY <1>4, <2>1
  <1>9. CASE \E x \in S : key[x] = m + k
    <2>1. PICK x \in S : key[x] = m + k
      BY <1>9
    <2>2. x \notin U
      BY <1>4, <2>1
    <2>3. Upto(k) = U \cup {x}
      <3>1. ASSUME NEW y \in Upto(k) PROVE y \in U \cup {x}
        BY <1>4, <2>1
      <3>2. ASSUME NEW y \in U \cup {x} PROVE y \in Upto(k)
        BY <1>4, <2>1
      <3> QED  BY <3>1, <3>2
    <2>4. SumFunctionOnSet(f, U \cup {x}) = f[x] + SumFunctionOnSet(f, U)
      <3> HIDE DEF U
      <3> QED  BY <1>6, <2>1, <2>2, SumAdd
    <2>5. f[x] \in Int /\ f[x] <= g[m + k] - g[m + (k - 1)]
      <3>1. m + k - 1 = m + (k - 1)
        BY <1>4
      <3> QED  BY <2>1, <3>1
    <2>6. SumFunctionOnSet(f, Upto(k)) = f[x] + SumFunctionOnSet(f, U)
      BY <2>3, <2>4
    <2>7. SumFunctionOnSet(f, U) <= g[m + (k - 1)] - g[m]
      BY <1>5
    <2> HIDE DEF U, Upto, C
    <2> QED  BY <1>4, <1>7, <1>8, <2>5, <2>6, <2>7
  <1>10. CASE ~ \E x \in S : key[x] = m + k
    <2>1. Upto(k) = U
      <3>1. ASSUME NEW y \in Upto(k) PROVE y \in U
        BY <1>4, <1>10
      <3>2. ASSUME NEW y \in U PROVE y \in Upto(k)
        BY <1>4
      <3> QED  BY <3>1, <3>2
    <2>2. SumFunctionOnSet(f, Upto(k)) = SumFunctionOnSet(f, U)
      BY <2>1
    <2>3. SumFunctionOnSet(f, U) <= g[m + (k - 1)] - g[m]
      BY <1>5
    <2> HIDE DEF U, Upto, C
    <2> QED  BY <1>4, <1>7, <1>8, <2>2, <2>3
  <1> QED  BY <1>9, <1>10

(* The steps that go up are each covered by a term for S that key names.   *)
CoversSteps(f, g, S, key, first, final) ==
    /\ IsFiniteSet(S)
    /\ first \in Int /\ final \in Int /\ first <= final + 1
    /\ \A x \in S : f[x] \in Nat /\ key[x] \in Int
    /\ \A i \in first - 1..final : g[i] \in Int
    /\ \A i \in first..final :
        \/ g[i] <= g[i - 1]
        \/ \E x \in S : key[x] = i /\ g[i] - g[i - 1] <= f[x]

(* When the terms cover the steps, the sum is at least what the function   *)
(* gains from the beginning to the end.                                    *)
LEMMA SumCovers ==
  ASSUME NEW first, NEW final, NEW f, NEW g, NEW S, NEW key,
         CoversSteps(f, g, S, key, first, final)
  PROVE  g[final] - g[first - 1] <= SumFunctionOnSet(f, S)
  <1> DEFINE m == first - 1
             n == final - (first - 1)
  <1>0. /\ m \in Int /\ n \in Nat /\ m + n = final
        /\ \A i \in m..m + n : g[i] \in Int
        /\ \A i \in m + 1..m + n :
            \/ g[i] <= g[i - 1]
            \/ \E x \in S : key[x] = i /\ g[i] - g[i - 1] <= f[x]
        /\ IsFiniteSet(S)
        /\ \A x \in S : f[x] \in Nat /\ key[x] \in Int
    BY DEF CoversSteps
  <1> SUFFICES g[m + n] - g[m] <= SumFunctionOnSet(f, S)
    BY <1>0
  <1> HIDE DEF m, n
  <1> USE <1>0
  <1> DEFINE Upto(k) == {x \in S : key[x] <= m + k}
             P(k) == g[m + k] - g[m] <= SumFunctionOnSet(f, Upto(k))
             C == {k \in 0..n : ~ P(k)}
  <1>1. \A k : Upto(k) \in SUBSET S /\ IsFiniteSet(Upto(k)) /\ \A x \in Upto(k) : f[x] \in Nat
    BY FS_Subset
  <1>2. \A k : SumFunctionOnSet(f, Upto(k)) \in Nat
    <2> HIDE DEF Upto
    <2> QED  BY <1>1, SumNat
  <1>3. P(n)
    <2> SUFFICES ASSUME C # {} PROVE FALSE
      <3>1. n \in 0..n
        OBVIOUS
      <3> HIDE DEF P
      <3> QED  BY <3>1
    <2>1. PICK k \in 0..n : ~ P(k) /\ \A l \in 0..n : ~ P(l) => k <= l
      <3>1. C \in SUBSET Nat
        OBVIOUS
      <3> HIDE DEF C, P
      <3>2. PICK k \in C : \A l \in C : k <= l
        BY <3>1, LeastNumber
      <3> QED  BY <3>2 DEF C
    <2>2. P(0)
      <3>1. g[m + 0] - g[m] = 0
        OBVIOUS
      <3>2. SumFunctionOnSet(f, Upto(0)) \in Nat
        BY <1>2
      <3> HIDE DEF Upto
      <3> QED  BY <3>1, <3>2
    <2>3. k \in 1..n /\ ~ P(k)
      <3> HIDE DEF P
      <3>1. k # 0
        BY <2>1, <2>2
      <3> QED  BY <2>1, <3>1
    <2>4. P(k - 1)
      <3>1. k - 1 \in 0..n /\ ~ (k <= k - 1)
        BY <2>3
      <3> HIDE DEF P
      <3> QED  BY <2>1, <3>1
    <2> DEFINE U == Upto(k - 1)
               V == Upto(k)
               before == g[m + (k - 1)]
               after == g[m + k]
    <2>5. before \in Int /\ after \in Int /\ g[m] \in Int /\ m + k \in m + 1..m + n
          /\ m + k - 1 = m + (k - 1)
      BY <2>3
    <2>6. U \subseteq V
      BY <2>3
    <2>7. /\ SumFunctionOnSet(f, U) \in Nat /\ SumFunctionOnSet(f, V) \in Nat
          /\ before - g[m] <= SumFunctionOnSet(f, U)
      BY <1>2, <2>4
    <2>8. CASE after <= before
      <3>1. SumFunctionOnSet(f, U) <= SumFunctionOnSet(f, V)
        <4> HIDE DEF U, V
        <4>1. IsFiniteSet(V) /\ \A x \in V : f[x] \in Nat
          BY <1>1 DEF V
        <4> QED  BY <2>6, <4>1, SumNat
      <3> HIDE DEF U, before, after
      <3>2. after - g[m] <= SumFunctionOnSet(f, V)
        <4> HIDE DEF V
        <4> QED  BY <2>5, <2>7, <2>8, <3>1
      <3> QED  BY <2>3, <3>2 DEF after
    <2>9. CASE \E x \in S : key[x] = m + k /\ after - before <= f[x]
      <3>1. PICK x \in S : key[x] = m + k /\ after - before <= f[x]
        BY <2>9
      <3>2. x \in V /\ U \subseteq V \ {x}
        BY <2>3, <2>6, <3>1
      <3>3. IsFiniteSet(V) /\ \A y \in V : f[y] \in Nat /\ f[y] \in Int
        BY <1>1
      <3>4. IsFiniteSet(V \ {x})
        BY <3>3, FS_Subset
      <3>5. f[x] \in Nat
        BY <3>1
      <3> HIDE DEF U, V, before, after
      <3>6. SumFunctionOnSet(f, V) = f[x] + SumFunctionOnSet(f, V \ {x})
        BY <3>2, <3>3, SumRemove
      <3>7. SumFunctionOnSet(f, U) <= SumFunctionOnSet(f, V \ {x})
            /\ SumFunctionOnSet(f, V \ {x}) \in Nat
        BY <3>2, <3>3, <3>4, SumNat
      <3>8. after - g[m] <= SumFunctionOnSet(f, V)
        BY <2>5, <2>7, <3>1, <3>5, <3>6, <3>7
      <3> QED  BY <2>3, <3>8 DEF after, V
    <2> QED  BY <2>5, <2>8, <2>9
  <1>4. SumFunctionOnSet(f, Upto(n)) <= SumFunctionOnSet(f, S) /\ SumFunctionOnSet(f, S) \in Nat
    <2> HIDE DEF Upto
    <2> QED  BY <1>1, SumNat
  <1>5. g[m + n] \in Int /\ g[m] \in Int
    OBVIOUS
  <1> DEFINE s == SumFunctionOnSet(f, Upto(n))
  <1>6. s \in Nat /\ g[m + n] - g[m] <= s /\ s <= SumFunctionOnSet(f, S)
    BY <1>2, <1>3, <1>4
  <1> HIDE DEF s
  <1> QED  BY <1>4, <1>5, <1>6
===============================================================================
