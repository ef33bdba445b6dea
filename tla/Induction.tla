------------------------------ MODULE Induction ------------------------------
(* Induction over the naturals with a set for the predicate, so that it can  *)
(* be cited with any set: those who cite it collect the numbers for which    *)
(* their claim holds and show that 0 is one and each is followed by another. *)
EXTENDS Integers, FiniteSetTheorems, TLAPS

\* A set of naturals has a smallest element: the intervals up to its elements
\* are finite, and finite sets are well founded by strict inclusion.
LEMMA LeastNumber ==
  ASSUME NEW T \in SUBSET Nat, T # {}
  PROVE  \E x \in T : \A y \in T : x <= y
<1> DEFINE R == StrictSubsetOrdering(Nat)
           U == {0 .. x : x \in T}
<1>1. IsWellFoundedOn(R, FiniteSubsetsOf(Nat))
  BY FS_StrictSubsetOrderingWellFounded
<1>2. U \subseteq FiniteSubsetsOf(Nat) /\ U # {}
  <2>1. ASSUME NEW x \in T PROVE 0 .. x \in SUBSET Nat /\ IsFiniteSet(0 .. x)
    <3>1. x \in Nat
      OBVIOUS
    <3>. QED BY <3>1, FS_Interval
  <2>. QED BY <2>1 DEF FiniteSubsetsOf
<1>3. \E u \in U : \A v \in U : <<v, u>> \notin R
  <2> HIDE DEF R, U
  <2>. QED BY <1>1, <1>2, WFMin
<1>4. PICK x \in T : \A y \in T : <<0 .. y, 0 .. x>> \notin R
  BY <1>3
<1>5. ASSUME NEW y \in T PROVE x <= y
  <2>1. x \in Nat /\ y \in Nat
    OBVIOUS
  <2>2. 0 .. y = 0 .. x \/ ~(0 .. y \subseteq 0 .. x)
    <3>1. 0 .. y \in SUBSET Nat /\ 0 .. x \in SUBSET Nat
      BY <2>1
    <3>. QED BY <1>4, <3>1, Zenon DEF StrictSubsetOrdering
  <2>3. CASE 0 .. y = 0 .. x
    <3>1. x \in 0 .. x
      BY <2>1
    <3>. QED BY <2>1, <2>3, <3>1
  <2>. QED BY <2>1, <2>2, <2>3
<1>. QED BY <1>5

\* What holds of 0, and of n + 1 when it holds of n, holds of every natural.
LEMMA SetInduction ==
  ASSUME NEW S, 0 \in S, \A n \in Nat : n \in S => n + 1 \in S
  PROVE  Nat \subseteq S
<1> SUFFICES ASSUME Nat \ S # {} PROVE FALSE
  OBVIOUS
<1>1. PICK x \in Nat \ S : \A y \in Nat \ S : x <= y
  BY LeastNumber
<1>2. x - 1 \in Nat /\ x - 1 \in S
  BY <1>1
<1>3. x - 1 + 1 \in S
  BY <1>2
<1>. QED BY <1>3

\* The same up to a bound.
LEMMA IntervalInduction ==
  ASSUME NEW S, NEW m \in Nat, 0 \in S,
         \A n \in 0 .. (m - 1) : n \in S => n + 1 \in S
  PROVE  0 .. m \subseteq S
<1>1. Nat \subseteq {n \in Nat : n <= m => n \in S}
  <2> DEFINE T == {n \in Nat : n <= m => n \in S}
  <2>1. 0 \in T
    OBVIOUS
  <2>2. ASSUME NEW n \in Nat, n \in T PROVE n + 1 \in T
    BY <2>2
  <2> HIDE DEF T
  <2>. QED BY <2>1, <2>2, SetInduction DEF T
<1>. QED BY <1>1

\* f has the values base, next[1][base], next[2][next[1][base]], ... in V.
Iterates(f, V, base, m, next) ==
  f \in [0 .. m -> V] /\ f[0] = base /\ \A n \in 1 .. m : f[n] = next[n][f[n-1]]

\* A function may be defined by its first value and by the step to the next.
LEMMA RecursionExists ==
  ASSUME NEW V, NEW base \in V, NEW m \in Nat, NEW next \in [1 .. m -> [V -> V]]
  PROVE  \E f : Iterates(f, V, base, m, next)
<1> DEFINE S == {k \in 0 .. m : \E f \in [0 .. k -> V] :
                   f[0] = base /\ \A n \in 1 .. k : f[n] = next[n][f[n-1]]}
<1>1. 0 \in S
  <2> DEFINE g == [n \in 0 .. 0 |-> base]
  <2>1. g \in [0 .. 0 -> V] /\ g[0] = base /\ \A n \in 1 .. 0 : FALSE
    OBVIOUS
  <2> HIDE DEF g
  <2>2. \E f \in [0 .. 0 -> V] : f[0] = base /\ \A n \in 1 .. 0 : f[n] = next[n][f[n-1]]
    BY <2>1
  <2>. QED BY <2>2
<1>2. ASSUME NEW k \in 0 .. (m - 1), k \in S PROVE k + 1 \in S
  <2>1. PICK f \in [0 .. k -> V] : f[0] = base /\ \A n \in 1 .. k : f[n] = next[n][f[n-1]]
    BY <1>2
  <2> DEFINE g == [n \in 0 .. k + 1 |-> IF n <= k THEN f[n] ELSE next[n][f[n-1]]]
  <2>2. k \in Nat /\ k + 1 \in 0 .. m /\ k + 1 \in 1 .. m
    OBVIOUS
  <2>3. next[k+1] \in [V -> V] /\ f[k] \in V
    BY <2>2
  <2>4. ASSUME NEW n \in 0 .. k + 1
        PROVE  /\ n <= k => n \in 0 .. k /\ g[n] = f[n]
               /\ ~(n <= k) => n = k + 1 /\ n - 1 = k /\ g[n] = next[n][f[n-1]]
    BY <2>2
  <2>5. g = [n \in 0 .. k + 1 |-> g[n]]
    OBVIOUS
  <2> HIDE DEF g
  <2>6. \A n \in 0 .. k + 1 : g[n] \in V
    BY <2>3, <2>4
  <2>7. g \in [0 .. k + 1 -> V]
    BY <2>5, <2>6
  <2>8. g[0] = base
    BY <2>1, <2>2, <2>4
  <2>9. ASSUME NEW n \in 1 .. k + 1 PROVE g[n] = next[n][g[n-1]]
    <3>1. n \in 0 .. k + 1 /\ n - 1 \in 0 .. k + 1 /\ n - 1 <= k
      BY <2>2
    <3>2. g[n-1] = f[n-1]
      BY <2>4, <3>1
    <3>3. CASE n <= k
      <4>1. n \in 1 .. k /\ g[n] = f[n]
        BY <2>4, <3>1, <3>3
      <4>. QED BY <2>1, <3>2, <4>1
    <3>4. CASE ~(n <= k)
      BY <2>4, <3>1, <3>2, <3>4
    <3>. QED BY <3>3, <3>4
  <2>. QED BY <2>2, <2>7, <2>8, <2>9
<1> HIDE DEF S
<1>3. m \in S
  <2>1. m \in 0 .. m /\ 0 .. m \subseteq S
    BY <1>1, <1>2, IntervalInduction
  <2>. QED BY <2>1
<1>. QED BY <1>3 DEF S, Iterates
==============================================================================
