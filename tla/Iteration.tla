------------------------------ MODULE Iteration ------------------------------
(***************************************************************************)
(* Induction and recursion over numbers, for the proofs of what loops and  *)
(* recursive functions compute: induction goes by the least number of a    *)
(* set, and a recursive function is shown to exist one value at a time.    *)
(***************************************************************************)
EXTENDS Integers, TLAPS, WellFoundedInduction

\* The order of the numbers as a relation.
LEMMA LessThan == \A m, n \in Nat : <<m, n>> \in OpToRel(<, Nat) <=> m < n
BY DEF OpToRel

\* A set of numbers that is not empty has a least one.
LEMMA LeastNat ==
    ASSUME NEW T \in SUBSET Nat, T # {}
    PROVE  \E n \in T : \A m \in T : n <= m
<1>1. IsWellFoundedOn(OpToRel(<, Nat), Nat)
  BY ONLY NatLessThanWellFounded
<1>2. PICK n \in T : \A m \in T : ~ (<<m, n>> \in OpToRel(<, Nat))
  BY <1>1, WFMin, Zenon
<1>3. \A m \in T : ~ (m < n)
  BY <1>2, LessThan
<1>. QED BY <1>3

\* A set of numbers up to L that has 0, and n with each n - 1, has them all.
LEMMA UpTo ==
    ASSUME NEW L \in Nat, NEW T, 0 \in T, \A n \in 1 .. L : n - 1 \in T => n \in T
    PROVE  \A n \in 0 .. L : n \in T
<1>. SUFFICES ASSUME ~ \A n \in 0 .. L : n \in T PROVE FALSE
  OBVIOUS
<1>. DEFINE Others == {n \in 0 .. L : n \notin T}
<1>1. Others \in SUBSET Nat /\ Others # {}
  OBVIOUS
<1>2. PICK n \in Others : \A m \in Others : n <= m
  BY <1>1, LeastNat, Zenon
<1>3. n \in 1 .. L /\ n - 1 \in 0 .. L /\ ~ (n <= n - 1)
  BY <1>2
<1>4. n - 1 \in T
  BY <1>2, <1>3
<1>. QED BY <1>2, <1>3, <1>4

\* L steps from a start, each by the function of the step's number.
AreSteps(g, L, S) == \A n \in 1 .. L : g[n] \in [S -> S]
IsIteration(f, g, L, S, start) ==
    f \in [0 .. L -> S] /\ f[0] = start /\ \A n \in 1 .. L : f[n] = g[n][f[n - 1]]

\* There is such an iteration, whatever the steps.
LEMMA Iterates ==
    ASSUME NEW L \in Nat, NEW S, NEW start \in S, NEW g, AreSteps(g, L, S)
    PROVE  \E f : IsIteration(f, g, L, S, start)
<1>. DEFINE Runs(l) == {f \in [0 .. l -> S] : f[0] = start /\ \A n \in 1 .. l : f[n] = g[n][f[n - 1]]}
            T == {l \in 0 .. L : Runs(l) # {}}
<1>. USE DEF AreSteps, IsIteration
<1>1. 0 \in T
  <2>1. [n \in 0 .. 0 |-> start] \in Runs(0)
    OBVIOUS
  <2>. QED BY <2>1
<1>2. ASSUME NEW l \in 1 .. L, l - 1 \in T PROVE l \in T
  <2>1. PICK f \in Runs(l - 1) : TRUE
    BY <1>2
  <2>. DEFINE h == [n \in 0 .. l |-> IF n = l THEN g[l][f[l - 1]] ELSE f[n]]
  <2>2. f \in [0 .. l - 1 -> S] /\ f[0] = start /\ \A n \in 1 .. l - 1 : f[n] = g[n][f[n - 1]]
    BY <2>1
  <2>3. f[l - 1] \in S /\ g[l] \in [S -> S]
    BY <2>2
  <2>4. h \in [0 .. l -> S]
    <3>1. g[l][f[l - 1]] \in S
      BY <2>3
    <3>. QED BY <2>2, <3>1
  <2>5. h[0] = start
    BY <2>2
  <2>6. \A n \in 1 .. l : h[n] = g[n][h[n - 1]]
    <3>. TAKE n \in 1 .. l
    <3>1. CASE n = l
      BY <3>1
    <3>2. CASE n # l
      <4>1. n \in 1 .. l - 1 /\ n - 1 \in 0 .. l /\ n - 1 # l
        BY <3>2
      <4>2. h[n] = f[n] /\ h[n - 1] = f[n - 1]
        BY <4>1
      <4>. QED BY <4>1, <4>2, <2>2
    <3>. QED BY <3>1, <3>2
  <2>. HIDE DEF h
  <2>. QED BY <2>4, <2>5, <2>6
<1>. HIDE DEF T
<1>3. L \in T
  BY <1>1, <1>2, UpTo
<1>. QED BY <1>3 DEF T

=============================================================================
