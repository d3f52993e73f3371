-------------------------------- MODULE Recursion --------------------------------
(* Induction and recursion on an initial segment of the natural numbers, stated   *)
(* with sets and functions: what the proofs about loops over arrays, sequences    *)
(* and chains of clusters rest on.  (The induction theorems of the library take   *)
(* an operator, which the provers cannot instantiate.)                            *)
EXTENDS Integers, FiniteSets, FiniteSetsExt, FiniteSetTheorems, WellFoundedInduction, TLAPS

(* Min is the least element: the shortest of the intervals below the elements     *)
(* exists because proper inclusion of finite sets is well-founded.                *)
LEMMA MinIs ==
  ASSUME NEW S \in SUBSET Nat, S # {}
  PROVE  Min(S) \in S /\ \A y \in S : Min(S) <= y
<1> DEFINE T == {0..(x - 1) : x \in S}
           R == StrictSubsetOrdering(Nat)
<1>1. T \subseteq FiniteSubsetsOf(Nat)
  <2> SUFFICES ASSUME NEW x \in S PROVE 0..(x - 1) \in FiniteSubsetsOf(Nat)
    OBVIOUS
  <2>1. IsFiniteSet(0..(x - 1))
    BY FS_Interval
  <2> QED BY <2>1 DEF FiniteSubsetsOf
<1>2. T # {}
  OBVIOUS
<1>3. IsWellFoundedOn(R, FiniteSubsetsOf(Nat))
  BY FS_StrictSubsetOrderingWellFounded
<1> HIDE DEF R
<1>4. PICK t \in T : \A u \in T : ~(<<u, t>> \in R)
  BY <1>1, <1>2, <1>3, WFMin
<1>5. PICK x \in S : t = 0..(x - 1)
  OBVIOUS
<1>6. ASSUME NEW y \in S, y < x PROVE FALSE
  <2>1. 0..(y - 1) \in T
    OBVIOUS
  <2>2. 0..(y - 1) \subseteq t /\ y \in t /\ y \notin 0..(y - 1) /\ t \subseteq Nat
    BY <1>5, <1>6
  <2>3. <<0..(y - 1), t>> \in R
    BY <2>2 DEF R, StrictSubsetOrdering
  <2> QED BY <1>4, <2>1, <2>3
<1>7. \A y \in S : x <= y
  BY <1>6
<1> QED BY <1>7 DEF Min

(* Max is an element that no other one exceeds.                                   *)
LEMMA MaxIs ==
  ASSUME NEW S \in SUBSET Int, NEW k \in S, \A y \in S : y <= k
  PROVE  Max(S) = k
<1>1. \A x \in S : (\A y \in S : x >= y) <=> x = k
  OBVIOUS
<1>2. Max(S) \in S /\ \A y \in S : Max(S) >= y
  BY <1>1 DEF Max
<1> QED BY <1>1, <1>2

(* Induction: a set that holds 0 and the successor of each of its elements holds  *)
(* every number up to L.                                                          *)
LEMMA UpToInduction ==
  ASSUME NEW L \in Nat, NEW P, 0 \in P, \A n \in 1..L : n - 1 \in P => n \in P
  PROVE  \A n \in 0..L : n \in P
<1> DEFINE D == {n \in 0..L : n \notin P}
<1>1. ASSUME D # {} PROVE FALSE
  <2>1. D \in SUBSET Nat
    OBVIOUS
  <2>2. PICK n \in D : \A m \in D : n <= m
    BY <1>1, <2>1, MinIs
  <2>3. n \in 1..L /\ n - 1 \notin D /\ n - 1 \in 0..L
    BY <2>2
  <2> QED BY <2>2, <2>3
<1> QED BY <1>1

(* Recursion: there is a function that takes each value from the one before it.   *)
Stepping(L, S, step)    == \A n \in 1..L, x \in S : step[n][x] \in S
Iterates(f, L, S, base, step) ==
  f \in [0..L -> S] /\ f[0] = base /\ \A n \in 1..L : f[n] = step[n][f[n - 1]]

LEMMA UpToRecursion ==
  ASSUME NEW L \in Nat, NEW S, NEW base \in S, NEW step, Stepping(L, S, step)
  PROVE  \E f : Iterates(f, L, S, base, step)
<1> DEFINE Made(n) == \E f : Iterates(f, n, S, base, step)
           P == {n \in 0..L : Made(n)}
<1>1. 0 \in P
  <2> DEFINE f == [n \in 0..0 |-> base]
  <2>1. Iterates(f, 0, S, base, step)
    BY DEF Iterates
  <2> HIDE DEF f
  <2> QED BY <2>1
<1>2. ASSUME NEW n \in 1..L, n - 1 \in P PROVE n \in P
  <2>1. PICK f : Iterates(f, n - 1, S, base, step)
    BY <1>2
  <2> DEFINE g == [m \in 0..n |-> IF m = n THEN step[n][f[n - 1]] ELSE f[m]]
  <2>2. n - 1 \in 0..(n - 1) /\ f[n - 1] \in S /\ step[n][f[n - 1]] \in S
    BY <2>1 DEF Stepping, Iterates
  <2>3. g \in [0..n -> S] /\ g[0] = base
    BY <2>1, <2>2 DEF Iterates
  <2>4. \A m \in 1..n : g[m] = step[m][g[m - 1]]
    BY <2>1, <2>2 DEF Iterates
  <2>5. Iterates(g, n, S, base, step)
    BY <2>3, <2>4 DEF Iterates
  <2> HIDE DEF g
  <2> QED BY <2>5
<1>3. L \in P
  <2> HIDE DEF P
  <2> QED BY <1>1, <1>2, UpToInduction
<1> QED BY <1>3

(* What a recursive definition equates with its own steps is that function.       *)
Follows(u, L, S, base, step) ==
  /\ u = [n \in 0..L |-> u[n]] /\ u[0] = base
  /\ \A n \in 1..L : u[n - 1] \in S => u[n] = step[n][u[n - 1]]

LEMMA FollowsIterates ==
  ASSUME NEW L \in Nat, NEW S, NEW base \in S, NEW step, Stepping(L, S, step),
         NEW u, Follows(u, L, S, base, step)
  PROVE  Iterates(u, L, S, base, step)
<1> DEFINE P == {n \in 0..L : u[n] \in S}
<1>1. 0 \in P
  BY DEF Follows
<1>2. \A n \in 1..L : n - 1 \in P => n \in P
  BY DEF Follows, Stepping
<1>3. \A n \in 0..L : n \in P
  <2> HIDE DEF P
  <2> QED BY <1>1, <1>2, UpToInduction
<1>4. \A n \in 1..L : n - 1 \in 0..L
  OBVIOUS
<1> QED BY <1>3, <1>4 DEF Follows, Iterates
==================================================================================
