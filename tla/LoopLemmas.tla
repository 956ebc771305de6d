----------------------------- MODULE LoopLemmas -----------------------------
(* What the proofs about loops rest on. A loop over the members of a        *)
(* sequence is a function of how often its body has run:                    *)
(*                                                                          *)
(*   After[i \in 0..n] == IF i = 0 THEN start ELSE Body(i, After[i - 1])    *)
(*                                                                          *)
(* That such a function exists, and that what each turn preserves holds     *)
(* after the last one, comes from the numbers being well founded.           *)
EXTENDS Integers, WellFoundedInduction, TLAPS

\* A set of numbers that is not empty has a least one.
LEMMA LeastNumber ==
  ASSUME NEW S \in SUBSET Nat, S # {}
  PROVE  \E n \in S : \A m \in S : n <= m
<1> DEFINE Less == {p \in Nat \X Nat : p[1] < p[2]}
<1>1. IsWellFoundedOn(Less, Nat)
  BY NatLessThanWellFounded DEF OpToRel
<1>2. \A m, n \in Nat : <<m, n>> \in Less <=> m < n
  OBVIOUS
<1> HIDE DEF Less
<1>3. \E n \in S : \A m \in S : <<m, n>> \notin Less
  BY <1>1, WFMin
<1>4. PICK n \in S : \A m \in S : <<m, n>> \notin Less
  BY <1>3
<1>5. \A m \in S : n <= m
  <2> TAKE m \in S
  <2>1. m \in Nat /\ n \in Nat /\ ~(m < n)
    BY <1>2, <1>4
  <2> QED
    BY <2>1
<1> QED
  BY <1>5

\* A set of turns that has the start, and with each turn the next one, has all.
LEMMA EveryTurn ==
  ASSUME NEW n \in Nat, NEW S \in SUBSET (0..n), 0 \in S,
         \A i \in S : i < n => i + 1 \in S
  PROVE  S = 0..n
<1> SUFFICES ASSUME S # 0..n PROVE FALSE
  OBVIOUS
<1> DEFINE Missing == (0..n) \ S
<1>1. Missing \in SUBSET Nat /\ Missing # {}
  <2>1. 0..n \subseteq Nat
    OBVIOUS
  <2>2. \E i \in 0..n : i \notin S
    OBVIOUS
  <2> QED
    BY <2>1, <2>2
<1>2. \A i \in Missing : i # 0 /\ i - 1 \in 0..n /\ (i - 1 \in S => i \in S)
  OBVIOUS
<1>3. \A i \in Missing : i \in 1..n /\ i \notin S
  OBVIOUS
<1>4. \A i \in 0..n : i \notin S => i \in Missing
  OBVIOUS
<1> HIDE DEF Missing
<1>5. PICK i \in Missing : \A j \in Missing : i <= j
  BY <1>1, LeastNumber
<1>6. i - 1 \notin Missing
  BY <1>3, <1>5
<1> QED
  BY <1>2, <1>3, <1>4, <1>5, <1>6

\* body[<<i, v>>] is what the i-th turn makes of v.
IsBody(body, n, V) == \A i \in 1..n, v \in V : body[<<i, v>>] \in V
IsLoop(f, n, start, body) == f[0] = start /\ \A i \in 1..n : f[i] = body[<<i, f[i - 1]>>]

\* A loop of n turns has a function of its values.
LEMMA LoopExists ==
  ASSUME NEW n \in Nat, NEW V, NEW start \in V, NEW body, IsBody(body, n, V)
  PROVE  \E f \in [0..n -> V] : IsLoop(f, n, start, body)
<1>0. \A i \in 1..n, v \in V : body[<<i, v>>] \in V
  BY DEF IsBody
<1> DEFINE Runs(k) == {f \in [0..k -> V] : f[0] = start /\ \A i \in 1..k : f[i] = body[<<i, f[i - 1]>>]}
           S == {k \in 0..n : Runs(k) # {}}
<1>1. 0 \in S
  <2>1. [i \in 0..0 |-> start] \in Runs(0)
    OBVIOUS
  <2> QED
    BY <2>1
<1>2. ASSUME NEW k \in S, k < n PROVE k + 1 \in S
  <2>1. PICK f \in Runs(k) : TRUE
    OBVIOUS
  <2>2. /\ k \in Nat /\ k + 1 \in 1..n
        /\ f \in [0..k -> V] /\ f[0] = start
        /\ \A i \in 1..k : f[i] = body[<<i, f[i - 1]>>]
    BY <1>2
  <2> HIDE DEF Runs
  <2> DEFINE v == body[<<k + 1, f[k]>>]
             g == [i \in 0..(k + 1) |-> IF i = k + 1 THEN v ELSE f[i]]
  <2>3. v \in V
    BY <1>0, <2>2
  <2>4. g[k + 1] = v /\ \A i \in 0..k : g[i] = f[i]
    <3> HIDE DEF v
    <3> QED
      BY <2>2
  <2>5. g \in [0..(k + 1) -> V]
    <3> HIDE DEF v
    <3> QED
      BY <2>2, <2>3
  <2>6. \A i \in 1..(k + 1) : g[i] = body[<<i, g[i - 1]>>]
    <3> HIDE DEF g
    <3> TAKE i \in 1..(k + 1)
    <3>1. CASE i = k + 1
      BY <2>2, <2>4, <3>1
    <3>2. CASE i # k + 1
      BY <2>2, <2>4, <3>2
    <3> QED
      BY <3>1, <3>2
  <2>7. g[0] = start
    BY <2>2, <2>4
  <2> HIDE DEF g
  <2>8. g \in Runs(k + 1)
    BY <2>5, <2>6, <2>7 DEF Runs
  <2> QED
    BY <2>2, <2>8
<1>3. S = 0..n
  <2>1. S \in SUBSET (0..n)
    OBVIOUS
  <2> HIDE DEF S
  <2> QED
    BY <1>1, <1>2, <2>1, EveryTurn
<1>4. Runs(n) # {}
  BY <1>3
<1> QED
  BY <1>4 DEF IsLoop

\* What no turn makes smaller is smallest at the start and largest at the end.
LEMMA LoopGrows ==
  ASSUME NEW n \in Nat, NEW f \in [0..n -> Nat], \A i \in 1..n : f[i - 1] <= f[i]
  PROVE  \A i, j \in 0..n : i <= j => f[i] <= f[j]
<1> SUFFICES ASSUME NEW i \in 0..n PROVE \A j \in 0..n : i <= j => f[i] <= f[j]
  OBVIOUS
<1> DEFINE S == {j \in 0..n : i <= j => f[i] <= f[j]}
<1>1. S \in SUBSET (0..n) /\ 0 \in S
  OBVIOUS
<1>2. ASSUME NEW j \in S, j < n PROVE j + 1 \in S
  <2>1. j \in 0..n /\ j + 1 \in 1..n /\ j + 1 \in 0..n /\ (j + 1) - 1 = j
    BY <1>2
  <2>2. f[j] <= f[j + 1] /\ f[j] \in Nat /\ f[j + 1] \in Nat /\ f[i] \in Nat
    BY <2>1
  <2>3. CASE i <= j
    BY <2>1, <2>2, <2>3
  <2>4. CASE ~(i <= j)
    <3>1. i <= j + 1 => i = j + 1
      BY <2>1, <2>4
    <3> QED
      BY <2>1, <2>2, <3>1
  <2> QED
    BY <2>3, <2>4
<1> HIDE DEF S
<1>3. S = 0..n
  BY <1>1, <1>2, EveryTurn
<1> QED
  BY <1>3 DEF S
=============================================================================
