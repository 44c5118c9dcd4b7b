------------------------- MODULE SetInduction --------------------------
(***************************************************************************)
(* Induction over the naturals for a set instead of a predicate: what the  *)
(* proofs about recursive functions use.                                   *)
(***************************************************************************)
EXTENDS Integers, WellFoundedInduction, TLAPS

(* A set of naturals that is not empty has a least element.                *)
LEMMA Least ==
  ASSUME NEW S, S \subseteq Nat, S # {}
  PROVE  \E n \in S : \A m \in S : n <= m
  <1> DEFINE R == OpToRel(<, Nat)
  <1>1. IsWellFoundedOn(R, Nat)
    BY NatLessThanWellFounded, Zenon
  <1>2. \A x, y \in Nat : x < y => <<x, y>> \in R
    BY Zenon DEF OpToRel
  <1> HIDE DEF R
  <1>3. PICK n \in S : \A y \in S : ~ (<<y, n>> \in R)
    BY <1>1, WFMin, Zenon
  <1>4. ASSUME NEW m \in S PROVE n <= m
    <2>1. n \in Nat /\ m \in Nat
      OBVIOUS
    <2>2. ~(m < n)
      BY <1>2, <1>3, <1>4, <2>1
    <2> QED
      BY <2>1, <2>2
  <1> QED
    BY <1>4

(* A set of naturals that holds 0 and with n holds n + 1 holds all.        *)
LEMMA Induction ==
  ASSUME NEW S, 0 \in S, \A n \in Nat : n \in S => n + 1 \in S
  PROVE  \A n \in Nat : n \in S
  <1> DEFINE T == {n \in Nat : n \notin S}
  <1>1. SUFFICES ASSUME T # {} PROVE FALSE
    OBVIOUS
  <1>2. T \subseteq Nat
    OBVIOUS
  <1> HIDE DEF T
  <1>3. PICK n \in T : \A m \in T : n <= m
    BY <1>1, <1>2, Least
  <1>4. n \in Nat /\ n \notin S /\ n # 0
    BY DEF T
  <1>5. n - 1 \in Nat /\ n = (n - 1) + 1
    BY <1>4
  <1>6. n - 1 \in S
    BY <1>3, <1>5 DEF T
  <1> QED
    BY <1>4, <1>5, <1>6

(***************************************************************************)
(* A recursion that goes down has a solution: value n is made from the     *)
(* values below n, by a step B[n] that looks at no others.                 *)
(***************************************************************************)
Steps(N, V) == [0 .. N -> [[0 .. N -> V] -> V]]
LookDown(N, V, B) ==
  \A n \in 0 .. N : \A g, h \in [0 .. N -> V] :
    (\A m \in 0 .. N : m < n => g[m] = h[m]) => B[n][g] = B[n][h]
Solution(N, B, f) == \A n \in 0 .. N : f[n] = B[n][f]

LEMMA Levels ==
  ASSUME NEW N, NEW V, NEW B,
         N \in Nat, V # {}, B \in Steps(N, V), LookDown(N, V, B)
  PROVE  \E f \in [0 .. N -> V] : Solution(N, B, f)
  <1> USE DEF Steps, LookDown
  <1> DEFINE F == [0 .. N -> V]
             S == {k \in Nat : \E f \in F : \A n \in 0 .. N : n < k => f[n] = B[n][f]}
  <1>1. 0 \in S
    <2>1. PICK v \in V : TRUE
      OBVIOUS
    <2>2. [n \in 0 .. N |-> v] \in F
      OBVIOUS
    <2> HIDE DEF F
    <2>3. \E f \in F : \A n \in 0 .. N : n < 0 => f[n] = B[n][f]
      BY <2>2
    <2> QED
      BY <2>3
  <1>2. ASSUME NEW k \in Nat, k \in S PROVE k + 1 \in S
    <2>1. PICK f \in F : \A n \in 0 .. N : n < k => f[n] = B[n][f]
      BY <1>2
    <2>2. CASE k \in 0 .. N
      <3> DEFINE g == [f EXCEPT ![k] = B[k][f]]
      <3>1. B[k][f] \in V
        BY <2>2
      <3>2. g \in F
        BY <3>1
      <3>3. \A m \in 0 .. N : g[m] = IF m = k THEN B[k][f] ELSE f[m]
        BY <2>2
      <3> HIDE DEF g
      <3>4. ASSUME NEW n \in 0 .. N, n < k + 1 PROVE g[n] = B[n][g]
        <4>1. \A m \in 0 .. N : m < n => g[m] = f[m]
          BY <3>3, <3>4
        <4>2. B[n][g] = B[n][f]
          BY <4>1, <3>2
        <4>3. g[n] = B[n][f]
          BY <2>1, <3>3, <3>4
        <4> QED
          BY <4>2, <4>3
      <3>5. \E h \in F : \A n \in 0 .. N : n < k + 1 => h[n] = B[n][h]
        <4> HIDE DEF F
        <4> QED
          BY <3>2, <3>4
      <3> QED
        BY <3>5
    <2>3. CASE k \notin 0 .. N
      <3>1. \A n \in 0 .. N : n < k + 1 => f[n] = B[n][f]
        BY <2>1, <2>3
      <3>2. \E h \in F : \A n \in 0 .. N : n < k + 1 => h[n] = B[n][h]
        <4> HIDE DEF F
        <4> QED
          BY <3>1
      <3> QED
        BY <3>2
    <2> QED
      BY <2>2, <2>3
  <1> HIDE DEF S
  <1>3. N + 1 \in S
    BY <1>1, <1>2, Induction
  <1>4. PICK f \in F : \A n \in 0 .. N : n < N + 1 => f[n] = B[n][f]
    BY <1>3 DEF S
  <1>5. Solution(N, B, f)
    BY <1>4 DEF Solution
  <1> QED
    BY <1>5

(* The same for a recursion that goes up, on 1 .. N.                       *)
StepsUp(N, V) == [1 .. N -> [[1 .. N -> V] -> V]]
LookUp(N, V, B) ==
  \A n \in 1 .. N : \A g, h \in [1 .. N -> V] :
    (\A m \in 1 .. N : n < m => g[m] = h[m]) => B[n][g] = B[n][h]
SolutionUp(N, B, f) == \A n \in 1 .. N : f[n] = B[n][f]

LEMMA LevelsUp ==
  ASSUME NEW N, NEW V, NEW B,
         N \in Nat, V # {}, B \in StepsUp(N, V), LookUp(N, V, B)
  PROVE  \E f \in [1 .. N -> V] : SolutionUp(N, B, f)
  <1> USE DEF StepsUp, LookUp
  <1> DEFINE F == [1 .. N -> V]
             S == {k \in Nat : \E f \in F : \A n \in 1 .. N : n > N - k => f[n] = B[n][f]}
  <1>1. 0 \in S
    <2>1. PICK v \in V : TRUE
      OBVIOUS
    <2>2. [n \in 1 .. N |-> v] \in F
      OBVIOUS
    <2> HIDE DEF F
    <2>3. \E f \in F : \A n \in 1 .. N : n > N - 0 => f[n] = B[n][f]
      BY <2>2
    <2> QED
      BY <2>3
  <1>2. ASSUME NEW k \in Nat, k \in S PROVE k + 1 \in S
    <2>1. PICK f \in F : \A n \in 1 .. N : n > N - k => f[n] = B[n][f]
      BY <1>2
    <2> DEFINE j == N - k
    <2>2. CASE j \in 1 .. N
      <3> DEFINE g == [f EXCEPT ![j] = B[j][f]]
      <3>1. B[j][f] \in V
        BY <2>2
      <3>2. g \in F
        BY <3>1
      <3>3. \A m \in 1 .. N : g[m] = IF m = j THEN B[j][f] ELSE f[m]
        BY <2>2
      <3> HIDE DEF g
      <3>4. ASSUME NEW n \in 1 .. N, n > N - (k + 1) PROVE g[n] = B[n][g]
        <4>1. n = j \/ n > N - k
          BY <3>4
        <4>2. \A m \in 1 .. N : n < m => g[m] = f[m]
          BY <3>3, <4>1
        <4>3. B[n][g] = B[n][f]
          BY <4>2, <3>2
        <4>4. g[n] = B[n][f]
          BY <2>1, <3>3, <4>1
        <4> QED
          BY <4>3, <4>4
      <3>5. \E h \in F : \A n \in 1 .. N : n > N - (k + 1) => h[n] = B[n][h]
        <4> HIDE DEF F
        <4> QED
          BY <3>2, <3>4
      <3> QED
        BY <3>5
    <2>3. CASE j \notin 1 .. N
      <3>1. \A n \in 1 .. N : n > N - (k + 1) => f[n] = B[n][f]
        BY <2>1, <2>3
      <3>2. \E h \in F : \A n \in 1 .. N : n > N - (k + 1) => h[n] = B[n][h]
        <4> HIDE DEF F
        <4> QED
          BY <3>1
      <3> QED
        BY <3>2
    <2> QED
      BY <2>2, <2>3
  <1> HIDE DEF S
  <1>3. N \in S
    BY <1>1, <1>2, Induction
  <1>4. PICK f \in F : \A n \in 1 .. N : n > N - N => f[n] = B[n][f]
    BY <1>3 DEF S
  <1>5. SolutionUp(N, B, f)
    BY <1>4 DEF SolutionUp
  <1> QED
    BY <1>5

(* Induction downwards, on 1 .. N.                                         *)
LEMMA InductionDown ==
  ASSUME NEW N \in Nat, NEW S,
         \A n \in 1 .. N : (\A m \in 1 .. N : n < m => m \in S) => n \in S
  PROVE  \A n \in 1 .. N : n \in S
  <1> DEFINE T == {k \in Nat : \A n \in 1 .. N : n > N - k => n \in S}
  <1>1. 0 \in T
    OBVIOUS
  <1>2. ASSUME NEW k \in Nat, k \in T PROVE k + 1 \in T
    <2>1. ASSUME NEW n \in 1 .. N, n > N - (k + 1) PROVE n \in S
      <3>1. \A m \in 1 .. N : n < m => m > N - k
        BY <2>1
      <3>2. \A m \in 1 .. N : n < m => m \in S
        BY <1>2, <3>1
      <3> QED
        BY <3>2
    <2> QED
      BY <2>1
  <1> HIDE DEF T
  <1>3. N \in T
    BY <1>1, <1>2, Induction
  <1> QED
    BY <1>3 DEF T

(***************************************************************************)
(* A recursion that makes each value from the one before has a solution:   *)
(* value 0 is v0, and S[n] makes value n.                                  *)
(***************************************************************************)
Iterates(N, v0, S, f) == f[0] = v0 /\ \A n \in 1 .. N : f[n] = S[n][f[n - 1]]

LEMMA Iteration ==
  ASSUME NEW N, NEW V, NEW v0, NEW S,
         N \in Nat, v0 \in V, S \in [1 .. N -> [V -> V]]
  PROVE  \E f \in [0 .. N -> V] : Iterates(N, v0, S, f)
  <1> DEFINE B == [n \in 0 .. N |-> [g \in [0 .. N -> V] |->
                                     IF n = 0 THEN v0 ELSE S[n][g[n - 1]]]]
  <1>1. ASSUME NEW n \in 0 .. N, NEW g \in [0 .. N -> V], n # 0
        PROVE  n \in 1 .. N /\ n - 1 \in 0 .. N /\ g[n - 1] \in V /\ S[n][g[n - 1]] \in V
    <2>1. n \in 1 .. N /\ n - 1 \in 0 .. N
      BY <1>1
    <2>2. g[n - 1] \in V
      BY <2>1
    <2>3. S[n] \in [V -> V]
      BY <2>1
    <2> QED
      BY <2>1, <2>2, <2>3
  <1>2. B \in Steps(N, V)
    <2>1. ASSUME NEW n \in 0 .. N, NEW g \in [0 .. N -> V]
          PROVE  (IF n = 0 THEN v0 ELSE S[n][g[n - 1]]) \in V
      BY <1>1
    <2> QED
      BY <2>1 DEF Steps
  <1>3. LookDown(N, V, B)
    <2>1. ASSUME NEW n \in 0 .. N, NEW g \in [0 .. N -> V], NEW h \in [0 .. N -> V],
                 \A m \in 0 .. N : m < n => g[m] = h[m]
          PROVE  B[n][g] = B[n][h]
      <3>1. n = 0 \/ g[n - 1] = h[n - 1]
        BY <1>1, <2>1
      <3> QED
        BY <3>1
    <2> HIDE DEF B
    <2> QED
      BY <2>1 DEF LookDown
  <1> HIDE DEF B
  <1>4. PICK f \in [0 .. N -> V] : Solution(N, B, f)
    <2>1. V # {}
      OBVIOUS
    <2> QED
      BY <1>2, <1>3, <2>1, Levels
  <1>5. \A n \in 0 .. N : f[n] = IF n = 0 THEN v0 ELSE S[n][f[n - 1]]
    BY <1>4 DEF Solution, B
  <1>6. 0 \in 0 .. N /\ \A n \in 1 .. N : n \in 0 .. N /\ n # 0
    OBVIOUS
  <1>7. Iterates(N, v0, S, f)
    BY <1>5, <1>6 DEF Iterates
  <1> QED
    BY <1>7
==========================================================================
