----------------------------- MODULE NgramProofs ------------------------------
(***************************************************************************)
(* The search for the likeliest characters finds them, for every model and *)
(* every sequence of rows; and ngramRec chooses the lightest of the texts  *)
(* found for its segmentations.                                            *)
(***************************************************************************)
EXTENDS BestPath, SetInduction

-----------------------------------------------------------------------------
(***************************************************************************)
(* The rows w and the model s of one call, and what BestPath defines for   *)
(* them.                                                                   *)
(***************************************************************************)
Step(w, s, p, n) == s[<<w[n][p[n]], w[n + 1][p[n + 1]]>>]
Ways(w, s, k) ==
  {p \in [1 .. k -> UNION {DOMAIN w[n] : n \in 1 .. k}] :
     /\ \A n \in 1 .. k : p[n] \in DOMAIN w[n]
     /\ \A n \in 1 .. k - 1 : Step(w, s, p, n) # None}
Total(w, s, k, p) ==
  LET UpTo[n \in 0 .. k - 1] == IF n = 0 THEN 0 ELSE UpTo[n - 1] + Step(w, s, p, n)
  IN  UpTo[k - 1]
Trail(M, k, j) ==
  LET Place[i \in 0 .. k - 1] == IF i = 0 THEN j ELSE M[k - i + 1][Place[i - 1]]
  IN  [n \in 1 .. k |-> Place[k - n]]

(* What the rows and the model are.                                        *)
LEMMA RowsAre ==
  ASSUME BestPathAssumption, NEW w \in Rows
  PROVE  /\ w \in Seq(Seq(Codes)) /\ Len(w) \in Nat /\ 3 <= Len(w) /\ Len(w) <= 33
         /\ w[1] = <<BEG>> /\ w[Len(w)] = <<END>>
         /\ \A k \in 1 .. Len(w) : IsInjective(w[k])
  <1>0. Len(w) \in 3 .. 33
    BY DEF BestPathAssumption, MaxRows
  <1>1. w \in Seq(Seq(Codes))
    BY DEF BestPathAssumption
  <1>2. \A k \in DOMAIN w : IsInjective(w[k])
    BY DEF BestPathAssumption
  <1>3. w[1] = <<BEG>> /\ w[Len(w)] = <<END>>
    BY DEF BestPathAssumption
  <1>4. DOMAIN w = 1 .. Len(w)
    BY <1>1
  <1>5. Len(w) \in Nat /\ 3 <= Len(w) /\ Len(w) <= 33
    <2> DEFINE n == Len(w)
    <2>1. n \in 3 .. 33
      BY <1>0
    <2> HIDE DEF n
    <2>2. n \in Nat /\ 3 <= n /\ n <= 33
      BY <2>1
    <2> QED
      BY <2>2 DEF n
  <1>6. \A k \in 1 .. Len(w) : IsInjective(w[k])
    BY <1>2, <1>4
  <1> QED
    BY <1>1, <1>3, <1>5, <1>6

LEMMA RowIs ==
  ASSUME BestPathAssumption, NEW w \in Rows, NEW k \in 1 .. Len(w)
  PROVE  /\ w[k] \in Seq(Codes) /\ Len(w[k]) \in Nat /\ DOMAIN w[k] = 1 .. Len(w[k])
         /\ \A j \in 1 .. Len(w[k]) : w[k][j] \in Codes
  <1>1. w \in Seq(Seq(Codes))
    BY RowsAre
  <1>2. w[k] \in Seq(Codes)
    BY <1>1
  <1> HIDE <1>1
  <1> QED
    BY <1>2

LEMMA ShiftIs ==
  ASSUME BestPathAssumption, NEW s \in Shifts, NEW a \in Codes, NEW b \in Codes
  PROVE  s[<<a, b>>] # None => s[<<a, b>>] \in Nat /\ s[<<a, b>>] <= 1699
  <1> DEFINE V == 0 .. HeaviestShift
  <1>1. s \in [Codes \X Codes -> V \union {None}]
    BY DEF BestPathAssumption
  <1>2. <<a, b>> \in Codes \X Codes
    OBVIOUS
  <1> HIDE DEF V
  <1>3. s[<<a, b>>] \in V \union {None}
    BY <1>1, <1>2
  <1>4. \A v \in V : v \in Nat /\ v <= 1699
    BY DEF V, HeaviestShift
  <1> QED
    BY <1>3, <1>4

(* A way has a place in every row, and its steps are possible.             *)
IsWay(w, s, k, p) ==
  /\ p = [n \in 1 .. k |-> p[n]]
  /\ \A n \in 1 .. k : p[n] \in 1 .. Len(w[n])
  /\ \A n \in 1 .. k - 1 : Step(w, s, p, n) # None

LEMMA WaysAre ==
  ASSUME BestPathAssumption, NEW w \in Rows, NEW s \in Shifts, NEW k \in 1 .. Len(w), NEW p
  PROVE  p \in Ways(w, s, k) <=> IsWay(w, s, k, p)
  <1>1. Len(w) \in Nat
    BY RowsAre
  <1>2. \A n \in 1 .. k : n \in 1 .. Len(w)
    BY <1>1
  <1>3. \A n \in 1 .. k : DOMAIN w[n] = 1 .. Len(w[n])
    BY <1>2, RowIs
  <1>4. ASSUME p \in Ways(w, s, k) PROVE IsWay(w, s, k, p)
    <2>1. /\ p \in [1 .. k -> UNION {DOMAIN w[n] : n \in 1 .. k}]
          /\ \A n \in 1 .. k : p[n] \in DOMAIN w[n]
          /\ \A n \in 1 .. k - 1 : Step(w, s, p, n) # None
      BY <1>4 DEF Ways
    <2>2. p = [n \in 1 .. k |-> p[n]]
      BY <2>1
    <2>3. \A n \in 1 .. k : p[n] \in 1 .. Len(w[n])
      BY <1>3, <2>1
    <2> QED
      BY <2>1, <2>2, <2>3 DEF IsWay
  <1>5. ASSUME IsWay(w, s, k, p) PROVE p \in Ways(w, s, k)
    <2>1. p = [n \in 1 .. k |-> p[n]] /\ \A n \in 1 .. k : p[n] \in 1 .. Len(w[n])
      BY <1>5 DEF IsWay
    <2>2. \A n \in 1 .. k : p[n] \in DOMAIN w[n]
      BY <1>3, <2>1
    <2>3. \A n \in 1 .. k : p[n] \in UNION {DOMAIN w[m] : m \in 1 .. k}
      BY <2>2
    <2>4. p \in [1 .. k -> UNION {DOMAIN w[m] : m \in 1 .. k}]
      BY <2>1, <2>3
    <2>5. \A n \in 1 .. k - 1 : Step(w, s, p, n) # None
      BY <1>5 DEF IsWay
    <2> QED
      BY <2>2, <2>4, <2>5 DEF Ways
  <1> QED
    BY <1>4, <1>5

LEMMA StepIs ==
  ASSUME BestPathAssumption, NEW w \in Rows, NEW s \in Shifts, NEW k \in 1 .. Len(w), NEW p,
         IsWay(w, s, k, p), NEW n \in 1 .. k - 1
  PROVE  Step(w, s, p, n) \in Nat /\ Step(w, s, p, n) <= 1699
  <1>1. Len(w) \in Nat
    BY RowsAre
  <1>2. n \in 1 .. k /\ n + 1 \in 1 .. k /\ n \in 1 .. Len(w) /\ n + 1 \in 1 .. Len(w)
    BY <1>1
  <1>3. p[n] \in 1 .. Len(w[n]) /\ p[n + 1] \in 1 .. Len(w[n + 1])
    BY <1>2 DEF IsWay
  <1>4. w[n][p[n]] \in Codes /\ w[n + 1][p[n + 1]] \in Codes
    BY <1>2, <1>3, RowIs
  <1>5. Step(w, s, p, n) # None
    BY DEF IsWay
  <1> QED
    BY <1>4, <1>5, ShiftIs DEF Step

(* The weights of a way add up.                                            *)
Adds(w, s, k, p, f) ==
  /\ f \in [0 .. k - 1 -> Nat] /\ f[0] = 0
  /\ \A n \in 1 .. k - 1 : f[n] = f[n - 1] + Step(w, s, p, n)
  /\ Total(w, s, k, p) = f[k - 1]

LEMMA TotalAdds ==
  ASSUME NEW w, NEW s, NEW k \in Nat \ {0}, NEW p,
         \A n \in 1 .. k - 1 : Step(w, s, p, n) \in Nat
  PROVE  \E f : Adds(w, s, k, p, f)
  <1> DEFINE N == k - 1
             S == [n \in 1 .. N |-> [v \in Nat |-> v + Step(w, s, p, n)]]
             body(n, g) == IF n = 0 THEN 0 ELSE g[n - 1] + Step(w, s, p, n)
  <1>1. N \in Nat /\ \A n \in 1 .. N : Step(w, s, p, n) \in Nat
    OBVIOUS
  <1>2. S \in [1 .. N -> [Nat -> Nat]]
    BY <1>1
  <1>3. PICK f \in [0 .. N -> Nat] : Iterates(N, 0, S, f)
    <2>1. 0 \in Nat
      OBVIOUS
    <2> HIDE DEF S
    <2> QED
      BY <1>1, <1>2, <2>1, Iteration
  <1>4. \A n \in 1 .. N : f[n] = f[n - 1] + Step(w, s, p, n)
    <2> SUFFICES ASSUME NEW n \in 1 .. N PROVE f[n] = f[n - 1] + Step(w, s, p, n)
      OBVIOUS
    <2>1. n - 1 \in 0 .. N
      BY <1>1
    <2>2. f[n - 1] \in Nat
      BY <2>1
    <2>3. f[n] = S[n][f[n - 1]]
      BY <1>3 DEF Iterates
    <2> QED
      BY <2>2, <2>3
  <1>5. f[0] = 0
    BY <1>3 DEF Iterates
  <1>6. \A n \in 0 .. N : f[n] = body(n, f)
    BY <1>1, <1>4, <1>5
  <1> HIDE DEF body
  <1>7. f = [n \in 0 .. N |-> body(n, f)]
    BY <1>6
  <1>8. \E g : g = [n \in 0 .. N |-> body(n, g)]
    BY <1>7
  <1> DEFINE P == CHOOSE g : g = [n \in 0 .. N |-> body(n, g)]
  <1>9. Total(w, s, k, p) = P[N]
    BY DEF Total, body
  <1>10. P = [n \in 0 .. N |-> body(n, P)]
    <2> HIDE DEF N
    <2> QED
      BY <1>8
  <1> HIDE DEF P
  <1>11. \A n \in 0 .. N : P[n] = body(n, P)
    BY <1>10
  <1>12. P[0] = 0 /\ \A n \in 1 .. N : P[n] = P[n - 1] + Step(w, s, p, n)
    BY <1>1, <1>11 DEF body
  <1> DEFINE T == {n \in Nat : n <= N => P[n] \in Nat}
  <1>13. \A n \in Nat : n \in T
    <2>1. 0 \in T
      BY <1>12
    <2>2. ASSUME NEW n \in Nat, n \in T PROVE n + 1 \in T
      <3>1. n + 1 <= N => n + 1 \in 1 .. N /\ P[n] \in Nat
        BY <1>1, <2>2
      <3>2. n + 1 <= N => P[n + 1] = P[n] + Step(w, s, p, n + 1)
        BY <1>12, <3>1
      <3> QED
        BY <1>1, <3>1, <3>2
    <2> HIDE DEF T
    <2> QED
      BY <2>1, <2>2, Induction
  <1>14. P \in [0 .. N -> Nat]
    BY <1>1, <1>10, <1>13
  <1> QED
    BY <1>9, <1>12, <1>14 DEF Adds

(* At most 32 steps of at most 1699: a way's weight fits into 16 bits.     *)
LEMMA TotalFits ==
  ASSUME BestPathAssumption, NEW w \in Rows, NEW s \in Shifts, NEW k \in 1 .. Len(w), NEW p,
         IsWay(w, s, k, p)
  PROVE  Total(w, s, k, p) \in Nat /\ Total(w, s, k, p) <= 54368
  <1>1. Len(w) \in Nat /\ Len(w) <= 33
    BY RowsAre
  <1>2. k \in Nat \ {0} /\ k <= 33
    BY <1>1
  <1>3. \A n \in 1 .. k - 1 : Step(w, s, p, n) \in Nat /\ Step(w, s, p, n) <= 1699
    BY StepIs
  <1>4. PICK f : Adds(w, s, k, p, f)
    <2>1. k \in Nat \ {0} /\ \A n \in 1 .. k - 1 : Step(w, s, p, n) \in Nat
      BY <1>2, <1>3
    <2> HIDE <1>2, <1>3
    <2> QED
      BY <2>1, TotalAdds
  <1> DEFINE T == {n \in Nat : n <= k - 1 => f[n] <= 1699 * n}
  <1>5. \A n \in Nat : n \in T
    <2>1. 0 \in T
      BY <1>4 DEF Adds
    <2>2. ASSUME NEW n \in Nat, n \in T PROVE n + 1 \in T
      <3> SUFFICES ASSUME n + 1 <= k - 1 PROVE f[n + 1] <= 1699 * (n + 1)
        OBVIOUS
      <3>1. n + 1 \in 1 .. k - 1 /\ n \in 0 .. k - 1 /\ f[n] <= 1699 * n
        BY <1>2, <2>2
      <3>2. f[n + 1] = f[n] + Step(w, s, p, n + 1) /\ f[n] \in Nat
        BY <1>4, <3>1 DEF Adds
      <3>3. Step(w, s, p, n + 1) \in Nat /\ Step(w, s, p, n + 1) <= 1699
        BY <1>3, <3>1
      <3> QED
        BY <3>1, <3>2, <3>3
    <2> HIDE DEF T
    <2> QED
      BY <2>1, <2>2, Induction
  <1>6. k - 1 \in Nat /\ k - 1 \in 0 .. k - 1
    BY <1>2
  <1>7. f[k - 1] <= 1699 * (k - 1) /\ f[k - 1] \in Nat
    <2>1. k - 1 \in T
      BY <1>5, <1>6
    <2>2. f[k - 1] \in Nat
      BY <1>4, <1>6 DEF Adds
    <2> QED
      BY <2>1, <2>2, <1>6
  <1> QED
    BY <1>2, <1>4, <1>7 DEF Adds

(* A way is longer by its last step.                                       *)
LEMMA TotalNext ==
  ASSUME NEW w, NEW s, NEW k \in Nat \ {0}, NEW p, NEW q,
         \A n \in 1 .. k : p[n] = q[n],
         \A n \in 1 .. k : Step(w, s, q, n) \in Nat
  PROVE  Total(w, s, k + 1, q) = Total(w, s, k, p) + Step(w, s, q, k)
  <1>1. \A n \in 1 .. k - 1 : Step(w, s, p, n) = Step(w, s, q, n) /\ Step(w, s, p, n) \in Nat
    <2> SUFFICES ASSUME NEW n \in 1 .. k - 1
                 PROVE  Step(w, s, p, n) = Step(w, s, q, n) /\ Step(w, s, p, n) \in Nat
      OBVIOUS
    <2>1. n \in 1 .. k /\ n + 1 \in 1 .. k
      OBVIOUS
    <2>2. p[n] = q[n] /\ p[n + 1] = q[n + 1] /\ Step(w, s, q, n) \in Nat
      BY <2>1
    <2> QED
      BY <2>2 DEF Step
  <1>2. PICK f : Adds(w, s, k, p, f)
    BY <1>1, TotalAdds
  <1>3. PICK g : Adds(w, s, k + 1, q, g)
    <2>1. k + 1 \in Nat \ {0} /\ (k + 1) - 1 = k
      OBVIOUS
    <2> QED
      BY <2>1, TotalAdds
  <1>4. /\ f \in [0 .. k - 1 -> Nat] /\ f[0] = 0
        /\ \A n \in 1 .. k - 1 : f[n] = f[n - 1] + Step(w, s, p, n)
    BY <1>2 DEF Adds
  <1>5. /\ g \in [0 .. k -> Nat] /\ g[0] = 0
        /\ \A n \in 1 .. k : g[n] = g[n - 1] + Step(w, s, q, n)
    <2>1. (k + 1) - 1 = k
      OBVIOUS
    <2> QED
      BY <1>3, <2>1 DEF Adds
  <1> DEFINE T == {n \in Nat : n <= k - 1 => f[n] = g[n]}
  <1>6. \A n \in Nat : n \in T
    <2>1. 0 \in T
      BY <1>4, <1>5
    <2>2. ASSUME NEW n \in Nat, n \in T PROVE n + 1 \in T
      <3> SUFFICES ASSUME n + 1 <= k - 1 PROVE f[n + 1] = g[n + 1]
        OBVIOUS
      <3>1. n + 1 \in 1 .. k - 1 /\ n + 1 \in 1 .. k /\ f[n] = g[n] /\ (n + 1) - 1 = n
        BY <2>2
      <3>2. f[n + 1] = f[n] + Step(w, s, p, n + 1)
        BY <1>4, <3>1
      <3>3. g[n + 1] = g[n] + Step(w, s, q, n + 1)
        BY <1>5, <3>1
      <3> QED
        BY <1>1, <3>1, <3>2, <3>3
    <2> HIDE DEF T
    <2> QED
      BY <2>1, <2>2, Induction
  <1>7. k - 1 \in T /\ k \in 1 .. k
    BY <1>6
  <1>8. f[k - 1] = g[k - 1] /\ g[k] = g[k - 1] + Step(w, s, q, k)
    BY <1>5, <1>7
  <1>9. Total(w, s, k + 1, q) = g[k] /\ Total(w, s, k, p) = f[k - 1]
    <2>1. (k + 1) - 1 = k
      OBVIOUS
    <2> QED
      BY <1>2, <1>3, <2>1 DEF Adds
  <1> QED
    BY <1>8, <1>9

-----------------------------------------------------------------------------
(* A recursion of any values, each made from the one before, has a         *)
(* solution.                                                               *)
IsChain(N, v, M, f) == f = [i \in 0 .. N |-> IF i = 0 THEN v ELSE M[i][f[i - 1]]]

LEMMA ChainExists ==
  ASSUME NEW N \in Nat, NEW v, NEW M
  PROVE  \E f : IsChain(N, v, M, f)
  <1> DEFINE body(i, f) == IF i = 0 THEN v ELSE M[i][f[i - 1]]
             T == {n \in Nat : \E f : f = [i \in 0 .. n |-> body(i, f)]}
  <1>1. 0 \in T
    <2> DEFINE f == [i \in 0 .. 0 |-> v]
    <2>1. f = [i \in 0 .. 0 |-> body(i, f)]
      OBVIOUS
    <2> HIDE DEF f, body
    <2> QED
      BY <2>1
  <1>2. ASSUME NEW n \in Nat, n \in T PROVE n + 1 \in T
    <2>1. PICK f : f = [i \in 0 .. n |-> body(i, f)]
      BY <1>2
    <2> DEFINE g == [i \in 0 .. n + 1 |-> IF i = n + 1 THEN M[n + 1][f[n]] ELSE f[i]]
    <2>2. \A i \in 0 .. n : f[i] = body(i, f)
      <3> HIDE DEF body
      <3> QED
        BY <2>1
    <2>3. \A i \in 0 .. n : g[i] = f[i]
      OBVIOUS
    <2>4. g[n + 1] = M[n + 1][f[n]]
      OBVIOUS
    <2>5. g = [i \in 0 .. n + 1 |-> g[i]]
      OBVIOUS
    <2> HIDE DEF g
    <2>6. ASSUME NEW i \in 0 .. n + 1 PROVE g[i] = body(i, g)
      <3>1. CASE i = 0
        BY <2>2, <2>3, <3>1
      <3>2. CASE i # 0 /\ i # n + 1
        <4>1. i \in 0 .. n /\ i - 1 \in 0 .. n
          BY <3>2
        <4>2. g[i] = f[i] /\ g[i - 1] = f[i - 1]
          BY <2>3, <4>1
        <4> QED
          BY <2>2, <3>2, <4>1, <4>2
      <3>3. CASE i = n + 1
        <4>1. g[n] = f[n] /\ i # 0 /\ i - 1 = n
          BY <2>3, <3>3
        <4> QED
          BY <2>4, <3>3, <4>1
      <3> QED
        BY <3>1, <3>2, <3>3
    <2> HIDE DEF body
    <2>7. g = [i \in 0 .. n + 1 |-> body(i, g)]
      BY <2>5, <2>6
    <2>8. n + 1 \in Nat
      OBVIOUS
    <2> QED
      BY <2>7, <2>8
  <1>3. N \in T
    <2> HIDE DEF T
    <2> QED
      BY <1>1, <1>2, Induction
  <1> QED
    BY <1>3 DEF T, body, IsChain

(* The way back goes from the last place to the first.                     *)
Follows(M, k, j, f) ==
  /\ f[0] = j
  /\ \A i \in 1 .. k - 1 : f[i] = M[k - i + 1][f[i - 1]]
  /\ Trail(M, k, j) = [n \in 1 .. k |-> f[k - n]]

LEMMA TrailFollows ==
  ASSUME NEW M, NEW k \in Nat \ {0}, NEW j
  PROVE  \E f : Follows(M, k, j, f)
  <1> DEFINE N == k - 1
             R == [i \in 1 .. N |-> M[k - i + 1]]
             body(i, f) == IF i = 0 THEN j ELSE M[k - i + 1][f[i - 1]]
             P == CHOOSE f : f = [i \in 0 .. N |-> body(i, f)]
  <1>1. N \in Nat
    OBVIOUS
  <1>2. PICK f : IsChain(N, j, R, f)
    <2> HIDE DEF N, R
    <2> QED
      BY <1>1, ChainExists
  <1>3. f = [i \in 0 .. N |-> body(i, f)]
    <2>1. \A i \in 0 .. N : i # 0 => R[i] = M[k - i + 1]
      BY <1>1
    <2> HIDE DEF R
    <2> QED
      BY <1>2, <2>1 DEF IsChain
  <1>4. Trail(M, k, j) = [n \in 1 .. k |-> P[k - n]]
    BY DEF Trail
  <1> HIDE DEF body
  <1>5. P = [i \in 0 .. N |-> body(i, P)]
    <2>1. \E g : g = [i \in 0 .. N |-> body(i, g)]
      BY <1>3
    <2> HIDE DEF N
    <2> QED
      BY <2>1
  <1> HIDE DEF P
  <1>6. \A i \in 0 .. N : P[i] = body(i, P)
    BY <1>5
  <1>7. Follows(M, k, j, P)
    BY <1>1, <1>4, <1>6 DEF Follows, body
  <1> QED
    BY <1>7

(* One row more, when the rows before are the same.                        *)
GoesOn(M, L, k, j, i) ==
  Trail(L, k + 1, j) = [n \in 1 .. k + 1 |-> IF n = k + 1 THEN j ELSE Trail(M, k, i)[n]]

LEMMA TrailNext ==
  ASSUME NEW M, NEW L, NEW k \in Nat \ {0}, NEW j,
         \A n \in 1 .. k : L[n] = M[n]
  PROVE  GoesOn(M, L, k, j, L[k + 1][j])
  <1> DEFINE i0 == L[k + 1][j]
  <1>1. PICK f : Follows(M, k, i0, f)
    BY TrailFollows
  <1>2. PICK g : Follows(L, k + 1, j, g)
    <2>1. k + 1 \in Nat \ {0}
      OBVIOUS
    <2> QED
      BY <2>1, TrailFollows
  <1>3. f[0] = i0 /\ \A i \in 1 .. k - 1 : f[i] = M[k - i + 1][f[i - 1]]
    BY <1>1 DEF Follows
  <1>0. /\ Trail(M, k, i0) = [n \in 1 .. k |-> f[k - n]]
        /\ Trail(L, k + 1, j) = [n \in 1 .. k + 1 |-> g[k + 1 - n]]
    BY <1>1, <1>2 DEF Follows
  <1>4. g[0] = j /\ \A i \in 1 .. k : g[i] = L[(k + 1) - i + 1][g[i - 1]]
    <2>1. (k + 1) - 1 = k
      OBVIOUS
    <2> QED
      BY <1>2, <2>1 DEF Follows
  <1>5. g[1] = i0
    <2>1. 1 \in 1 .. k /\ (k + 1) - 1 + 1 = k + 1 /\ 1 - 1 = 0
      OBVIOUS
    <2>2. g[1] = L[(k + 1) - 1 + 1][g[1 - 1]]
      BY <1>4, <2>1
    <2> QED
      BY <1>4, <2>1, <2>2
  <1> HIDE DEF i0
  <1> DEFINE T == {i \in Nat : i <= k - 1 => g[i + 1] = f[i]}
  <1>6. \A i \in Nat : i \in T
    <2>1. 0 \in T
      BY <1>3, <1>5
    <2>2. ASSUME NEW i \in Nat, i \in T PROVE i + 1 \in T
      <3> SUFFICES ASSUME i + 1 <= k - 1 PROVE g[(i + 1) + 1] = f[i + 1]
        OBVIOUS
      <3>1. /\ i + 1 \in 1 .. k - 1 /\ (i + 1) + 1 \in 1 .. k /\ g[i + 1] = f[i]
            /\ (k + 1) - ((i + 1) + 1) + 1 = k - (i + 1) + 1 /\ k - (i + 1) + 1 \in 1 .. k
            /\ (i + 1) - 1 = i /\ ((i + 1) + 1) - 1 = i + 1
        BY <2>2
      <3> DEFINE x == (i + 1) + 1
                 y == i + 1
                 r == k - (i + 1) + 1
      <3>2. g[x] = L[r][g[y]]
        BY <1>4, <3>1
      <3>3. f[y] = M[r][f[i]]
        BY <1>3, <3>1
      <3>4. L[r] = M[r]
        BY <3>1
      <3> QED
        BY <3>1, <3>2, <3>3, <3>4
    <2> HIDE DEF T
    <2> QED
      BY <2>1, <2>2, Induction
  <1>7. ASSUME NEW n \in 1 .. k + 1
        PROVE  g[k + 1 - n] = IF n = k + 1 THEN j ELSE Trail(M, k, i0)[n]
    <2>1. CASE n = k + 1
      <3>1. k + 1 - n = 0
        BY <2>1
      <3> QED
        BY <1>4, <2>1, <3>1
    <2>2. CASE n # k + 1
      <3>1. n \in 1 .. k /\ k - n \in Nat /\ k - n <= k - 1 /\ (k - n) + 1 = k + 1 - n
        BY <2>2
      <3>2. g[(k - n) + 1] = f[k - n]
        BY <1>6, <3>1
      <3>3. Trail(M, k, i0)[n] = f[k - n]
        BY <1>0, <3>1
      <3> QED
        BY <2>2, <3>1, <3>2, <3>3
    <2> QED
      BY <2>1, <2>2
  <1>8. Trail(L, k + 1, j) = [n \in 1 .. k + 1 |-> IF n = k + 1 THEN j ELSE Trail(M, k, i0)[n]]
    BY <1>0, <1>7
  <1> QED
    BY <1>8 DEF i0, GoesOn

-----------------------------------------------------------------------------
(***************************************************************************)
(* What a cell of the two matrices says: no way to the place weighs less   *)
(* than P, and unless P is None the trail back is a way of this weight.    *)
(***************************************************************************)
IsCell(w, s, P, M, k, j) ==
  /\ P[k][j] \in 0 .. None
  /\ \A p : IsWay(w, s, k, p) /\ p[k] = j => P[k][j] <= Total(w, s, k, p)
  /\ P[k][j] # None =>
       /\ IsWay(w, s, k, Trail(M, k, j)) /\ Trail(M, k, j)[k] = j
       /\ Total(w, s, k, Trail(M, k, j)) = P[k][j]

LEMMA NoneIsNat == None \in Nat
  BY DEF None
LEMMA NoneIs == None = 65535
  BY DEF None
LEMMA CellIsSmall ==
  ASSUME NEW v, v \in 0 .. None
  PROVE  v \in Nat /\ v <= None
  BY NoneIsNat
LEMMA SmallIsCell ==
  ASSUME NEW v \in Nat, v <= None
  PROVE  v \in 0 .. None
  BY NoneIsNat

(* No way comes to a place with None.                                      *)
IsLighter(w, s, P, k, p, i) ==
  /\ P[k][i] \in Nat /\ P[k][i] # None
  /\ P[k][i] <= Total(w, s, k, p) /\ Total(w, s, k, p) \in Nat

LEMMA NoneHasNoWay ==
  ASSUME BestPathAssumption, NEW w \in Rows, NEW s \in Shifts, NEW k \in 1 .. Len(w),
         NEW P, NEW M, NEW p, IsWay(w, s, k, p), NEW i, p[k] = i, IsCell(w, s, P, M, k, i)
  PROVE  IsLighter(w, s, P, k, p, i)
  <1>0. P[k][i] <= Total(w, s, k, p)
    BY DEF IsCell
  <1>1. P[k][i] \in 0 .. None
    BY DEF IsCell
  <1>2. Total(w, s, k, p) \in Nat /\ Total(w, s, k, p) <= 54368
    BY TotalFits
  <1>3. P[k][i] \in Nat
    BY <1>1, CellIsSmall
  <1> QED
    BY <1>0, <1>2, <1>3, NoneIs DEF IsLighter

(* The one place of row 1.                                                 *)
LEMMA CellBegins ==
  ASSUME BestPathAssumption, NEW w \in Rows, NEW s \in Shifts, NEW P, NEW M, NEW j,
         j \in 1 .. Len(w[1]), P[1][j] = 0
  PROVE  IsCell(w, s, P, M, 1, j)
  <1>1. Len(w) \in Nat /\ 3 <= Len(w)
    BY RowsAre
  <1>2. 1 \in 1 .. Len(w) /\ 1 \in Nat \ {0} /\ 1 - 1 = 0 /\ (\A n : n \notin 1 .. 0)
    BY <1>1
  <1>3. ASSUME NEW p PROVE Total(w, s, 1, p) = 0
    <2>1. \A n \in 1 .. 1 - 1 : Step(w, s, p, n) \in Nat
      BY <1>2
    <2>2. PICK f : Adds(w, s, 1, p, f)
      BY <1>2, <2>1, TotalAdds
    <2> QED
      BY <1>2, <2>2 DEF Adds
  <1>4. Trail(M, 1, j) = [n \in 1 .. 1 |-> j]
    <2>1. PICK f : Follows(M, 1, j, f)
      BY <1>2, TrailFollows
    <2>2. f[0] = j /\ Trail(M, 1, j) = [n \in 1 .. 1 |-> f[1 - n]]
      BY <2>1 DEF Follows
    <2>3. \A n \in 1 .. 1 : f[1 - n] = j
      BY <2>2
    <2> QED
      BY <2>2, <2>3
  <1>5. IsWay(w, s, 1, Trail(M, 1, j)) /\ Trail(M, 1, j)[1] = j
    BY <1>2, <1>4 DEF IsWay
  <1>6. 0 \in 0 .. None
    BY NoneIsNat
  <1>7. \A p : P[1][j] <= Total(w, s, 1, p)
    BY <1>3
  <1> QED
    BY <1>3, <1>5, <1>6, <1>7 DEF IsCell

(* The places of the row before from which place j of row k can be reached,*)
(* and what the way over one of them weighs.                               *)
Reaches(w, s, P, k, j, pre) ==
  /\ pre \in 1 .. Len(w[k - 1])
  /\ s[<<w[k - 1][pre], w[k][j]>>] # None /\ P[k - 1][pre] # None
Over(w, s, P, k, j, pre) == s[<<w[k - 1][pre], w[k][j]>>] + P[k - 1][pre]
(* What Lightest and Previous choose.                                      *)
IsChosen(w, s, P, k, j, v, pre) ==
  /\ v \in 0 .. None
  /\ \A i : Reaches(w, s, P, k, j, i) => v <= Over(w, s, P, k, j, i)
  /\ v # None => Reaches(w, s, P, k, j, pre) /\ v = Over(w, s, P, k, j, pre)

(* A way begins with a way.                                                *)
LEMMA WayBegins ==
  ASSUME BestPathAssumption, NEW w \in Rows, NEW s \in Shifts, NEW k \in Nat \ {0},
         k + 1 <= Len(w), NEW q, IsWay(w, s, k + 1, q), NEW p, p = [n \in 1 .. k |-> q[n]]
  PROVE  /\ IsWay(w, s, k, p)
         /\ Step(w, s, q, k) \in Nat /\ Step(w, s, q, k) # None
         /\ Total(w, s, k + 1, q) = Total(w, s, k, p) + Step(w, s, q, k)
  <1>1. Len(w) \in Nat
    BY RowsAre
  <1>2. k + 1 \in 1 .. Len(w) /\ (k + 1) - 1 = k /\ k \in 1 .. k
    BY <1>1
  <1>3. \A n \in 1 .. k : Step(w, s, q, n) \in Nat /\ Step(w, s, q, n) <= 1699
    <2> SUFFICES ASSUME NEW n \in 1 .. k
                 PROVE  Step(w, s, q, n) \in Nat /\ Step(w, s, q, n) <= 1699
      OBVIOUS
    <2>1. n \in 1 .. (k + 1) - 1
      BY <1>2
    <2> QED
      BY <1>2, <2>1, StepIs
  <1>4. /\ \A n \in 1 .. k + 1 : q[n] \in 1 .. Len(w[n])
        /\ \A n \in 1 .. k : Step(w, s, q, n) # None
    BY <1>2 DEF IsWay
  <1>5. \A n \in 1 .. k : p[n] = q[n]
    OBVIOUS
  <1>6. \A n \in 1 .. k - 1 : Step(w, s, p, n) = Step(w, s, q, n) /\ n \in 1 .. k
    <2> SUFFICES ASSUME NEW n \in 1 .. k - 1
                 PROVE  Step(w, s, p, n) = Step(w, s, q, n) /\ n \in 1 .. k
      OBVIOUS
    <2>1. n \in 1 .. k /\ n + 1 \in 1 .. k
      OBVIOUS
    <2> QED
      BY <1>5, <2>1 DEF Step
  <1>7. IsWay(w, s, k, p)
    <2>1. p = [n \in 1 .. k |-> p[n]]
      BY <1>5
    <2>2. \A n \in 1 .. k : p[n] \in 1 .. Len(w[n])
      BY <1>4, <1>5
    <2>3. \A n \in 1 .. k - 1 : Step(w, s, p, n) # None
      BY <1>4, <1>6
    <2> QED
      BY <2>1, <2>2, <2>3 DEF IsWay
  <1>8. \A n \in 1 .. k : Step(w, s, q, n) \in Nat
    BY <1>3
  <1>9. Total(w, s, k + 1, q) = Total(w, s, k, p) + Step(w, s, q, k)
    BY <1>5, <1>8, TotalNext
  <1> QED
    BY <1>2, <1>4, <1>7, <1>8, <1>9

(* A way goes on.                                                          *)
Edge(w, s, k, i, j) == s[<<w[k][i], w[k + 1][j]>>]
Extends(k, p, j, q) == q = [n \in 1 .. k + 1 |-> IF n = k + 1 THEN j ELSE p[n]]
Longer(w, s, k, p, j, q) ==
  /\ IsWay(w, s, k + 1, q) /\ q[k + 1] = j
  /\ Total(w, s, k + 1, q) = Total(w, s, k, p) + Edge(w, s, k, p[k], j)

LEMMA WayGoesOn ==
  ASSUME BestPathAssumption, NEW w \in Rows, NEW s \in Shifts, NEW k \in Nat \ {0},
         k + 1 <= Len(w), NEW p, IsWay(w, s, k, p), NEW j, j \in 1 .. Len(w[k + 1]),
         Edge(w, s, k, p[k], j) # None,
         NEW q, Extends(k, p, j, q)
  PROVE  Longer(w, s, k, p, j, q)
  <1>1. Len(w) \in Nat /\ (k + 1) - 1 = k /\ k \in 1 .. k
    <2>1. Len(w) \in Nat
      BY RowsAre
    <2> QED
      BY <2>1
  <1>2. \A n \in 1 .. k : q[n] = p[n]
    BY DEF Extends
  <1>3. q[k + 1] = j
    BY DEF Extends
  <1>4. /\ \A n \in 1 .. k : p[n] \in 1 .. Len(w[n])
        /\ \A n \in 1 .. k - 1 : Step(w, s, p, n) # None
    BY DEF IsWay
  <1>5. q = [n \in 1 .. k + 1 |-> q[n]]
    BY DEF Extends
  <1>6. Step(w, s, q, k) = Edge(w, s, k, p[k], j)
    BY <1>1, <1>2, <1>3 DEF Step, Edge
  <1>7. \A n \in 1 .. k - 1 : Step(w, s, q, n) = Step(w, s, p, n)
    <2> SUFFICES ASSUME NEW n \in 1 .. k - 1 PROVE Step(w, s, q, n) = Step(w, s, p, n)
      OBVIOUS
    <2>1. n \in 1 .. k /\ n + 1 \in 1 .. k
      OBVIOUS
    <2> QED
      BY <1>2, <2>1 DEF Step
  <1>8. IsWay(w, s, k + 1, q)
    <2>1. \A n \in 1 .. k + 1 : q[n] \in 1 .. Len(w[n])
      <3> SUFFICES ASSUME NEW n \in 1 .. k + 1 PROVE q[n] \in 1 .. Len(w[n])
        OBVIOUS
      <3>1. n \in 1 .. k \/ n = k + 1
        OBVIOUS
      <3> QED
        BY <1>2, <1>3, <1>4, <3>1
    <2>2. \A n \in 1 .. (k + 1) - 1 : Step(w, s, q, n) # None
      <3> SUFFICES ASSUME NEW n \in 1 .. k PROVE Step(w, s, q, n) # None
        BY <1>1
      <3>1. n \in 1 .. k - 1 \/ n = k
        OBVIOUS
      <3> QED
        BY <1>4, <1>6, <1>7, <3>1
    <2> QED
      BY <1>5, <2>1, <2>2 DEF IsWay
  <1>9. \A n \in 1 .. k : Step(w, s, q, n) \in Nat
    <2> SUFFICES ASSUME NEW n \in 1 .. k PROVE Step(w, s, q, n) \in Nat
      OBVIOUS
    <2>1. n \in 1 .. (k + 1) - 1 /\ k + 1 \in 1 .. Len(w)
      BY <1>1
    <2> QED
      BY <1>8, <2>1, StepIs
  <1>10. Total(w, s, k + 1, q) = Total(w, s, k, p) + Step(w, s, q, k)
    <2>1. \A n \in 1 .. k : p[n] = q[n]
      BY <1>2
    <2> QED
      BY <1>9, <2>1, TotalNext
  <1> QED
    BY <1>3, <1>6, <1>8, <1>10 DEF Longer

(* The cells of a row make those of the next.                              *)
AreCells(w, s, P, M, k) == \A j \in 1 .. Len(w[k]) : IsCell(w, s, P, M, k, j)
LEMMA CellNext ==
  ASSUME BestPathAssumption, NEW w \in Rows, NEW s \in Shifts, NEW k \in Nat \ {0},
         k + 1 <= Len(w), NEW P, NEW M, NEW Q, NEW L,
         AreCells(w, s, P, M, k),
         \A n \in 1 .. k : L[n] = M[n],
         NEW j, j \in 1 .. Len(w[k + 1]),
         IsChosen(w, s, P, k + 1, j, Q[k + 1][j], L[k + 1][j])
  PROVE  IsCell(w, s, Q, L, k + 1, j)
  <1> DEFINE v == Q[k + 1][j]
             pre == L[k + 1][j]
             t == Trail(M, k, pre)
             u == Trail(L, k + 1, j)
  <1>1. Len(w) \in Nat /\ (k + 1) - 1 = k /\ k \in 1 .. Len(w)
    BY RowsAre
  <1>2. /\ v \in 0 .. None
        /\ \A i : Reaches(w, s, P, k + 1, j, i) => v <= Over(w, s, P, k + 1, j, i)
        /\ v # None => Reaches(w, s, P, k + 1, j, pre) /\ v = Over(w, s, P, k + 1, j, pre)
    BY DEF IsChosen
  <1>3. \A i : Reaches(w, s, P, k + 1, j, i) <=>
                 /\ i \in 1 .. Len(w[k])
                 /\ s[<<w[k][i], w[k + 1][j]>>] # None /\ P[k][i] # None
    BY <1>1 DEF Reaches
  <1>4. \A i : Over(w, s, P, k + 1, j, i) = s[<<w[k][i], w[k + 1][j]>>] + P[k][i]
    BY <1>1 DEF Over
  <1>5. Extends(k, t, j, u)
    <2>1. GoesOn(M, L, k, j, pre)
      BY TrailNext
    <2> QED
      BY <2>1 DEF GoesOn, Extends
  <1>6. v = Q[k + 1][j]
    OBVIOUS
  <1>7. t = Trail(M, k, pre) /\ u = Trail(L, k + 1, j)
    OBVIOUS
  <1> HIDE DEF v, pre, t, u
  <1>8. ASSUME NEW q, IsWay(w, s, k + 1, q), q[k + 1] = j
        PROVE  v <= Total(w, s, k + 1, q)
    <2> DEFINE p == [n \in 1 .. k |-> q[n]]
    <2>1. /\ IsWay(w, s, k, p)
          /\ Step(w, s, q, k) \in Nat /\ Step(w, s, q, k) # None
          /\ Total(w, s, k + 1, q) = Total(w, s, k, p) + Step(w, s, q, k)
      BY <1>8, WayBegins
    <2>2. p[k] = q[k]
      OBVIOUS
    <2> HIDE DEF p
    <2>3. p[k] \in 1 .. Len(w[k])
      BY <1>1, <2>1 DEF IsWay
    <2>4. IsCell(w, s, P, M, k, p[k])
      BY <2>3 DEF AreCells
    <2> DEFINE i == p[k]
    <2>5. i = p[k] /\ IsCell(w, s, P, M, k, i)
      BY <2>4
    <2> HIDE DEF i
    <2>6. /\ P[k][i] \in Nat /\ P[k][i] # None
          /\ P[k][i] <= Total(w, s, k, p) /\ Total(w, s, k, p) \in Nat
      <3>1. IsWay(w, s, k, p) /\ p[k] = i /\ IsCell(w, s, P, M, k, i) /\ k \in 1 .. Len(w)
        BY <1>1, <2>1, <2>5
      <3>2. IsLighter(w, s, P, k, p, i)
        BY <3>1, NoneHasNoWay
      <3> QED
        BY <3>2 DEF IsLighter
    <2>7. Step(w, s, q, k) = s[<<w[k][i], w[k + 1][j]>>]
      BY <1>8, <2>2, <2>5 DEF Step
    <2>8. v <= Step(w, s, q, k) + P[k][i]
      <3>1. Reaches(w, s, P, k + 1, j, i)
        BY <1>3, <2>1, <2>3, <2>5, <2>6, <2>7
      <3>2. v <= Over(w, s, P, k + 1, j, i)
        BY <1>2, <3>1
      <3> QED
        BY <1>4, <2>7, <3>2
    <2> DEFINE a == P[k][i]
               b == Step(w, s, q, k)
               c == Total(w, s, k, p)
    <2>10. v \in Nat /\ a \in Nat /\ b \in Nat /\ c \in Nat /\ a <= c /\ v <= b + a
      <3>1. v \in Nat
        BY <1>2, CellIsSmall
      <3> QED
        BY <2>1, <2>6, <2>8, <3>1
    <2>11. Total(w, s, k + 1, q) = c + b
      BY <2>1
    <2> HIDE DEF a, b, c
    <2>12. v <= c + b
      BY <2>10
    <2> QED
      BY <2>11, <2>12
  <1>9. ASSUME v # None
        PROVE  IsWay(w, s, k + 1, u) /\ u[k + 1] = j /\ Total(w, s, k + 1, u) = v
    <2>1. /\ pre \in 1 .. Len(w[k]) /\ s[<<w[k][pre], w[k + 1][j]>>] # None /\ P[k][pre] # None
          /\ v = s[<<w[k][pre], w[k + 1][j]>>] + P[k][pre]
      BY <1>2, <1>3, <1>4, <1>9
    <2>2. IsCell(w, s, P, M, k, pre)
      BY <2>1 DEF AreCells
    <2>3. IsWay(w, s, k, t) /\ t[k] = pre /\ Total(w, s, k, t) = P[k][pre]
      BY <1>7, <2>1, <2>2 DEF IsCell
    <2>4. /\ IsWay(w, s, k + 1, u) /\ u[k + 1] = j
          /\ Total(w, s, k + 1, u) = Total(w, s, k, t) + Edge(w, s, k, t[k], j)
      <3>1. Edge(w, s, k, t[k], j) # None
        BY <2>1, <2>3 DEF Edge
      <3>2. Longer(w, s, k, t, j, u)
        BY <1>5, <2>3, <3>1, WayGoesOn
      <3> QED
        BY <3>2 DEF Longer
    <2>5. P[k][pre] \in Nat /\ s[<<w[k][pre], w[k + 1][j]>>] \in Nat
      <3>1. P[k][pre] \in Nat
        <4> DEFINE a == P[k][pre]
        <4>1. a \in 0 .. None
          BY <2>2 DEF IsCell
        <4> HIDE DEF a
        <4>2. a \in Nat
          BY <4>1, CellIsSmall
        <4> QED
          BY <4>2 DEF a
      <3>2. k \in Nat /\ k + 1 \in 1 .. Len(w)
        BY <1>1
      <3>3. w[k][pre] \in Codes /\ w[k + 1][j] \in Codes
        BY <1>1, <2>1, <3>2, RowIs
      <3> QED
        BY <2>1, <3>1, <3>3, ShiftIs
    <2> DEFINE a == P[k][pre]
               b == s[<<w[k][pre], w[k + 1][j]>>]
    <2>6. Total(w, s, k + 1, u) = a + b /\ v = b + a /\ a \in Nat /\ b \in Nat
      BY <2>1, <2>3, <2>4, <2>5 DEF Edge
    <2> HIDE DEF a, b
    <2> QED
      BY <2>4, <2>6
  <1> QED
    BY <1>2, <1>6, <1>7, <1>8, <1>9 DEF IsCell

-----------------------------------------------------------------------------
(***************************************************************************)
(* One call.  Text and Fine are TextTo and Likely for any rows.            *)
(***************************************************************************)
Text(w, p, k) ==
  LET character(n) == w[n][p[n]]
      from == IF character(2) = NUM THEN 3 ELSE 2
  IN  [n \in 1 .. k - from + 1 |-> character(n + from - 1)]
Fine(w, v) == (IF v = 0 THEN 100 ELSE (2000 + 30000 * (Len(w) - 2)) \div v) >= 40

LEMMA TheCall ==
  /\ \A k : WaysTo(k) = Ways(words, shift, k)
  /\ \A k, p : Sum(k, p) = Total(words, shift, k, p)
  /\ \A k, j : Back(k, j) = Trail(pathMatrix, k, j)
  /\ \A p, k : TextTo(p, k) = Text(words, p, k)
  /\ \A v : Likely(v) <=> Fine(words, v)
  <1>1. \A k : WaysTo(k) = Ways(words, shift, k)
    BY DEF WaysTo, Ways, Into, Step
  <1>2. \A k, p : Sum(k, p) = Total(words, shift, k, p)
    BY DEF Sum, Total, Into, Step
  <1>3. \A k, j : Back(k, j) = Trail(pathMatrix, k, j)
    BY DEF Back, Trail
  <1>4. \A p, k : TextTo(p, k) = Text(words, p, k)
    BY DEF TextTo, Text
  <1>5. \A v : Likely(v) <=> Fine(words, v)
    BY DEF Likely, Weight, Fine
  <1> QED
    BY <1>1, <1>2, <1>3, <1>4, <1>5

LEMMA MinIs ==
  ASSUME NEW S, S \subseteq Nat, S # {}
  PROVE  Min(S) \in S /\ \A m \in S : Min(S) <= m
  <1>1. PICK n \in S : \A m \in S : n <= m
    BY Least
  <1> QED
    BY <1>1 DEF Min

(* A lighter text is as good.                                              *)
LEMMA FineBound ==
  ASSUME NEW c \in Nat, NEW v \in Nat, v # 0
  PROVE  c \div v >= 40 <=> c >= 40 * v
  BY Z3

LEMMA FineDown ==
  ASSUME BestPathAssumption, NEW w \in Rows, NEW u \in Nat, NEW v \in Nat, u <= v, Fine(w, v)
  PROVE  Fine(w, u)
  <1> DEFINE c == 2000 + 30000 * (Len(w) - 2)
  <1>1. c \in Nat
    <2>1. Len(w) \in Nat /\ 3 <= Len(w)
      BY RowsAre
    <2> DEFINE n == Len(w)
    <2>2. n \in Nat /\ 3 <= n
      BY <2>1
    <2> HIDE DEF n
    <2>3. 2000 + 30000 * (n - 2) \in Nat
      BY <2>2
    <2> QED
      BY <2>3 DEF n
  <1>2. Fine(w, u) <=> (u = 0 \/ c \div u >= 40)
    BY DEF Fine
  <1>3. Fine(w, v) <=> (v = 0 \/ c \div v >= 40)
    BY DEF Fine
  <1> HIDE DEF c
  <1>4. CASE u = 0
    BY <1>2, <1>4
  <1>5. CASE u # 0
    <2>1. v # 0
      BY <1>5
    <2>2. c >= 40 * v
      BY <1>1, <1>3, <2>1, FineBound
    <2>3. c >= 40 * u
      BY <1>1, <2>2
    <2> QED
      BY <1>1, <1>2, <1>5, <2>3, FineBound
  <1> QED
    BY <1>4, <1>5

(* getMinValPos.                                                           *)
LEMMA MinValPosIs ==
  ASSUME NEW row \in Seq(0 .. None)
  PROVE  /\ MinValPos(row) = 0 => \A j \in 1 .. Len(row) : row[j] = None
         /\ MinValPos(row) # 0 =>
              /\ MinValPos(row) \in 1 .. Len(row) /\ row[MinValPos(row)] # None
              /\ \A l \in 1 .. Len(row) : row[MinValPos(row)] <= row[l]
  <1> DEFINE light == {j \in DOMAIN row : row[j] # None /\ \A l \in DOMAIN row : row[j] <= row[l]}
             R == {row[j] : j \in DOMAIN row}
  <1>1. DOMAIN row = 1 .. Len(row) /\ Len(row) \in Nat
    OBVIOUS
  <1>2. \A j \in DOMAIN row : row[j] \in Nat /\ row[j] <= None
    <2> DEFINE V == 0 .. None
    <2>1. row \in Seq(V) /\ \A v \in V : v \in Nat /\ v <= None
      BY CellIsSmall
    <2> HIDE DEF V
    <2>2. \A j \in DOMAIN row : row[j] \in V
      BY <2>1
    <2> QED
      BY <2>1, <2>2
  <1>3. ASSUME light = {}, NEW j \in DOMAIN row PROVE row[j] = None
    <2>1. PICK m \in R : \A x \in R : m <= x
      <3>1. R \subseteq Nat /\ R # {}
        BY <1>2
      <3> HIDE DEF R
      <3> QED
        BY <3>1, Least
    <2>2. PICK i \in DOMAIN row : m = row[i]
      BY <2>1
    <2>3. \A l \in DOMAIN row : row[i] <= row[l]
      BY <2>1, <2>2
    <2>4. row[i] = None
      BY <1>3, <2>3
    <2> DEFINE x == row[j]
    <2>5. None <= x /\ x \in Nat /\ x <= None
      BY <1>2, <2>3, <2>4
    <2> HIDE DEF x
    <2>6. x = None
      BY <2>5, NoneIsNat
    <2> QED
      BY <2>6 DEF x
  <1>4. MinValPos(row) = IF light = {} THEN 0 ELSE Min(light)
    BY DEF MinValPos
  <1>5. light # {} => Min(light) \in light
    <2>1. light \subseteq Nat
      BY <1>1
    <2> HIDE DEF light
    <2> QED
      BY <2>1, MinIs
  <1>6. CASE light = {}
    BY <1>1, <1>3, <1>4, <1>6
  <1>7. CASE light # {}
    <2>1. MinValPos(row) \in light
      BY <1>4, <1>5, <1>7
    <2>2. MinValPos(row) # 0
      BY <1>1, <2>1
    <2> QED
      BY <1>1, <2>1, <2>2
  <1> QED
    BY <1>6, <1>7

(* What a row is made of.                                                  *)
AreSmall(w, P, k) == \A i \in 1 .. Len(w[k]) : P[k][i] \in 0 .. None
LEMMA Chosen ==
  ASSUME BestPathAssumption, words \in Rows, shift \in Shifts,
         NEW k \in 2 .. Len(words), NEW j \in 1 .. Len(words[k]),
         AreSmall(words, probMatrix, k - 1)
  PROVE  /\ IsChosen(words, shift, probMatrix, k, j, Lightest(k, j), Previous(k, j))
         /\ Previous(k, j) \in Nat
  <1> DEFINE ways == {Way(k, j, pre) : pre \in Reachable(k, j)}
             all == ways \union {None}
             reach == Reachable(k, j)
             v == Lightest(k, j)
             best == {p \in reach : Way(k, j, p) = v /\ Way(k, j, p) < None}
  <1>1. Len(words) \in Nat /\ k \in 1 .. Len(words) /\ k - 1 \in 1 .. Len(words)
    <2>1. Len(words) \in Nat
      BY RowsAre
    <2> QED
      BY <2>1
  <1>2. \A i : i \in reach <=> Reaches(words, shift, probMatrix, k, j, i)
    <2>1. DOMAIN words[k - 1] = 1 .. Len(words[k - 1])
      BY <1>1, RowIs
    <2> QED
      BY <2>1 DEF Reachable, Reaches
  <1>3. \A i : Way(k, j, i) = Over(words, shift, probMatrix, k, j, i)
    BY DEF Way, Over
  <1>4. ASSUME NEW i \in reach PROVE i \in Nat /\ Way(k, j, i) \in Nat
    <2>1. i \in 1 .. Len(words[k - 1]) /\ shift[<<words[k - 1][i], words[k][j]>>] # None
      BY <1>2, <1>4 DEF Reaches
    <2>2. words[k - 1][i] \in Codes /\ words[k][j] \in Codes
      BY <1>1, <2>1, RowIs
    <2>3. shift[<<words[k - 1][i], words[k][j]>>] \in Nat
      BY <2>1, <2>2, ShiftIs
    <2>4. probMatrix[k - 1][i] \in 0 .. None
      BY <2>1 DEF AreSmall
    <2> DEFINE x == probMatrix[k - 1][i]
    <2>5. x \in Nat
      <3> HIDE DEF x
      <3>1. x \in 0 .. None
        BY <2>4 DEF x
      <3> QED
        BY <3>1, CellIsSmall
    <2>6. i \in Nat
      <3>1. Len(words[k - 1]) \in Nat
        BY <1>1, RowIs
      <3> QED
        BY <2>1, <3>1
    <2> QED
      BY <2>3, <2>5, <2>6 DEF Way
  <1>5. all \subseteq Nat /\ all # {}
    <2>1. ways \subseteq Nat
      BY <1>4
    <2> QED
      BY <2>1, NoneIsNat
  <1>6. v = Min(all)
    BY DEF Lightest
  <1>7. v \in all /\ \A m \in all : v <= m
    <2> HIDE DEF all, v
    <2> QED
      BY <1>5, <1>6, MinIs
  <1>8. v \in Nat /\ v <= None
    BY <1>5, <1>7
  <1>9. v \in 0 .. None
    <2> HIDE DEF v
    <2> QED
      BY <1>8, SmallIsCell
  <1>10. \A i : Reaches(words, shift, probMatrix, k, j, i) =>
               v <= Over(words, shift, probMatrix, k, j, i)
    <2> SUFFICES ASSUME NEW i, Reaches(words, shift, probMatrix, k, j, i)
                 PROVE  v <= Over(words, shift, probMatrix, k, j, i)
      OBVIOUS
    <2>1. Way(k, j, i) \in all
      BY <1>2
    <2> QED
      BY <1>3, <1>7, <2>1
  <1>11. Previous(k, j) = IF best = {} THEN 1 ELSE Min(best)
    BY DEF Previous
  <1>12. best \subseteq Nat
    BY <1>4
  <1>13. best # {} => Min(best) \in best
    <2> HIDE DEF best
    <2> QED
      BY <1>12, MinIs
  <1>14. Previous(k, j) \in Nat
    BY <1>11, <1>12, <1>13
  <1>15. ASSUME v # None PROVE /\ Reaches(words, shift, probMatrix, k, j, Previous(k, j))
                               /\ v = Over(words, shift, probMatrix, k, j, Previous(k, j))
    <2>1. v \in ways /\ v < None
      <3>1. v \in ways
        BY <1>7, <1>15
      <3>2. v < None
        <4> HIDE DEF v
        <4> QED
          BY <1>8, <1>15, NoneIsNat
      <3> QED
        BY <3>1, <3>2
    <2>2. PICK i \in reach : v = Way(k, j, i)
      BY <2>1
    <2>3. i \in best
      BY <2>1, <2>2
    <2>4. Previous(k, j) \in best
      BY <1>11, <1>13, <2>3
    <2> QED
      BY <1>2, <1>3, <2>4
  <1> HIDE DEF v
  <1>16. IsChosen(words, shift, probMatrix, k, j, v, Previous(k, j))
    BY <1>9, <1>10, <1>15 DEF IsChosen
  <1> QED
    BY <1>14, <1>16 DEF v

-----------------------------------------------------------------------------
(***************************************************************************)
(* The two matrices, as far as they are computed; t is the place of the    *)
(* row before END that was struck out.                                     *)
(***************************************************************************)
Pointers(w, P, M, k) ==
  /\ Len(P[k]) = Len(w[k]) /\ Len(M[k]) = Len(w[k])
  /\ \A j \in 1 .. Len(w[k]) : P[k][j] # None /\ k > 1 => M[k][j] \in 1 .. Len(w[k - 1])
Matrices(w, P, M) ==
  /\ P \in Seq(Seq(0 .. None)) /\ M \in Seq(Seq(Nat))
  /\ Len(P) = Len(M) /\ Len(P) \in 1 .. Len(w)
  /\ \A k \in 1 .. Len(P) : Pointers(w, P, M, k)
Cells(w, s, P, M, t) ==
  \A k \in 1 .. Len(P) : \A j \in 1 .. Len(w[k]) :
    (k = Len(w) - 1 /\ j = t) \/ IsCell(w, s, P, M, k, j)

(* A trail depends on the rows it passes.                                  *)
LEMMA TrailOne ==
  ASSUME NEW M, NEW j
  PROVE  Trail(M, 1, j) = [n \in 1 .. 1 |-> j]
  <1>1. PICK f : Follows(M, 1, j, f)
    BY TrailFollows
  <1>2. f[0] = j /\ Trail(M, 1, j) = [n \in 1 .. 1 |-> f[1 - n]]
    BY <1>1 DEF Follows
  <1>3. \A n \in 1 .. 1 : f[1 - n] = j
    BY <1>2
  <1> QED
    BY <1>2, <1>3

LEMMA TrailSame ==
  ASSUME NEW M, NEW L, NEW k \in Nat \ {0}, NEW j, \A n \in 1 .. k : L[n] = M[n]
  PROVE  Trail(L, k, j) = Trail(M, k, j)
  <1>1. CASE k = 1
    BY <1>1, TrailOne
  <1>2. CASE k # 1
    <2> DEFINE h == k - 1
               i == M[k][j]
    <2>1. h \in Nat \ {0} /\ h + 1 = k /\ k \in 1 .. k
      BY <1>2
    <2>2. \A n \in 1 .. h : L[n] = M[n] /\ M[n] = M[n]
      BY <2>1
    <2>3. L[k][j] = i
      BY <2>1
    <2> HIDE DEF h, i
    <2>4. GoesOn(M, L, h, j, L[h + 1][j]) /\ GoesOn(M, M, h, j, M[h + 1][j])
      BY <2>1, <2>2, TrailNext
    <2>5. GoesOn(M, L, h, j, i) /\ GoesOn(M, M, h, j, i)
      BY <2>1, <2>3, <2>4 DEF i
    <2>6. Trail(L, h + 1, j) = Trail(M, h + 1, j)
      BY <2>5 DEF GoesOn
    <2> QED
      BY <2>1, <2>6
  <1> QED
    BY <1>1, <1>2

LEMMA CellSame ==
  ASSUME NEW w, NEW s, NEW P, NEW M, NEW Q, NEW L, NEW k \in Nat \ {0}, NEW j,
         IsCell(w, s, P, M, k, j), Q[k][j] = P[k][j], \A n \in 1 .. k : L[n] = M[n]
  PROVE  IsCell(w, s, Q, L, k, j)
  <1>1. Trail(L, k, j) = Trail(M, k, j)
    BY TrailSame
  <1> QED
    BY <1>1 DEF IsCell

LEMMA FunctionIsSeq ==
  ASSUME NEW n \in Nat, NEW S, NEW f, f = [j \in 1 .. n |-> f[j]], \A j \in 1 .. n : f[j] \in S
  PROVE  f \in Seq(S) /\ Len(f) = n
  <1>1. f \in [1 .. n -> S]
    OBVIOUS
  <1> QED
    BY <1>1

LEMMA SeqExcept ==
  ASSUME NEW S, NEW f \in Seq(S), NEW n \in 1 .. Len(f), NEW x \in S,
         NEW g, g = [f EXCEPT ![n] = x]
  PROVE  g \in Seq(S) /\ Len(g) = Len(f) /\ g[n] = x /\ \A i \in 1 .. Len(f) : i # n => g[i] = f[i]
  OBVIOUS

(* One row more.                                                           *)
IsRow(w, k, r) == r = [j \in 1 .. Len(w[k]) |-> r[j]]
AreNext(w, k, r, q) ==
  /\ IsRow(w, k, r) /\ IsRow(w, k, q)
  /\ \A j \in 1 .. Len(w[k]) : r[j] \in 0 .. None
  /\ \A j \in 1 .. Len(w[k]) : q[j] \in Nat
  /\ \A j \in 1 .. Len(w[k]) : r[j] # None => q[j] \in 1 .. Len(w[k - 1])

LEMMA NextIsSeq ==
  ASSUME NEW w, NEW k, NEW r, NEW q, AreNext(w, k, r, q), Len(w[k]) \in Nat
  PROVE  /\ r \in Seq(0 .. None) /\ q \in Seq(Nat) /\ Len(r) = Len(w[k]) /\ Len(q) = Len(w[k])
         /\ \A j \in 1 .. Len(w[k]) : r[j] # None => q[j] \in 1 .. Len(w[k - 1])
  <1> DEFINE m == Len(w[k])
             V == 0 .. None
             B == 1 .. Len(w[k - 1])
  <1>1. /\ m \in Nat
        /\ \A j \in 1 .. m : r[j] \in V
        /\ \A j \in 1 .. m : q[j] \in Nat
        /\ \A j \in 1 .. m : r[j] # None => q[j] \in B
    BY Zenon DEF AreNext
  <1>2. r = [j \in 1 .. m |-> r[j]] /\ q = [j \in 1 .. m |-> q[j]]
    BY DEF AreNext, IsRow
  <1> HIDE DEF m, V, B
  <1>3. r \in Seq(V) /\ Len(r) = m
    BY <1>1, <1>2, FunctionIsSeq
  <1>4. q \in Seq(Nat) /\ Len(q) = m
    BY <1>1, <1>2, FunctionIsSeq
  <1> QED
    BY <1>1, <1>3, <1>4 DEF m, V, B

LEMMA MatricesGrow ==
  ASSUME BestPathAssumption, NEW w \in Rows, NEW P, NEW M, Matrices(w, P, M), Len(P) < Len(w),
         NEW k, k = Len(P) + 1, NEW r, NEW q, AreNext(w, k, r, q)
  PROVE  Matrices(w, Append(P, r), Append(M, q))
  <1> DEFINE V == 0 .. None
             A == Append(P, r)
             B == Append(M, q)
             n == Len(P)
  <1>1. P \in Seq(Seq(V)) /\ M \in Seq(Seq(Nat)) /\ Len(P) = Len(M) /\ n \in Nat /\ 1 <= n
    BY DEF Matrices
  <1>2. Len(w) \in Nat /\ k \in 1 .. Len(w)
    <2>1. Len(w) \in Nat
      BY RowsAre
    <2> QED
      BY <1>1, <2>1
  <1>3. Len(w[k]) \in Nat
    BY <1>2, RowIs
  <1>4. r \in Seq(V) /\ q \in Seq(Nat) /\ Len(r) = Len(w[k]) /\ Len(q) = Len(w[k])
    BY <1>3, NextIsSeq
  <1>5. \A j \in 1 .. Len(w[k]) : r[j] # None => q[j] \in 1 .. Len(w[k - 1])
    BY <1>3, NextIsSeq
  <1>6. \A h \in 1 .. n : Pointers(w, P, M, h)
    BY DEF Matrices
  <1>7. k = n + 1
    OBVIOUS
  <1> HIDE DEF V
  <1>9. /\ A \in Seq(Seq(V)) /\ B \in Seq(Seq(Nat)) /\ Len(A) = n + 1 /\ Len(B) = n + 1
        /\ A[n + 1] = r /\ B[n + 1] = q
        /\ \A h \in 1 .. n : A[h] = P[h] /\ B[h] = M[h]
    BY <1>1, <1>4
  <1> HIDE DEF A, B, n
  <1>10. ASSUME NEW h \in 1 .. Len(A) PROVE Pointers(w, A, B, h)
    <2>1. CASE h = n + 1
      <3>1. A[h] = r /\ B[h] = q /\ h = k
        BY <1>7, <1>9, <2>1
      <3> QED
        BY <1>5, <1>4, <3>1 DEF Pointers
    <2>2. CASE h # n + 1
      <3>1. h \in 1 .. n
        BY <1>1, <1>9, <2>2
      <3>2. A[h] = P[h] /\ B[h] = M[h]
        BY <1>9, <3>1
      <3> QED
        BY <1>6, <3>1, <3>2 DEF Pointers
    <2> QED
      BY <2>1, <2>2
  <1>11. Len(A) = Len(B) /\ Len(A) \in 1 .. Len(w)
    BY <1>1, <1>2, <1>7, <1>9
  <1> QED
    BY <1>9, <1>10, <1>11 DEF Matrices, V, A, B

LEMMA CellsGrow ==
  ASSUME BestPathAssumption, NEW w \in Rows, NEW s \in Shifts, NEW P, NEW M,
         Matrices(w, P, M), Len(P) < Len(w), Cells(w, s, P, M, 0),
         NEW k, k = Len(P) + 1, NEW r, NEW q,
         \A j \in 1 .. Len(w[k]) : IsChosen(w, s, P, k, j, r[j], q[j])
  PROVE  Cells(w, s, Append(P, r), Append(M, q), 0)
  <1> DEFINE A == Append(P, r)
             B == Append(M, q)
             n == Len(P)
  <1>1. P \in Seq(Seq(0 .. None)) /\ M \in Seq(Seq(Nat)) /\ Len(P) = Len(M) /\ n \in Nat /\ 1 <= n
    BY DEF Matrices
  <1>2. /\ Len(A) = n + 1
        /\ A[n + 1] = r /\ B[n + 1] = q
        /\ \A h \in 1 .. n : A[h] = P[h] /\ B[h] = M[h]
    BY <1>1
  <1>3. k = n + 1 /\ n + 1 <= Len(w) /\ Len(w) \in Nat
    <2>1. Len(w) \in Nat
      BY RowsAre
    <2> QED
      BY <1>1, <2>1
  <1>4. \A h \in 1 .. n : \A j \in 1 .. Len(w[h]) : IsCell(w, s, P, M, h, j)
    <2> SUFFICES ASSUME NEW h \in 1 .. n, NEW j \in 1 .. Len(w[h]) PROVE IsCell(w, s, P, M, h, j)
      OBVIOUS
    <2>1. j # 0
      OBVIOUS
    <2> QED
      BY <2>1 DEF Cells
  <1> HIDE DEF A, B, n
  <1>5. ASSUME NEW h \in 1 .. Len(A), NEW j \in 1 .. Len(w[h]) PROVE IsCell(w, s, A, B, h, j)
    <2>1. CASE h = n + 1
      <3>1. AreCells(w, s, P, M, n)
        BY <1>1, <1>4 DEF AreCells
      <3>2. IsChosen(w, s, P, n + 1, j, A[n + 1][j], B[n + 1][j]) /\ j \in 1 .. Len(w[n + 1])
        BY <1>2, <1>3, <2>1
      <3>3. n \in Nat \ {0} /\ \A i \in 1 .. n : B[i] = M[i]
        BY <1>1, <1>2
      <3>4. IsCell(w, s, A, B, n + 1, j)
        BY <1>3, <3>1, <3>2, <3>3, CellNext
      <3> QED
        BY <2>1, <3>4
    <2>2. CASE h # n + 1
      <3>1. h \in 1 .. n /\ h \in Nat \ {0}
        BY <1>1, <1>2, <2>2
      <3>2. A[h] = P[h] /\ \A i \in 1 .. h : B[i] = M[i]
        BY <1>1, <1>2, <3>1
      <3>3. IsCell(w, s, P, M, h, j)
        BY <1>4, <3>1
      <3> QED
        BY <3>1, <3>2, <3>3, CellSame
    <2> QED
      BY <2>1, <2>2
  <1> QED
    BY <1>5 DEF Cells, A, B

(* A place struck out.                                                     *)
LEMMA StruckOut ==
  ASSUME BestPathAssumption, NEW w \in Rows, NEW s \in Shifts, NEW P, NEW M,
         Matrices(w, P, M), Len(P) = Len(w), Cells(w, s, P, M, 0),
         NEW n, n = Len(w) - 1, NEW t \in 1 .. Len(w[n])
  PROVE  /\ Matrices(w, Struck(P, n, t), M) /\ Cells(w, s, Struck(P, n, t), M, t)
         /\ Struck(P, n, t)[n][t] = None /\ Len(Struck(P, n, t)) = Len(P)
  <1> DEFINE V == 0 .. None
             A == Struck(P, n, t)
             R == Seq(V)
  <1>1. P \in Seq(R) /\ M \in Seq(Seq(Nat)) /\ Len(P) = Len(M) /\ Len(P) \in 1 .. Len(w)
    BY DEF Matrices
  <1>2. \A h \in 1 .. Len(P) : Pointers(w, P, M, h)
    BY DEF Matrices
  <1>3. Len(w) \in Nat /\ n \in 1 .. Len(P) /\ n \in 1 .. Len(w)
    <2>1. Len(w) \in Nat /\ 3 <= Len(w)
      BY RowsAre
    <2> QED
      BY <2>1
  <1>4. None \in V
    BY NoneIsNat, SmallIsCell
  <1>5. Len(P[n]) = Len(w[n]) /\ P[n] \in R
    <2>1. P[n] \in R
      <3> HIDE DEF R
      <3> QED
        BY <1>1, <1>3
    <2> QED
      BY <1>2, <1>3, <2>1 DEF Pointers
  <1>6. A = [P EXCEPT ![n] = [P[n] EXCEPT ![t] = None]]
    <2>1. DOMAIN P = 1 .. Len(P)
      <3> HIDE DEF R
      <3> QED
        BY <1>1
    <2> QED
      BY <1>3, <2>1 DEF Struck
  <1> DEFINE row == [P[n] EXCEPT ![t] = None]
  <1>7. row \in R /\ Len(row) = Len(P[n]) /\ row[t] = None /\ \A j \in 1 .. Len(w[n]) : j # t => row[j] = P[n][j]
    <2> HIDE DEF V
    <2> QED
      BY <1>4, <1>5
  <1> HIDE DEF A, row, R
  <1>8. A \in Seq(R) /\ Len(A) = Len(P) /\ A[n] = row /\ \A h \in 1 .. Len(P) : h # n => A[h] = P[h]
    <2>1. A = [P EXCEPT ![n] = row]
      BY <1>6 DEF row
    <2>2. P \in Seq(R) /\ n \in 1 .. Len(P) /\ row \in R
      BY <1>1, <1>3, <1>7
    <2> QED
      BY <2>1, <2>2, SeqExcept
  <1>9. ASSUME NEW h \in 1 .. Len(A) PROVE Pointers(w, A, M, h)
    <2>1. CASE h = n
      <3>1. \A j \in 1 .. Len(w[h]) : A[h][j] # None => A[h][j] = P[h][j]
        BY <1>7, <1>8, <2>1
      <3>2. Len(A[h]) = Len(P[h])
        BY <1>7, <1>8, <2>1
      <3>3. Pointers(w, P, M, h)
        BY <1>2, <1>8
      <3> QED
        BY <3>1, <3>2, <3>3 DEF Pointers
    <2>2. CASE h # n
      <3>1. A[h] = P[h] /\ Pointers(w, P, M, h)
        BY <1>2, <1>8, <2>2
      <3> QED
        BY <3>1 DEF Pointers
    <2> QED
      BY <2>1, <2>2
  <1>10. Matrices(w, A, M)
    BY <1>1, <1>8, <1>9 DEF Matrices, R, V
  <1>11. ASSUME NEW h \in 1 .. Len(A), NEW j \in 1 .. Len(w[h]), ~ (h = n /\ j = t)
         PROVE  IsCell(w, s, A, M, h, j)
    <2>1. h \in 1 .. Len(P) /\ h \in Nat \ {0} /\ j # 0
      BY <1>1, <1>8
    <2>2. IsCell(w, s, P, M, h, j)
      BY <2>1 DEF Cells
    <2>3. A[h][j] = P[h][j]
      BY <1>7, <1>8, <1>11, <2>1
    <2>4. \A i \in 1 .. h : M[i] = M[i]
      OBVIOUS
    <2> QED
      BY <2>1, <2>2, <2>3, <2>4, CellSame
  <1>12. Cells(w, s, A, M, t)
    BY <1>11 DEF Cells
  <1> QED
    BY <1>7, <1>8, <1>10, <1>12 DEF A

(* Where the lightest way to row k ends, the place t left aside.           *)
AreCellsBut(w, s, P, M, k, t) ==
  \A j \in 1 .. Len(w[k]) : IF j = t THEN P[k][j] = None ELSE IsCell(w, s, P, M, k, j)
BestPlace(w, s, P, M, k, t, j) ==
  /\ j = 0 => \A p : IsWay(w, s, k, p) => p[k] = t
  /\ j # 0 => /\ j \in 1 .. Len(w[k]) /\ j # t /\ P[k][j] \in Nat /\ P[k][j] # None
              /\ IsWay(w, s, k, Trail(M, k, j)) /\ Trail(M, k, j)[k] = j
              /\ Total(w, s, k, Trail(M, k, j)) = P[k][j]
              /\ \A p : IsWay(w, s, k, p) /\ p[k] # t => P[k][j] <= Total(w, s, k, p)

LEMMA BestPlaceIs ==
  ASSUME BestPathAssumption, NEW w \in Rows, NEW s \in Shifts, NEW k \in 1 .. Len(w),
         NEW P, NEW M, NEW t, P[k] \in Seq(0 .. None), Len(P[k]) = Len(w[k]),
         AreCellsBut(w, s, P, M, k, t), NEW j, j = MinValPos(P[k])
  PROVE  BestPlace(w, s, P, M, k, t, j)
  <1> DEFINE row == P[k]
             m == Len(w[k])
  <1>1. /\ j = 0 => \A i \in 1 .. m : row[i] = None
        /\ j # 0 => j \in 1 .. m /\ row[j] # None /\ \A i \in 1 .. m : row[j] <= row[i]
    <2>1. row \in Seq(0 .. None) /\ Len(row) = m /\ j = MinValPos(row)
      OBVIOUS
    <2> HIDE DEF row, m
    <2> QED
      BY <2>1, MinValPosIs
  <1>2. m \in Nat
    BY RowIs
  <1>3. \A i \in 1 .. m : i # t => IsCell(w, s, P, M, k, i)
    BY DEF AreCellsBut
  <1>4. \A i \in 1 .. m : i = t => row[i] = None
    BY DEF AreCellsBut
  <1>5. ASSUME NEW p, IsWay(w, s, k, p), p[k] # t, NEW i, p[k] = i
        PROVE  /\ i \in 1 .. m /\ row[i] # None
               /\ row[i] \in Nat /\ row[i] <= Total(w, s, k, p) /\ Total(w, s, k, p) \in Nat
    <2>1. i \in 1 .. m
      BY <1>5 DEF IsWay
    <2>2. IsCell(w, s, P, M, k, i)
      BY <1>3, <1>5, <2>1
    <2>3. IsLighter(w, s, P, k, p, i)
      BY <1>5, <2>2, NoneHasNoWay
    <2> QED
      BY <2>1, <2>3 DEF IsLighter
  <1>6. ASSUME j = 0, NEW p, IsWay(w, s, k, p) PROVE p[k] = t
    <2>1. p[k] # t => p[k] \in 1 .. m /\ row[p[k]] # None
      BY <1>5, <1>6
    <2> QED
      BY <1>1, <1>6, <2>1
  <1>7. ASSUME j # 0
        PROVE  /\ j \in 1 .. m /\ j # t /\ row[j] # None
               /\ IsWay(w, s, k, Trail(M, k, j)) /\ Trail(M, k, j)[k] = j
               /\ Total(w, s, k, Trail(M, k, j)) = row[j]
    <2>1. j \in 1 .. m /\ row[j] # None
      BY <1>1, <1>7
    <2>2. j # t
      BY <1>4, <2>1
    <2>3. IsCell(w, s, P, M, k, j)
      BY <1>3, <2>1, <2>2
    <2> QED
      BY <2>1, <2>2, <2>3 DEF IsCell
  <1>8. ASSUME j # 0 PROVE row[j] \in Nat
    <2>1. IsWay(w, s, k, Trail(M, k, j)) /\ Total(w, s, k, Trail(M, k, j)) = row[j]
      BY <1>7, <1>8
    <2>2. Total(w, s, k, Trail(M, k, j)) \in Nat
      BY <2>1, TotalFits
    <2> QED
      BY <2>1, <2>2
  <1>9. ASSUME j # 0, NEW p, IsWay(w, s, k, p), p[k] # t PROVE row[j] <= Total(w, s, k, p)
    <2> DEFINE i == p[k]
    <2>1. /\ i \in 1 .. m /\ row[i] \in Nat
          /\ row[i] <= Total(w, s, k, p) /\ Total(w, s, k, p) \in Nat
      BY <1>5, <1>9
    <2>2. row[j] <= row[i]
      BY <1>1, <1>9, <2>1
    <2>3. row[j] \in Nat
      BY <1>8, <1>9
    <2> HIDE DEF row, i
    <2> QED
      BY <2>1, <2>2, <2>3
  <1> QED
    BY <1>6, <1>7, <1>8, <1>9 DEF BestPlace

(* The way back passes the place that is noted.                            *)
LEMMA TrailBefore ==
  ASSUME NEW M, NEW k \in Nat, k >= 2, NEW j
  PROVE  Trail(M, k, j)[k - 1] = M[k][j]
  <1> DEFINE h == k - 1
             i == M[k][j]
  <1>1. h \in Nat \ {0} /\ h + 1 = k
    OBVIOUS
  <1>2. i = M[h + 1][j]
    BY <1>1
  <1> HIDE DEF h, i
  <1>3. GoesOn(M, M, h, j, i)
    <2>1. GoesOn(M, M, h, j, M[h + 1][j])
      BY <1>1, TrailNext
    <2> QED
      BY <1>2, <2>1
  <1>4. Trail(M, h + 1, j)[h] = Trail(M, h, i)[h]
    BY <1>1, <1>3 DEF GoesOn
  <1>5. PICK f : Follows(M, h, i, f)
    BY <1>1, TrailFollows
  <1>6. f[0] = i /\ Trail(M, h, i) = [n \in 1 .. h |-> f[h - n]]
    BY <1>5 DEF Follows
  <1>7. Trail(M, h, i)[h] = i
    BY <1>1, <1>6
  <1> QED
    BY <1>1, <1>4, <1>7 DEF h, i

(* The text of a way.                                                      *)
LEMMA TextIs ==
  ASSUME BestPathAssumption, NEW w \in Rows, NEW s, NEW n \in 1 .. Len(w), NEW p,
         IsWay(w, s, n, p), NEW k \in Nat, 2 <= k, k <= n
  PROVE  Text(w, p, k) \in Seq(Codes)
  <1> DEFINE from == IF w[2][p[2]] = NUM THEN 3 ELSE 2
             m == k - from + 1
             T == Text(w, p, k)
  <1>1. from \in Nat /\ 2 <= from /\ m \in Nat
    OBVIOUS
  <1>2. T = [i \in 1 .. m |-> w[i + from - 1][p[i + from - 1]]]
    BY DEF Text
  <1>3. ASSUME NEW i \in 1 .. m PROVE w[i + from - 1][p[i + from - 1]] \in Codes
    <2> DEFINE h == i + from - 1
    <2>0. Len(w) \in Nat
      BY RowsAre
    <2>1. h \in 1 .. n /\ h \in 1 .. Len(w)
      BY <1>1, <2>0
    <2> HIDE DEF h
    <2>2. p[h] \in 1 .. Len(w[h])
      BY <2>1 DEF IsWay
    <2>3. w[h][p[h]] \in Codes
      BY <2>1, <2>2, RowIs
    <2> QED
      BY <2>3 DEF h
  <1> HIDE DEF from
  <1>4. T = [i \in 1 .. m |-> T[i]] /\ \A i \in 1 .. m : T[i] \in Codes
    BY <1>2, <1>3
  <1> HIDE DEF T, m
  <1> QED
    BY <1>1, <1>4, FunctionIsSeq DEF T

LEMMA TextsDiffer ==
  ASSUME BestPathAssumption, NEW w \in Rows, NEW s, NEW n \in 1 .. Len(w), NEW l \in 1 .. Len(w),
         NEW p, NEW q, IsWay(w, s, n, p), IsWay(w, s, l, q),
         NEW k \in Nat, 2 <= k, k <= n, k <= l, p[k] # q[k]
  PROVE  Text(w, p, k) # Text(w, q, k)
  <1> DEFINE a == IF w[2][p[2]] = NUM THEN 3 ELSE 2
             b == IF w[2][q[2]] = NUM THEN 3 ELSE 2
             T == Text(w, p, k)
             U == Text(w, q, k)
  <1>1. /\ T = [i \in 1 .. k - a + 1 |-> w[i + a - 1][p[i + a - 1]]]
        /\ U = [i \in 1 .. k - b + 1 |-> w[i + b - 1][q[i + b - 1]]]
    BY DEF Text
  <1>2. a \in Nat /\ b \in Nat /\ 2 <= a /\ 2 <= b /\ a <= 3 /\ b <= 3
    OBVIOUS
  <1>3. k \in 1 .. Len(w)
    <2>1. Len(w) \in Nat
      BY RowsAre
    <2> QED
      BY <2>1
  <1>4. w[k][p[k]] # w[k][q[k]]
    <2>1. p[k] \in 1 .. Len(w[k]) /\ q[k] \in 1 .. Len(w[k])
      BY DEF IsWay
    <2>2. IsInjective(w[k])
      BY <1>3, RowsAre
    <2>3. DOMAIN w[k] = 1 .. Len(w[k])
      BY <1>3, RowIs
    <2> QED
      BY <2>1, <2>2, <2>3 DEF IsInjective
  <1>5. k = 2 => ~ (a = 3 /\ b = 3)
    BY <1>4
  <1> HIDE DEF a, b, T, U
  <1>6. SUFFICES ASSUME T = U PROVE FALSE
    BY DEF T, U
  <1> DEFINE m == k - a + 1
             h == k - b + 1
  <1>7. m \in Nat /\ h \in Nat
    BY <1>2
  <1>8. m = h
    <2>1. DOMAIN T = 1 .. m /\ DOMAIN U = 1 .. h
      BY <1>1
    <2> HIDE DEF m, h
    <2>2. 1 .. m = 1 .. h
      BY <1>6, <2>1
    <2> QED
      BY <1>7, <2>2
  <1>9. a = b
    BY <1>2, <1>8
  <1>10. m \in 1 .. m /\ m + a - 1 = k
    BY <1>2, <1>5, <1>9
  <1>11. T[m] = w[k][p[k]] /\ U[m] = w[k][q[k]]
    <2>1. T[m] = w[m + a - 1][p[m + a - 1]]
      BY <1>1, <1>10
    <2>2. U[m] = w[m + a - 1][q[m + a - 1]]
      BY <1>1, <1>9, <1>10
    <2> QED
      BY <1>10, <2>1, <2>2
  <1> QED
    BY <1>4, <1>6, <1>11

-----------------------------------------------------------------------------
(***************************************************************************)
(* The two results: x is a text, v its weight, t the place where the first *)
(* text passes the row before END.                                         *)
(***************************************************************************)
IsFirst(w, s, x, v, t) ==
  /\ \A p : IsWay(w, s, Len(w), p) => v <= Total(w, s, Len(w), p)
  /\ Fine(w, v) /\ v \in Nat /\ t \in 1 .. Len(w[Len(w) - 1])
  /\ \E p : /\ IsWay(w, s, Len(w), p) /\ p[Len(w) - 1] = t
            /\ Total(w, s, Len(w), p) = v /\ Text(w, p, Len(w) - 1) = x
NoFirst(w, s) == \A p : IsWay(w, s, Len(w), p) => ~ Fine(w, Total(w, s, Len(w), p))

IsSecond(w, s, x, v, t) ==
  /\ \A p : IsWay(w, s, Len(w) - 1, p) /\ p[Len(w) - 1] # t =>
              v <= Total(w, s, Len(w) - 1, p) + 400
  /\ Fine(w, v) /\ v \in Nat
  /\ \E p : /\ IsWay(w, s, Len(w) - 1, p) /\ p[Len(w) - 1] # t
            /\ Total(w, s, Len(w) - 1, p) + 400 = v /\ Text(w, p, Len(w) - 1) = x
NoSecond(w, s, t) ==
  \A p : IsWay(w, s, Len(w) - 1, p) /\ p[Len(w) - 1] # t =>
           ~ Fine(w, Total(w, s, Len(w) - 1, p) + 400)

LEMMA FirstIs ==
  ASSUME BestPathAssumption, NEW w \in Rows, NEW s \in Shifts, NEW P, NEW M,
         NEW n, n = Len(w), NEW j, BestPlace(w, s, P, M, n, 0, j)
  PROVE  /\ j = 0 \/ ~ Fine(w, P[n][j]) => NoFirst(w, s)
         /\ j # 0 /\ Fine(w, P[n][j]) =>
              IsFirst(w, s, Text(w, Trail(M, n, j), n - 1), P[n][j], M[n][j])
  <1> DEFINE v == P[n][j]
             t == M[n][j]
             q == Trail(M, n, j)
  <1>1. n \in Nat /\ 3 <= n /\ n \in 1 .. Len(w) /\ n - 1 \in 1 .. n
    BY RowsAre
  <1>2. ASSUME NEW p, IsWay(w, s, n, p)
        PROVE  p[n] # 0 /\ Total(w, s, n, p) \in Nat
    <2>1. p[n] \in 1 .. Len(w[n])
      BY <1>1, <1>2 DEF IsWay
    <2>2. Total(w, s, n, p) \in Nat
      BY <1>1, <1>2, TotalFits
    <2> QED
      BY <2>1, <2>2
  <1>3. j = 0 => \A p : IsWay(w, s, n, p) => p[n] = 0
    BY DEF BestPlace
  <1>4. j # 0 => /\ v \in Nat /\ IsWay(w, s, n, q) /\ Total(w, s, n, q) = v
                 /\ \A p : IsWay(w, s, n, p) /\ p[n] # 0 => v <= Total(w, s, n, p)
    BY DEF BestPlace
  <1>5. q[n - 1] = t
    BY <1>1, TrailBefore
  <1> HIDE DEF v, t, q
  <1>6. ASSUME j = 0 PROVE NoFirst(w, s)
    BY <1>2, <1>3, <1>6 DEF NoFirst
  <1>7. ASSUME j # 0 PROVE \A p : IsWay(w, s, n, p) => v <= Total(w, s, n, p)
    BY <1>2, <1>4, <1>7
  <1>8. ASSUME j # 0, ~ Fine(w, v) PROVE NoFirst(w, s)
    <2> SUFFICES ASSUME NEW p, IsWay(w, s, n, p) PROVE ~ Fine(w, Total(w, s, n, p))
      BY DEF NoFirst
    <2>1. v \in Nat /\ v <= Total(w, s, n, p) /\ Total(w, s, n, p) \in Nat
      BY <1>2, <1>4, <1>7, <1>8
    <2> QED
      BY <1>8, <2>1, FineDown
  <1>9. ASSUME j # 0, Fine(w, v) PROVE IsFirst(w, s, Text(w, q, n - 1), v, t)
    <2>1. v \in Nat /\ IsWay(w, s, n, q) /\ Total(w, s, n, q) = v
      BY <1>4, <1>9
    <2>2. t \in 1 .. Len(w[n - 1])
      BY <1>1, <1>5, <2>1 DEF IsWay
    <2>3. \E p : /\ IsWay(w, s, n, p) /\ p[n - 1] = t
                 /\ Total(w, s, n, p) = v /\ Text(w, p, n - 1) = Text(w, q, n - 1)
      BY <1>5, <2>1
    <2>4. \A p : IsWay(w, s, n, p) => v <= Total(w, s, n, p)
      BY <1>7, <1>9
    <2> HIDE <1>4, <1>7
    <2> QED
      BY <1>9, <2>1, <2>2, <2>3, <2>4 DEF IsFirst
  <1> QED
    BY <1>6, <1>8, <1>9 DEF v, t, q

LEMMA SecondIs ==
  ASSUME BestPathAssumption, NEW w \in Rows, NEW s \in Shifts, NEW P, NEW M,
         NEW n, n = Len(w) - 1, NEW t, NEW j, BestPlace(w, s, P, M, n, t, j)
  PROVE  /\ j = 0 \/ ~ Fine(w, P[n][j] + 400) => NoSecond(w, s, t)
         /\ j # 0 => Word16(P[n][j] + 400) = P[n][j] + 400 /\ P[n][j] + 400 \in 0 .. None
         /\ j # 0 /\ Fine(w, P[n][j] + 400) =>
              IsSecond(w, s, Text(w, Trail(M, n, j), n), P[n][j] + 400, t)
  <1> DEFINE v == P[n][j]
             q == Trail(M, n, j)
  <1>1. n \in Nat /\ n \in 1 .. Len(w)
    BY RowsAre
  <1>2. \A p : IsWay(w, s, n, p) => Total(w, s, n, p) \in Nat /\ Total(w, s, n, p) <= 54368
    BY <1>1, TotalFits
  <1>3. j = 0 => \A p : IsWay(w, s, n, p) => p[n] = t
    BY DEF BestPlace
  <1>4. j # 0 => /\ j # t /\ v \in Nat /\ IsWay(w, s, n, q) /\ Total(w, s, n, q) = v /\ q[n] = j
                 /\ \A p : IsWay(w, s, n, p) /\ p[n] # t => v <= Total(w, s, n, p)
    BY DEF BestPlace
  <1> HIDE DEF v, q
  <1>5. ASSUME j = 0 PROVE NoSecond(w, s, t)
    BY <1>3, <1>5 DEF NoSecond
  <1>6. ASSUME j # 0 PROVE Word16(v + 400) = v + 400 /\ v + 400 \in 0 .. None /\ v + 400 \in Nat
    <2>1. v \in Nat /\ v <= 54368
      BY <1>2, <1>4, <1>6
    <2>2. Word16(v + 400) = v + 400
      BY <2>1 DEF Word16
    <2>3. v + 400 \in Nat /\ v + 400 <= None
      BY <2>1, NoneIs
    <2> QED
      BY <2>2, <2>3, SmallIsCell
  <1>7. ASSUME j # 0, ~ Fine(w, v + 400) PROVE NoSecond(w, s, t)
    <2> SUFFICES ASSUME NEW p, IsWay(w, s, n, p), p[n] # t
                 PROVE  ~ Fine(w, Total(w, s, n, p) + 400)
      BY DEF NoSecond
    <2> DEFINE x == v + 400
               y == Total(w, s, n, p) + 400
    <2>1. x \in Nat /\ x <= y /\ y \in Nat
      BY <1>2, <1>4, <1>7
    <2>2. ~ Fine(w, x)
      BY <1>7
    <2> HIDE DEF x, y
    <2>3. ~ Fine(w, y)
      BY <2>1, <2>2, FineDown
    <2> QED
      BY <2>3 DEF y
  <1>8. ASSUME j # 0, Fine(w, v + 400) PROVE IsSecond(w, s, Text(w, q, n), v + 400, t)
    <2>1. j # t /\ v \in Nat /\ IsWay(w, s, n, q) /\ Total(w, s, n, q) = v /\ q[n] = j
      BY <1>4, <1>8
    <2>2. \E p : /\ IsWay(w, s, n, p) /\ p[n] # t
                 /\ Total(w, s, n, p) + 400 = v + 400 /\ Text(w, p, n) = Text(w, q, n)
      BY <2>1
    <2>3. \A p : IsWay(w, s, n, p) /\ p[n] # t => v + 400 <= Total(w, s, n, p) + 400
      BY <1>2, <1>4, <1>8
    <2>4. v + 400 \in Nat
      BY <2>1
    <2> HIDE <1>4
    <2> QED
      BY <1>8, <2>2, <2>3, <2>4 DEF IsSecond
  <1> QED
    BY <1>5, <1>6, <1>7, <1>8 DEF v, q

-----------------------------------------------------------------------------
(***************************************************************************)
(* The invariant: the cells computed so far are right, except the one that *)
(* is struck out, and so are the results.                                  *)
(***************************************************************************)
Records(r) == r \in Seq([word : Seq(Codes), weight : 0 .. None]) /\ Len(r) <= 2
Outcome(w, s, r, t, c) ==
  /\ c \in {"rows", "first"} => r = <<>> /\ t = 0
  /\ c = "second" => Len(r) = 1 /\ IsFirst(w, s, r[1].word, r[1].weight, t)
  /\ c = "done" => \/ r = <<>> /\ NoFirst(w, s)
                   \/ /\ r # <<>> /\ IsFirst(w, s, r[1].word, r[1].weight, t)
                      /\ \/ Len(r) = 1 /\ NoSecond(w, s, t)
                         \/ Len(r) = 2 /\ IsSecond(w, s, r[2].word, r[2].weight, t)
IInv ==
  /\ words \in Rows /\ shift \in Shifts
  /\ Matrices(words, probMatrix, pathMatrix)
  /\ Records(rec_word) /\ taken \in Nat
  /\ pc \in {"rows", "first", "second", "done"}
  /\ pc = "rows" <=> Len(probMatrix) < Len(words)
  /\ pc = "second" => probMatrix[Len(words) - 1][taken] = None
  /\ Cells(words, shift, probMatrix, pathMatrix, taken)
  /\ Outcome(words, shift, rec_word, taken, pc)

LEMMA IInvTypes == IInv => TypeOK
  BY DEF IInv, TypeOK, Matrices, Pointers, Records

(* A computed row of weights.                                              *)
LEMMA RowOf ==
  ASSUME NEW w, NEW P, NEW M, Matrices(w, P, M), NEW k \in 1 .. Len(P)
  PROVE  /\ P[k] \in Seq(0 .. None) /\ Len(P[k]) = Len(w[k])
         /\ AreSmall(w, P, k)
  <1> DEFINE V == 0 .. None
             R == Seq(V)
  <1>1. P \in Seq(R)
    BY DEF Matrices
  <1>2. Len(P[k]) = Len(w[k])
    BY DEF Matrices, Pointers
  <1>3. P[k] \in R
    <2> HIDE DEF R
    <2> QED
      BY <1>1
  <1>4. \A j \in 1 .. Len(w[k]) : P[k][j] \in V
    <2> DEFINE row == P[k]
    <2>1. row \in Seq(V) /\ Len(row) = Len(w[k])
      BY <1>2, <1>3
    <2> HIDE DEF row, V
    <2>2. \A j \in 1 .. Len(row) : row[j] \in V
      BY <2>1
    <2> QED
      BY <2>1, <2>2 DEF row
  <1> QED
    BY <1>2, <1>3, <1>4 DEF AreSmall

LEMMA InitHolds ==
  ASSUME BestPathAssumption, Init
  PROVE  IInv
  <1> DEFINE r == [j \in DOMAIN words[1] |-> 0]
             q == [j \in DOMAIN words[1] |-> 1]
  <1>1. /\ words \in Rows /\ shift \in Shifts /\ probMatrix = <<r>> /\ pathMatrix = <<q>>
        /\ rec_word = <<>> /\ taken = 0 /\ pc = "rows"
    BY DEF Init
  <1>2. words[1] = <<BEG>> /\ Len(words) \in Nat /\ 3 <= Len(words)
    BY <1>1, RowsAre
  <1>3. Len(words[1]) = 1 /\ DOMAIN words[1] = 1 .. 1
    BY <1>2
  <1>4. Len(r) = 1 /\ Len(q) = 1 /\ r[1] = 0 /\ q[1] = 1 /\ r \in Seq(0 .. None) /\ q \in Seq(Nat)
    <2>1. r = [j \in 1 .. 1 |-> 0] /\ q = [j \in 1 .. 1 |-> 1]
      BY <1>3
    <2>2. 0 \in 0 .. None
      BY NoneIsNat
    <2> HIDE DEF r, q
    <2>3. /\ r = [j \in 1 .. 1 |-> r[j]] /\ \A j \in 1 .. 1 : r[j] \in 0 .. None
          /\ q = [j \in 1 .. 1 |-> q[j]] /\ \A j \in 1 .. 1 : q[j] \in Nat
      BY <2>1, <2>2
    <2>4. /\ r \in Seq(0 .. None) /\ Len(r) = 1
          /\ q \in Seq(Nat) /\ Len(q) = 1
      BY <2>3, FunctionIsSeq
    <2> QED
      BY <2>1, <2>4
  <1> HIDE DEF r, q
  <1>5. Len(probMatrix) = 1 /\ Len(pathMatrix) = 1 /\ probMatrix[1] = r /\ pathMatrix[1] = q
    BY <1>1
  <1>6. Matrices(words, probMatrix, pathMatrix)
    <2> DEFINE V == 0 .. None
    <2>1. probMatrix \in Seq(Seq(V)) /\ pathMatrix \in Seq(Seq(Nat))
      <3>1. r \in Seq(V) /\ q \in Seq(Nat)
        BY <1>4
      <3> HIDE DEF V
      <3> QED
        BY <1>1, <3>1
    <2>2. \A k \in 1 .. Len(probMatrix) : Pointers(words, probMatrix, pathMatrix, k)
      <3>1. Pointers(words, probMatrix, pathMatrix, 1)
        BY <1>3, <1>4, <1>5 DEF Pointers
      <3> QED
        BY <1>5, <3>1
    <2> QED
      BY <1>2, <1>5, <2>1, <2>2 DEF Matrices
  <1>7. Cells(words, shift, probMatrix, pathMatrix, taken)
    <2>1. \A j \in 1 .. Len(words[1]) : IsCell(words, shift, probMatrix, pathMatrix, 1, j)
      <3> SUFFICES ASSUME NEW j \in 1 .. Len(words[1])
                   PROVE  IsCell(words, shift, probMatrix, pathMatrix, 1, j)
        OBVIOUS
      <3>1. probMatrix[1][j] = 0
        BY <1>3, <1>4, <1>5
      <3> QED
        BY <1>1, <3>1, CellBegins
    <2>2. \A k \in 1 .. Len(probMatrix) : k = 1
      BY <1>5
    <2> QED
      BY <2>1, <2>2 DEF Cells
  <1>8. Records(rec_word)
    BY <1>1 DEF Records
  <1>9. Outcome(words, shift, rec_word, taken, pc)
    BY <1>1 DEF Outcome
  <1>10. pc = "rows" <=> Len(probMatrix) < Len(words)
    BY <1>1, <1>2, <1>5
  <1>11. pc # "second" /\ pc \in {"rows", "first", "second", "done"} /\ taken \in Nat
    BY <1>1
  <1> QED
    BY <1>1, <1>6, <1>7, <1>8, <1>9, <1>10, <1>11 DEF IInv

LEMMA RowHolds ==
  ASSUME BestPathAssumption, IInv, Row
  PROVE  IInv'
  <1> DEFINE k == Len(probMatrix) + 1
             r == [j \in DOMAIN words[k] |-> Lightest(k, j)]
             q == [j \in DOMAIN words[k] |-> Previous(k, j)]
  <1>1. /\ words \in Rows /\ shift \in Shifts /\ Matrices(words, probMatrix, pathMatrix)
        /\ Records(rec_word) /\ Cells(words, shift, probMatrix, pathMatrix, taken)
        /\ Outcome(words, shift, rec_word, taken, pc)
        /\ pc = "rows" <=> Len(probMatrix) < Len(words)
    BY DEF IInv
  <1>2. /\ pc = "rows" /\ pc' = IF k = Len(words) THEN "first" ELSE "rows"
        /\ probMatrix' = Append(probMatrix, r) /\ pathMatrix' = Append(pathMatrix, q)
        /\ words' = words /\ shift' = shift /\ rec_word' = rec_word /\ taken' = taken
    BY DEF Row
  <1>3. rec_word = <<>> /\ taken = 0
    BY <1>1, <1>2 DEF Outcome
  <1>4. /\ Len(words) \in Nat /\ Len(probMatrix) \in Nat /\ 1 <= Len(probMatrix)
        /\ Len(probMatrix) < Len(words)
    <2>1. Len(words) \in Nat
      BY <1>1, RowsAre
    <2>2. Len(probMatrix) \in 1 .. Len(words)
      BY <1>1 DEF Matrices
    <2> QED
      BY <1>1, <1>2, <2>1, <2>2
  <1>5. k \in 2 .. Len(words) /\ k \in 1 .. Len(words) /\ k - 1 = Len(probMatrix)
    BY <1>4
  <1>6. AreSmall(words, probMatrix, k - 1)
    <2>1. k - 1 \in 1 .. Len(probMatrix)
      BY <1>4
    <2> QED
      BY <1>1, <2>1, RowOf
  <1>7. DOMAIN words[k] = 1 .. Len(words[k])
    BY <1>1, <1>5, RowIs
  <1>8. k = Len(probMatrix) + 1
    OBVIOUS
  <1> HIDE DEF k
  <1>9. \A j \in 1 .. Len(words[k]) :
           /\ IsChosen(words, shift, probMatrix, k, j, Lightest(k, j), Previous(k, j))
           /\ Previous(k, j) \in Nat
    BY <1>1, <1>5, <1>6, Chosen
  <1>10. \A j \in 1 .. Len(words[k]) : r[j] = Lightest(k, j) /\ q[j] = Previous(k, j)
    BY <1>7
  <1>11. IsRow(words, k, r) /\ IsRow(words, k, q)
    BY <1>7 DEF IsRow
  <1> HIDE DEF r, q
  <1>12. \A j \in 1 .. Len(words[k]) : IsChosen(words, shift, probMatrix, k, j, r[j], q[j])
    BY <1>9, <1>10
  <1>13. AreNext(words, k, r, q)
    <2>1. \A j \in 1 .. Len(words[k]) : q[j] \in Nat
      BY <1>9, <1>10
    <2>2. \A j \in 1 .. Len(words[k]) : r[j] \in 0 .. None
      BY <1>12 DEF IsChosen
    <2>3. \A j \in 1 .. Len(words[k]) : r[j] # None => q[j] \in 1 .. Len(words[k - 1])
      BY <1>12 DEF IsChosen, Reaches
    <2> QED
      BY <1>11, <2>1, <2>2, <2>3 DEF AreNext
  <1>14. Matrices(words, probMatrix, pathMatrix)'
    BY <1>1, <1>2, <1>4, <1>8, <1>13, MatricesGrow
  <1>15. Cells(words, shift, probMatrix, pathMatrix, taken)'
    <2>1. Cells(words, shift, Append(probMatrix, r), Append(pathMatrix, q), 0)
      BY <1>1, <1>3, <1>4, <1>8, <1>12, CellsGrow
    <2> QED
      BY <1>2, <1>3, <2>1
  <1>16. Len(probMatrix') = k
    <2>1. \E V : probMatrix \in Seq(V)
      BY <1>1 DEF Matrices
    <2> QED
      BY <1>2, <1>8, <2>1
  <1>17. pc' = "rows" <=> Len(probMatrix') < Len(words')
    BY <1>2, <1>4, <1>8, <1>16
  <1>18. Outcome(words, shift, rec_word, taken, pc)'
    <2>1. pc' \in {"rows", "first"}
      BY <1>2
    <2> QED
      BY <1>2, <1>3, <2>1 DEF Outcome
  <1>19. pc' \in {"rows", "first"} /\ taken' \in Nat
    BY <1>2, <1>3
  <1> QED
    BY <1>1, <1>2, <1>14, <1>15, <1>17, <1>18, <1>19 DEF IInv

(* What the invariant says when all rows are computed.                     *)
LEMMA AllComputed ==
  ASSUME BestPathAssumption, IInv, pc # "rows"
  PROVE  /\ words \in Rows /\ shift \in Shifts /\ Matrices(words, probMatrix, pathMatrix)
         /\ Cells(words, shift, probMatrix, pathMatrix, taken)
         /\ Outcome(words, shift, rec_word, taken, pc)
         /\ Len(probMatrix) = Len(words) /\ Len(words) \in Nat /\ 3 <= Len(words)
  <1>1. /\ words \in Rows /\ shift \in Shifts /\ Matrices(words, probMatrix, pathMatrix)
        /\ Cells(words, shift, probMatrix, pathMatrix, taken)
        /\ Outcome(words, shift, rec_word, taken, pc)
        /\ ~ (Len(probMatrix) < Len(words))
    BY DEF IInv
  <1>2. Len(words) \in Nat /\ 3 <= Len(words)
    BY <1>1, RowsAre
  <1>3. Len(probMatrix) \in 1 .. Len(words)
    BY <1>1 DEF Matrices
  <1> QED
    BY <1>1, <1>2, <1>3

LEMMA FirstHolds ==
  ASSUME BestPathAssumption, IInv, First
  PROVE  IInv'
  <1> DEFINE n == Len(words)
             j == MinValPos(probMatrix[n])
             v == probMatrix[n][j]
             t == pathMatrix[n][j]
             x == TextTo(Back(n, j), n - 1)
  <1>0. pc = "first" /\ words' = words /\ shift' = shift /\ pathMatrix' = pathMatrix
    BY DEF First
  <1>1. /\ words \in Rows /\ shift \in Shifts /\ Matrices(words, probMatrix, pathMatrix)
        /\ Cells(words, shift, probMatrix, pathMatrix, taken)
        /\ Outcome(words, shift, rec_word, taken, pc)
        /\ Len(probMatrix) = n /\ n \in Nat /\ 3 <= n
    BY <1>0, AllComputed
  <1>2. rec_word = <<>> /\ taken = 0
    BY <1>0, <1>1 DEF Outcome
  <1>3. \/ /\ j # 0 /\ Likely(v) /\ pc' = "second" /\ taken' = t
           /\ rec_word' = <<[word |-> x, weight |-> v]>>
           /\ probMatrix' = Struck(probMatrix, n - 1, t)
        \/ /\ ~ (j # 0 /\ Likely(v)) /\ pc' = "done"
           /\ rec_word' = rec_word /\ probMatrix' = probMatrix /\ taken' = taken
    BY DEF First
  <1>4. x = Text(words, Trail(pathMatrix, n, j), n - 1) /\ (Likely(v) <=> Fine(words, v))
    BY TheCall
  <1>5. n \in 1 .. Len(words) /\ n \in 1 .. Len(probMatrix)
    BY <1>1
  <1>6. probMatrix[n] \in Seq(0 .. None) /\ Len(probMatrix[n]) = Len(words[n])
    BY <1>1, <1>5, RowOf
  <1>7. BestPlace(words, shift, probMatrix, pathMatrix, n, 0, j)
    <2>1. AreCellsBut(words, shift, probMatrix, pathMatrix, n, 0)
      <3>1. n # Len(words) - 1
        BY <1>1
      <3>2. \A i \in 1 .. Len(words[n]) : i # 0 /\ IsCell(words, shift, probMatrix, pathMatrix, n, i)
        BY <1>1, <1>5, <3>1 DEF Cells
      <3> QED
        BY <3>2 DEF AreCellsBut
    <2> HIDE DEF n
    <2>2. j = MinValPos(probMatrix[n])
      OBVIOUS
    <2> HIDE DEF j
    <2> QED
      BY <1>1, <1>5, <1>6, <2>1, <2>2, BestPlaceIs
  <1>8. /\ j = 0 \/ ~ Fine(words, v) => NoFirst(words, shift)
        /\ j # 0 /\ Fine(words, v) => IsFirst(words, shift, x, v, t)
    <2>1. n = Len(words)
      OBVIOUS
    <2> HIDE DEF n, j
    <2> QED
      BY <1>1, <1>4, <1>7, <2>1, FirstIs
  <1>9. Len(words) = n
    OBVIOUS
  <1> HIDE DEF n, j, v, t, x
  <1>10. CASE j # 0 /\ Fine(words, v)
    <2>1. /\ pc' = "second" /\ taken' = t
          /\ rec_word' = <<[word |-> x, weight |-> v]>>
          /\ probMatrix' = Struck(probMatrix, n - 1, t)
      BY <1>3, <1>4, <1>10
    <2>2. IsFirst(words, shift, x, v, t)
      BY <1>8, <1>10
    <2>3. t \in 1 .. Len(words[n - 1]) /\ n - 1 \in 1 .. Len(words)
      BY <1>1, <1>9, <2>2 DEF IsFirst
    <2>4. /\ Matrices(words, Struck(probMatrix, n - 1, t), pathMatrix)
          /\ Cells(words, shift, Struck(probMatrix, n - 1, t), pathMatrix, t)
          /\ Struck(probMatrix, n - 1, t)[n - 1][t] = None
          /\ Len(Struck(probMatrix, n - 1, t)) = Len(probMatrix)
      <3> DEFINE m == n - 1
      <3>1. m = Len(words) - 1 /\ t \in 1 .. Len(words[m])
        BY <1>9, <2>3
      <3>2. Len(probMatrix) = Len(words) /\ Cells(words, shift, probMatrix, pathMatrix, 0)
        BY <1>1, <1>2, <1>9
      <3> HIDE DEF m
      <3>3. /\ Matrices(words, Struck(probMatrix, m, t), pathMatrix)
            /\ Cells(words, shift, Struck(probMatrix, m, t), pathMatrix, t)
            /\ Struck(probMatrix, m, t)[m][t] = None
            /\ Len(Struck(probMatrix, m, t)) = Len(probMatrix)
        BY <1>1, <3>1, <3>2, StruckOut
      <3> QED
        BY <3>3 DEF m
    <2>5. Matrices(words, probMatrix, pathMatrix)' /\ Cells(words, shift, probMatrix, pathMatrix, taken)'
      BY <1>0, <2>1, <2>4
    <2>6. probMatrix'[Len(words') - 1][taken'] = None /\ ~ (Len(probMatrix') < Len(words'))
      BY <1>0, <1>1, <1>9, <2>1, <2>4
    <2>7. t \in Nat
      <3>1. Len(words[n - 1]) \in Nat
        BY <1>1, <2>3, RowIs
      <3> QED
        BY <2>3, <3>1
    <2>8. x \in Seq(Codes) /\ v \in 0 .. None
      <3>1. PICK p : /\ IsWay(words, shift, n, p)
                     /\ Total(words, shift, n, p) = v /\ Text(words, p, n - 1) = x
        BY <1>9, <2>2 DEF IsFirst
      <3>2. n - 1 \in Nat /\ 2 <= n - 1 /\ n - 1 <= n
        BY <1>1
      <3>3. x \in Seq(Codes)
        BY <1>1, <1>5, <3>1, <3>2, TextIs
      <3>4. v \in Nat /\ v <= 54368
        BY <1>1, <1>5, <3>1, TotalFits
      <3>5. v <= None
        BY <3>4, NoneIs
      <3> QED
        BY <3>3, <3>4, <3>5, SmallIsCell
    <2>9. Records(rec_word)'
      <3> DEFINE V == 0 .. None
                 S == Seq(Codes)
      <3>1. x \in S /\ v \in V
        BY <2>8
      <3> HIDE DEF V, S
      <3>2. rec_word' \in Seq([word : S, weight : V]) /\ Len(rec_word') <= 2
        BY <2>1, <3>1
      <3> QED
        BY <3>2 DEF Records, V, S
    <2>10. Outcome(words, shift, rec_word, taken, pc)'
      <3>1. Len(rec_word') = 1 /\ rec_word'[1].word = x /\ rec_word'[1].weight = v
        BY <2>1
      <3> QED
        BY <1>0, <2>1, <2>2, <3>1 DEF Outcome
    <2> QED
      BY <1>0, <1>1, <2>1, <2>5, <2>6, <2>7, <2>9, <2>10 DEF IInv
  <1>11. CASE ~ (j # 0 /\ Fine(words, v))
    <2>1. pc' = "done" /\ rec_word' = rec_word /\ probMatrix' = probMatrix /\ taken' = taken
      BY <1>3, <1>4, <1>11
    <2>2. NoFirst(words, shift)
      BY <1>8, <1>11
    <2>3. Outcome(words, shift, rec_word, taken, pc)'
      BY <1>0, <1>2, <2>1, <2>2 DEF Outcome
    <2>4. Records(rec_word)' /\ taken' \in Nat
      BY <2>1 DEF IInv, Records
    <2>5. Matrices(words, probMatrix, pathMatrix)' /\ Cells(words, shift, probMatrix, pathMatrix, taken)'
      BY <1>0, <1>1, <2>1
    <2>6. ~ (Len(probMatrix') < Len(words'))
      BY <1>0, <1>1, <1>9, <2>1
    <2> QED
      BY <1>0, <1>1, <2>1, <2>3, <2>4, <2>5, <2>6 DEF IInv
  <1> QED
    BY <1>10, <1>11

LEMMA AppendIs ==
  ASSUME NEW T, NEW r \in Seq(T), NEW e \in T
  PROVE  /\ Len(Append(r, e)) = Len(r) + 1 /\ Append(r, e)[Len(r) + 1] = e
         /\ \A i \in 1 .. Len(r) : Append(r, e)[i] = r[i]
  OBVIOUS

LEMMA AppendOne ==
  ASSUME NEW S, NEW r \in Seq(S), NEW e
  PROVE  Len(r) = 1 => /\ Len(Append(r, e)) = 2 /\ Append(r, e)[1] = r[1]
                       /\ Append(r, e)[2] = e /\ Append(r, e) # <<>>
  <1> DEFINE T == S \union {e}
             q == Append(r, e)
             n == Len(r)
  <1>1. r \in Seq(T) /\ e \in T
    OBVIOUS
  <1> HIDE DEF T
  <1>2. Len(q) = n + 1 /\ q[n + 1] = e /\ \A i \in 1 .. n : q[i] = r[i]
    BY <1>1, AppendIs
  <1>3. Len(<<>>) = 0
    OBVIOUS
  <1> HIDE DEF q, n
  <1>4. n = 1 => Len(q) = 2 /\ q[1] = r[1] /\ q[2] = e
    BY <1>2
  <1>5. Len(q) = 2 => q # <<>>
    BY <1>3
  <1> QED
    BY <1>4, <1>5 DEF q, n

LEMMA SecondHolds ==
  ASSUME BestPathAssumption, IInv, Second
  PROVE  IInv'
  <1> DEFINE n == Len(words) - 1
             j == MinValPos(probMatrix[n])
             v == probMatrix[n][j]
             y == Word16(v + 400)
             x == TextTo(Back(n, j), n)
  <1>0. /\ pc = "second" /\ words' = words /\ shift' = shift /\ pathMatrix' = pathMatrix
        /\ pc' = "done" /\ probMatrix' = probMatrix /\ taken' = taken
        /\ rec_word' = IF j # 0 /\ Likely(y) THEN Append(rec_word, [word |-> x, weight |-> y])
                       ELSE rec_word
    BY DEF Second
  <1>1. /\ words \in Rows /\ shift \in Shifts /\ Matrices(words, probMatrix, pathMatrix)
        /\ Cells(words, shift, probMatrix, pathMatrix, taken)
        /\ Outcome(words, shift, rec_word, taken, pc)
        /\ Len(probMatrix) = Len(words) /\ Len(words) \in Nat /\ 3 <= Len(words)
    BY <1>0, AllComputed
  <1>2. /\ Len(rec_word) = 1 /\ IsFirst(words, shift, rec_word[1].word, rec_word[1].weight, taken)
        /\ probMatrix[n][taken] = None /\ Records(rec_word) /\ taken \in Nat
    BY <1>0, <1>1 DEF Outcome, IInv
  <1>3. x = Text(words, Trail(pathMatrix, n, j), n) /\ (Likely(y) <=> Fine(words, y))
    BY TheCall
  <1>4. n \in Nat /\ 2 <= n /\ n \in 1 .. Len(words) /\ n \in 1 .. Len(probMatrix)
    BY <1>1
  <1>5. probMatrix[n] \in Seq(0 .. None) /\ Len(probMatrix[n]) = Len(words[n])
    BY <1>1, <1>4, RowOf
  <1>6. BestPlace(words, shift, probMatrix, pathMatrix, n, taken, j)
    <2>1. AreCellsBut(words, shift, probMatrix, pathMatrix, n, taken)
      <3>1. \A i \in 1 .. Len(words[n]) :
              i # taken => IsCell(words, shift, probMatrix, pathMatrix, n, i)
        BY <1>1, <1>4 DEF Cells
      <3> QED
        BY <1>2, <3>1 DEF AreCellsBut
    <2> HIDE DEF n
    <2>2. j = MinValPos(probMatrix[n])
      OBVIOUS
    <2> HIDE DEF j
    <2> QED
      BY <1>1, <1>4, <1>5, <2>1, <2>2, BestPlaceIs
  <1>7. /\ j = 0 \/ ~ Fine(words, v + 400) => NoSecond(words, shift, taken)
        /\ j # 0 => y = v + 400 /\ v + 400 \in 0 .. None
        /\ j # 0 /\ Fine(words, v + 400) => IsSecond(words, shift, x, v + 400, taken)
    <2>1. n = Len(words) - 1
      OBVIOUS
    <2> HIDE DEF n, j
    <2> QED
      BY <1>1, <1>3, <1>6, <2>1, SecondIs
  <1>8. Len(words) - 1 = n
    OBVIOUS
  <1> HIDE DEF n, j, v, y, x
  <1>9. Matrices(words, probMatrix, pathMatrix)' /\ Cells(words, shift, probMatrix, pathMatrix, taken)'
    BY <1>0, <1>1
  <1>10. ~ (Len(probMatrix') < Len(words'))
    BY <1>0, <1>1
  <1>11. \E S : rec_word \in Seq(S)
    BY <1>2 DEF Records
  <1>12. Outcome(words, shift, rec_word, taken, pc)' /\ Records(rec_word)'
    <2>1. CASE j # 0 /\ Fine(words, y)
      <3>1. rec_word' = Append(rec_word, [word |-> x, weight |-> y])
        BY <1>0, <1>3, <2>1
      <3>2. y \in 0 .. None /\ IsSecond(words, shift, x, y, taken)
        BY <1>7, <2>1
      <3>3. x \in Seq(Codes)
        <4>1. PICK p : IsWay(words, shift, n, p) /\ Text(words, p, n) = x
          BY <1>8, <3>2 DEF IsSecond
        <4>2. n <= n
          BY <1>4
        <4> QED
          BY <1>1, <1>4, <4>1, <4>2, TextIs
      <3>4. /\ Len(rec_word') = 2 /\ rec_word'[1] = rec_word[1]
            /\ rec_word'[2].word = x /\ rec_word'[2].weight = y /\ rec_word' # <<>>
        <4> DEFINE e == [word |-> x, weight |-> y]
        <4>1. e.word = x /\ e.weight = y
          OBVIOUS
        <4>2. rec_word' = Append(rec_word, e)
          BY <3>1
        <4> HIDE DEF e
        <4>3. PICK S : rec_word \in Seq(S)
          BY <1>11
        <4>4. Len(rec_word) = 1
          BY <1>2
        <4>5. Len(rec_word') = 2 /\ rec_word'[1] = rec_word[1] /\ rec_word'[2] = e /\ rec_word' # <<>>
          BY <4>2, <4>3, <4>4, AppendOne
        <4> QED
          BY <4>1, <4>5
      <3>5. Outcome(words, shift, rec_word, taken, pc)'
        BY <1>0, <1>2, <3>2, <3>4 DEF Outcome
      <3>6. Records(rec_word)'
        <4> DEFINE V == 0 .. None
                   S == Seq(Codes)
        <4>1. x \in S /\ y \in V /\ rec_word \in Seq([word : S, weight : V])
          BY <1>2, <3>2, <3>3 DEF Records
        <4> HIDE DEF V, S
        <4>2. rec_word' \in Seq([word : S, weight : V])
          BY <3>1, <4>1
        <4> QED
          BY <3>4, <4>2 DEF Records, V, S
      <3> QED
        BY <3>5, <3>6
    <2>2. CASE ~ (j # 0 /\ Fine(words, y))
      <3>1. rec_word' = rec_word
        BY <1>0, <1>3, <2>2
      <3>2. NoSecond(words, shift, taken)
        BY <1>7, <2>2
      <3>3. rec_word # <<>>
        BY <1>2
      <3>4. Outcome(words, shift, rec_word, taken, pc)'
        BY <1>0, <1>2, <3>1, <3>2, <3>3 DEF Outcome
      <3>5. Records(rec_word)'
        BY <1>2, <3>1 DEF Records
      <3> QED
        BY <3>4, <3>5
    <2> QED
      BY <2>1, <2>2
  <1> QED
    BY <1>0, <1>1, <1>2, <1>9, <1>10, <1>12 DEF IInv

LEMMA IInvHolds == BestPathAssumption => (Spec => []IInv)
  <1> SUFFICES ASSUME BestPathAssumption PROVE Spec => []IInv
    OBVIOUS
  <1>1. Init => IInv
    BY InitHolds
  <1>2. IInv /\ [Next]_vars => IInv'
    <2> SUFFICES ASSUME IInv, [Next]_vars PROVE IInv'
      OBVIOUS
    <2>1. CASE Row
      BY <2>1, RowHolds
    <2>2. CASE First
      BY <2>2, FirstHolds
    <2>3. CASE Second
      BY <2>3, SecondHolds
    <2>4. CASE UNCHANGED vars
      <3>1. /\ words' = words /\ shift' = shift /\ probMatrix' = probMatrix
            /\ pathMatrix' = pathMatrix /\ rec_word' = rec_word /\ taken' = taken /\ pc' = pc
        BY <2>4 DEF vars
      <3> QED
        BY <3>1 DEF IInv, Records, Outcome
    <2> QED
      BY <2>1, <2>2, <2>3, <2>4 DEF Next
  <1> QED
    BY <1>1, <1>2, PTL DEF Spec

-----------------------------------------------------------------------------
(* Every pointer back is a place of the row before, whatever the rows and  *)
(* the model are.                                                          *)
THEOREM NgramTypes == BestPathAssumption => (Spec => []TypeOK)
  BY IInvHolds, IInvTypes, PTL

LEMMA MinIsLeast ==
  ASSUME NEW S, S \subseteq Nat, NEW v \in S, \A m \in S : v <= m
  PROVE  Min(S) = v
  <1> DEFINE m == Min(S)
  <1>1. m \in S /\ \A l \in S : m <= l
    BY MinIs
  <1>2. m \in Nat /\ v \in Nat /\ m <= v /\ v <= m
    BY <1>1
  <1> HIDE DEF m
  <1>3. m = v
    BY <1>2
  <1> QED
    BY <1>3 DEF m

LEMMA FirstSound ==
  ASSUME BestPathAssumption, IInv
  PROVE  FirstIsBest
  <1> DEFINE n == Len(words)
             likely == {path \in WaysTo(n) : Likely(Sum(n, path))}
             S == {Sum(n, path) : path \in likely}
  <1>0. SUFFICES ASSUME pc = "done"
                 PROVE  IF likely = {} THEN rec_word = <<>>
                        ELSE /\ rec_word # <<>>
                             /\ rec_word[1].weight = Min(S)
                             /\ \E path \in likely : /\ Sum(n, path) = rec_word[1].weight
                                                     /\ TextTo(path, n - 1) = rec_word[1].word
    BY DEF FirstIsBest
  <1>1. words \in Rows /\ shift \in Shifts /\ Outcome(words, shift, rec_word, taken, pc)
    BY DEF IInv
  <1>2. n \in 1 .. Len(words)
    BY <1>1, RowsAre
  <1>3. \A p : p \in likely <=>
                 IsWay(words, shift, n, p) /\ Fine(words, Total(words, shift, n, p))
    <2>1. \A p : p \in WaysTo(n) <=> IsWay(words, shift, n, p)
      BY <1>1, <1>2, TheCall, WaysAre
    <2> QED
      BY <2>1, TheCall
  <1>4. \A p : Sum(n, p) = Total(words, shift, n, p) /\ TextTo(p, n - 1) = Text(words, p, n - 1)
    BY TheCall
  <1>5. S \subseteq Nat
    <2>1. \A p \in likely : Sum(n, p) \in Nat
      BY <1>1, <1>2, <1>3, <1>4, TotalFits
    <2> QED
      BY <2>1
  <1>6. CASE rec_word = <<>> /\ NoFirst(words, shift)
    <2>1. likely = {}
      BY <1>3, <1>6 DEF NoFirst
    <2> QED
      BY <1>6, <2>1
  <1>7. CASE rec_word # <<>> /\ IsFirst(words, shift, rec_word[1].word, rec_word[1].weight, taken)
    <2> DEFINE v == rec_word[1].weight
    <2>1. PICK p : /\ IsWay(words, shift, n, p) /\ Total(words, shift, n, p) = v
                   /\ Text(words, p, n - 1) = rec_word[1].word
      BY <1>7 DEF IsFirst
    <2>2. Fine(words, v) /\ \A q : IsWay(words, shift, n, q) => v <= Total(words, shift, n, q)
      BY <1>7 DEF IsFirst
    <2> HIDE DEF n, v, likely
    <2>3. p \in likely
      BY <1>3, <2>1, <2>2
    <2>4. v \in S /\ \A m \in S : v <= m
      BY <1>3, <1>4, <2>1, <2>2, <2>3
    <2>5. Min(S) = v
      <3> HIDE DEF S
      <3> QED
        BY <1>5, <2>4, MinIsLeast
    <2> QED
      BY <1>4, <1>7, <2>1, <2>3, <2>5 DEF v
  <1> QED
    BY <1>0, <1>1, <1>6, <1>7 DEF Outcome

LEMMA SecondSound ==
  ASSUME BestPathAssumption, IInv
  PROVE  SecondIsNext
  <1> DEFINE n == Len(words) - 1
             others == {path \in WaysTo(n) : path[n] # taken}
             S == {Sum(n, path) : path \in others}
             best == Min(S) + 400
  <1>0. SUFFICES ASSUME pc = "done", rec_word # <<>>
                 PROVE  IF others = {} \/ ~ Likely(best) THEN Len(rec_word) = 1
                        ELSE /\ Len(rec_word) = 2 /\ rec_word[2].weight = best
                             /\ rec_word[2].word # rec_word[1].word
                             /\ \E path \in others : /\ Sum(n, path) + 400 = best
                                                     /\ TextTo(path, n) = rec_word[2].word
    BY DEF SecondIsNext
  <1>1. words \in Rows /\ shift \in Shifts /\ Outcome(words, shift, rec_word, taken, pc)
    BY DEF IInv
  <1>2. n \in 1 .. Len(words) /\ n \in Nat /\ 2 <= n /\ Len(words) \in 1 .. Len(words) /\ n <= Len(words)
    BY <1>1, RowsAre
  <1>3. \A p : p \in others <=> IsWay(words, shift, n, p) /\ p[n] # taken
    <2>1. \A p : p \in WaysTo(n) <=> IsWay(words, shift, n, p)
      BY <1>1, <1>2, TheCall, WaysAre
    <2> QED
      BY <2>1
  <1>4. \A p : Sum(n, p) = Total(words, shift, n, p) /\ TextTo(p, n) = Text(words, p, n)
    BY TheCall
  <1>5. S \subseteq Nat
    <2>1. \A p \in others : Sum(n, p) \in Nat
      BY <1>1, <1>2, <1>3, <1>4, TotalFits
    <2> QED
      BY <2>1
  <1>6. Likely(best) <=> Fine(words, best)
    BY TheCall
  <1>7. IsFirst(words, shift, rec_word[1].word, rec_word[1].weight, taken)
    BY <1>0, <1>1 DEF Outcome
  <1>8. CASE Len(rec_word) = 1 /\ NoSecond(words, shift, taken)
    <2>1. ASSUME others # {} PROVE ~ Likely(best)
      <3>1. S # {}
        BY <2>1
      <3>2. Min(S) \in S
        <4> HIDE DEF S
        <4> QED
          BY <1>5, <3>1, MinIs
      <3>3. PICK p \in others : Min(S) = Sum(n, p)
        BY <3>2
      <3>4. ~ Fine(words, Sum(n, p) + 400)
        BY <1>3, <1>4, <1>8 DEF NoSecond
      <3> QED
        BY <1>6, <3>3, <3>4
    <2> QED
      BY <1>8, <2>1
  <1>9. CASE /\ Len(rec_word) = 2
             /\ IsSecond(words, shift, rec_word[2].word, rec_word[2].weight, taken)
    <2> DEFINE v == rec_word[2].weight
    <2>1. PICK q : /\ IsWay(words, shift, n, q) /\ q[n] # taken
                   /\ Total(words, shift, n, q) + 400 = v /\ Text(words, q, n) = rec_word[2].word
      BY <1>9 DEF IsSecond
    <2>2. /\ Fine(words, v)
          /\ \A r : IsWay(words, shift, n, r) /\ r[n] # taken => v <= Total(words, shift, n, r) + 400
      BY <1>9 DEF IsSecond
    <2>3. PICK p : /\ IsWay(words, shift, Len(words), p) /\ p[n] = taken
                   /\ Text(words, p, n) = rec_word[1].word
      BY <1>7 DEF IsFirst
    <2>4. Text(words, p, n) # Text(words, q, n)
      <3> DEFINE l == Len(words)
      <3>1. /\ l \in 1 .. Len(words) /\ n \in 1 .. Len(words) /\ n \in Nat /\ 2 <= n
            /\ n <= l /\ n <= n /\ p[n] # q[n]
        BY <1>2, <2>1, <2>3
      <3>2. IsWay(words, shift, l, p) /\ IsWay(words, shift, n, q)
        BY <2>1, <2>3
      <3> HIDE DEF n, l
      <3> QED
        BY <1>1, <3>1, <3>2, TextsDiffer
    <2> DEFINE u == Sum(n, q)
    <2> HIDE DEF n, v, others
    <2>5. q \in others /\ u \in S /\ u \in Nat /\ u + 400 = v
      <3>1. q \in others
        BY <1>3, <2>1
      <3>2. u \in S
        BY <3>1
      <3> QED
        BY <1>4, <1>5, <2>1, <3>1, <3>2
    <2>6. \A r \in others : u <= Sum(n, r)
      <3> SUFFICES ASSUME NEW r \in others PROVE u <= Sum(n, r)
        OBVIOUS
      <3>1. v <= Sum(n, r) + 400
        BY <1>3, <1>4, <2>2
      <3> DEFINE y == Sum(n, r)
      <3>2. y \in Nat
        BY <1>5
      <3>3. u \in Nat /\ u + 400 <= y + 400
        BY <2>5, <3>1
      <3> HIDE DEF u, y
      <3>4. u <= y
        BY <3>2, <3>3
      <3> QED
        BY <3>4 DEF y
    <2>7. \A m \in S : u <= m
      BY <2>6
    <2>8. Min(S) = u
      <3> HIDE DEF S, u
      <3> QED
        BY <1>5, <2>5, <2>7, MinIsLeast
    <2>9. best = v
      BY <2>5, <2>8
    <2>10. others # {} /\ Likely(best)
      BY <1>6, <2>2, <2>5, <2>9
    <2>11. /\ rec_word[2].weight = best /\ rec_word[2].word # rec_word[1].word
           /\ q \in others /\ Sum(n, q) + 400 = best /\ TextTo(q, n) = rec_word[2].word
      BY <1>4, <2>1, <2>3, <2>4, <2>5, <2>9 DEF v
    <2> QED
      BY <1>9, <2>10, <2>11
  <1> QED
    BY <1>0, <1>1, <1>8, <1>9 DEF Outcome

(* The first text is the likeliest of all, and there is none only if no    *)
(* way from BEG to END is likely enough.                                   *)
THEOREM LikeliestIsFirst == BestPathAssumption => (Spec => []FirstIsBest)
  <1> SUFFICES ASSUME BestPathAssumption PROVE Spec => []FirstIsBest
    OBVIOUS
  <1>1. IInv => FirstIsBest
    BY FirstSound
  <1> QED
    BY <1>1, IInvHolds, PTL

(* The second text is the likeliest that ends in another place than the    *)
(* first; it is another text, and its weight does not wrap around in 16    *)
(* bits.                                                                   *)
THEOREM NextIsAnother == BestPathAssumption => (Spec => []SecondIsNext)
  <1> SUFFICES ASSUME BestPathAssumption PROVE Spec => []SecondIsNext
    OBVIOUS
  <1>1. IInv => SecondIsNext
    BY SecondSound
  <1> QED
    BY <1>1, IInvHolds, PTL

(* No text that is found weighs 0xffff, which ngramRec takes for no text.  *)
THEOREM WeightsAreFinite ==
  BestPathAssumption => (Spec => [](\A i \in 1 .. Len(rec_word) : rec_word[i].weight < None))
  <1> SUFFICES ASSUME BestPathAssumption
               PROVE  Spec => [](\A i \in 1 .. Len(rec_word) : rec_word[i].weight < None)
    OBVIOUS
  <1>1. IInv => \A i \in 1 .. Len(rec_word) : rec_word[i].weight < None
    <2> SUFFICES ASSUME IInv, NEW i \in 1 .. Len(rec_word) PROVE rec_word[i].weight < None
      OBVIOUS
    <2>1. words \in Rows /\ shift \in Shifts /\ Outcome(words, shift, rec_word, taken, pc)
      BY DEF IInv
    <2>2. Len(words) \in Nat /\ 3 <= Len(words)
      BY <2>1, RowsAre
    <2> DEFINE n == Len(words)
    <2>3. n \in 1 .. n /\ n - 1 \in 1 .. n
      BY <2>2
    <2> HIDE DEF n
    <2>4. ASSUME NEW x, NEW v, IsFirst(words, shift, x, v, taken) PROVE v < None
      <3>1. PICK p : IsWay(words, shift, n, p) /\ Total(words, shift, n, p) = v
        BY <2>4 DEF IsFirst, n
      <3>2. v \in Nat /\ v <= 54368
        BY <2>1, <2>3, <3>1, TotalFits DEF n
      <3> QED
        BY <3>2, NoneIs
    <2>5. ASSUME NEW x, NEW v, IsSecond(words, shift, x, v, taken) PROVE v < None
      <3>1. PICK p : IsWay(words, shift, n - 1, p) /\ Total(words, shift, n - 1, p) + 400 = v
        BY <2>5 DEF IsSecond, n
      <3>2. Total(words, shift, n - 1, p) \in Nat /\ Total(words, shift, n - 1, p) <= 54368
        BY <2>1, <2>3, <3>1, TotalFits DEF n
      <3> QED
        BY <3>1, <3>2, NoneIs
    <2>6. rec_word # <<>> /\ (Len(rec_word) = 1 \/ Len(rec_word) = 2)
      <3>1. rec_word # <<>>
        OBVIOUS
      <3> QED
        BY <3>1 DEF Outcome, IInv
    <2> QED
      BY <2>1, <2>4, <2>5, <2>6 DEF Outcome, IInv
  <1> QED
    BY <1>1, IInvHolds, PTL

-----------------------------------------------------------------------------
(***************************************************************************)
(* NgramRec: which text of all the segmentations answers.  What the loop   *)
(* has looked at is told by what res and tmp hold.                         *)
(***************************************************************************)
CONSTANTS Segmentations, Originals, Known, Beside
VARIABLES ori_word, segments, right, seg, place, res, min_weight, tmp, tmp_weight, reply, result
Rec == INSTANCE NgramRec WITH
  Rows <- Segmentations, rows <- segments, k <- seg, pos <- place, rec_word <- reply

(* What NgramRec says of the call, with the call as arguments: the word    *)
(* asked for q and the segmentations w.                                    *)
Sureness(q, size, weight) == (2000 + size * (IF q # <<>> THEN 30500 ELSE 35000)) \div weight
Far(q, word) ==
  /\ q # <<>> /\ Len(q) <= 2
  /\ Rec!edit_distance_fpy(Rec!Bytes(q), Rec!Bytes(word)) = Len(q)
Stands(w, q, r, p) ==
  /\ r \in DOMAIN w /\ p \in DOMAIN w[r].texts
  /\ p \in (IF q # <<>> THEN 1 .. 2 ELSE {1})
Offer(w, r, p) ==
  [size |-> w[r].size, pos |-> p, word |-> w[r].texts[p].word, weight |-> w[r].texts[p].weight]
IsOffer(w, q, o) == \E r, p : Stands(w, q, r, p) /\ o = Offer(w, r, p)
Passed(w, q, k, n, o) ==
  \E r, p : Stands(w, q, r, p) /\ (r < k \/ (r = k /\ p < n)) /\ o = Offer(w, r, p)
Keeps(q, o) == q # <<>> /\ o.word = q /\ Sureness(q, o.size, o.weight) >= 57
Fits(q, o) ==
  /\ Sureness(q, o.size, o.weight) > (IF o.pos = 1 THEN 60 ELSE 70)
  /\ Len(o.word) > 1 => o.word \in Known
IsNear(q, o) == Fits(q, o) /\ ~Far(q, o.word)
Call(w) ==
  /\ w \in Seq(Segmentations)
  /\ \A r \in 1 .. Len(w) : w[r].size <= w[Len(w)].size

LEMMA TheRecCall ==
  /\ \A o : o \in Rec!Offers <=> IsOffer(segments, ori_word, o)
  /\ \A size, weight : Rec!confidence(size, weight) = Sureness(ori_word, size, weight)
  /\ \A word : Rec!AllDifferent(word) <=> Far(ori_word, word)
  /\ \A o : Rec!Good(o) <=> Fits(ori_word, o)
  <1>1. \A size, weight : Rec!confidence(size, weight) = Sureness(ori_word, size, weight)
    BY DEF Rec!confidence, Sureness, Rec!WithOriginal, Rec!NoWord
  <1>2. \A word : Rec!AllDifferent(word) <=> Far(ori_word, word)
    BY DEF Rec!AllDifferent, Far, Rec!WithOriginal, Rec!NoWord
  <1>3. \A o : Rec!Good(o) <=> Fits(ori_word, o)
    BY <1>1 DEF Rec!Good, Fits
  <1>4. Rec!Looked = IF ori_word # <<>> THEN 1 .. 2 ELSE {1}
    BY DEF Rec!Looked, Rec!WithOriginal, Rec!NoWord
  <1>5. ASSUME NEW o, o \in Rec!Offers PROVE IsOffer(segments, ori_word, o)
    <2>1. PICK c \in (DOMAIN segments) \X Rec!Looked :
             /\ c[2] \in DOMAIN segments[c[1]].texts
             /\ o = [size |-> segments[c[1]].size, pos |-> c[2],
                     word |-> segments[c[1]].texts[c[2]].word,
                     weight |-> segments[c[1]].texts[c[2]].weight]
      BY <1>5 DEF Rec!Offers
    <2>2. Stands(segments, ori_word, c[1], c[2]) /\ o = Offer(segments, c[1], c[2])
      BY <1>4, <2>1 DEF Stands, Offer
    <2> QED
      BY <2>2 DEF IsOffer
  <1>6. ASSUME NEW o, IsOffer(segments, ori_word, o) PROVE o \in Rec!Offers
    <2>1. PICK r, p : Stands(segments, ori_word, r, p) /\ o = Offer(segments, r, p)
      BY <1>6 DEF IsOffer
    <2>2. <<r, p>> \in (DOMAIN segments) \X Rec!Looked /\ p \in DOMAIN segments[r].texts
      BY <1>4, <2>1 DEF Stands
    <2> QED
      BY <2>1, <2>2 DEF Rec!Offers, Offer
  <1> QED
    BY <1>1, <1>2, <1>3, <1>5, <1>6

LEMMA OfferIs ==
  ASSUME Rec!NgramRecAssumption, NEW w, NEW q, NEW r, NEW p, Call(w), Stands(w, q, r, p)
  PROVE  /\ r \in 1 .. Len(w) /\ Len(w) \in Nat /\ w[r].texts \in Seq(Rec!ToSet(w[r].texts))
         /\ p \in 1 .. Len(w[r].texts) /\ Len(w[r].texts) \in Nat
         /\ w[r].texts[p].word # <<>>
         /\ w[r].texts[p].weight \in Nat \ {0} /\ w[r].texts[p].weight < Rec!NoWeight
         /\ w[r].size \in Nat /\ w[Len(w)].size \in Nat /\ w[r].size <= w[Len(w)].size
  <1>1. w \in Seq(Segmentations)
    BY DEF Call
  <1>2. r \in 1 .. Len(w) /\ Len(w) \in Nat
    BY <1>1 DEF Stands
  <1>3. w[r] \in Segmentations /\ w[Len(w)] \in Segmentations
    BY <1>1, <1>2
  <1>4. w[r].texts \in Seq(Rec!ToSet(w[r].texts))
    BY <1>3 DEF Rec!NgramRecAssumption
  <1>5. p \in DOMAIN w[r].texts
    BY DEF Stands
  <1>6. p \in 1 .. Len(w[r].texts) /\ Len(w[r].texts) \in Nat
    BY <1>4, <1>5
  <1>7. /\ w[r].texts[p].word # <<>>
        /\ w[r].texts[p].weight \in Nat \ {0} /\ w[r].texts[p].weight < Rec!NoWeight
    BY <1>3, <1>5 DEF Rec!NgramRecAssumption, Rec!NoWord
  <1>8. w[r].size \in Nat /\ w[Len(w)].size \in Nat
    BY <1>3 DEF Rec!NgramRecAssumption
  <1>9. w[r].size <= w[Len(w)].size
    BY <1>2 DEF Call
  <1> QED
    BY <1>2, <1>4, <1>6, <1>7, <1>8, <1>9

LEMMA PassedIs ==
  ASSUME Rec!NgramRecAssumption, NEW w, NEW q, NEW o, Call(w), IsOffer(w, q, o)
  PROVE  /\ o.word # <<>> /\ o.weight \in Nat \ {0} /\ o.weight < Rec!NoWeight
         /\ o.size \in Nat /\ w[Len(w)].size \in Nat /\ o.size <= w[Len(w)].size
  <1>1. PICK r, p : Stands(w, q, r, p) /\ o = Offer(w, r, p)
    BY DEF IsOffer
  <1>2. /\ o.word = w[r].texts[p].word /\ o.weight = w[r].texts[p].weight
        /\ o.size = w[r].size
    BY <1>1 DEF Offer
  <1> QED
    BY <1>1, <1>2, OfferIs

LEMMA PassedIsOffer ==
  ASSUME NEW w, NEW q, NEW k, NEW n, NEW o, Passed(w, q, k, n, o)
  PROVE  IsOffer(w, q, o)
  BY DEF Passed, IsOffer

(* A longer segmentation makes surer.                                      *)
LEMMA SureBound ==
  ASSUME NEW c \in Nat, NEW v \in Nat, v # 0
  PROVE  c \div v \in Nat /\ (c \div v > 60 <=> c >= 61 * v)
  BY Z3
LEMMA SurerWhenLonger ==
  ASSUME NEW q, NEW a \in Nat, NEW b \in Nat, a <= b, NEW v \in Nat \ {0}, Sureness(q, a, v) > 60
  PROVE  Sureness(q, b, v) \in Nat /\ Sureness(q, b, v) > 60
  <1> DEFINE f == IF q # <<>> THEN 30500 ELSE 35000
             c == 2000 + a * f
             d == 2000 + b * f
  <1>1. c \in Nat /\ d \in Nat /\ c <= d
    <2>1. CASE q # <<>>
      BY <2>1
    <2>2. CASE q = <<>>
      BY <2>2
    <2> QED
      BY <2>1, <2>2
  <1>2. Sureness(q, a, v) = c \div v /\ Sureness(q, b, v) = d \div v
    BY DEF Sureness
  <1> HIDE DEF c, d
  <1>3. c >= 61 * v
    BY <1>1, <1>2, SureBound
  <1>4. d >= 61 * v
    BY <1>1, <1>3
  <1> QED
    BY <1>1, <1>2, <1>4, SureBound

-----------------------------------------------------------------------------
(* What the loop knows of the texts it has looked at.                      *)
NoneKept(w, q, k, n) == \A o : Passed(w, q, k, n, o) => ~Keeps(q, o)
NearIs(w, q, k, n, word, weight) ==
  /\ weight \in Nat
  /\ word = <<>> => weight = Rec!NoWeight
  /\ word # <<>> => \E o : Passed(w, q, k, n, o) /\ IsNear(q, o) /\ o.word = word /\ o.weight = weight
  /\ \A o : Passed(w, q, k, n, o) /\ IsNear(q, o) => weight <= o.weight
FarIs(w, q, k, n, near, word, weight) ==
  /\ weight \in Nat
  /\ word = <<>> => weight = Rec!NoWeight
  /\ word # <<>> => \E o : Passed(w, q, k, n, o) /\ Fits(q, o) /\ o.word = word /\ o.weight = weight
  /\ near = <<>> => \A o : Passed(w, q, k, n, o) /\ Fits(q, o) => weight <= o.weight
(* The property, with the call and the answer as arguments.                *)
Answers(w, q, answer, end, beside) ==
  end # "none" =>
    IF \E o : IsOffer(w, q, o) /\ Keeps(q, o)
    THEN end = "true" /\ answer[1].word = q
    ELSE LET Pool(o) == /\ IsOffer(w, q, o)
                        /\ IF \E n : IsOffer(w, q, n) /\ IsNear(q, n) THEN IsNear(q, o) ELSE Fits(q, o)
         IN  /\ end = "true" => \E o : /\ Pool(o) /\ o.word = answer[1].word
                                       /\ \A p : Pool(p) => o.weight <= p.weight
                                       /\ answer[1].conf \in 61 .. 100
             /\ end = "false" => (\A o : ~Pool(o)) \/ beside = "seen"

Loop ==
  /\ seg \in Nat \ {0} /\ place \in Nat \ {0}
  /\ NoneKept(segments, ori_word, seg, place)
  /\ NearIs(segments, ori_word, seg, place, res, min_weight)
  /\ FarIs(segments, ori_word, seg, place, res, tmp, tmp_weight)
RecInv ==
  /\ Call(segments) /\ right \in {"indep", "new", "seen"}
  /\ result = "none" => Loop
  /\ Answers(segments, ori_word, reply, result, right)

LEMMA RecInit ==
  ASSUME Rec!NgramRecAssumption, Rec!Init
  PROVE  RecInv
  <1>1. Call(segments)
    <2>1. CASE segments = <<>>
      BY <2>1 DEF Call
    <2>2. CASE \E row \in Segmentations : segments = <<row>>
      <3>1. PICK row \in Segmentations : segments = <<row>>
        BY <2>2
      <3>2. segments \in Seq(Segmentations) /\ Len(segments) = 1 /\ segments[1] = row
        BY <3>1
      <3>3. row.size <= row.size
        BY DEF Rec!NgramRecAssumption
      <3>4. \A r \in 1 .. Len(segments) : r = 1
        BY <3>2
      <3> QED
        BY <3>2, <3>3, <3>4 DEF Call
    <2>3. CASE \E c \in Segmentations \X Segmentations : c[1].size <= c[2].size /\ segments = c
      <3>1. PICK a \in Segmentations, b \in Segmentations : segments = <<a, b>> /\ a.size <= b.size
        BY <2>3
      <3>2. /\ segments \in Seq(Segmentations) /\ Len(segments) = 2
            /\ segments[1] = a /\ segments[2] = b
        BY <3>1
      <3>3. b.size <= b.size
        BY DEF Rec!NgramRecAssumption
      <3>4. \A r \in 1 .. Len(segments) : r = 1 \/ r = 2
        BY <3>2
      <3> QED
        BY <3>1, <3>2, <3>3, <3>4 DEF Call
    <2> QED
      BY <2>1, <2>2, <2>3 DEF Rec!Init
  <1>2. /\ right \in {"indep", "new", "seen"} /\ seg = 1 /\ place = 1 /\ res = <<>>
        /\ min_weight = Rec!NoWeight /\ tmp = <<>> /\ tmp_weight = Rec!NoWeight /\ result = "none"
    BY DEF Rec!Init, Rec!NoWord
  <1>3. ASSUME NEW o, Passed(segments, ori_word, seg, place, o) PROVE FALSE
    <2>1. PICK r, p : Stands(segments, ori_word, r, p) /\ (r < 1 \/ (r = 1 /\ p < 1))
      BY <1>2, <1>3 DEF Passed
    <2>2. /\ r \in 1 .. Len(segments) /\ Len(segments) \in Nat
          /\ p \in 1 .. Len(segments[r].texts) /\ Len(segments[r].texts) \in Nat
      BY <1>1, <2>1, OfferIs
    <2> QED
      BY <2>1, <2>2
  <1>4. Rec!NoWeight \in Nat
    BY DEF Rec!NoWeight
  <1>5. Loop
    BY <1>2, <1>3, <1>4 DEF Loop, NoneKept, NearIs, FarIs
  <1> QED
    BY <1>1, <1>2, <1>5 DEF RecInv, Answers

(* The text looked at next.                                                *)
LEMMA LookedAt ==
  ASSUME Rec!NgramRecAssumption, RecInv, Rec!Looking
  PROVE  /\ Loop /\ seg \in Nat /\ place \in Nat /\ Stands(segments, ori_word, seg, place)
         /\ Rec!Text = segments[seg].texts[place]
         /\ Rec!Sure = Sureness(ori_word, segments[seg].size, Rec!Text.weight)
  <1>1. Loop
    BY DEF RecInv, Rec!Looking
  <1>2. seg \in Nat \ {0} /\ place \in Nat \ {0}
    BY <1>1 DEF Loop
  <1>3. segments \in Seq(Segmentations) /\ Len(segments) \in Nat
    BY DEF RecInv, Call
  <1>4. seg \in 1 .. Len(segments) /\ seg \in DOMAIN segments
    BY <1>2, <1>3 DEF Rec!Looking
  <1> DEFINE texts == segments[seg].texts
  <1>5. segments[seg] \in Segmentations
    BY <1>3, <1>4
  <1>6. texts \in Seq(Rec!ToSet(texts)) /\ Len(texts) \in Nat /\ Len(texts) <= 2
    BY <1>5 DEF Rec!NgramRecAssumption
  <1>7. place <= Len(Rec!Texts)
    BY DEF Rec!Looking
  <1>8. /\ Rec!Texts[place] = texts[place] /\ place \in DOMAIN texts
        /\ place \in (IF ori_word # <<>> THEN 1 .. 2 ELSE {1})
    <2>1. CASE ori_word # <<>>
      <3>1. Rec!Texts = texts
        BY <2>1 DEF Rec!Texts, Rec!WithOriginal, Rec!NoWord
      <3> HIDE DEF texts
      <3> QED
        BY <1>2, <1>6, <1>7, <2>1, <3>1
    <2>2. CASE ori_word = <<>> /\ texts = <<>>
      <3>1. Rec!Texts = texts
        BY <2>2 DEF Rec!Texts, Rec!WithOriginal, Rec!NoWord
      <3>2. Len(Rec!Texts) = 0
        BY <2>2, <3>1
      <3> QED
        BY <1>2, <1>7, <3>2
    <2>3. CASE ori_word = <<>> /\ texts # <<>>
      <3>1. Rec!Texts = <<texts[1]>>
        BY <2>3 DEF Rec!Texts, Rec!WithOriginal, Rec!NoWord
      <3> HIDE DEF texts
      <3>2. Len(Rec!Texts) = 1 /\ Rec!Texts[1] = texts[1]
        BY <3>1
      <3>3. place = 1
        BY <1>2, <1>7, <3>2
      <3>4. 1 \in DOMAIN texts
        BY <1>6, <2>3
      <3> QED
        BY <2>3, <3>2, <3>3, <3>4
    <2> QED
      BY <2>1, <2>2, <2>3
  <1>9. Stands(segments, ori_word, seg, place)
    BY <1>4, <1>8 DEF Stands
  <1>10. Rec!Text = texts[place]
    BY <1>8 DEF Rec!Text
  <1>11. Rec!Sure = Sureness(ori_word, segments[seg].size, Rec!Text.weight)
    BY TheRecCall DEF Rec!Sure
  <1> QED
    BY <1>1, <1>2, <1>9, <1>10, <1>11

(* One text more.                                                          *)
LEMMA OneMore ==
  ASSUME Rec!NgramRecAssumption, NEW w, NEW q, NEW k \in Nat, NEW n \in Nat, Call(w), Stands(w, q, k, n),
         NEW o
  PROVE  Passed(w, q, k, n + 1, o) <=> (Passed(w, q, k, n, o) \/ o = Offer(w, k, n))
  <1>1. ASSUME Passed(w, q, k, n + 1, o) PROVE Passed(w, q, k, n, o) \/ o = Offer(w, k, n)
    <2>1. PICK r, p : Stands(w, q, r, p) /\ (r < k \/ (r = k /\ p < n + 1)) /\ o = Offer(w, r, p)
      BY <1>1 DEF Passed
    <2>2. p \in Nat
      BY <2>1, OfferIs
    <2>3. r < k \/ (r = k /\ p < n) \/ (r = k /\ p = n)
      BY <2>1, <2>2
    <2> QED
      BY <2>1, <2>3 DEF Passed
  <1>2. ASSUME Passed(w, q, k, n, o) PROVE Passed(w, q, k, n + 1, o)
    <2>1. PICK r, p : Stands(w, q, r, p) /\ (r < k \/ (r = k /\ p < n)) /\ o = Offer(w, r, p)
      BY <1>2 DEF Passed
    <2>2. p \in Nat
      BY <2>1, OfferIs
    <2>3. r < k \/ (r = k /\ p < n + 1)
      BY <2>1, <2>2
    <2> QED
      BY <2>1, <2>3 DEF Passed
  <1>3. n < n + 1
    OBVIOUS
  <1>4. o = Offer(w, k, n) => Passed(w, q, k, n + 1, o)
    BY <1>3 DEF Passed
  <1> QED
    BY <1>1, <1>2, <1>4

(* What the text looked at is, said of its offer.                          *)
LEMMA OfferLooked ==
  ASSUME Rec!NgramRecAssumption, RecInv, Rec!Looking
  PROVE  LET o == Offer(segments, seg, place)
         IN  /\ o.word = Rec!Text.word /\ o.weight = Rec!Text.weight
             /\ IsOffer(segments, ori_word, o)
             /\ Rec!IsOriginal <=> Keeps(ori_word, o)
             /\ Rec!Acceptable <=> Fits(ori_word, o) /\ o.weight < min_weight
             /\ Rec!AllDifferent(Rec!Text.word) <=> Far(ori_word, o.word)
             /\ \A p : Passed(segments, ori_word, seg, place + 1, p)
                         <=> (Passed(segments, ori_word, seg, place, p) \/ p = o)
  <1> DEFINE o == Offer(segments, seg, place)
  <1>1. /\ Loop /\ seg \in Nat /\ place \in Nat /\ Stands(segments, ori_word, seg, place)
        /\ Rec!Text = segments[seg].texts[place]
        /\ Rec!Sure = Sureness(ori_word, segments[seg].size, Rec!Text.weight)
    BY LookedAt
  <1>2. /\ o.word = Rec!Text.word /\ o.weight = Rec!Text.weight /\ o.size = segments[seg].size
        /\ o.pos = place
    BY <1>1 DEF Offer
  <1>3. IsOffer(segments, ori_word, o)
    BY <1>1 DEF IsOffer
  <1>4. \A p : Passed(segments, ori_word, seg, place + 1, p)
                 <=> (Passed(segments, ori_word, seg, place, p) \/ p = o)
    BY <1>1, OneMore DEF RecInv
  <1> HIDE DEF o
  <1>5. Rec!IsOriginal <=> Keeps(ori_word, o)
    BY <1>1, <1>2 DEF Rec!IsOriginal, Keeps, Rec!WithOriginal, Rec!NoWord
  <1>6. Rec!Acceptable <=> Fits(ori_word, o) /\ o.weight < min_weight
    BY <1>1, <1>2 DEF Rec!Acceptable, Rec!Likely, Fits
  <1>7. Rec!AllDifferent(Rec!Text.word) <=> Far(ori_word, o.word)
    BY <1>2, TheRecCall
  <1> QED
    BY <1>2, <1>3, <1>4, <1>5, <1>6, <1>7 DEF o

(* The loop goes on to the next text.                                      *)
LEMMA LoopStep ==
  ASSUME Rec!NgramRecAssumption, RecInv, Rec!Looking, ~Rec!IsOriginal,
         Rec!Accept \/ Rec!Remember \/ Rec!PassOver
  PROVE  RecInv'
  <1> DEFINE o == Offer(segments, seg, place)
  <1>1. /\ o.word = Rec!Text.word /\ o.weight = Rec!Text.weight
        /\ IsOffer(segments, ori_word, o)
        /\ ~Keeps(ori_word, o)
        /\ Rec!Acceptable <=> Fits(ori_word, o) /\ o.weight < min_weight
        /\ Rec!AllDifferent(Rec!Text.word) <=> Far(ori_word, o.word)
    BY OfferLooked
  <1>2. \A p : Passed(segments, ori_word, seg, place + 1, p)
                 <=> (Passed(segments, ori_word, seg, place, p) \/ p = o)
    BY OfferLooked
  <1>3. Loop /\ Call(segments)
    BY LookedAt DEF RecInv
  <1>4. o.word # <<>> /\ o.weight \in Nat /\ o.weight < Rec!NoWeight
    BY <1>1, <1>3, PassedIs
  <1> HIDE DEF o
  <1>5. /\ place' = place + 1 /\ result' = result /\ result = "none"
        /\ ori_word' = ori_word /\ segments' = segments /\ right' = right /\ seg' = seg
    BY DEF Rec!Accept, Rec!Remember, Rec!PassOver, Rec!Looking
  <1>6. NoneKept(segments, ori_word, seg, place + 1)
    BY <1>1, <1>2, <1>3 DEF Loop, NoneKept
  <1>7. NearIs(segments, ori_word, seg, place, res, min_weight)
    BY <1>3 DEF Loop
  <1>8. FarIs(segments, ori_word, seg, place, res, tmp, tmp_weight)
    BY <1>3 DEF Loop
  <1>9. Rec!NoWeight \in Nat
    BY DEF Rec!NoWeight
  <1>10. \A p : Passed(segments, ori_word, seg, place, p) => p.weight \in Nat
    BY <1>3, PassedIs, PassedIsOffer
  <1>11. /\ NearIs(segments, ori_word, seg, place + 1, res', min_weight')
         /\ FarIs(segments, ori_word, seg, place + 1, res', tmp', tmp_weight')
    <2>1. CASE Rec!Accept
      <3>1. /\ res' = o.word /\ min_weight' = o.weight /\ tmp' = tmp /\ tmp_weight' = tmp_weight
            /\ IsNear(ori_word, o) /\ o.weight < min_weight
        BY <1>1, <2>1 DEF Rec!Accept, IsNear
      <3>2. \A p : Passed(segments, ori_word, seg, place + 1, p) /\ IsNear(ori_word, p)
                     => o.weight <= p.weight
        <4>1. SUFFICES ASSUME NEW p, Passed(segments, ori_word, seg, place, p), IsNear(ori_word, p)
                       PROVE  o.weight <= p.weight
          BY <1>2, <1>4
        <4>2. min_weight <= p.weight /\ min_weight \in Nat
          BY <1>7, <4>1 DEF NearIs
        <4> QED
          BY <1>4, <1>10, <3>1, <4>1, <4>2
      <3>3. NearIs(segments, ori_word, seg, place + 1, o.word, o.weight)
        BY <1>2, <1>4, <3>1, <3>2 DEF NearIs
      <3>4. FarIs(segments, ori_word, seg, place + 1, o.word, tmp, tmp_weight)
        BY <1>2, <1>4, <1>8 DEF FarIs
      <3> QED
        BY <3>1, <3>3, <3>4
    <2>2. CASE Rec!Remember
      <3>1. /\ res' = res /\ min_weight' = min_weight /\ Fits(ori_word, o) /\ ~IsNear(ori_word, o)
            /\ IF tmp_weight > o.weight THEN tmp' = o.word /\ tmp_weight' = o.weight
                                        ELSE tmp' = tmp /\ tmp_weight' = tmp_weight
        BY <1>1, <2>2 DEF Rec!Remember, IsNear
      <3>2. NearIs(segments, ori_word, seg, place + 1, res, min_weight)
        BY <1>2, <1>7, <3>1 DEF NearIs
      <3>3. tmp_weight \in Nat
        BY <1>8 DEF FarIs
      <3>4. CASE tmp_weight > o.weight
        <4>1. ASSUME res = <<>>, NEW p, Passed(segments, ori_word, seg, place + 1, p), Fits(ori_word, p)
              PROVE  o.weight <= p.weight
          <5>1. CASE p = o
            BY <1>4, <5>1
          <5>2. CASE Passed(segments, ori_word, seg, place, p)
            <6>1. tmp_weight <= p.weight
              BY <1>8, <4>1, <5>2 DEF FarIs
            <6> QED
              BY <1>4, <1>10, <3>3, <3>4, <5>2, <6>1
          <5> QED
            BY <1>2, <4>1, <5>1, <5>2
        <4>2. FarIs(segments, ori_word, seg, place + 1, res, o.word, o.weight)
          BY <1>2, <1>4, <3>1, <4>1 DEF FarIs
        <4> QED
          BY <3>1, <3>2, <3>4, <4>2
      <3>5. CASE ~(tmp_weight > o.weight)
        <4>1. tmp_weight <= o.weight
          BY <1>4, <3>3, <3>5
        <4>2. FarIs(segments, ori_word, seg, place + 1, res, tmp, tmp_weight)
          BY <1>2, <1>8, <4>1 DEF FarIs
        <4> QED
          BY <3>1, <3>2, <3>5, <4>2
      <3> QED
        BY <3>4, <3>5
    <2>3. CASE Rec!PassOver
      <3>1. /\ res' = res /\ min_weight' = min_weight /\ tmp' = tmp /\ tmp_weight' = tmp_weight
            /\ Fits(ori_word, o) => ~(o.weight < min_weight)
        BY <1>1, <2>3 DEF Rec!PassOver
      <3>2. min_weight \in Nat
        BY <1>7 DEF NearIs
      <3>3. Fits(ori_word, o) => min_weight <= o.weight
        BY <1>4, <3>1, <3>2
      <3>4. NearIs(segments, ori_word, seg, place + 1, res, min_weight)
        BY <1>2, <1>7, <3>3 DEF NearIs, IsNear
      <3>5. res = <<>> => ~Fits(ori_word, o)
        BY <1>4, <1>7, <1>9, <3>1 DEF NearIs
      <3>6. FarIs(segments, ori_word, seg, place + 1, res, tmp, tmp_weight)
        BY <1>2, <1>8, <3>5 DEF FarIs
      <3> QED
        BY <3>1, <3>4, <3>6
    <2> QED
      BY <2>1, <2>2, <2>3
  <1>12. seg \in Nat \ {0} /\ place \in Nat \ {0}
    BY <1>3 DEF Loop
  <1>13. place + 1 \in Nat \ {0}
    BY <1>12
  <1>14. Loop'
    BY <1>5, <1>6, <1>11, <1>12, <1>13 DEF Loop
  <1> QED
    BY <1>3, <1>5, <1>14 DEF RecInv, Answers

(* ... or to the next segmentation: it has looked at all of this one.      *)
LEMMA LoopNextRow ==
  ASSUME Rec!NgramRecAssumption, RecInv, Rec!NextRow
  PROVE  RecInv'
  <1>1. /\ seg' = seg + 1 /\ place' = 1 /\ result' = result /\ result = "none"
        /\ ori_word' = ori_word /\ segments' = segments /\ right' = right
        /\ res' = res /\ min_weight' = min_weight /\ tmp' = tmp /\ tmp_weight' = tmp_weight
    BY DEF Rec!NextRow
  <1>2. Loop /\ Call(segments)
    BY <1>1 DEF RecInv
  <1>3. seg \in Nat \ {0} /\ place \in Nat \ {0}
    BY <1>2 DEF Loop
  <1>4. ASSUME NEW p, Stands(segments, ori_word, seg, p) PROVE p < place
    <2>1. /\ p \in 1 .. Len(segments[seg].texts) /\ Len(segments[seg].texts) \in Nat
          /\ segments[seg].texts \in Seq(Rec!ToSet(segments[seg].texts))
      BY <1>2, <1>4, OfferIs
    <2>2. place > Len(Rec!Texts)
      BY DEF Rec!NextRow
    <2> DEFINE texts == segments[seg].texts
    <2>3. CASE ori_word # <<>>
      <3>1. Rec!Texts = texts
        BY <2>3 DEF Rec!Texts, Rec!WithOriginal, Rec!NoWord
      <3>2. Len(Rec!Texts) \in Nat /\ p \in 1 .. Len(Rec!Texts)
        BY <2>1, <3>1
      <3> QED
        BY <1>3, <2>2, <3>2
    <2>4. CASE ori_word = <<>>
      <3>1. texts # <<>>
        BY <2>1
      <3>2. Rec!Texts = <<texts[1]>>
        BY <2>4, <3>1 DEF Rec!Texts, Rec!WithOriginal, Rec!NoWord
      <3> HIDE DEF texts
      <3>3. Len(Rec!Texts) = 1
        BY <3>2
      <3>4. p = 1
        BY <1>4, <2>4 DEF Stands
      <3> QED
        BY <1>3, <2>2, <3>3, <3>4
    <2> QED
      BY <2>3, <2>4
  <1>5. \A o : Passed(segments, ori_word, seg + 1, 1, o) <=> Passed(segments, ori_word, seg, place, o)
    <2>1. ASSUME NEW o, Passed(segments, ori_word, seg + 1, 1, o) PROVE Passed(segments, ori_word, seg, place, o)
      <3>1. PICK r, p : /\ Stands(segments, ori_word, r, p) /\ o = Offer(segments, r, p)
                        /\ (r < seg + 1 \/ (r = seg + 1 /\ p < 1))
        BY <2>1 DEF Passed
      <3>2. r \in Nat /\ p \in Nat /\ p >= 1
        BY <1>2, <3>1, OfferIs
      <3>3. r < seg \/ r = seg
        BY <1>3, <3>1, <3>2
      <3> QED
        BY <1>4, <3>1, <3>3 DEF Passed
    <2>2. ASSUME NEW o, Passed(segments, ori_word, seg, place, o) PROVE Passed(segments, ori_word, seg + 1, 1, o)
      <3>1. PICK r, p : /\ Stands(segments, ori_word, r, p) /\ o = Offer(segments, r, p)
                        /\ (r < seg \/ (r = seg /\ p < place))
        BY <2>2 DEF Passed
      <3>2. r \in Nat
        BY <1>2, <3>1, OfferIs
      <3>3. r < seg + 1
        BY <1>3, <3>1, <3>2
      <3> QED
        BY <3>1, <3>3 DEF Passed
    <2> QED
      BY <2>1, <2>2
  <1>6. NoneKept(segments, ori_word, seg + 1, 1)
    BY <1>2, <1>5 DEF Loop, NoneKept
  <1>7. NearIs(segments, ori_word, seg + 1, 1, res, min_weight)
    BY <1>2, <1>5 DEF Loop, NearIs
  <1>8. FarIs(segments, ori_word, seg + 1, 1, res, tmp, tmp_weight)
    BY <1>2, <1>5 DEF Loop, FarIs
  <1>9. Loop'
    BY <1>1, <1>3, <1>6, <1>7, <1>8 DEF Loop
  <1> QED
    BY <1>1, <1>2, <1>9 DEF RecInv, Answers

LEMMA AnswersIs == Answers(segments, ori_word, reply, result, right) => Rec!AnswerIsLightest
  <1> SUFFICES ASSUME Answers(segments, ori_word, reply, result, right), result # "none"
               PROVE  Rec!AnswerIsLightest
    BY DEF Rec!AnswerIsLightest
  <1> DEFINE kept == {o \in Rec!Offers : Rec!WithOriginal /\ o.word = ori_word
                                /\ Rec!confidence(o.size, o.weight) >= 57}
             near == {o \in Rec!Offers : Rec!Good(o) /\ ~Rec!AllDifferent(o.word)}
             pool == IF near # {} THEN near ELSE {o \in Rec!Offers : Rec!Good(o)}
  <1>1. \A o : o \in kept <=> IsOffer(segments, ori_word, o) /\ Keeps(ori_word, o)
    BY TheRecCall DEF Keeps, Rec!WithOriginal, Rec!NoWord
  <1>2. \A o : o \in near <=> IsOffer(segments, ori_word, o) /\ IsNear(ori_word, o)
    BY TheRecCall DEF IsNear
  <1>3. \A o : o \in pool <=>
                 /\ IsOffer(segments, ori_word, o)
                 /\ IF \E n : IsOffer(segments, ori_word, n) /\ IsNear(ori_word, n)
                    THEN IsNear(ori_word, o) ELSE Fits(ori_word, o)
    <2>1. near # {} <=> \E n : IsOffer(segments, ori_word, n) /\ IsNear(ori_word, n)
      BY <1>2
    <2>2. CASE near # {}
      BY <1>2, <2>1, <2>2
    <2>3. CASE near = {}
      BY <2>1, <2>3, TheRecCall
    <2> QED
      BY <2>2, <2>3
  <1>4. Rec!AnswerIsLightest <=>
          IF kept # {} THEN result = "true" /\ reply[1].word = ori_word
          ELSE /\ result = "true" =>
                    \E o \in pool : /\ o.word = reply[1].word
                                    /\ \A q \in pool : o.weight <= q.weight
                                    /\ reply[1].conf \in 61 .. 100
               /\ result = "false" => pool = {} \/ right = "seen"
    BY DEF Rec!AnswerIsLightest
  <1> HIDE DEF kept, near, pool
  <1>5. kept # {} <=> \E o : IsOffer(segments, ori_word, o) /\ Keeps(ori_word, o)
    BY <1>1
  <1>6. CASE kept # {}
    BY <1>4, <1>5, <1>6 DEF Answers
  <1>7. CASE kept = {}
    <2>1. /\ result = "true" => \E o : /\ o \in pool /\ o.word = reply[1].word
                                       /\ \A p : p \in pool => o.weight <= p.weight
                                       /\ reply[1].conf \in 61 .. 100
          /\ result = "false" => (\A o : o \notin pool) \/ right = "seen"
      BY <1>3, <1>5, <1>7 DEF Answers
    <2> QED
      BY <1>4, <1>7, <2>1
  <1> QED
    BY <1>6, <1>7

LEMMA KeepStep ==
  ASSUME Rec!NgramRecAssumption, RecInv, Rec!KeepOriginal
  PROVE  RecInv'
  <1> DEFINE o == Offer(segments, seg, place)
  <1>1. IsOffer(segments, ori_word, o) /\ (Rec!IsOriginal <=> Keeps(ori_word, o))
    BY OfferLooked DEF Rec!KeepOriginal
  <1> HIDE DEF o
  <1>2. IsOffer(segments, ori_word, o) /\ Keeps(ori_word, o)
    BY <1>1 DEF Rec!KeepOriginal
  <1>3. /\ reply'[1].word = ori_word /\ result' = "true"
        /\ ori_word' = ori_word /\ segments' = segments /\ right' = right
    BY DEF Rec!KeepOriginal
  <1>4. Answers(segments, ori_word, reply', result', right)
    BY <1>2, <1>3 DEF Answers
  <1>5. Call(segments) /\ right \in {"indep", "new", "seen"}
    BY DEF RecInv
  <1> QED
    BY <1>3, <1>4, <1>5 DEF RecInv

(* The end of the loop: all texts have been looked at.                     *)
LEMMA AllPassed ==
  ASSUME Rec!NgramRecAssumption, NEW w, NEW q, NEW k \in Nat, NEW n, Call(w), k > Len(w)
  PROVE  \A o : Passed(w, q, k, n, o) <=> IsOffer(w, q, o)
  <1>1. ASSUME NEW o, IsOffer(w, q, o) PROVE Passed(w, q, k, n, o)
    <2>1. PICK r, p : Stands(w, q, r, p) /\ o = Offer(w, r, p)
      BY <1>1 DEF IsOffer
    <2>2. r \in 1 .. Len(w) /\ Len(w) \in Nat
      BY <2>1, OfferIs
    <2>3. r < k
      BY <2>2
    <2> QED
      BY <2>1, <2>3 DEF Passed
  <1> QED
    BY <1>1, PassedIsOffer

(* What is reported of a text that fits: 61 to 100.                        *)
LEMMA RecMinIs ==
  ASSUME NEW n \in Nat, n > 60
  PROVE  Rec!Min({100, n}) \in 61 .. 100
  <1>1. CASE n <= 100
    <2>1. n \in {100, n} /\ \A m \in {100, n} : n <= m
      BY <1>1
    <2>2. Rec!Min({100, n}) \in {100, n} /\ \A m \in {100, n} : Rec!Min({100, n}) <= m
      BY <2>1 DEF Rec!Min
    <2> QED
      BY <2>2
  <1>2. CASE ~(n <= 100)
    <2>1. \A m \in {100, n} : 100 <= m
      BY <1>2
    <2>2. Rec!Min({100, n}) \in {100, n} /\ \A m \in {100, n} : Rec!Min({100, n}) <= m
      BY <2>1 DEF Rec!Min
    <2> QED
      BY <2>2
  <1> QED
    BY <1>1, <1>2

LEMMA ReportedIs ==
  ASSUME Rec!NgramRecAssumption, Call(segments), NEW o,
         IsOffer(segments, ori_word, o), Fits(ori_word, o), Rec!Chosen.weight = o.weight
  PROVE  Rec!Reported \in 61 .. 100
  <1>1. /\ o.weight \in Nat \ {0} /\ o.size \in Nat
        /\ segments[Len(segments)].size \in Nat /\ o.size <= segments[Len(segments)].size
    BY PassedIs
  <1> DEFINE s == Sureness(ori_word, o.size, o.weight)
             l == Sureness(ori_word, segments[Len(segments)].size, o.weight)
  <1>2. s > 60
    <2>1. s > 60 \/ s > 70
      BY DEF Fits
    <2>2. s \in Nat
      <3>1. 2000 + o.size * (IF ori_word # <<>> THEN 30500 ELSE 35000) \in Nat
        BY <1>1
      <3> QED
        BY <1>1, <3>1, SureBound DEF Sureness
    <2> HIDE DEF s
    <2> QED
      BY <2>1, <2>2
  <1>3. l \in Nat /\ l > 60
    BY <1>1, <1>2, SurerWhenLonger
  <1>4. Rec!Reported = Rec!Min({100, l})
    BY TheRecCall DEF Rec!Reported, Rec!LastSize
  <1> HIDE DEF l
  <1> QED
    BY <1>3, <1>4, RecMinIs

LEMMA AnswerStep ==
  ASSUME Rec!NgramRecAssumption, RecInv, Rec!Answer
  PROVE  RecInv'
  <1>1. /\ result = "none" /\ seg > Len(segments) /\ result' # "none"
        /\ ori_word' = ori_word /\ segments' = segments /\ right' = right
    BY DEF Rec!Answer
  <1>2. Loop /\ Call(segments) /\ right \in {"indep", "new", "seen"}
    BY <1>1 DEF RecInv
  <1>3. seg \in Nat
    BY <1>2 DEF Loop
  <1>4. \A o : Passed(segments, ori_word, seg, place, o) <=> IsOffer(segments, ori_word, o)
    BY <1>1, <1>2, <1>3, AllPassed
  <1>5. \A o : IsOffer(segments, ori_word, o) => ~Keeps(ori_word, o)
    BY <1>2, <1>4 DEF Loop, NoneKept
  <1>6. /\ min_weight \in Nat
        /\ res = <<>> => min_weight = Rec!NoWeight
        /\ res # <<>> => \E o : /\ IsOffer(segments, ori_word, o) /\ IsNear(ori_word, o)
                                /\ o.word = res /\ o.weight = min_weight
        /\ \A o : IsOffer(segments, ori_word, o) /\ IsNear(ori_word, o) => min_weight <= o.weight
    BY <1>2, <1>4 DEF Loop, NearIs
  <1>7. /\ tmp_weight \in Nat
        /\ tmp = <<>> => tmp_weight = Rec!NoWeight
        /\ tmp # <<>> => \E o : /\ IsOffer(segments, ori_word, o) /\ Fits(ori_word, o)
                                /\ o.word = tmp /\ o.weight = tmp_weight
        /\ res = <<>> => \A o : IsOffer(segments, ori_word, o) /\ Fits(ori_word, o) => tmp_weight <= o.weight
    BY <1>2, <1>4 DEF Loop, FarIs
  <1>8. \A o : IsOffer(segments, ori_word, o) => o.weight \in Nat /\ o.weight < Rec!NoWeight
    BY <1>2, PassedIs
  <1>9. Rec!NoWeight \in Nat
    BY DEF Rec!NoWeight
  <1> DEFINE Pool(o) == /\ IsOffer(segments, ori_word, o)
                        /\ IF \E n : IsOffer(segments, ori_word, n) /\ IsNear(ori_word, n)
                           THEN IsNear(ori_word, o) ELSE Fits(ori_word, o)
  <1>10. /\ Rec!Chosen.word # <<>> =>
              \E o : /\ Pool(o) /\ Fits(ori_word, o) /\ o.word = Rec!Chosen.word
                     /\ o.weight = Rec!Chosen.weight /\ \A p : Pool(p) => o.weight <= p.weight
         /\ Rec!Chosen.word = <<>> => \A o : ~Pool(o)
    <2>1. CASE res # <<>>
      <3>1. Rec!Chosen.word = res /\ Rec!Chosen.weight = min_weight
        BY <2>1 DEF Rec!Chosen, Rec!NoWord
      <3>2. PICK o : /\ IsOffer(segments, ori_word, o) /\ IsNear(ori_word, o)
                     /\ o.word = res /\ o.weight = min_weight
        BY <1>6, <2>1
      <3>3. \A p : Pool(p) => IsOffer(segments, ori_word, p) /\ IsNear(ori_word, p)
        BY <3>2
      <3>4. Pool(o) /\ Fits(ori_word, o)
        BY <3>2 DEF IsNear
      <3> HIDE DEF Pool
      <3> QED
        BY <1>6, <2>1, <3>1, <3>2, <3>3, <3>4
    <2>2. CASE res = <<>>
      <3>1. Rec!Chosen.word = tmp /\ Rec!Chosen.weight = tmp_weight
        BY <2>2 DEF Rec!Chosen, Rec!NoWord
      <3>2. ASSUME NEW n, IsOffer(segments, ori_word, n), IsNear(ori_word, n) PROVE FALSE
        <4>1. Rec!NoWeight <= n.weight
          BY <1>6, <2>2, <3>2
        <4> QED
          BY <1>8, <1>9, <3>2, <4>1
      <3>3. \A p : Pool(p) <=> IsOffer(segments, ori_word, p) /\ Fits(ori_word, p)
        BY <3>2
      <3> HIDE DEF Pool
      <3>4. CASE tmp # <<>>
        <4>1. PICK o : /\ IsOffer(segments, ori_word, o) /\ Fits(ori_word, o)
                       /\ o.word = tmp /\ o.weight = tmp_weight
          BY <1>7, <3>4
        <4> QED
          BY <1>7, <2>2, <3>1, <3>3, <3>4, <4>1
      <3>5. CASE tmp = <<>>
        <4>1. ASSUME NEW o, Pool(o) PROVE FALSE
          <5>1. IsOffer(segments, ori_word, o) /\ Fits(ori_word, o)
            BY <3>3, <4>1
          <5>2. Rec!NoWeight <= o.weight
            BY <1>7, <2>2, <3>5, <5>1
          <5> QED
            BY <1>8, <1>9, <5>1, <5>2
        <4> QED
          BY <3>1, <3>5, <4>1
      <3> QED
        BY <3>4, <3>5
    <2> QED
      BY <2>1, <2>2
  <1>11. Answers(segments, ori_word, reply', result', right)
    <2>1. CASE Rec!Chosen.word # <<>> /\ Rec!FitsRight
      <3>1. reply'[1].word = Rec!Chosen.word /\ reply'[1].conf = Rec!Reported /\ result' = "true"
        BY <2>1 DEF Rec!Answer, Rec!NoWord
      <3>2. PICK o : /\ Pool(o) /\ Fits(ori_word, o) /\ o.word = Rec!Chosen.word
                     /\ o.weight = Rec!Chosen.weight /\ \A p : Pool(p) => o.weight <= p.weight
        BY <1>10, <2>1
      <3>3. Rec!Reported \in 61 .. 100
        BY <1>2, <3>2, ReportedIs
      <3> QED
        BY <1>5, <3>1, <3>2, <3>3 DEF Answers
    <2>2. CASE ~(Rec!Chosen.word # <<>> /\ Rec!FitsRight)
      <3>1. result' = "false"
        BY <2>2 DEF Rec!Answer, Rec!NoWord
      <3>2. Rec!Chosen.word = <<>> \/ right = "seen"
        BY <1>2, <2>2 DEF Rec!FitsRight
      <3>3. (\A o : ~Pool(o)) \/ right = "seen"
        BY <1>10, <3>2
      <3> QED
        BY <1>5, <3>1, <3>3 DEF Answers
    <2> QED
      BY <2>1, <2>2
  <1> QED
    BY <1>1, <1>2, <1>11 DEF RecInv

LEMMA RecStep ==
  ASSUME Rec!NgramRecAssumption, RecInv, [Rec!Next]_Rec!vars
  PROVE  RecInv'
  <1>1. CASE Rec!KeepOriginal
    BY <1>1, KeepStep
  <1>2. CASE Rec!Accept \/ Rec!Remember \/ Rec!PassOver
    <2>1. Rec!Looking /\ ~Rec!IsOriginal
      BY <1>2 DEF Rec!Accept, Rec!Remember, Rec!PassOver
    <2> QED
      BY <1>2, <2>1, LoopStep
  <1>3. CASE Rec!NextRow
    BY <1>3, LoopNextRow
  <1>4. CASE Rec!Answer
    BY <1>4, AnswerStep
  <1>5. CASE UNCHANGED Rec!vars
    BY <1>5 DEF Rec!vars, RecInv, Loop
  <1> QED
    BY <1>1, <1>2, <1>3, <1>4, <1>5 DEF Rec!Next

(* ngramRec answers with the word asked for when a text says so and is     *)
(* sure enough; else with the lightest good text, of those that share a    *)
(* character with a short word when there is one; and says how sure it is  *)
(* by a number from 61 to 100, though it computes it with another length:  *)
(* Rectify::ngramRec, for any segmentations, texts and weights.            *)
THEOREM LightestAnswers ==
  ASSUME Rec!NgramRecAssumption
  PROVE  Rec!Spec => []Rec!AnswerIsLightest
  <1>1. Rec!Init => RecInv
    BY RecInit
  <1>2. RecInv /\ [Rec!Next]_Rec!vars => RecInv'
    BY RecStep
  <1>3. RecInv => Rec!AnswerIsLightest
    BY AnswersIs DEF RecInv
  <1> QED
    BY <1>1, <1>2, <1>3, PTL DEF Rec!Spec
=============================================================================
