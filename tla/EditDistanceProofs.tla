-------------------------- MODULE EditDistanceProofs --------------------------
(***************************************************************************)
(* What the banded edit distance returns, for all words, limits and        *)
(* leftovers in memory.                                                    *)
(***************************************************************************)
EXTENDS EditDistance, SetInduction

-----------------------------------------------------------------------------
(* The table of the dynamic programme.                                     *)

LEMMA LeastOfThree ==
  ASSUME NEW a \in Int, NEW b \in Int, NEW c \in Int
  PROVE  /\ Min({a, b, c}) \in {a, b, c}
         /\ Min({a, b, c}) <= a /\ Min({a, b, c}) <= b /\ Min({a, b, c}) <= c
  BY DEF Min

LEMMA LeastOfTwo ==
  ASSUME NEW a \in Int, NEW b \in Int
  PROVE  Min({a, b}) = IF a <= b THEN a ELSE b
  BY DEF Min

(* The recurrence that D satisfies for the words s and t.                  *)
Cost(s, t, p, q) == Differ(s[p], t[q])
IsTable(D, s, t) ==
  /\ D \in [0 .. Len(s) -> [0 .. Len(t) -> Nat]]
  /\ \A q \in 0 .. Len(t) : D[0][q] = q
  /\ \A p \in 0 .. Len(s) : D[p][0] = p
  /\ \A p \in 1 .. Len(s), q \in 1 .. Len(t) :
       /\ D[p][q] <= D[p - 1][q] + 1
       /\ D[p][q] <= D[p][q - 1] + 1
       /\ D[p][q] <= D[p - 1][q - 1] + Cost(s, t, p, q)
       /\ \/ D[p][q] = D[p - 1][q] + 1
          \/ D[p][q] = D[p][q - 1] + 1
          \/ D[p][q] = D[p - 1][q - 1] + Cost(s, t, p, q)

(* The row that EditRow describes exists and satisfies its equation.       *)
LEMMA EditRowEquation ==
  ASSUME NEW s, NEW t, NEW p \in Nat, NEW above \in [0 .. Len(t) -> Nat], Len(t) \in Nat
  PROVE  /\ EditRow(s, t, p, above) \in [0 .. Len(t) -> Nat]
         /\ \A q \in 0 .. Len(t) :
              EditRow(s, t, p, above)[q] =
                IF q = 0 THEN p
                ELSE Min({above[q] + 1, EditRow(s, t, p, above)[q - 1] + 1,
                          above[q - 1] + Differ(s[p], t[q])})
  <1> DEFINE N == Len(t)
             body(q, g) == IF q = 0 THEN p
                           ELSE Min({above[q] + 1, g[q - 1] + 1,
                                     above[q - 1] + Differ(s[p], t[q])})
             B == [q \in 0 .. N |-> [g \in [0 .. N -> Nat] |-> body(q, g)]]
             F == EditRow(s, t, p, above)
  <1>1. ASSUME NEW q \in 0 .. N, NEW g \in [0 .. N -> Nat] PROVE body(q, g) \in Nat
    <2>1. CASE q = 0
      BY <2>1
    <2>2. CASE q # 0
      <3>1. q - 1 \in 0 .. N /\ q \in 0 .. N
        BY <2>2
      <3>2. above[q] + 1 \in Nat /\ g[q - 1] + 1 \in Nat
        BY <3>1
      <3>3. above[q - 1] + Differ(s[p], t[q]) \in Nat
        BY <3>1 DEF Differ
      <3> DEFINE a == above[q] + 1   b == g[q - 1] + 1   c == above[q - 1] + Differ(s[p], t[q])
      <3>4. body(q, g) = Min({a, b, c})
        BY <2>2
      <3>5. a \in Nat /\ b \in Nat /\ c \in Nat
        BY <3>2, <3>3
      <3> HIDE DEF a, b, c, body
      <3>6. Min({a, b, c}) \in {a, b, c}
        BY <3>5, LeastOfThree
      <3> QED
        BY <3>4, <3>5, <3>6
    <2> QED
      BY <2>1, <2>2
  <1>2. ASSUME NEW q \in 0 .. N, NEW g \in [0 .. N -> Nat], NEW h \in [0 .. N -> Nat],
               \A m \in 0 .. N : m < q => g[m] = h[m]
        PROVE  body(q, g) = body(q, h)
    <2>1. CASE q = 0
      BY <2>1
    <2>2. CASE q # 0
      <3>1. g[q - 1] = h[q - 1]
        BY <1>2, <2>2
      <3> QED
        BY <3>1
    <2> QED
      BY <2>1, <2>2
  <1> HIDE DEF body
  <1>3. B \in Steps(N, Nat)
    BY <1>1 DEF Steps
  <1>4. LookDown(N, Nat, B)
    BY <1>2 DEF LookDown
  <1> HIDE DEF B
  <1>5. PICK f \in [0 .. N -> Nat] : Solution(N, B, f)
    <2>1. Nat # {}
      OBVIOUS
    <2> QED
      BY <1>3, <1>4, <2>1, Levels
  <1>6. \A q \in 0 .. N : f[q] = body(q, f)
    BY <1>5 DEF Solution, B
  <1>7. f = [q \in 0 .. N |-> body(q, f)]
    BY <1>6
  <1>8. \E g : g = [q \in 0 .. N |-> body(q, g)]
    BY <1>7
  <1>9. F = CHOOSE g : g = [q \in 0 .. N |-> body(q, g)]
    BY DEF EditRow, body
  <1>10. F = [q \in 0 .. N |-> body(q, F)]
    <2> HIDE DEF F, N
    <2> QED
      BY <1>8, <1>9, Zenon
  <1> HIDE DEF F
  <1>11. \A q \in 0 .. N : F[q] = body(q, F)
    BY <1>10
  (* F has natural values: by induction along the row.                     *)
  <1> DEFINE Q == {q \in Nat : q \in 0 .. N => F[q] \in Nat}
  <1>12. 0 \in Q
    BY <1>11 DEF body
  <1>13. ASSUME NEW q \in Nat, q \in Q PROVE q + 1 \in Q
    <2>1. CASE q + 1 \in 0 .. N
      <3>1. q \in 0 .. N /\ F[q] \in Nat
        BY <1>13, <2>1
      <3> DEFINE a == above[q + 1] + 1   b == F[q] + 1   c == above[q] + Differ(s[p], t[q + 1])
      <3>2. a \in Nat /\ b \in Nat /\ c \in Nat
        BY <2>1, <3>1 DEF Differ
      <3>3. body(q + 1, F) = Min({a, b, c})
        BY DEF body
      <3> HIDE DEF a, b, c
      <3>4. Min({a, b, c}) \in {a, b, c}
        BY <3>2, LeastOfThree
      <3>5. F[q + 1] \in Nat
        BY <1>11, <2>1, <3>2, <3>3, <3>4
      <3> QED
        BY <3>5
    <2>2. CASE q + 1 \notin 0 .. N
      BY <2>2
    <2> QED
      BY <2>1, <2>2
  <1> HIDE DEF Q
  <1>14. \A q \in Nat : q \in Q
    BY <1>12, <1>13, Induction
  <1>15. F \in [0 .. N -> Nat]
    <2>1. \A q \in 0 .. N : F[q] \in Nat
      BY <1>14 DEF Q
    <2> QED
      BY <1>10, <2>1
  <1> QED
    BY <1>11, <1>15 DEF F, body

LEMMA EditRowsEquation ==
  ASSUME NEW s, NEW t, Len(s) \in Nat, Len(t) \in Nat
  PROVE  /\ EditRows(s, t) \in [0 .. Len(s) -> [0 .. Len(t) -> Nat]]
         /\ EditRows(s, t)[0] = [q \in 0 .. Len(t) |-> q]
         /\ \A p \in 1 .. Len(s) :
              EditRows(s, t)[p] = EditRow(s, t, p, EditRows(s, t)[p - 1])
  <1> DEFINE N == Len(s)
             V == [0 .. Len(t) -> Nat]
             body(p, g) == IF p = 0 THEN [q \in 0 .. Len(t) |-> q]
                           ELSE EditRow(s, t, p, g[p - 1])
             B == [p \in 0 .. N |-> [g \in [0 .. N -> V] |-> body(p, g)]]
             F == EditRows(s, t)
  <1>0. [q \in 0 .. Len(t) |-> q] \in V
    OBVIOUS
  <1>1. ASSUME NEW p \in 0 .. N, NEW g \in [0 .. N -> V] PROVE body(p, g) \in V
    <2>1. CASE p = 0
      BY <2>1, <1>0
    <2>2. CASE p # 0
      <3>1. p - 1 \in 0 .. N /\ p \in Nat
        BY <2>2
      <3>2. g[p - 1] \in V
        BY <3>1
      <3>3. EditRow(s, t, p, g[p - 1]) \in V
        BY <3>1, <3>2, EditRowEquation
      <3> QED
        BY <2>2, <3>3
    <2> QED
      BY <2>1, <2>2
  <1>2. ASSUME NEW p \in 0 .. N, NEW g \in [0 .. N -> V], NEW h \in [0 .. N -> V],
               \A m \in 0 .. N : m < p => g[m] = h[m]
        PROVE  body(p, g) = body(p, h)
    <2>1. CASE p = 0
      BY <2>1
    <2>2. CASE p # 0
      <3>1. g[p - 1] = h[p - 1]
        BY <1>2, <2>2
      <3> QED
        BY <2>2, <3>1
    <2> QED
      BY <2>1, <2>2
  <1>v. V # {}
    BY <1>0
  <1> HIDE DEF body, V
  <1>3. B \in Steps(N, V)
    BY <1>1 DEF Steps
  <1>4. LookDown(N, V, B)
    BY <1>2 DEF LookDown
  <1> HIDE DEF B
  <1>5. PICK f \in [0 .. N -> V] : Solution(N, B, f)
    BY <1>3, <1>4, <1>v, Levels
  <1>6. \A p \in 0 .. N : f[p] = body(p, f)
    BY <1>5 DEF Solution, B
  <1>7. f = [p \in 0 .. N |-> body(p, f)]
    BY <1>6
  <1>8. \E g : g = [p \in 0 .. N |-> body(p, g)]
    BY <1>7
  <1>9. F = CHOOSE g : g = [p \in 0 .. N |-> body(p, g)]
    BY DEF EditRows, body
  <1>10. F = [p \in 0 .. N |-> body(p, F)]
    <2> HIDE DEF F, N
    <2> QED
      BY <1>8, <1>9, Zenon
  <1> HIDE DEF F
  <1>11. \A p \in 0 .. N : F[p] = body(p, F)
    BY <1>10
  <1> DEFINE Q == {p \in Nat : p \in 0 .. N => F[p] \in V}
  <1>12. 0 \in Q
    BY <1>11, <1>0 DEF body
  <1>13. ASSUME NEW p \in Nat, p \in Q PROVE p + 1 \in Q
    <2>1. CASE p + 1 \in 0 .. N
      <3>1. p \in 0 .. N /\ F[p] \in V
        BY <1>13, <2>1
      <3>2. body(p + 1, F) = EditRow(s, t, p + 1, F[p])
        BY DEF body
      <3>3. EditRow(s, t, p + 1, F[p]) \in V
        <4>1. p + 1 \in Nat /\ F[p] \in [0 .. Len(t) -> Nat]
          BY <3>1 DEF V
        <4> HIDE DEF F
        <4>2. EditRow(s, t, p + 1, F[p]) \in [0 .. Len(t) -> Nat]
          BY <4>1, EditRowEquation
        <4> QED
          BY <4>2 DEF V
      <3>4. F[p + 1] \in V
        BY <1>11, <2>1, <3>2, <3>3
      <3> QED
        BY <3>4
    <2>2. CASE p + 1 \notin 0 .. N
      BY <2>2
    <2> QED
      BY <2>1, <2>2
  <1> HIDE DEF Q
  <1>14. \A p \in Nat : p \in Q
    BY <1>12, <1>13, Induction
  <1>15. F \in [0 .. N -> V]
    <2>1. \A p \in 0 .. N : F[p] \in V
      BY <1>14 DEF Q
    <2> QED
      BY <1>10, <2>1
  <1>16. F[0] = [q \in 0 .. Len(t) |-> q]
    BY <1>11 DEF body
  <1>17. ASSUME NEW p \in 1 .. N PROVE F[p] = EditRow(s, t, p, F[p - 1])
    <2>1. p \in 0 .. N /\ p # 0
      OBVIOUS
    <2> QED
      BY <1>11, <2>1 DEF body
  <1> QED
    BY <1>15, <1>16, <1>17 DEF F, V

LEMMA EditRowsAreTable ==
  ASSUME NEW s, NEW t, Len(s) \in Nat, Len(t) \in Nat
  PROVE  IsTable(EditRows(s, t), s, t)
  <1> DEFINE D == EditRows(s, t)
  <1>1. /\ D \in [0 .. Len(s) -> [0 .. Len(t) -> Nat]]
        /\ D[0] = [q \in 0 .. Len(t) |-> q]
        /\ \A p \in 1 .. Len(s) : D[p] = EditRow(s, t, p, D[p - 1])
    BY EditRowsEquation
  <1> HIDE DEF D
  <1>2. ASSUME NEW p \in 1 .. Len(s), NEW q \in 0 .. Len(t)
        PROVE  D[p][q] = IF q = 0 THEN p
                         ELSE Min({D[p - 1][q] + 1, D[p][q - 1] + 1,
                                   D[p - 1][q - 1] + Differ(s[p], t[q])})
    <2>1. p \in Nat /\ p - 1 \in 0 .. Len(s)
      OBVIOUS
    <2>2. D[p - 1] \in [0 .. Len(t) -> Nat]
      BY <1>1, <2>1
    <2>3. D[p] = EditRow(s, t, p, D[p - 1])
      BY <1>1
    <2> QED
      BY <2>1, <2>2, <2>3, EditRowEquation
  <1>3. \A q \in 0 .. Len(t) : D[0][q] = q
    BY <1>1
  <1>4. ASSUME NEW p \in 0 .. Len(s) PROVE D[p][0] = p
    <2>1. 0 \in 0 .. Len(t)
      OBVIOUS
    <2>2. CASE p = 0
      BY <1>3, <2>1, <2>2
    <2>3. CASE p \in 1 .. Len(s)
      BY <1>2, <2>1, <2>3
    <2> QED
      BY <2>2, <2>3
  <1>5. ASSUME NEW p \in 1 .. Len(s), NEW q \in 1 .. Len(t)
        PROVE  /\ D[p][q] <= D[p - 1][q] + 1
               /\ D[p][q] <= D[p][q - 1] + 1
               /\ D[p][q] <= D[p - 1][q - 1] + Cost(s, t, p, q)
               /\ \/ D[p][q] = D[p - 1][q] + 1
                  \/ D[p][q] = D[p][q - 1] + 1
                  \/ D[p][q] = D[p - 1][q - 1] + Cost(s, t, p, q)
    <2> DEFINE a == D[p - 1][q] + 1   b == D[p][q - 1] + 1   c == D[p - 1][q - 1] + Cost(s, t, p, q)
    <2>1. p - 1 \in 0 .. Len(s) /\ p \in 0 .. Len(s) /\ q - 1 \in 0 .. Len(t) /\ q \in 0 .. Len(t)
      OBVIOUS
    <2>2. D[p - 1][q] \in Nat /\ D[p][q - 1] \in Nat /\ D[p - 1][q - 1] \in Nat
      <3>1. \A x \in 0 .. Len(s), y \in 0 .. Len(t) : D[x][y] \in Nat
        BY <1>1
      <3> QED
        BY <2>1, <3>1
    <2>3. a \in Int /\ b \in Int /\ c \in Int
      <3>1. Cost(s, t, p, q) \in Nat
        BY DEF Cost, Differ
      <3>2. \A x, y \in Nat : x + 1 \in Int /\ x + y \in Int
        OBVIOUS
      <3>3. a \in Int /\ b \in Int
        BY <2>2
      <3>4. c \in Int
        BY <2>2, <3>1, <3>2, Zenon
      <3> QED
        BY <3>3, <3>4
    <2>4. D[p][q] = Min({a, b, c})
      <3>1. q # 0
        OBVIOUS
      <3> QED
        BY <1>2, <2>1, <3>1 DEF Cost
    <2>5. D[p][q] <= a /\ D[p][q] <= b /\ D[p][q] <= c /\ D[p][q] \in {a, b, c}
      <3> HIDE DEF a, b, c
      <3>1. /\ Min({a, b, c}) \in {a, b, c}
            /\ Min({a, b, c}) <= a /\ Min({a, b, c}) <= b /\ Min({a, b, c}) <= c
        BY <2>3, LeastOfThree
      <3> QED
        BY <2>4, <3>1
    <2> QED
      BY <2>5
  <1> QED
    BY <1>1, <1>3, <1>4, <1>5 DEF IsTable, D

(* What one cell of a table has to do with its neighbours.                 *)
LEMMA TableCell ==
  ASSUME NEW s, NEW t, NEW D, Len(s) \in Nat, Len(t) \in Nat, IsTable(D, s, t),
         NEW p \in 1 .. Len(s), NEW q \in 1 .. Len(t)
  PROVE  /\ D[p][q] \in Nat /\ D[p - 1][q] \in Nat
         /\ D[p][q - 1] \in Nat /\ D[p - 1][q - 1] \in Nat
         /\ Cost(s, t, p, q) \in 0 .. 1
         /\ D[p][q] <= D[p - 1][q] + 1
         /\ D[p][q] <= D[p][q - 1] + 1
         /\ D[p][q] <= D[p - 1][q - 1] + Cost(s, t, p, q)
         /\ \/ D[p][q] = D[p - 1][q] + 1
            \/ D[p][q] = D[p][q - 1] + 1
            \/ D[p][q] = D[p - 1][q - 1] + Cost(s, t, p, q)
  <1>1. \A x \in 0 .. Len(s), y \in 0 .. Len(t) : D[x][y] \in Nat
    BY DEF IsTable
  <1>2. p - 1 \in 0 .. Len(s) /\ p \in 0 .. Len(s) /\ q - 1 \in 0 .. Len(t) /\ q \in 0 .. Len(t)
    OBVIOUS
  <1>3. D[p][q] \in Nat /\ D[p - 1][q] \in Nat /\ D[p][q - 1] \in Nat /\ D[p - 1][q - 1] \in Nat
    BY <1>1, <1>2
  <1>4. Cost(s, t, p, q) \in 0 .. 1
    BY DEF Cost, Differ
  <1> QED
    BY <1>3, <1>4 DEF IsTable

LEMMA TableEdges ==
  ASSUME NEW s, NEW t, NEW D, Len(s) \in Nat, Len(t) \in Nat, IsTable(D, s, t)
  PROVE  /\ \A q \in 0 .. Len(t) : D[0][q] = q
         /\ \A p \in 0 .. Len(s) : D[p][0] = p
         /\ \A p \in 0 .. Len(s), q \in 0 .. Len(t) : D[p][q] \in Nat
  BY DEF IsTable

(* Going back by one place in one of the words costs at most one edit.     *)
BackInT(D, t, p) == \A q \in 1 .. Len(t) : D[p][q - 1] <= D[p][q] + 1
BackInS(D, t, p) == \A q \in 0 .. Len(t) : D[p - 1][q] <= D[p][q] + 1

LEMMA TableIsSmooth ==
  ASSUME NEW s, NEW t, NEW D, Len(s) \in Nat, Len(t) \in Nat, IsTable(D, s, t)
  PROVE  /\ \A p \in 0 .. Len(s) : BackInT(D, t, p)
         /\ \A p \in 1 .. Len(s) : BackInS(D, t, p)
  <1> DEFINE P == {p \in Nat : p \in 0 .. Len(s) => BackInT(D, t, p)}
  <1>1. 0 \in P
    <2>1. ASSUME NEW q \in 1 .. Len(t) PROVE D[0][q - 1] <= D[0][q] + 1
      <3>1. q - 1 \in 0 .. Len(t) /\ q \in 0 .. Len(t)
        OBVIOUS
      <3>2. D[0][q - 1] = q - 1 /\ D[0][q] = q
        BY <3>1, TableEdges
      <3> QED
        BY <3>2
    <2> QED
      BY <2>1 DEF BackInT
  <1>2. ASSUME NEW p \in Nat, p \in P PROVE p + 1 \in P
    <2>1. CASE p + 1 \in 0 .. Len(s)
      <3>1. p \in 0 .. Len(s) /\ p + 1 \in 1 .. Len(s) /\ (p + 1) - 1 = p
        BY <2>1
      <3>2. BackInT(D, t, p)
        BY <1>2, <3>1
      <3>3. ASSUME NEW q \in 1 .. Len(t) PROVE D[p + 1][q - 1] <= D[p + 1][q] + 1
        <4> DEFINE x == D[p + 1][q]   n == D[p][q]   w == D[p + 1][q - 1]   nw == D[p][q - 1]
                   c == Cost(s, t, p + 1, q)
        <4>1. /\ x \in Nat /\ n \in Nat /\ w \in Nat /\ nw \in Nat /\ c \in 0 .. 1
              /\ \/ x = n + 1
                 \/ x = w + 1
                 \/ x = nw + c
          BY <3>1, TableCell
        <4>2. nw <= n + 1
          BY <3>2 DEF BackInT
        <4>3. w <= nw + 1
          <5>1. CASE q = 1
            <6>1. 0 \in 0 .. Len(t)
              OBVIOUS
            <6>2. q - 1 = 0
              BY <5>1
            <6>3. D[p + 1][0] = p + 1 /\ D[p][0] = p
              BY <2>1, <3>1, TableEdges
            <6> QED
              BY <6>2, <6>3
          <5>2. CASE q # 1
            <6>1. q - 1 \in 1 .. Len(t)
              BY <5>2
            <6>2. D[p + 1][q - 1] <= D[(p + 1) - 1][q - 1] + 1
              BY <3>1, <6>1, TableCell
            <6> QED
              BY <3>1, <6>2
          <5> QED
            BY <5>1, <5>2
        <4> HIDE DEF x, n, w, nw, c
        <4>4. w <= x + 1
          BY <4>1, <4>2, <4>3
        <4> QED
          BY <4>4 DEF w, x
      <3> QED
        BY <3>3 DEF BackInT
    <2> QED
      BY <2>1
  <1> HIDE DEF P
  <1>3. \A p \in Nat : p \in P
    BY <1>1, <1>2, Induction
  <1>4. \A p \in 0 .. Len(s) : BackInT(D, t, p)
    BY <1>3 DEF P
  <1>5. ASSUME NEW p \in 1 .. Len(s) PROVE BackInS(D, t, p)
    <2> DEFINE Q == {q \in Nat : q \in 0 .. Len(t) => D[p - 1][q] <= D[p][q] + 1}
    <2>0. p \in 0 .. Len(s) /\ p - 1 \in 0 .. Len(s)
      OBVIOUS
    <2>1. 0 \in Q
      <3>1. D[p][0] = p /\ D[p - 1][0] = p - 1
        BY <2>0, TableEdges
      <3> QED
        BY <3>1
    <2>2. ASSUME NEW k \in Nat, k \in Q PROVE k + 1 \in Q
      <3>1. CASE k + 1 \in 0 .. Len(t)
        <4>1. k \in 0 .. Len(t) /\ k + 1 \in 1 .. Len(t) /\ (k + 1) - 1 = k
          BY <3>1
        <4> DEFINE x == D[p][k + 1]   n == D[p - 1][k + 1]   w == D[p][k]   nw == D[p - 1][k]
                   c == Cost(s, t, p, k + 1)
        <4>2. /\ x \in Nat /\ n \in Nat /\ w \in Nat /\ nw \in Nat /\ c \in 0 .. 1
              /\ \/ x = n + 1
                 \/ x = w + 1
                 \/ x = nw + c
          BY <4>1, TableCell
        <4>3. nw <= w + 1
          BY <2>2, <4>1
        <4>4. n <= nw + 1
          <5>1. CASE p = 1
            <6>1. p - 1 = 0
              BY <5>1
            <6>2. D[0][k + 1] = k + 1 /\ D[0][k] = k
              BY <3>1, <4>1, TableEdges
            <6> QED
              BY <6>1, <6>2
          <5>2. CASE p # 1
            <6>1. p - 1 \in 1 .. Len(s)
              BY <5>2
            <6>2. D[p - 1][k + 1] <= D[p - 1][(k + 1) - 1] + 1
              BY <4>1, <6>1, TableCell
            <6> QED
              BY <4>1, <6>2
          <5> QED
            BY <5>1, <5>2
        <4> HIDE DEF x, n, w, nw, c
        <4>5. n <= x + 1
          BY <4>2, <4>3, <4>4
        <4> QED
          BY <4>5 DEF n, x
      <3> QED
        BY <3>1
    <2> HIDE DEF Q
    <2>3. \A q \in Nat : q \in Q
      BY <2>1, <2>2, Induction
    <2> QED
      BY <2>3 DEF Q, BackInS
  <1> QED
    BY <1>4, <1>5

(* Equal units cost nothing, and nothing less than that is possible.       *)
LEMMA EqualUnits ==
  ASSUME NEW s, NEW t, NEW D, Len(s) \in Nat, Len(t) \in Nat, IsTable(D, s, t),
         NEW p \in 1 .. Len(s), NEW q \in 1 .. Len(t), s[p] = t[q]
  PROVE  D[p][q] = D[p - 1][q - 1]
  <1> DEFINE x == D[p][q]   n == D[p - 1][q]   w == D[p][q - 1]   nw == D[p - 1][q - 1]
  <1>1. Cost(s, t, p, q) = 0
    BY DEF Cost, Differ
  <1>2. /\ x \in Nat /\ n \in Nat /\ w \in Nat /\ nw \in Nat
        /\ x <= nw + 0
        /\ \/ x = n + 1
           \/ x = w + 1
           \/ x = nw + 0
    BY <1>1, TableCell
  <1>3. p - 1 \in 0 .. Len(s) /\ q - 1 \in 0 .. Len(t)
    OBVIOUS
  <1>4. nw <= n + 1
    BY <1>3, TableIsSmooth DEF BackInT
  <1>5. nw <= w + 1
    BY <1>3, TableIsSmooth DEF BackInS
  <1> HIDE DEF x, n, w, nw
  <1>6. x = nw
    BY <1>2, <1>4, <1>5
  <1> QED
    BY <1>6 DEF x, nw

(* Words of different lengths are at least that far apart.                 *)
FarEnough(D, t, p) == \A q \in 0 .. Len(t) : p - q <= D[p][q] /\ q - p <= D[p][q]

LEMMA TableIsFarEnough ==
  ASSUME NEW s, NEW t, NEW D, Len(s) \in Nat, Len(t) \in Nat, IsTable(D, s, t)
  PROVE  \A p \in 0 .. Len(s) : FarEnough(D, t, p)
  <1> DEFINE P == {p \in Nat : p \in 0 .. Len(s) => FarEnough(D, t, p)}
  <1>1. 0 \in P
    BY TableEdges DEF FarEnough
  <1>2. ASSUME NEW p \in Nat, p \in P PROVE p + 1 \in P
    <2>1. CASE p + 1 \in 0 .. Len(s)
      <3>1. p \in 0 .. Len(s) /\ p + 1 \in 1 .. Len(s) /\ (p + 1) - 1 = p
        BY <2>1
      <3>2. FarEnough(D, t, p)
        BY <1>2, <3>1
      <3> DEFINE Q == {q \in Nat : q \in 0 .. Len(t) =>
                         /\ (p + 1) - q <= D[p + 1][q]
                         /\ q - (p + 1) <= D[p + 1][q]}
      <3>3. 0 \in Q
        <4>1. D[p + 1][0] = p + 1
          BY <2>1, TableEdges
        <4> QED
          BY <4>1
      <3>4. ASSUME NEW k \in Nat, k \in Q PROVE k + 1 \in Q
        <4>1. CASE k + 1 \in 0 .. Len(t)
          <5>1. k \in 0 .. Len(t) /\ k + 1 \in 1 .. Len(t) /\ (k + 1) - 1 = k
            BY <4>1
          <5> DEFINE x == D[p + 1][k + 1]   n == D[p][k + 1]   w == D[p + 1][k]   nw == D[p][k]
                     c == Cost(s, t, p + 1, k + 1)
          <5>2. /\ x \in Nat /\ n \in Nat /\ w \in Nat /\ nw \in Nat /\ c \in 0 .. 1
                /\ \/ x = n + 1
                   \/ x = w + 1
                   \/ x = nw + c
            BY <3>1, <5>1, TableCell
          <5>3. (p + 1) - k <= w /\ k - (p + 1) <= w
            BY <3>4, <5>1
          <5>4. p - (k + 1) <= n /\ (k + 1) - p <= n /\ p - k <= nw /\ k - p <= nw
            BY <3>2, <4>1, <5>1 DEF FarEnough
          <5> HIDE DEF x, n, w, nw, c
          <5>5. (p + 1) - (k + 1) <= x /\ (k + 1) - (p + 1) <= x
            BY <5>2, <5>3, <5>4
          <5> QED
            BY <5>5 DEF x
        <4> QED
          BY <4>1
      <3> HIDE DEF Q
      <3>5. \A q \in Nat : q \in Q
        BY <3>3, <3>4, Induction
      <3>6. FarEnough(D, t, p + 1)
        BY <3>5 DEF Q, FarEnough
      <3> QED
        BY <3>6
    <2> QED
      BY <2>1
  <1> HIDE DEF P
  <1>3. \A p \in Nat : p \in P
    BY <1>1, <1>2, Induction
  <1> QED
    BY <1>3 DEF P

(***************************************************************************)
(* A cell matters when the end of the words can be reached from it within  *)
(* m edits as far as the lengths tell, s being the longer one.  When a row *)
(* has such a cell, every row above has one, and outside the first column. *)
(***************************************************************************)
Over(p, q) == IF q > p THEN q - p ELSE 0
Matters(D, m, p, q) == D[p][q] + Over(p, q) <= m
RowMatters(D, t, m, p) == \E q \in 0 .. Len(t) : Matters(D, m, p, q)

LEMMA RowAboveMatters ==
  ASSUME NEW s, NEW t, NEW D, Len(s) \in Nat, Len(t) \in Nat, IsTable(D, s, t),
         NEW m \in Nat, NEW p \in 1 .. Len(s), RowMatters(D, t, m, p)
  PROVE  RowMatters(D, t, m, p - 1)
  <1> DEFINE Q == {q \in Nat : q \in 0 .. Len(t) /\ Matters(D, m, p, q)
                                 => RowMatters(D, t, m, p - 1)}
  <1>0. p \in 0 .. Len(s) /\ p - 1 \in 0 .. Len(s) /\ 0 \in 0 .. Len(t)
    OBVIOUS
  <1>1. 0 \in Q
    <2>1. D[p][0] = p /\ D[p - 1][0] = p - 1
      BY <1>0, TableEdges
    <2>2. Matters(D, m, p, 0) => Matters(D, m, p - 1, 0)
      BY <2>1 DEF Matters, Over
    <2> QED
      BY <1>0, <2>2 DEF RowMatters
  <1>2. ASSUME NEW k \in Nat, k \in Q PROVE k + 1 \in Q
    <2>1. SUFFICES ASSUME k + 1 \in 0 .. Len(t), Matters(D, m, p, k + 1)
                   PROVE  RowMatters(D, t, m, p - 1)
      OBVIOUS
    <2>2. k \in 0 .. Len(t) /\ k + 1 \in 1 .. Len(t) /\ (k + 1) - 1 = k
      BY <2>1
    <2> DEFINE x == D[p][k + 1]   n == D[p - 1][k + 1]   w == D[p][k]   nw == D[p - 1][k]
               c == Cost(s, t, p, k + 1)
    <2>3. /\ x \in Nat /\ n \in Nat /\ w \in Nat /\ nw \in Nat /\ c \in 0 .. 1
          /\ \/ x = n + 1
             \/ x = w + 1
             \/ x = nw + c
      BY <2>2, TableCell
    <2>4. x + Over(p, k + 1) <= m
      BY <2>1 DEF Matters
    <2>5. CASE x = n + 1
      <3> HIDE DEF x, n, w, nw, c
      <3>1. n + Over(p - 1, k + 1) <= m
        BY <2>3, <2>4, <2>5 DEF Over
      <3>2. Matters(D, m, p - 1, k + 1)
        BY <3>1 DEF Matters, n
      <3> QED
        BY <2>1, <3>2 DEF RowMatters
    <2>6. CASE x = w + 1
      <3> HIDE DEF x, n, w, nw, c
      <3>1. w + Over(p, k) <= m
        BY <2>3, <2>4, <2>6 DEF Over
      <3>2. Matters(D, m, p, k)
        BY <3>1 DEF Matters, w
      <3> QED
        BY <1>2, <2>2, <3>2
    <2>7. CASE x = nw + c
      <3> HIDE DEF x, n, w, nw, c
      <3>1. nw + Over(p - 1, k) <= m
        BY <2>3, <2>4, <2>7 DEF Over
      <3>2. Matters(D, m, p - 1, k)
        BY <3>1 DEF Matters, nw
      <3> QED
        BY <2>2, <3>2 DEF RowMatters
    <2> QED
      BY <2>3, <2>5, <2>6, <2>7
  <1> HIDE DEF Q
  <1>3. \A q \in Nat : q \in Q
    BY <1>1, <1>2, Induction
  <1>4. PICK q \in 0 .. Len(t) : Matters(D, m, p, q)
    BY DEF RowMatters
  <1> QED
    BY <1>3, <1>4 DEF Q

LEMMA EveryRowMatters ==
  ASSUME NEW s, NEW t, NEW D, Len(s) \in Nat, Len(t) \in Nat, IsTable(D, s, t),
         NEW m \in Nat, Len(t) <= Len(s), D[Len(s)][Len(t)] <= m
  PROVE  \A p \in 0 .. Len(s) : RowMatters(D, t, m, p)
  <1> DEFINE K == {k \in Nat : k \in 0 .. Len(s) => RowMatters(D, t, m, Len(s) - k)}
  <1>1. 0 \in K
    <2>1. Over(Len(s), Len(t)) = 0
      BY DEF Over
    <2>2. D[Len(s)][Len(t)] \in Nat
      BY TableEdges
    <2>3. Matters(D, m, Len(s), Len(t))
      BY <2>1, <2>2 DEF Matters
    <2>4. Len(s) - 0 = Len(s) /\ Len(t) \in 0 .. Len(t)
      OBVIOUS
    <2> QED
      BY <2>3, <2>4 DEF RowMatters
  <1>2. ASSUME NEW k \in Nat, k \in K PROVE k + 1 \in K
    <2>1. CASE k + 1 \in 0 .. Len(s)
      <3>1. k \in 0 .. Len(s) /\ Len(s) - k \in 1 .. Len(s) /\ (Len(s) - k) - 1 = Len(s) - (k + 1)
        BY <2>1
      <3>2. RowMatters(D, t, m, Len(s) - k)
        BY <1>2, <3>1
      <3>3. RowMatters(D, t, m, (Len(s) - k) - 1)
        BY <3>1, <3>2, RowAboveMatters
      <3> QED
        BY <3>1, <3>3
    <2> QED
      BY <2>1
  <1> HIDE DEF K
  <1>3. \A k \in Nat : k \in K
    BY <1>1, <1>2, Induction
  <1>4. ASSUME NEW p \in 0 .. Len(s) PROVE RowMatters(D, t, m, p)
    <2>1. Len(s) - p \in Nat /\ Len(s) - p \in 0 .. Len(s) /\ Len(s) - (Len(s) - p) = p
      OBVIOUS
    <2>2. Len(s) - p \in K
      BY <1>3, <2>1
    <2> QED
      BY <2>1, <2>2 DEF K
  <1> QED
    BY <1>4

LEMMA NotOnlyFirstColumn ==
  ASSUME NEW s, NEW t, NEW D, Len(s) \in Nat, Len(t) \in Nat \ {0}, IsTable(D, s, t),
         NEW m \in Nat \ {0}, NEW p \in 1 .. Len(s), RowMatters(D, t, m, p)
  PROVE  \E q \in 1 .. Len(t) : Matters(D, m, p, q) /\ p - m <= q /\ q < p + m
  <1>1. PICK q \in 0 .. Len(t) : Matters(D, m, p, q)
    BY DEF RowMatters
  <1>2. p \in 0 .. Len(s) /\ p - 1 \in 0 .. Len(s) /\ 0 \in 0 .. Len(t)
    OBVIOUS
  <1>3. CASE q = 0
    <2>1. 1 \in 1 .. Len(t) /\ 1 - 1 = 0
      OBVIOUS
    <2>2. D[p][0] = p /\ D[p - 1][0] = p - 1
      BY <1>2, TableEdges
    <2>3. /\ D[p][1] \in Nat /\ Cost(s, t, p, 1) \in 0 .. 1
          /\ D[p][1] <= D[p - 1][1 - 1] + Cost(s, t, p, 1)
      BY <2>1, TableCell
    <2>4. D[p - 1][1 - 1] = p - 1
      BY <2>1, <2>2
    <2> DEFINE x == D[p][1]   c == Cost(s, t, p, 1)
    <2>5. x \in Nat /\ c \in 0 .. 1 /\ x <= (p - 1) + c
      BY <2>3, <2>4
    <2>6. p <= m
      BY <1>1, <1>3, <2>2 DEF Matters, Over
    <2> HIDE DEF x, c
    <2>7. x + Over(p, 1) <= m
      BY <2>5, <2>6 DEF Over
    <2>8. Matters(D, m, p, 1) /\ p - m <= 1 /\ 1 < p + m
      BY <2>6, <2>7 DEF Matters, x
    <2> QED
      BY <2>1, <2>8
  <1>4. CASE q # 0
    <2> DEFINE x == D[p][q]
    <2>1. x \in Nat
      BY <1>2, TableEdges
    <2>2. p - q <= x /\ q - p <= x
      BY <1>2, TableIsFarEnough DEF FarEnough
    <2>3. x + Over(p, q) <= m
      BY <1>1 DEF Matters
    <2> HIDE DEF x
    <2>4. p - m <= q /\ q < p + m
      BY <2>1, <2>2, <2>3 DEF Over
    <2> QED
      BY <1>1, <1>4, <2>4
  <1> QED
    BY <1>3, <1>4

-----------------------------------------------------------------------------
(* The band of row p is right: no cell is below the table and the limit,   *)
(* the cells that matter are exact, and none exceeds the words but the     *)
(* wall at the right.                                                      *)
CellRight(D, m, r, p, j) ==
  /\ D[p][j] <= r[j] \/ m < r[j]
  /\ Matters(D, m, p, j) => r[j] = D[p][j]
  /\ \/ r[j] \in 0 .. (IF p < j THEN j ELSE p)
     \/ j = p + m /\ r[j] = Far
BandRight(D, n, m, r, p) ==
  \A j \in 0 .. n : p - m <= j /\ j <= p + m => CellRight(D, m, r, p, j)

(* One turn of the inner loop keeps that, given a right row above.         *)
BandStep(s, t, m, above, r, p, j) ==
  r[j] = IF s[p] = t[j] THEN above[j - 1]
         ELSE Min({above[j], above[j - 1], r[j - 1]}) + 1

LEMMA StepIsRight ==
  ASSUME NEW s, NEW t, NEW D, Len(s) \in Nat, Len(t) \in Nat, IsTable(D, s, t),
         NEW m \in Nat \ {0}, m < Far, NEW p \in 1 .. Len(s), NEW j \in 1 .. Len(t),
         NEW above \in [0 .. Len(t) -> Int], NEW r \in [0 .. Len(t) -> Int],
         BandRight(D, Len(t), m, above, p - 1), BandStep(s, t, m, above, r, p, j),
         p - m <= j, j < p + m,
         \/ CellRight(D, m, r, p, j - 1)
         \/ r[j - 1] = Far /\ j - 1 < p - m
  PROVE  CellRight(D, m, r, p, j)
  <1> DEFINE X == D[p][j]   N == D[p - 1][j]   W == D[p][j - 1]   NW == D[p - 1][j - 1]
             c == Cost(s, t, p, j)
             x == r[j]   a == above[j]   b == above[j - 1]   w == r[j - 1]
  <1>1. /\ j \in 0 .. Len(t) /\ j - 1 \in 0 .. Len(t) /\ p \in 0 .. Len(s)
        /\ p - 1 \in 0 .. Len(s)
    OBVIOUS
  <1>2. x \in Int /\ a \in Int /\ b \in Int /\ w \in Int
    BY <1>1
  <1>3. /\ X \in Nat /\ N \in Nat /\ W \in Nat /\ NW \in Nat /\ c \in 0 .. 1
        /\ X <= N + 1 /\ X <= W + 1 /\ X <= NW + c
        /\ \/ X = N + 1
           \/ X = W + 1
           \/ X = NW + c
    BY TableCell
  <1>4. CellRight(D, m, above, p - 1, j - 1)
    BY <1>1 DEF BandRight
  <1>5. /\ NW <= b \/ m < b
        /\ NW + Over(p - 1, j - 1) <= m => b = NW
        /\ b \in 0 .. (IF p < j THEN j - 1 ELSE p - 1)
    <2>1. ~(j - 1 = (p - 1) + m)
      OBVIOUS
    <2>2. (IF p - 1 < j - 1 THEN j - 1 ELSE p - 1) = (IF p < j THEN j - 1 ELSE p - 1)
      OBVIOUS
    <2>3. b \in 0 .. (IF p - 1 < j - 1 THEN j - 1 ELSE p - 1)
      BY <1>4, <2>1 DEF CellRight
    <2> QED
      BY <1>4, <2>2, <2>3 DEF CellRight, Matters
  <1>6. CASE s[p] = t[j]
    <2>1. x = b
      BY <1>6 DEF BandStep
    <2>2. X = NW
      BY <1>6, EqualUnits
    <2>3. /\ X <= x \/ m < x
          /\ X + Over(p, j) <= m => x = X
          /\ x \in 0 .. (IF p < j THEN j ELSE p)
      <3> HIDE DEF X, N, W, NW, c, x, a, b, w
      <3> QED
        BY <1>2, <1>3, <1>5, <2>1, <2>2 DEF Over
    <2> QED
      BY <2>3 DEF CellRight, Matters
  <1>7. CASE s[p] # t[j]
    <2>1. x = Min({a, b, w}) + 1
      BY <1>7 DEF BandStep
    <2>2. x - 1 \in {a, b, w} /\ x <= a + 1 /\ x <= b + 1 /\ x <= w + 1
      <3> HIDE DEF a, b, w, x
      <3>1. /\ Min({a, b, w}) \in {a, b, w}
            /\ Min({a, b, w}) <= a /\ Min({a, b, w}) <= b /\ Min({a, b, w}) <= w
        BY <1>2, LeastOfThree
      <3> QED
        BY <1>2, <2>1, <3>1
    <2>3. CellRight(D, m, above, p - 1, j)
      BY <1>1 DEF BandRight
    <2>4. /\ N <= a \/ m < a
          /\ N + Over(p - 1, j) <= m => a = N
          /\ 0 <= a
      <3>1. a \in 0 .. (IF p - 1 < j THEN j ELSE p - 1) \/ a = Far
        BY <2>3 DEF CellRight
      <3>2. 0 <= a
        BY <3>1 DEF Far
      <3> QED
        BY <2>3, <3>2 DEF CellRight, Matters
    <2>5. /\ W <= w \/ m < w
          /\ W + Over(p, j - 1) <= m => w = W
          /\ 0 <= w
      <3>1. CASE CellRight(D, m, r, p, j - 1)
        <4>1. w \in 0 .. (IF p < j - 1 THEN j - 1 ELSE p) \/ w = Far
          BY <3>1 DEF CellRight
        <4>2. 0 <= w
          BY <4>1 DEF Far
        <4> QED
          BY <3>1, <4>2 DEF CellRight, Matters
      <3>2. CASE r[j - 1] = Far /\ j - 1 < p - m
        <4>1. w = Far
          BY <3>2
        <4>2. p - (j - 1) <= W
          BY <1>1, TableIsFarEnough DEF FarEnough
        <4> HIDE DEF w, W
        <4>3. Over(p, j - 1) = 0
          BY <3>2 DEF Over
        <4> QED
          BY <1>3, <3>2, <4>1, <4>2, <4>3 DEF Far
      <3> QED
        BY <3>1, <3>2
    <2>6. c = 1
      BY <1>7 DEF Cost, Differ
    <2> HIDE DEF X, N, W, NW, c, x, a, b, w
    <2>7. X <= x \/ m < x
      BY <1>2, <1>3, <1>5, <2>2, <2>4, <2>5, <2>6
    <2>8. ASSUME X + Over(p, j) <= m PROVE x = X
      <3>1. x <= X
        <4>1. CASE X = N + 1
          BY <1>2, <1>3, <2>2, <2>4, <2>8, <4>1 DEF Over
        <4>2. CASE X = W + 1
          BY <1>2, <1>3, <2>2, <2>5, <2>8, <4>2 DEF Over
        <4>3. CASE X = NW + c
          BY <1>2, <1>3, <1>5, <2>2, <2>6, <2>8, <4>3 DEF Over
        <4> QED
          BY <1>3, <4>1, <4>2, <4>3
      <3>2. X <= m
        BY <1>3, <2>8 DEF Over
      <3> QED
        BY <1>2, <1>3, <2>7, <3>1, <3>2
    <2>9. x \in 0 .. (IF p < j THEN j ELSE p)
      BY <1>2, <1>5, <2>2, <2>4, <2>5
    <2> QED
      BY <2>7, <2>8, <2>9 DEF CellRight, Matters, X, x
  <1> QED
    BY <1>6, <1>7

(* The whole band of row p, when the cell before it is the edge of the     *)
(* table or a wall.                                                        *)
LEMMA BandIsRight ==
  ASSUME NEW s, NEW t, NEW D, Len(s) \in Nat, Len(t) \in Nat, IsTable(D, s, t),
         NEW m \in Nat \ {0}, m < Far, NEW p \in 1 .. Len(s),
         NEW above \in [0 .. Len(t) -> Int], NEW r \in [0 .. Len(t) -> Int],
         BandRight(D, Len(t), m, above, p - 1),
         \A j \in 1 .. Len(t) : p - m <= j /\ j <= p + m => BandStep(s, t, m, above, r, p, j),
         p <= m => r[0] = p,
         p > m /\ p - m - 1 <= Len(t) => r[p - m - 1] = Far
  PROVE  \A j \in 0 .. Len(t) : p - m <= j /\ j < p + m => CellRight(D, m, r, p, j)
  <1> DEFINE J == {j \in Nat : j \in 0 .. Len(t) /\ p - m <= j /\ j < p + m
                                 => CellRight(D, m, r, p, j)}
  <1>1. 0 \in J
    <2>1. SUFFICES ASSUME p - m <= 0 PROVE CellRight(D, m, r, p, 0)
      OBVIOUS
    <2>2. p \in 0 .. Len(s) /\ p <= m
      BY <2>1
    <2>3. D[p][0] = p
      BY <2>2, TableEdges
    <2>4. r[0] = p
      BY <2>2
    <2> QED
      BY <2>3, <2>4 DEF CellRight
  <1>2. ASSUME NEW k \in Nat, k \in J PROVE k + 1 \in J
    <2>1. SUFFICES ASSUME k + 1 \in 0 .. Len(t), p - m <= k + 1, k + 1 < p + m
                   PROVE  CellRight(D, m, r, p, k + 1)
      OBVIOUS
    <2>2. k + 1 \in 1 .. Len(t) /\ k \in 0 .. Len(t) /\ (k + 1) - 1 = k
      BY <2>1
    <2>3. BandStep(s, t, m, above, r, p, k + 1)
      BY <2>1, <2>2
    <2>4. \/ CellRight(D, m, r, p, k)
          \/ r[k] = Far /\ k < p - m
      <3>1. CASE p - m <= k
        BY <1>2, <2>1, <2>2, <3>1
      <3>2. CASE k < p - m
        <4>1. k = p - m - 1 /\ p > m
          BY <2>1, <3>2
        <4>2. p - m - 1 <= Len(t)
          BY <2>2, <4>1
        <4> QED
          BY <3>2, <4>1, <4>2
      <3> QED
        BY <3>1, <3>2
    <2> QED
      BY <2>1, <2>2, <2>3, <2>4, StepIsRight
  <1> HIDE DEF J
  <1>3. \A j \in Nat : j \in J
    BY <1>1, <1>2, Induction
  <1> QED
    BY <1>3 DEF J

-----------------------------------------------------------------------------
(* The inner loop of the code.                                             *)

LEMMA BandEdges ==
  ASSUME i \in Nat \ {0}, max_ed \in Nat, Len(s2) \in Nat
  PROVE  /\ S \in Nat \ {0} /\ E \in Nat
         /\ S = IF i - max_ed > 1 THEN i - max_ed ELSE 1
         /\ E = IF i + max_ed <= Len(s2) THEN i + max_ed ELSE Len(s2)
         /\ \A j \in 1 .. Len(s2) : i - max_ed <= j /\ j <= i + max_ed <=> S <= j /\ j <= E
  <1>1. E = IF i + max_ed <= Len(s2) THEN i + max_ed ELSE Len(s2)
    <2>1. i + max_ed \in Int /\ Len(s2) \in Int
      OBVIOUS
    <2> QED
      BY <2>1, LeastOfTwo DEF E
  <1>2. S = IF i - max_ed > 1 THEN i - max_ed ELSE 1
    BY DEF S
  <1> HIDE DEF S, E
  <1> QED
    BY <1>1, <1>2

LEMMA InBandEquation ==
  ASSUME Len(s2) \in Nat, S \in Nat \ {0}, E \in Nat, E <= Len(s2),
         NEW above \in [0 .. Len(s2) -> Int], NEW row \in [0 .. Len(s2) -> Int]
  PROVE  /\ InBand(above, row) \in [0 .. Len(s2) -> Int]
         /\ \A j \in 0 .. Len(s2) :
              InBand(above, row)[j] =
                IF j < S \/ j > E THEN row[j]
                ELSE IF s1[i] = s2[j] THEN above[j - 1]
                ELSE Min({above[j], above[j - 1], InBand(above, row)[j - 1]}) + 1
  <1> DEFINE N == Len(s2)
             body(j, g) == IF j < S \/ j > E THEN row[j]
                           ELSE IF s1[i] = s2[j] THEN above[j - 1]
                           ELSE Min({above[j], above[j - 1], g[j - 1]}) + 1
             B == [j \in 0 .. N |-> [g \in [0 .. N -> Int] |-> body(j, g)]]
             F == InBand(above, row)
  <1>0. ASSUME NEW a \in Int, NEW b \in Int, NEW c \in Int PROVE Min({a, b, c}) + 1 \in Int
    <2>1. Min({a, b, c}) \in {a, b, c}
      BY LeastOfThree
    <2> QED
      BY <2>1
  <1>1. ASSUME NEW j \in 0 .. N, NEW g \in [0 .. N -> Int] PROVE body(j, g) \in Int
    <2>1. CASE j < S \/ j > E
      BY <2>1
    <2>2. CASE ~(j < S \/ j > E)
      <3>1. j - 1 \in 0 .. N
        BY <2>2
      <3>2. above[j - 1] \in Int /\ above[j] \in Int /\ g[j - 1] \in Int
        BY <3>1
      <3>3. Min({above[j], above[j - 1], g[j - 1]}) + 1 \in Int
        BY <1>0, <3>2
      <3> QED
        BY <2>2, <3>2, <3>3, Zenon
    <2> QED
      BY <2>1, <2>2
  <1>2. ASSUME NEW j \in 0 .. N, NEW g \in [0 .. N -> Int], NEW h \in [0 .. N -> Int],
               \A k \in 0 .. N : k < j => g[k] = h[k]
        PROVE  body(j, g) = body(j, h)
    <2>1. CASE j < S \/ j > E
      BY <2>1
    <2>2. CASE ~(j < S \/ j > E)
      <3>1. j - 1 \in 0 .. N /\ j - 1 < j
        BY <2>2
      <3>2. g[j - 1] = h[j - 1]
        BY <1>2, <3>1
      <3> QED
        BY <3>2
    <2> QED
      BY <2>1, <2>2
  <1> HIDE DEF body
  <1>3. B \in Steps(N, Int)
    BY <1>1 DEF Steps
  <1>4. LookDown(N, Int, B)
    BY <1>2 DEF LookDown
  <1> HIDE DEF B
  <1>5. PICK f \in [0 .. N -> Int] : Solution(N, B, f)
    <2>1. Int # {}
      OBVIOUS
    <2> QED
      BY <1>3, <1>4, <2>1, Levels
  <1>6. \A j \in 0 .. N : f[j] = body(j, f)
    BY <1>5 DEF Solution, B
  <1>7. f = [j \in 0 .. N |-> body(j, f)]
    BY <1>6
  <1>8. \E g : g = [j \in 0 .. N |-> body(j, g)]
    BY <1>7
  <1>9. F = CHOOSE g : g = [j \in 0 .. N |-> body(j, g)]
    BY DEF InBand, body
  <1>10. F = [j \in 0 .. N |-> body(j, F)]
    <2> HIDE DEF F, N
    <2> QED
      BY <1>8, <1>9, Zenon
  <1> HIDE DEF F
  <1>11. \A j \in 0 .. N : F[j] = body(j, F)
    BY <1>10
  (* The cells are integers: by induction along the row.                   *)
  <1> DEFINE Q == {j \in Nat : j \in 0 .. N => F[j] \in Int}
  <1>12. 0 \in Q
    <2>1. 0 \in 0 .. N /\ 0 < S
      OBVIOUS
    <2>2. body(0, F) = row[0] /\ row[0] \in Int
      BY <2>1 DEF body
    <2> QED
      BY <1>11, <2>1, <2>2
  <1>13. ASSUME NEW j \in Nat, j \in Q PROVE j + 1 \in Q
    <2>1. SUFFICES ASSUME j + 1 \in 0 .. N PROVE F[j + 1] \in Int
      OBVIOUS
    <2>2. j \in 0 .. N /\ (j + 1) - 1 = j
      BY <2>1
    <2>3. F[j] \in Int /\ above[j] \in Int /\ above[j + 1] \in Int /\ row[j + 1] \in Int
      BY <1>13, <2>1, <2>2
    <2>4. Min({above[j + 1], above[j], F[j]}) + 1 \in Int
      BY <1>0, <2>3
    <2>5. body(j + 1, F) = IF j + 1 < S \/ j + 1 > E THEN row[j + 1]
                           ELSE IF s1[i] = s2[j + 1] THEN above[j]
                           ELSE Min({above[j + 1], above[j], F[j]}) + 1
      BY <2>2 DEF body
    <2>6. body(j + 1, F) \in Int
      BY <2>3, <2>4, <2>5, Zenon
    <2> QED
      BY <1>11, <2>1, <2>6
  <1> HIDE DEF Q
  <1>14. \A j \in Nat : j \in Q
    BY <1>12, <1>13, Induction
  <1>15. F \in [0 .. N -> Int]
    <2>1. \A j \in 0 .. N : F[j] \in Int
      BY <1>14 DEF Q
    <2> QED
      BY <1>10, <2>1
  <1> QED
    BY <1>11, <1>15 DEF F, body

-----------------------------------------------------------------------------
(* The inductive invariant.                                                *)

Table == EditRows(s1, s2)
Cells == Leftovers \union {Far} \union 0 .. Len(s1)

Typed ==
  /\ s1 \in Words /\ s2 \in Words /\ Len(s1) >= Len(s2) /\ s2 # <<>> /\ max_ed \in MaxEds
  /\ d \in [0 .. 1 -> [0 .. Len(s2) -> Cells]]
  /\ i \in 1 .. Len(s1) + 1 /\ current \in 0 .. 1
  /\ result \in {Running, Far} \union 0 .. Len(s1)

(* Between two turns the band of the row just written is right, and it     *)
(* has not left the table.                                                 *)
RowBehind ==
  result = Running =>
    /\ BandRight(Table, Len(s2), max_ed, d[1 - current], i - 1)
    /\ i - 1 - max_ed <= Len(s2)

DistanceInv == Typed /\ RowBehind /\ BandExact

LEMMA TypedFacts ==
  ASSUME EditDistanceAssumption, Typed
  PROVE  /\ Len(s1) \in Nat /\ Len(s2) \in Nat \ {0} /\ Len(s2) <= Len(s1)
         /\ max_ed \in Nat \ {0} /\ max_ed < Far
         /\ i \in Nat \ {0} /\ current \in 0 .. 1 /\ 1 - current \in 0 .. 1
         /\ IsTable(Table, s1, s2)
         /\ \A r \in 0 .. 1 : d[r] \in [0 .. Len(s2) -> Int]
         /\ Cells \subseteq Int
  <1>1. \A w \in Words : Len(w) \in Nat /\ w \in Seq(Byte) /\ (Len(w) = 0 => w = <<>>)
    BY DEF Words, EditDistanceAssumption
  <1>2. Len(s1) \in Nat /\ Len(s2) \in Nat \ {0} /\ Len(s2) <= Len(s1)
    BY <1>1 DEF Typed
  <1>3. IsTable(Table, s1, s2)
    BY <1>2, EditRowsAreTable DEF Table
  <1>4. max_ed \in Nat \ {0} /\ max_ed < Far
    BY DEF Typed, EditDistanceAssumption
  <1>5. i \in Nat \ {0} /\ current \in 0 .. 1 /\ 1 - current \in 0 .. 1
    BY <1>2 DEF Typed
  <1>6. Cells \subseteq Int
    <2>1. Leftovers \subseteq Int /\ Far \in Int
      BY DEF EditDistanceAssumption, Far
    <2>2. 0 .. Len(s1) \subseteq Int
      BY <1>2
    <2> QED
      BY <2>1, <2>2, Zenon DEF Cells
  <1>7. ASSUME NEW r \in 0 .. 1 PROVE d[r] \in [0 .. Len(s2) -> Int]
    <2>1. d[r] \in [0 .. Len(s2) -> Cells]
      BY DEF Typed
    <2> QED
      BY <1>6, <2>1
  <1> QED
    BY <1>2, <1>3, <1>4, <1>5, <1>6, <1>7

(***************************************************************************)
(* What one turn of the outer loop writes.                                 *)
(***************************************************************************)
Written == InBand(d[1 - current], Walled(d[current]))

LEMMA WalledRow ==
  ASSUME EditDistanceAssumption, Typed, result = Running, i <= Len(s1)
  PROVE  /\ Walled(d[current]) \in [0 .. Len(s2) -> Cells]
         /\ i <= max_ed => Walled(d[current])[0] = i
         /\ i > max_ed /\ i - max_ed - 1 <= Len(s2) =>
              Walled(d[current])[i - max_ed - 1] = Far
  <1> DEFINE n == Len(s2)
             old == d[current]
             base == [old EXCEPT ![0] = i]
  <1>1. /\ n \in Nat \ {0} /\ i \in Nat \ {0} /\ max_ed \in Nat \ {0}
        /\ old \in [0 .. n -> Cells]
    BY TypedFacts DEF Typed
  <1>2. i \in Cells /\ Far \in Cells
    BY <1>1, TypedFacts DEF Cells
  <1>3. 0 \in 0 .. n
    BY <1>1
  <1> HIDE DEF n, old
  <1>4. base \in [0 .. n -> Cells] /\ base[0] = i
    BY <1>1, <1>2, <1>3
  <1>5. Walled(old) = IF i - max_ed >= 1 THEN [base EXCEPT ![i - max_ed - 1] = Far] ELSE base
    BY DEF Walled, Prepared
  <1> HIDE DEF base
  <1>6. Walled(old) \in [0 .. n -> Cells]
    BY <1>2, <1>4, <1>5
  <1>7. i <= max_ed => Walled(old)[0] = i
    BY <1>1, <1>4, <1>5
  <1>8. i > max_ed /\ i - max_ed - 1 <= n => Walled(old)[i - max_ed - 1] = Far
    <2>1. SUFFICES ASSUME i > max_ed, i - max_ed - 1 <= n
                   PROVE  Walled(old)[i - max_ed - 1] = Far
      OBVIOUS
    <2>2. i - max_ed - 1 \in 0 .. n /\ i - max_ed >= 1
      BY <1>1, <2>1
    <2> QED
      BY <1>4, <1>5, <2>2
  <1> QED
    BY <1>6, <1>7, <1>8 DEF n, old

LEMMA WrittenRow ==
  ASSUME EditDistanceAssumption, Typed, RowBehind, result = Running, i <= Len(s1)
  PROVE  /\ Written \in [0 .. Len(s2) -> Int]
         /\ \A j \in 0 .. Len(s2) : j < S \/ j > E => Written[j] \in Cells
         /\ \A j \in 0 .. Len(s2) :
              i - max_ed <= j /\ j < i + max_ed => CellRight(Table, max_ed, Written, i, j)
  <1> DEFINE n == Len(s2)
             above == d[1 - current]
             row == Walled(d[current])
             r == InBand(above, row)
  <1>1. /\ Len(s1) \in Nat /\ n \in Nat \ {0} /\ max_ed \in Nat \ {0} /\ max_ed < Far
        /\ i \in Nat \ {0} /\ IsTable(Table, s1, s2)
        /\ above \in [0 .. n -> Int] /\ Cells \subseteq Int
    BY TypedFacts
  <1>2. /\ row \in [0 .. n -> Cells]
        /\ i <= max_ed => row[0] = i
        /\ i > max_ed /\ i - max_ed - 1 <= n => row[i - max_ed - 1] = Far
    BY WalledRow
  <1>3. row \in [0 .. n -> Int]
    BY <1>1, <1>2
  <1>4. /\ S \in Nat \ {0} /\ E \in Nat /\ E <= n
        /\ S = IF i - max_ed > 1 THEN i - max_ed ELSE 1
        /\ \A j \in 1 .. n : i - max_ed <= j /\ j <= i + max_ed <=> S <= j /\ j <= E
    <2>1. /\ S \in Nat \ {0} /\ E \in Nat
          /\ S = IF i - max_ed > 1 THEN i - max_ed ELSE 1
          /\ E = IF i + max_ed <= n THEN i + max_ed ELSE n
          /\ \A j \in 1 .. n : i - max_ed <= j /\ j <= i + max_ed <=> S <= j /\ j <= E
      BY <1>1, BandEdges
    <2>2. E <= n
      <3> HIDE DEF n
      <3> QED
        BY <1>1, <2>1
    <2> QED
      BY <2>1, <2>2
  <1> HIDE DEF above, row
  <1>5. /\ r \in [0 .. n -> Int]
        /\ \A j \in 0 .. n :
             r[j] = IF j < S \/ j > E THEN row[j]
                    ELSE IF s1[i] = s2[j] THEN above[j - 1]
                    ELSE Min({above[j], above[j - 1], r[j - 1]}) + 1
    BY <1>1, <1>3, <1>4, InBandEquation
  <1> HIDE DEF r, n
  <1>6. ASSUME NEW j \in 1 .. n, i - max_ed <= j, j <= i + max_ed
        PROVE  BandStep(s1, s2, max_ed, above, r, i, j)
    <2>1. j \in 0 .. n /\ S <= j /\ j <= E
      BY <1>1, <1>4, <1>6
    <2>2. ~(j < S \/ j > E)
      BY <1>1, <1>4, <2>1
    <2> QED
      BY <1>5, <2>1, <2>2, Zenon DEF BandStep
  <1>7. i <= max_ed => r[0] = i
    <2>1. 0 \in 0 .. n /\ 0 < S
      BY <1>1, <1>4
    <2> QED
      BY <1>2, <1>5, <2>1
  <1>8. i > max_ed /\ i - max_ed - 1 <= n => r[i - max_ed - 1] = Far
    <2>1. SUFFICES ASSUME i > max_ed, i - max_ed - 1 <= n PROVE r[i - max_ed - 1] = Far
      OBVIOUS
    <2>2. i - max_ed - 1 \in 0 .. n /\ i - max_ed - 1 < S
      BY <1>1, <1>4, <2>1
    <2> QED
      BY <1>2, <1>5, <2>1, <2>2
  <1>9. BandRight(Table, n, max_ed, above, i - 1)
    BY DEF RowBehind, above, n
  <1>10. \A j \in 0 .. n :
           i - max_ed <= j /\ j < i + max_ed => CellRight(Table, max_ed, r, i, j)
    <2>1. i \in 1 .. Len(s1)
      BY <1>1
    <2> QED
      BY <1>1, <1>5, <1>6, <1>7, <1>8, <1>9, <2>1, BandIsRight DEF n
  <1>11. \A j \in 0 .. n : j < S \/ j > E => r[j] \in Cells
    BY <1>2, <1>5
  <1> QED
    BY <1>5, <1>10, <1>11 DEF Written, r, above, row, n

(* What is left in memory after the wall at the right.                     *)
LEMMA ClosedRow ==
  ASSUME EditDistanceAssumption, Typed, RowBehind, result = Running, i <= Len(s1)
  PROVE  /\ Closed(Written) \in [0 .. Len(s2) -> Cells]
         /\ BandRight(Table, Len(s2), max_ed, Closed(Written), i)
  <1> DEFINE n == Len(s2)
             r == Written
             c == Closed(r)
  <1>1. /\ Len(s1) \in Nat /\ n \in Nat \ {0} /\ n <= Len(s1)
        /\ max_ed \in Nat \ {0} /\ max_ed < Far
        /\ i \in Nat \ {0} /\ IsTable(Table, s1, s2)
    BY TypedFacts
  <1>2. /\ r \in [0 .. n -> Int]
        /\ \A j \in 0 .. n : j < S \/ j > E => r[j] \in Cells
        /\ \A j \in 0 .. n :
             i - max_ed <= j /\ j < i + max_ed => CellRight(Table, max_ed, r, i, j)
    BY WrittenRow
  <1>3. \A j \in 1 .. n : i - max_ed <= j /\ j <= i + max_ed <=> S <= j /\ j <= E
    BY <1>1, BandEdges
  <1>4. S \in Nat \ {0} /\ E \in Nat
    BY <1>1, BandEdges
  <1>5. c = IF i + max_ed <= n THEN [r EXCEPT ![i + max_ed] = Far] ELSE r
    BY DEF Closed
  <1> HIDE DEF n, r, c
  <1>6. \A j \in 0 .. n : c[j] = IF j = i + max_ed THEN Far ELSE r[j]
    BY <1>1, <1>2, <1>5
  <1>7. ASSUME NEW j \in 0 .. n PROVE c[j] \in Cells
    <2>1. CASE j = i + max_ed
      BY <1>6, <2>1 DEF Cells
    <2>2. CASE j # i + max_ed /\ (j < S \/ j > E)
      BY <1>2, <1>6, <2>2
    <2>3. CASE j # i + max_ed /\ ~(j < S \/ j > E)
      <3>1. j \in 1 .. n /\ S <= j /\ j <= E
        BY <1>1, <1>4, <2>3
      <3>2. i - max_ed <= j /\ j < i + max_ed
        BY <1>1, <1>3, <2>3, <3>1
      <3>3. CellRight(Table, max_ed, r, i, j)
        BY <1>2, <3>2
      <3>4. r[j] \in 0 .. (IF i < j THEN j ELSE i)
        BY <2>3, <3>3 DEF CellRight
      <3>5. r[j] \in 0 .. Len(s1)
        BY <1>1, <3>4
      <3> QED
        BY <1>6, <2>3, <3>5 DEF Cells
    <2> QED
      BY <2>1, <2>2, <2>3
  <1>8. c \in [0 .. n -> Cells]
    <2>1. Far \in Int
      BY DEF Far
    <2>2. c \in [0 .. n -> Int]
      BY <1>2, <1>5, <2>1
    <2> QED
      BY <1>7, <2>2
  <1>9. ASSUME NEW j \in 0 .. n, i - max_ed <= j, j <= i + max_ed
        PROVE  CellRight(Table, max_ed, c, i, j)
    <2>1. CASE j = i + max_ed
      <3>1. c[j] = Far
        BY <1>6, <2>1
      <3>2. i \in 0 .. Len(s1)
        BY <1>1
      <3>3. FarEnough(Table, s2, i)
        BY <1>1, <3>2, TableIsFarEnough DEF n
      <3>4. j - i <= Table[i][j]
        BY <3>3 DEF FarEnough, n
      <3>5. Table[i][j] \in Nat
        BY <1>1, <3>2, TableEdges DEF n
      <3> DEFINE x == Table[i][j]
      <3>6. ~(x + Over(i, j) <= max_ed)
        <4>1. x \in Nat /\ j - i <= x
          BY <3>4, <3>5
        <4> HIDE DEF x
        <4> QED
          BY <1>1, <2>1, <4>1 DEF Over
      <3>7. ~Matters(Table, max_ed, i, j)
        BY <3>6 DEF Matters
      <3> QED
        BY <1>1, <2>1, <3>1, <3>7 DEF CellRight
    <2>2. CASE j # i + max_ed
      <3>1. j < i + max_ed
        BY <1>1, <1>9, <2>2
      <3>2. CellRight(Table, max_ed, r, i, j)
        BY <1>2, <1>9, <3>1
      <3>3. c[j] = r[j]
        BY <1>6, <2>2
      <3> QED
        BY <3>2, <3>3 DEF CellRight
    <2> QED
      BY <2>1, <2>2
  <1> QED
    BY <1>8, <1>9 DEF BandRight, c, r, n

(* A turn that gives up is right to do so.                                 *)
LEMMA HopelessIsHopeless ==
  ASSUME EditDistanceAssumption, Typed, RowBehind, result = Running, i <= Len(s1),
         Hopeless(Written)
  PROVE  ~(edit_distance(s1, s2) <= max_ed)
  <1> DEFINE n == Len(s2)
  <1>1. /\ Len(s1) \in Nat /\ n \in Nat \ {0} /\ n <= Len(s1)
        /\ max_ed \in Nat \ {0} /\ i \in Nat \ {0} /\ IsTable(Table, s1, s2)
        /\ i \in 1 .. Len(s1) /\ i \in 0 .. Len(s1)
    BY TypedFacts
  <1>2. SUFFICES ASSUME Table[Len(s1)][n] <= max_ed PROVE FALSE
    BY DEF edit_distance, Table
  <1>3. RowMatters(Table, s2, max_ed, i)
    BY <1>1, <1>2, EveryRowMatters
  <1>4. PICK q \in 1 .. n : Matters(Table, max_ed, i, q) /\ i - max_ed <= q /\ q < i + max_ed
    BY <1>1, <1>3, NotOnlyFirstColumn
  <1>5. CellRight(Table, max_ed, Written, i, q)
    BY <1>1, <1>4, WrittenRow
  <1>6. Written[q] = Table[i][q] /\ Table[i][q] + Over(i, q) <= max_ed
    BY <1>4, <1>5 DEF CellRight, Matters
  <1>7. Table[i][q] \in Nat
    <2>1. q \in 0 .. n
      OBVIOUS
    <2> QED
      BY <1>1, <2>1, TableEdges
  <1>8. S <= q /\ q <= E /\ S \in Nat /\ E \in Nat
    BY <1>1, <1>4, BandEdges
  <1>9. Written[q] > max_ed
    BY <1>8 DEF Hopeless
  <1> DEFINE x == Written[q]
  <1>10. x \in Nat /\ x + Over(i, q) <= max_ed /\ x > max_ed
    BY <1>6, <1>7, <1>9
  <1> HIDE DEF x, n
  <1> QED
    BY <1>1, <1>10 DEF Over

-----------------------------------------------------------------------------

LEMMA InitDistance ==
  ASSUME EditDistanceAssumption, Init
  PROVE  DistanceInv
  <1>1. PICK old \in [0 .. Len(s2) -> Leftovers] :
          d = [r \in 0 .. 1 |-> IF r = 0 THEN [j \in 0 .. Len(s2) |-> j] ELSE old]
    BY DEF Init
  <1> DEFINE n == Len(s2)
             first == [j \in 0 .. n |-> j]
  <1>2. Len(s1) \in Nat /\ n \in Nat /\ n <= Len(s1)
    BY DEF Init, Words, EditDistanceAssumption
  <1>3. first \in [0 .. n -> Cells] /\ old \in [0 .. n -> Cells]
    BY <1>2 DEF Cells
  <1>4. d[0] = first /\ d[1] = old /\ d \in [0 .. 1 -> [0 .. n -> Cells]]
    BY <1>1, <1>3
  <1>5. Typed
    BY <1>2, <1>4 DEF Init, Typed
  <1>6. IsTable(Table, s1, s2) /\ max_ed \in Nat
    BY <1>5, TypedFacts
  <1>7. d[1 - current] = first /\ i - 1 = 0
    BY <1>4 DEF Init
  <1>8. ASSUME NEW j \in 0 .. n PROVE CellRight(Table, max_ed, first, 0, j)
    <2>1. Table[0][j] = j
      BY <1>2, <1>6, TableEdges
    <2>2. first[j] = j /\ first[j] \in 0 .. (IF 0 < j THEN j ELSE 0)
      OBVIOUS
    <2> QED
      BY <2>1, <2>2 DEF CellRight
  <1>9. RowBehind
    <2>1. BandRight(Table, n, max_ed, first, 0)
      BY <1>8 DEF BandRight
    <2>2. i - 1 - max_ed <= n
      BY <1>2, <1>6, <1>7
    <2> QED
      BY <1>7, <2>1, <2>2 DEF RowBehind
  <1>10. BandExact
    BY DEF Init, BandExact
  <1> QED
    BY <1>5, <1>9, <1>10 DEF DistanceInv

LEMMA NextDistance ==
  ASSUME EditDistanceAssumption, DistanceInv, [Next]_vars
  PROVE  DistanceInv'
  <1> DEFINE n == Len(s2)
  <1>1. Typed /\ RowBehind /\ BandExact
    BY DEF DistanceInv
  <1>2. /\ Len(s1) \in Nat /\ n \in Nat \ {0} /\ n <= Len(s1)
        /\ max_ed \in Nat \ {0} /\ max_ed < Far
        /\ i \in Nat \ {0} /\ current \in 0 .. 1 /\ 1 - current \in 0 .. 1
        /\ IsTable(Table, s1, s2)
    BY <1>1, TypedFacts
  <1>3. CASE Row
    <2>1. /\ result = Running /\ i <= Len(s1)
          /\ d' = [d EXCEPT ![current] = Closed(Written)]
          /\ s1' = s1 /\ s2' = s2 /\ max_ed' = max_ed
      BY <1>3 DEF Row, Written
    <2>2. /\ Closed(Written) \in [0 .. n -> Cells]
          /\ BandRight(Table, n, max_ed, Closed(Written), i)
      BY <1>1, <2>1, ClosedRow
    <2>3. d \in [0 .. 1 -> [0 .. n -> Cells]]
      BY <1>1 DEF Typed
    <2>4. d' \in [0 .. 1 -> [0 .. n -> Cells]] /\ d'[current] = Closed(Written)
      <3> HIDE DEF n
      <3> QED
        BY <1>2, <2>1, <2>2, <2>3
    <2>5. Cells' = Cells /\ Table' = Table
      BY <2>1 DEF Cells, Table
    <2>6. CASE Hopeless(Written)
      <3>1. result' = Far /\ i' = i /\ current' = current
        BY <1>3, <2>6 DEF Row, Written
      <3>2. Typed'
        BY <1>1, <2>1, <2>4, <2>5, <3>1 DEF Typed
      <3>3. RowBehind'
        BY <3>1 DEF RowBehind, Running, Far
      <3>4. ~(edit_distance(s1, s2) <= max_ed)
        BY <1>1, <2>1, <2>6, HopelessIsHopeless
      <3>5. BandExact'
        BY <1>2, <2>1, <3>1, <3>4 DEF BandExact
      <3> QED
        BY <3>2, <3>3, <3>5 DEF DistanceInv
    <2>7. CASE ~Hopeless(Written)
      <3>1. i' = i + 1 /\ current' = 1 - current /\ result' = result
        BY <1>3, <2>7 DEF Row, Written
      <3>2. Typed'
        <4>1. i' \in 1 .. Len(s1) + 1 /\ current' \in 0 .. 1
          BY <1>2, <2>1, <3>1
        <4> QED
          BY <1>1, <2>1, <2>4, <2>5, <3>1, <4>1 DEF Typed
      <3>3. 1 - current' = current /\ i' - 1 = i
        BY <1>2, <3>1
      <3>4. i - max_ed <= n
        <4>1. PICK j \in S .. E : TRUE
          BY <2>7 DEF Hopeless
        <4>2. /\ S \in Nat /\ E \in Nat
              /\ S = IF i - max_ed > 1 THEN i - max_ed ELSE 1
              /\ E = IF i + max_ed <= n THEN i + max_ed ELSE n
          BY <1>2, BandEdges
        <4> HIDE DEF n
        <4>3. S <= E
          BY <4>1, <4>2
        <4> QED
          BY <1>2, <4>2, <4>3
      <3>5. RowBehind'
        <4>1. BandRight(Table', Len(s2'), max_ed', d'[1 - current'], i' - 1)
          BY <2>1, <2>2, <2>4, <2>5, <3>3
        <4>2. i' - 1 - max_ed' <= Len(s2')
          BY <2>1, <3>3, <3>4
        <4> QED
          BY <4>1, <4>2 DEF RowBehind
      <3>6. BandExact'
        BY <2>1, <3>1 DEF BandExact
      <3> QED
        BY <3>2, <3>5, <3>6 DEF DistanceInv
    <2> QED
      BY <2>6, <2>7
  <1>4. CASE Return
    <2>1. /\ result = Running /\ i > Len(s1) /\ result' = d[1 - current][n]
          /\ s1' = s1 /\ s2' = s2 /\ max_ed' = max_ed
          /\ d' = d /\ i' = i /\ current' = current
      BY <1>4 DEF Return
    <2>2. i - 1 = Len(s1)
      BY <1>1, <1>2, <2>1 DEF Typed
    <2>3. /\ BandRight(Table, n, max_ed, d[1 - current], Len(s1))
          /\ Len(s1) - max_ed <= n
      BY <1>1, <2>1, <2>2 DEF RowBehind
    <2>4. CellRight(Table, max_ed, d[1 - current], Len(s1), n)
      <3>1. n \in 0 .. n /\ Len(s1) - max_ed <= n /\ n <= Len(s1) + max_ed
        <4> HIDE DEF n
        <4> QED
          BY <1>2, <2>3
      <3> QED
        BY <2>3, <3>1 DEF BandRight
    <2>5. result' \in {Far} \union 0 .. Len(s1)
      <3>1. (IF Len(s1) < n THEN n ELSE Len(s1)) = Len(s1)
        <4> HIDE DEF n
        <4> QED
          BY <1>2
      <3> QED
        BY <2>1, <2>4, <3>1 DEF CellRight
    <2>6. Typed'
      BY <1>1, <2>1, <2>5 DEF Typed, Cells
    <2>7. RowBehind'
      BY <1>2, <2>5 DEF RowBehind, Running, Far
    <2>8. BandExact'
      <3> DEFINE x == Table[Len(s1)][n]
      <3>1. x \in Nat
        BY <1>2, TableEdges
      <3>2. edit_distance(s1, s2) = x
        BY DEF edit_distance, Table
      <3>3. Over(Len(s1), n) = 0
        <4> HIDE DEF n
        <4> QED
          BY <1>2 DEF Over
      <3>4. /\ x <= result' \/ max_ed < result'
            /\ x + Over(Len(s1), n) <= max_ed => result' = x
        BY <2>1, <2>4 DEF CellRight, Matters
      <3>5. result' \in Nat
        BY <1>2, <2>5 DEF Far
      <3> HIDE DEF x
      <3>6. IF x <= max_ed THEN result' = x ELSE result' > max_ed
        BY <1>2, <3>1, <3>3, <3>4, <3>5
      <3> QED
        BY <2>1, <3>2, <3>6 DEF BandExact
    <2> QED
      BY <2>6, <2>7, <2>8 DEF DistanceInv
  <1>5. CASE UNCHANGED vars
    BY <1>1, <1>5 DEF vars, DistanceInv, Typed, RowBehind, BandExact, Cells, Table
  <1> QED
    BY <1>3, <1>4, <1>5 DEF Next

LEMMA DistanceInvariant ==
  ASSUME EditDistanceAssumption
  PROVE  Spec => []DistanceInv
  <1>1. Init => DistanceInv
    BY InitDistance
  <1>2. DistanceInv /\ [Next]_vars => DistanceInv'
    BY NextDistance
  <1> QED
    BY <1>1, <1>2, PTL DEF Spec

-----------------------------------------------------------------------------

(***************************************************************************)
(* The rows hold leftovers, walls and numbers up to the length of the      *)
(* longer word, never more: the chars of edit_distance.h:165 do not        *)
(* overflow for words of up to 127 units, however many calls used them.    *)
(***************************************************************************)
THEOREM DistanceTypeCorrect ==
  ASSUME EditDistanceAssumption
  PROVE  Spec => []TypeOK
  <1>1. DistanceInv => TypeOK
    <2>1. SUFFICES ASSUME DistanceInv PROVE TypeOK
      OBVIOUS
    <2>2. Typed
      BY <2>1 DEF DistanceInv
    <2>3. DOMAIN d = 0 .. 1
      BY <2>2 DEF Typed
    <2>4. ASSUME NEW r \in 0 .. 1
          PROVE  /\ DOMAIN d[r] = 0 .. Len(s2)
                 /\ \A j \in DOMAIN d[r] : d[r][j] \in Leftovers \union {Far} \union 0 .. Len(s1)
      <3>1. d[r] \in [0 .. Len(s2) -> Cells]
        BY <2>2 DEF Typed
      <3> QED
        BY <3>1 DEF Cells
    <2> QED
      BY <2>2, <2>3, <2>4 DEF Typed, TypeOK
  <1> QED
    BY <1>1, DistanceInvariant, PTL

(***************************************************************************)
(* Whatever the rows held before, the banded distance is the distance of   *)
(* the whole table when that is at most max_ed, and more than max_ed       *)
(* otherwise: edit_distance.h:165, for words of any length.                *)
(***************************************************************************)
THEOREM BandedDistanceIsExact ==
  ASSUME EditDistanceAssumption
  PROVE  Spec => []BandExact
  <1>1. DistanceInv => BandExact
    BY DEF DistanceInv
  <1> QED
    BY <1>1, DistanceInvariant, PTL

(***************************************************************************)
(* The wall at the left of the band is never written behind the row's end, *)
(* which the code does not check: edit_distance.h:176.                     *)
(***************************************************************************)
THEOREM WallStaysInRow ==
  ASSUME EditDistanceAssumption
  PROVE  Spec => []WritesStayInRow
  <1>1. DistanceInv => WritesStayInRow
    <2>1. SUFFICES ASSUME DistanceInv, result = Running PROVE i - max_ed - 1 <= Len(s2)
      BY DEF WritesStayInRow
    <2>2. i - 1 - max_ed <= Len(s2) /\ Typed
      BY <2>1 DEF DistanceInv, RowBehind
    <2>3. i \in Nat /\ max_ed \in Nat /\ Len(s2) \in Nat
      BY <2>2, TypedFacts
    <2> QED
      BY <2>2, <2>3
  <1> QED
    BY <1>1, DistanceInvariant, PTL
=============================================================================
