--------------------------- MODULE StaticHashProofs ---------------------------
(***************************************************************************)
(* What the static hash table answers, for every hash function, every      *)
(* container and every order in which std::sort leaves equal hashes; then  *)
(* what the table of lists does, for all maps, writes and crashes.         *)
(***************************************************************************)
EXTENDS StaticHash, SetInduction, FiniteSetTheorems

-----------------------------------------------------------------------------
(* The buckets.                                                            *)

LEMMA PowerTypes ==
  ASSUME MaxPow \in Nat
  PROVE  \A n \in 0 .. MaxPow : Power[n] \in Nat \ {0} /\ (n # 0 => Power[n] >= 2)
  <1> DEFINE N == MaxPow
             body(n, g) == IF n = 0 THEN 1 ELSE 2 * g[n - 1]
             B == [n \in 0 .. N |-> [g \in [0 .. N -> Nat] |-> body(n, g)]]
  <1>1. ASSUME NEW n \in 0 .. N, NEW g \in [0 .. N -> Nat] PROVE body(n, g) \in Nat
    <2>1. CASE n = 0
      BY <2>1
    <2>2. CASE n # 0
      <3>1. n - 1 \in 0 .. N
        BY <2>2
      <3>2. g[n - 1] \in Nat
        BY <3>1
      <3> QED
        BY <2>2, <3>2
    <2> QED
      BY <2>1, <2>2
  <1>2. ASSUME NEW n \in 0 .. N, NEW g \in [0 .. N -> Nat], NEW h \in [0 .. N -> Nat],
               \A m \in 0 .. N : m < n => g[m] = h[m]
        PROVE  body(n, g) = body(n, h)
    <2>1. n = 0 \/ g[n - 1] = h[n - 1]
      BY <1>2
    <2> QED
      BY <2>1
  <1> HIDE DEF body
  <1>3. B \in Steps(N, Nat)
    BY <1>1 DEF Steps
  <1>4. LookDown(N, Nat, B)
    BY <1>2 DEF LookDown
  <1> HIDE DEF B
  <1>5. PICK f \in [0 .. N -> Nat] : Solution(N, B, f)
    <2>1. Nat # {}
      OBVIOUS
    <2> QED
      BY <1>3, <1>4, <2>1, Levels
  <1>6. \A n \in 0 .. N : f[n] = body(n, f)
    BY <1>5 DEF Solution, B
  <1>7. f = [n \in 0 .. N |-> body(n, f)]
    BY <1>6
  <1>8. \E g : g = [n \in 0 .. N |-> body(n, g)]
    BY <1>7
  <1>9. Power = CHOOSE g : g = [n \in 0 .. N |-> body(n, g)]
    BY DEF Power, body
  <1>10. Power = [n \in 0 .. N |-> body(n, Power)]
    <2> HIDE DEF N
    <2> QED
      BY <1>8, <1>9, Zenon
  <1>11. \A n \in 0 .. N : Power[n] = IF n = 0 THEN 1 ELSE 2 * Power[n - 1]
    BY <1>10 DEF body
  <1> DEFINE Q == {n \in Nat : n \in 0 .. N =>
                     Power[n] \in Nat \ {0} /\ (n # 0 => Power[n] >= 2)}
  <1>12. 0 \in Q
    BY <1>11
  <1>13. ASSUME NEW n \in Nat, n \in Q PROVE n + 1 \in Q
    <2>1. SUFFICES ASSUME n + 1 \in 0 .. N
                   PROVE  Power[n + 1] \in Nat \ {0} /\ Power[n + 1] >= 2
      OBVIOUS
    <2>2. Power[n] \in Nat \ {0}
      BY <1>13, <2>1
    <2>3. Power[n + 1] = 2 * Power[n]
      BY <1>11, <2>1
    <2> QED
      BY <2>2, <2>3
  <1> HIDE DEF Q
  <1>14. \A n \in Nat : n \in Q
    BY <1>12, <1>13, Induction
  <1> QED
    BY <1>14 DEF Q

LEMMA BucketNumType ==
  ASSUME StaticHashAssumption, pow \in Nat
  PROVE  BucketNum \in Nat /\ BucketNum >= 2
  <1> DEFINE n == IF pow < MinPow THEN MinPow ELSE IF pow > MaxPow THEN MaxPow ELSE pow
  <1>1. n \in 0 .. MaxPow /\ n # 0 /\ MaxPow \in Nat
    BY DEF StaticHashAssumption
  <1>2. BucketNum = Power[n]
    BY DEF BucketNum
  <1> HIDE DEF n
  <1> QED
    BY <1>1, <1>2, PowerTypes

(* The bucket of a hash among n.                                           *)
Id(n, h) == h % n

LEMMA IdType ==
  ASSUME NEW n \in Nat \ {0}, NEW h \in Nat
  PROVE  Id(n, h) \in 0 .. n - 1
  BY DEF Id

LEMMA MarkIsElsewhere ==
  ASSUME NEW n \in Nat, n >= 2, NEW l \in 0 .. n - 1
  PROVE  Id(n, l + 1) # l
  <1>1. CASE l + 1 = n
    <2>1. Id(n, l + 1) = 0
      BY <1>1 DEF Id
    <2> QED
      BY <1>1, <2>1
  <1>2. CASE l + 1 # n
    <2>1. l + 1 \in 0 .. n - 1
      BY <1>2
    <2>2. \A h \in 0 .. n - 1 : h % n = h
      OBVIOUS
    <2>3. Id(n, l + 1) = l + 1
      BY <2>1, <2>2 DEF Id
    <2> QED
      BY <2>3
  <1> QED
    BY <1>1, <1>2

-----------------------------------------------------------------------------
(* The chains.                                                             *)

IdOf(n, ch, e) == Id(n, ch[e].hasher)
Links(m) == [hasher : Nat, next : 0 .. m]

(* Every element leads to the next one of its bucket.                      *)
Linked(n, ch) ==
  \A e \in 1 .. Len(ch) :
    \/ /\ ch[e].next = 0
       /\ \A f \in 1 .. Len(ch) : e < f => IdOf(n, ch, f) # IdOf(n, ch, e)
    \/ /\ ch[e].next \in e + 1 .. Len(ch)
       /\ IdOf(n, ch, ch[e].next) = IdOf(n, ch, e)
       /\ \A f \in 1 .. Len(ch) :
            e < f /\ f < ch[e].next => IdOf(n, ch, f) # IdOf(n, ch, e)

(* o is the first element of bucket id, or 0 when there is none.           *)
IsHead(n, ch, o, id) ==
  \/ o = 0 /\ \A e \in 1 .. Len(ch) : IdOf(n, ch, e) # id
  \/ /\ o \in 1 .. Len(ch) /\ IdOf(n, ch, o) = id
     /\ \A e \in 1 .. Len(ch) : e < o => IdOf(n, ch, e) # id

IsLastOf(n, ch, z, e) ==
  /\ z \in 1 .. Len(ch) /\ IdOf(n, ch, z) = IdOf(n, ch, e)
  /\ \A f \in 1 .. Len(ch) : z < f => IdOf(n, ch, f) # IdOf(n, ch, e)

LEMMA ChainEndIsLast ==
  ASSUME NEW n, NEW m, chain \in Seq(Links(m)), Linked(n, chain), NEW o \in 1 .. Len(chain)
  PROVE  IsLastOf(n, chain, ChainEnd(o), o)
  <1> DEFINE N == Len(chain)
             V == 1 .. N
             body(e, g) == IF chain[e].next = 0 THEN e ELSE g[chain[e].next]
             B == [e \in 1 .. N |-> [g \in [1 .. N -> V] |-> body(e, g)]]
  <1>0. N \in Nat
    OBVIOUS
  <1>1. ASSUME NEW e \in 1 .. N PROVE chain[e].next = 0 \/ chain[e].next \in e + 1 .. N
    BY DEF Linked
  <1>2. ASSUME NEW e \in 1 .. N, NEW g \in [1 .. N -> V] PROVE body(e, g) \in V
    BY <1>0, <1>1
  <1>3. ASSUME NEW e \in 1 .. N, NEW g \in [1 .. N -> V], NEW h \in [1 .. N -> V],
               \A f \in 1 .. N : e < f => g[f] = h[f]
        PROVE  body(e, g) = body(e, h)
    <2>1. chain[e].next = 0 \/ g[chain[e].next] = h[chain[e].next]
      BY <1>0, <1>1, <1>3
    <2> QED
      BY <2>1
  <1> HIDE DEF body
  <1>4. B \in StepsUp(N, V)
    BY <1>2 DEF StepsUp
  <1>5. LookUp(N, V, B)
    BY <1>3 DEF LookUp
  <1>6. V # {}
    OBVIOUS
  <1> HIDE DEF B, V
  <1>7. PICK w \in [1 .. N -> V] : SolutionUp(N, B, w)
    BY <1>0, <1>4, <1>5, <1>6, LevelsUp
  <1>8. w = [e \in 1 .. N |-> body(e, w)]
    BY <1>7 DEF SolutionUp, B
  <1>9. \E g : g = [e \in 1 .. N |-> body(e, g)]
    BY <1>8
  <1> DEFINE W == CHOOSE g : g = [e \in 1 .. N |-> body(e, g)]
  <1>10. ChainEnd(o) = W[o]
    BY DEF ChainEnd, body
  <1>11. W = [e \in 1 .. N |-> body(e, W)]
    <2> HIDE DEF N
    <2> QED
      BY <1>9, Zenon
  <1> HIDE DEF W
  <1>12. \A e \in 1 .. N : W[e] = IF chain[e].next = 0 THEN e ELSE W[chain[e].next]
    BY <1>11 DEF body
  <1> DEFINE S == {e \in 1 .. N : IsLastOf(n, chain, W[e], e)}
  <1>13. ASSUME NEW e \in 1 .. N, \A f \in 1 .. N : e < f => f \in S
         PROVE  e \in S
    <2>1. CASE chain[e].next = 0
      <3>1. W[e] = e
        BY <1>12, <2>1
      <3>2. \A f \in 1 .. N : e < f => IdOf(n, chain, f) # IdOf(n, chain, e)
        BY <1>0, <2>1 DEF Linked
      <3> QED
        BY <3>1, <3>2 DEF IsLastOf
    <2>2. CASE chain[e].next # 0
      <3> DEFINE x == chain[e].next
      <3>1. x \in e + 1 .. N /\ IdOf(n, chain, x) = IdOf(n, chain, e)
        BY <2>2 DEF Linked
      <3>2. x \in 1 .. N /\ e < x
        BY <1>0, <3>1
      <3>3. IsLastOf(n, chain, W[x], x)
        BY <1>13, <3>2
      <3>4. W[e] = W[x]
        BY <1>12, <2>2
      <3> QED
        BY <3>1, <3>3, <3>4 DEF IsLastOf
    <2> QED
      BY <2>1, <2>2
  <1> HIDE DEF S
  <1>14. \A e \in 1 .. N : e \in S
    BY <1>0, <1>13, InductionDown
  <1> QED
    BY <1>10, <1>14 DEF S

(* The chain from o on holds the elements of the bucket from o on.         *)
From(n, ch, o) == {f \in 1 .. Len(ch) : o <= f /\ IdOf(n, ch, f) = IdOf(n, ch, o)}

LEMMA OneBefore ==
  ASSUME NEW A, NEW a \in A, NEW s \in Seq(A)
  PROVE  <<a>> \o s \in Seq(A) /\ ToSet(<<a>> \o s) = {a} \union ToSet(s)
  <1> DEFINE t == <<a>> \o s
  <1>1. /\ t \in Seq(A) /\ Len(t) = Len(s) + 1 /\ t[1] = a
        /\ \A i \in 1 .. Len(s) : t[i + 1] = s[i]
    OBVIOUS
  <1>2. DOMAIN t = 1 .. Len(s) + 1 /\ DOMAIN s = 1 .. Len(s) /\ Len(s) \in Nat
    BY <1>1
  <1> HIDE DEF t
  <1>3. ASSUME NEW x \in ToSet(t) PROVE x \in {a} \union ToSet(s)
    <2>1. PICK i \in 1 .. Len(s) + 1 : x = t[i]
      BY <1>2 DEF ToSet
    <2>2. CASE i = 1
      BY <1>1, <2>1, <2>2
    <2>3. CASE i # 1
      <3>1. i - 1 \in 1 .. Len(s) /\ (i - 1) + 1 = i
        BY <1>2, <2>3
      <3>2. x = s[i - 1]
        BY <1>1, <2>1, <3>1
      <3> QED
        BY <1>2, <3>1, <3>2 DEF ToSet
    <2> QED
      BY <2>2, <2>3
  <1>4. ASSUME NEW x \in {a} \union ToSet(s) PROVE x \in ToSet(t)
    <2>1. CASE x = a
      <3>1. 1 \in DOMAIN t
        BY <1>2
      <3> QED
        BY <1>1, <2>1, <3>1 DEF ToSet
    <2>2. CASE x \in ToSet(s)
      <3>1. PICK i \in 1 .. Len(s) : x = s[i]
        BY <1>2, <2>2 DEF ToSet
      <3>2. i + 1 \in DOMAIN t /\ x = t[i + 1]
        BY <1>1, <1>2, <3>1
      <3> QED
        BY <3>2 DEF ToSet
    <2> QED
      BY <2>1, <2>2
  <1> QED
    BY <1>1, <1>3, <1>4 DEF t

LEMMA MembersAreTheBucket ==
  ASSUME NEW n, NEW m, chain \in Seq(Links(m)), Linked(n, chain), NEW o \in 1 .. Len(chain)
  PROVE  /\ Members(o) \in Seq(1 .. Len(chain))
         /\ ToSet(Members(o)) = From(n, chain, o)
  <1> DEFINE N == Len(chain)
             V == Seq(1 .. N)
             rest(e, g) == IF chain[e].next = 0 THEN <<>> ELSE g[chain[e].next]
             body(e, g) == <<e>> \o rest(e, g)
             B == [e \in 1 .. N |-> [g \in [1 .. N -> V] |-> body(e, g)]]
  <1>0. N \in Nat
    OBVIOUS
  <1>1. ASSUME NEW e \in 1 .. N PROVE chain[e].next = 0 \/ chain[e].next \in e + 1 .. N
    BY DEF Linked
  <1>2. ASSUME NEW e \in 1 .. N, NEW g \in [1 .. N -> V] PROVE body(e, g) \in V
    <2>1. rest(e, g) \in V
      <3>1. CASE chain[e].next = 0
        BY <3>1
      <3>2. CASE chain[e].next # 0
        <4>1. chain[e].next \in 1 .. N
          BY <1>0, <1>1, <3>2
        <4>2. g[chain[e].next] \in V
          BY <4>1
        <4> QED
          BY <3>2, <4>2
      <3> QED
        BY <3>1, <3>2
    <2> HIDE DEF rest
    <2> QED
      BY <2>1, OneBefore
  <1>3. ASSUME NEW e \in 1 .. N, NEW g \in [1 .. N -> V], NEW h \in [1 .. N -> V],
               \A f \in 1 .. N : e < f => g[f] = h[f]
        PROVE  body(e, g) = body(e, h)
    <2>1. chain[e].next = 0 \/ g[chain[e].next] = h[chain[e].next]
      BY <1>0, <1>1, <1>3
    <2>2. rest(e, g) = rest(e, h)
      BY <2>1
    <2> QED
      BY <2>2
  <1> HIDE DEF body
  <1>4. B \in StepsUp(N, V)
    BY <1>2 DEF StepsUp
  <1>5. LookUp(N, V, B)
    BY <1>3 DEF LookUp
  <1>6. V # {}
    <2>1. <<>> \in V
      OBVIOUS
    <2> QED
      BY <2>1
  <1> HIDE DEF B, V
  <1>7. PICK w \in [1 .. N -> V] : SolutionUp(N, B, w)
    BY <1>0, <1>4, <1>5, <1>6, LevelsUp
  <1>8. w = [e \in 1 .. N |-> body(e, w)]
    BY <1>7 DEF SolutionUp, B
  <1>9. \E g : g = [e \in 1 .. N |-> body(e, g)]
    BY <1>8
  <1> DEFINE W == CHOOSE g : g = [e \in 1 .. N |-> body(e, g)]
  <1>10. Members(o) = W[o]
    BY DEF Members, body, rest
  <1>11. W = [e \in 1 .. N |-> body(e, W)]
    <2> HIDE DEF N
    <2> QED
      BY <1>9, Zenon
  <1> HIDE DEF W
  <1>12. \A e \in 1 .. N : W[e] = <<e>> \o (IF chain[e].next = 0 THEN <<>> ELSE W[chain[e].next])
    BY <1>11 DEF body, rest
  <1> DEFINE S == {e \in 1 .. N : W[e] \in V /\ ToSet(W[e]) = From(n, chain, e)}
  <1>13. ASSUME NEW e \in 1 .. N, \A f \in 1 .. N : e < f => f \in S
         PROVE  e \in S
    <2>1. CASE chain[e].next = 0
      <3>1. W[e] = <<e>> \o <<>>
        BY <1>12, <2>1, Zenon
      <3>z. <<>> \in Seq(1 .. N)
        OBVIOUS
      <3>2. W[e] \in V /\ ToSet(W[e]) = {e} \union ToSet(<<>>)
        <4> HIDE DEF N
        <4>1. \A s \in Seq(1 .. N) :
                <<e>> \o s \in Seq(1 .. N) /\ ToSet(<<e>> \o s) = {e} \union ToSet(s)
          BY OneBefore
        <4> QED
          BY <3>1, <3>z, <4>1, Zenon DEF V
      <3>3. ToSet(<<>>) = {}
        BY DEF ToSet
      <3>4. \A f \in 1 .. N : e < f => IdOf(n, chain, f) # IdOf(n, chain, e)
        BY <1>0, <2>1 DEF Linked
      <3>5. From(n, chain, e) = {e}
        BY <1>0, <3>4 DEF From
      <3> QED
        BY <3>2, <3>3, <3>5
    <2>2. CASE chain[e].next # 0
      <3> DEFINE x == chain[e].next
      <3>1. /\ x \in e + 1 .. N /\ IdOf(n, chain, x) = IdOf(n, chain, e)
            /\ \A f \in 1 .. N : e < f /\ f < x => IdOf(n, chain, f) # IdOf(n, chain, e)
        BY <2>2 DEF Linked
      <3>2. x \in 1 .. N /\ e < x
        BY <1>0, <3>1
      <3>3. W[x] \in V /\ ToSet(W[x]) = From(n, chain, x)
        BY <1>13, <3>2
      <3>4. W[e] = <<e>> \o W[x]
        BY <1>12, <2>2
      <3>5. W[e] \in V /\ ToSet(W[e]) = {e} \union From(n, chain, x)
        BY <3>3, <3>4, OneBefore DEF V
      <3> HIDE DEF x
      <3>6. From(n, chain, e) = {e} \union From(n, chain, x)
        BY <1>0, <3>1, <3>2 DEF From
      <3> QED
        BY <3>5, <3>6
    <2> QED
      BY <2>1, <2>2
  <1> HIDE DEF S
  <1>14. \A e \in 1 .. N : e \in S
    BY <1>0, <1>13, InductionDown
  <1> QED
    BY <1>10, <1>14 DEF S, V

-----------------------------------------------------------------------------
(* Sorting and scanning.                                                   *)

(* An order of a sequence's elements has each of them at one place.        *)
LEMMA OrderFacts ==
  ASSUME NEW m \in Nat, NEW s, ToSet(s) \subseteq 1 .. m, NEW p \in Orders(s)
  PROVE  /\ p \in Seq(ToSet(s))
         /\ DOMAIN p = 1 .. Len(p) /\ Len(p) \in Nat
         /\ \A i, j \in 1 .. Len(p) : p[i] = p[j] => i = j
         /\ \A x \in ToSet(s) : \E i \in 1 .. Len(p) : p[i] = x
         /\ \A i, j \in 1 .. Len(p) : i < j => chain[p[i]].hasher <= chain[p[j]].hasher
  <1> DEFINE T == ToSet(s)
             K == Cardinality(T)
  <1>1. p \in SetToSeqs(T) /\ Sorted(p)
    BY DEF Orders
  <1>2. p \in [1 .. K -> T] /\ \A i, j \in 1 .. K : i # j => p[i] # p[j]
    BY <1>1, Zenon DEF SetToSeqs
  <1>3. IsFiniteSet(T) /\ K \in Nat
    <2>1. IsFiniteSet(1 .. m)
      BY FS_Interval
    <2>2. IsFiniteSet(T)
      BY <2>1, FS_Subset
    <2> QED
      BY <2>2, FS_CardinalityType
  <1> HIDE DEF T, K
  <1>4. p \in Seq(T) /\ Len(p) = K /\ DOMAIN p = 1 .. K
    BY <1>2, <1>3
  <1>5. \A x \in T : \E i \in 1 .. K : p[i] = x
    <2>1. p \in Injection(1 .. K, T)
      BY <1>2 DEF Injection, IsInjective
    <2>2. IsFiniteSet(1 .. K) /\ Cardinality(1 .. K) = K
      BY <1>3, FS_Interval
    <2>3. p \in Surjection(1 .. K, T)
      BY <1>3, <2>1, <2>2, FS_Injection DEF K
    <2> QED
      BY <2>3 DEF Surjection
  <1>6. \A i, j \in 1 .. K : i < j => chain[p[i]].hasher <= chain[p[j]].hasher
    BY <1>1, <1>4 DEF Sorted
  <1> QED
    BY <1>2, <1>3, <1>4, <1>5, <1>6 DEF T

(* The scan goes over smaller hashes of the bucket, to the first other.    *)
GoesOn(n, tb, id, h, p) == p <= Len(tb) /\ Id(n, tb[p].hasher) = id /\ tb[p].hasher < h
StopsAt(n, tb, id, h, o, e) ==
  /\ e \in o .. Len(tb) + 1
  /\ ~GoesOn(n, tb, id, h, e)
  /\ \A p \in 1 .. Len(tb) : o <= p /\ p < e => GoesOn(n, tb, id, h, p)

LEMMA ScanStops ==
  ASSUME NEW A, table \in Seq(A), NEW id, NEW h, NEW o \in 1 .. Len(table) + 1
  PROVE  StopsAt(BucketNum, table, id, h, o, ScanEnd(id, h, o))
  <1> DEFINE N == Len(table) + 1
             V == 1 .. N
             C(p) == p <= Len(table) /\ BucketId(table[p].hasher) = id /\ table[p].hasher < h
             body(p, g) == IF C(p) THEN g[p + 1] ELSE p
             B == [p \in 1 .. N |-> [g \in [1 .. N -> V] |-> body(p, g)]]
  <1>0. N \in Nat /\ Len(table) \in Nat
    OBVIOUS
  <1>1. \A p : C(p) <=> GoesOn(BucketNum, table, id, h, p)
    BY DEF GoesOn, BucketId, Id
  <1>c. \A p \in 1 .. N : C(p) => p + 1 \in 1 .. N
    BY <1>0
  <1> HIDE DEF C
  <1>2. ASSUME NEW p \in 1 .. N, NEW g \in [1 .. N -> V] PROVE body(p, g) \in V
    BY <1>0, <1>c
  <1>3. ASSUME NEW p \in 1 .. N, NEW g \in [1 .. N -> V], NEW k \in [1 .. N -> V],
               \A f \in 1 .. N : p < f => g[f] = k[f]
        PROVE  body(p, g) = body(p, k)
    BY <1>0, <1>c, <1>3
  <1> HIDE DEF body
  <1>4. B \in StepsUp(N, V)
    BY <1>2 DEF StepsUp
  <1>5. LookUp(N, V, B)
    BY <1>3 DEF LookUp
  <1>6. V # {}
    BY <1>0
  <1> HIDE DEF B, V
  <1>7. PICK w \in [1 .. N -> V] : SolutionUp(N, B, w)
    BY <1>0, <1>4, <1>5, <1>6, LevelsUp
  <1>8. w = [p \in 1 .. N |-> body(p, w)]
    BY <1>7 DEF SolutionUp, B
  <1>9. \E g : g = [p \in 1 .. N |-> body(p, g)]
    BY <1>8
  <1> DEFINE W == CHOOSE g : g = [p \in 1 .. N |-> body(p, g)]
  <1>10. ScanEnd(id, h, o) = W[o]
    BY DEF ScanEnd, body, C
  <1>11. W = [p \in 1 .. N |-> body(p, W)]
    <2> HIDE DEF N
    <2> QED
      BY <1>9, Zenon
  <1> HIDE DEF W
  <1>12. \A p \in 1 .. N : W[p] = IF C(p) THEN W[p + 1] ELSE p
    BY <1>11 DEF body
  <1> DEFINE R(p, e) == StopsAt(BucketNum, table, id, h, p, e)
             S == {p \in 1 .. N : R(p, W[p])}
  <1>13. ASSUME NEW p \in 1 .. N, \A f \in 1 .. N : p < f => f \in S
         PROVE  p \in S
    <2>1. CASE ~C(p)
      <3>1. W[p] = p
        BY <1>12, <2>1
      <3>2. ~GoesOn(BucketNum, table, id, h, p)
        BY <1>1, <2>1
      <3>3. \A q \in 1 .. Len(table) : ~(p <= q /\ q < p)
        OBVIOUS
      <3>4. p \in p .. Len(table) + 1
        BY <1>0
      <3> QED
        BY <3>1, <3>2, <3>3, <3>4 DEF StopsAt
    <2>2. CASE C(p)
      <3>1. p + 1 \in 1 .. N /\ p < p + 1
        BY <1>c, <2>2
      <3>2. R(p + 1, W[p + 1]) /\ W[p] = W[p + 1]
        BY <1>12, <1>13, <2>2, <3>1
      <3>3. GoesOn(BucketNum, table, id, h, p)
        BY <1>1, <2>2
      <3> DEFINE e == W[p]
      <3>4. /\ e \in p + 1 .. Len(table) + 1
            /\ ~GoesOn(BucketNum, table, id, h, e)
            /\ \A q \in 1 .. Len(table) : p + 1 <= q /\ q < e => GoesOn(BucketNum, table, id, h, q)
        BY <3>2 DEF StopsAt
      <3> HIDE DEF e
      <3>5. e \in p .. Len(table) + 1
        BY <1>0, <3>4
      <3>6. ASSUME NEW q \in 1 .. Len(table), p <= q, q < e
            PROVE  GoesOn(BucketNum, table, id, h, q)
        BY <3>3, <3>4, <3>6
      <3>7. StopsAt(BucketNum, table, id, h, p, e)
        BY <3>4, <3>5, <3>6 DEF StopsAt
      <3> QED
        BY <3>7 DEF e
    <2> QED
      BY <2>1, <2>2
  <1> HIDE DEF S, R
  <1>14. \A p \in 1 .. N : p \in S
    BY <1>0, <1>13, InductionDown
  <1> QED
    BY <1>10, <1>14 DEF S, R

-----------------------------------------------------------------------------
(* One element more.                                                       *)

(* z is the last element of the bucket of h, 0 when there is none.         *)
IsEnd(n, ch, z, h) ==
  /\ z \in 0 .. Len(ch)
  /\ z # 0 => IdOf(n, ch, z) = Id(n, h)
  /\ \A f \in 1 .. Len(ch) : z < f => IdOf(n, ch, f) # Id(n, h)

(* cx is the chain ch with an element more, of hash h, that z leads to.    *)
Grown(ch, cx, z, h) ==
  /\ Len(cx) = Len(ch) + 1
  /\ \A e \in 1 .. Len(ch) : cx[e].hasher = ch[e].hasher
  /\ \A e \in 1 .. Len(ch) : e # z => cx[e].next = ch[e].next
  /\ z # 0 => cx[z].next = Len(cx)
  /\ cx[Len(cx)].hasher = h /\ cx[Len(cx)].next = 0

LEMMA GrownIds ==
  ASSUME NEW n, NEW ch, Len(ch) \in Nat, NEW cx, NEW z, NEW h, Grown(ch, cx, z, h)
  PROVE  /\ \A e \in 1 .. Len(ch) : IdOf(n, cx, e) = IdOf(n, ch, e)
         /\ IdOf(n, cx, Len(cx)) = Id(n, h)
         /\ 1 .. Len(cx) = (1 .. Len(ch)) \union {Len(cx)}
         /\ Len(cx) \notin 1 .. Len(ch)
         /\ Len(cx) = Len(ch) + 1
  BY DEF Grown, IdOf

LEMMA LinkedMore ==
  ASSUME NEW n, NEW ch, Len(ch) \in Nat, Linked(n, ch), NEW h,
         NEW z, IsEnd(n, ch, z, h), NEW cx, Grown(ch, cx, z, h)
  PROVE  Linked(n, cx)
  <1> DEFINE L == Len(ch)
             X == Len(cx)
             I(e) == IdOf(n, ch, e)
             J(e) == IdOf(n, cx, e)
             i == Id(n, h)
  <1>1. /\ \A e \in 1 .. L : J(e) = I(e)
        /\ J(X) = i /\ X = L + 1 /\ L \in Nat
        /\ \A e \in 1 .. X : e \in 1 .. L \/ e = X
    BY GrownIds
  <1>2. /\ z \in 0 .. L /\ (z # 0 => I(z) = i)
        /\ \A f \in 1 .. L : z < f => I(f) # i
    BY DEF IsEnd
  <1>3. /\ \A e \in 1 .. L : e # z => cx[e].next = ch[e].next
        /\ z # 0 => cx[z].next = X
        /\ cx[X].next = 0
    BY DEF Grown
  <1>4. \A e \in 1 .. L :
          \/ ch[e].next = 0 /\ \A f \in 1 .. L : e < f => I(f) # I(e)
          \/ /\ ch[e].next \in e + 1 .. L /\ I(ch[e].next) = I(e)
             /\ \A f \in 1 .. L : e < f /\ f < ch[e].next => I(f) # I(e)
    BY DEF Linked
  <1> DEFINE Good(e) ==
        \/ cx[e].next = 0 /\ \A f \in 1 .. X : e < f => J(f) # J(e)
        \/ /\ cx[e].next \in e + 1 .. X /\ J(cx[e].next) = J(e)
           /\ \A f \in 1 .. X : e < f /\ f < cx[e].next => J(f) # J(e)
  <1> HIDE DEF L, X, I, J, i
  <1>5. ASSUME NEW e \in 1 .. X PROVE Good(e)
    <2>1. CASE e = X
      <3>1. \A f \in 1 .. X : ~(X < f)
        BY <1>1
      <3> QED
        BY <1>3, <2>1, <3>1
    <2>2. CASE e \in 1 .. L /\ e = z
      <3>1. z # 0 /\ cx[e].next = X /\ J(e) = i
        BY <1>1, <1>2, <1>3, <2>2
      <3>2. X \in e + 1 .. X
        BY <1>1, <2>2
      <3>3. ASSUME NEW f \in 1 .. X, e < f, f < X PROVE J(f) # J(e)
        <4>1. f \in 1 .. L
          BY <1>1, <3>3
        <4> QED
          BY <1>1, <1>2, <2>2, <3>1, <3>3, <4>1
      <3> QED
        BY <1>1, <3>1, <3>2, <3>3
    <2>3. CASE e \in 1 .. L /\ e # z
      <3>1. cx[e].next = ch[e].next /\ J(e) = I(e)
        BY <1>1, <1>3, <2>3
      <3>2. CASE ch[e].next = 0 /\ \A f \in 1 .. L : e < f => I(f) # I(e)
        <4>1. I(e) # i
          <5>1. SUFFICES ASSUME I(e) = i PROVE FALSE
            OBVIOUS
          <5>2. ~(z < e)
            BY <1>2, <2>3, <5>1
          <5>3. e < z /\ z \in 1 .. L
            BY <1>1, <1>2, <2>3, <5>2
          <5> QED
            BY <1>2, <3>2, <5>1, <5>3
        <4>2. \A f \in 1 .. X : e < f => J(f) # J(e)
          BY <1>1, <3>1, <3>2, <4>1
        <4> QED
          BY <3>1, <3>2, <4>2
      <3>3. CASE /\ ch[e].next \in e + 1 .. L /\ I(ch[e].next) = I(e)
                 /\ \A f \in 1 .. L : e < f /\ f < ch[e].next => I(f) # I(e)
        <4> DEFINE x == ch[e].next
        <4>1. /\ x \in e + 1 .. L /\ I(x) = I(e)
              /\ \A f \in 1 .. L : e < f /\ f < x => I(f) # I(e)
          BY <3>3
        <4>2. cx[e].next = x
          BY <3>1
        <4> HIDE DEF x
        <4>3. x \in e + 1 .. X /\ x \in 1 .. L
          BY <1>1, <2>3, <4>1
        <4>4. J(x) = J(e)
          BY <1>1, <3>1, <4>1, <4>3
        <4>5. ASSUME NEW f \in 1 .. X, e < f, f < x PROVE J(f) # J(e)
          <5>1. f \in 1 .. L
            BY <1>1, <4>3, <4>5
          <5> QED
            BY <1>1, <3>1, <4>1, <4>5, <5>1
        <4> QED
          BY <4>2, <4>3, <4>4, <4>5
      <3> QED
        BY <1>4, <2>3, <3>2, <3>3
    <2> QED
      BY <1>1, <2>1, <2>2, <2>3
  <1> QED
    BY <1>5 DEF Linked, J, X

LEMMA HeadsMore ==
  ASSUME NEW n, NEW ch, Len(ch) \in Nat, NEW h, NEW cx, NEW z, Grown(ch, cx, z, h),
         NEW o, NEW id, IsHead(n, ch, o, id)
  PROVE  IF id = Id(n, h) /\ o = 0 THEN IsHead(n, cx, Len(cx), id) ELSE IsHead(n, cx, o, id)
  <1> DEFINE L == Len(ch)
             X == Len(cx)
             I(e) == IdOf(n, ch, e)
             J(e) == IdOf(n, cx, e)
             i == Id(n, h)
  <1>1. /\ \A e \in 1 .. L : J(e) = I(e)
        /\ J(X) = i /\ X = L + 1 /\ L \in Nat
        /\ \A e \in 1 .. X : e \in 1 .. L \/ e = X
    <2>1. /\ \A e \in 1 .. Len(ch) : IdOf(n, cx, e) = IdOf(n, ch, e)
          /\ IdOf(n, cx, Len(cx)) = Id(n, h)
          /\ 1 .. Len(cx) = (1 .. Len(ch)) \union {Len(cx)}
          /\ Len(cx) = Len(ch) + 1
      BY DEF Grown, IdOf
    <2> QED
      BY <2>1
  <1>2. \/ o = 0 /\ \A e \in 1 .. L : I(e) # id
        \/ o \in 1 .. L /\ I(o) = id /\ \A e \in 1 .. L : e < o => I(e) # id
    BY DEF IsHead
  <1> DEFINE H(p) == \/ p = 0 /\ \A e \in 1 .. X : J(e) # id
                     \/ p \in 1 .. X /\ J(p) = id /\ \A e \in 1 .. X : e < p => J(e) # id
  <1>3. \A p : H(p) <=> IsHead(n, cx, p, id)
    BY DEF IsHead
  <1> HIDE DEF L, X, I, J, i
  <1>4. CASE o = 0 /\ \A e \in 1 .. L : I(e) # id
    <2>1. CASE id = i
      <3>1. X \in 1 .. X
        BY <1>1
      <3>2. \A e \in 1 .. X : e < X => J(e) # id
        BY <1>1, <1>4
      <3>3. H(X)
        BY <1>1, <2>1, <3>1, <3>2
      <3> QED
        BY <1>3, <1>4, <2>1, <3>3 DEF X, i
    <2>2. CASE id # i
      <3>1. H(0)
        BY <1>1, <1>4, <2>2
      <3> QED
        BY <1>3, <1>4, <2>2, <3>1 DEF i
    <2> QED
      BY <2>1, <2>2
  <1>5. CASE o \in 1 .. L /\ I(o) = id /\ \A e \in 1 .. L : e < o => I(e) # id
    <2>1. o \in 1 .. X /\ o # 0 /\ ~(X < o)
      BY <1>1, <1>5
    <2>2. H(o)
      BY <1>1, <1>5, <2>1
    <2> QED
      BY <1>3, <2>1, <2>2
  <1> QED
    BY <1>2, <1>4, <1>5

-----------------------------------------------------------------------------
(* The table.                                                              *)

(* The first m entries of tb are elements of v, no element twice, of       *)
(* buckets below lim.                                                      *)
Filled(n, v, tb, m, lim) ==
  /\ m \in 0 .. Len(tb)
  /\ \A p \in 1 .. m : /\ tb[p].val \in 1 .. Len(v)
                       /\ tb[p].hasher = Hash[v[tb[p].val]]
                       /\ Id(n, tb[p].hasher) < lim
  /\ \A p, q \in 1 .. m : tb[p].val = tb[q].val => p = q

(* Positions o .. r of tb are bucket id; l is the last bucket of the table.*)
IsRun(n, ch, tb, m, o, r, id, l) ==
  /\ o \in 1 .. r
  /\ \A p \in o .. r : Id(n, tb[p].hasher) = id
  /\ \A p, q \in o .. r : p < q => tb[p].hasher <= tb[q].hasher
  /\ \A e \in 1 .. Len(ch) : IdOf(n, ch, e) = id => \E p \in o .. r : tb[p].val = e
  /\ IF r < m THEN Id(n, tb[r + 1].hasher) # id ELSE l = id

Runs(n, ch, bk, tb, m, lim, l) ==
  \A id \in 0 .. lim - 1 :
    IF bk[id] = 0 THEN \A e \in 1 .. Len(ch) : IdOf(n, ch, e) # id
    ELSE \E r \in 1 .. m : IsRun(n, ch, tb, m, bk[id], r, id, l)

LEMMA NoMoreThanElements ==
  ASSUME NEW n, NEW v, NEW tb, NEW m \in Nat, NEW lim, Len(v) \in Nat,
         Filled(n, v, tb, m, lim)
  PROVE  m <= Len(v)
  <1> DEFINE f == [p \in 1 .. m |-> tb[p].val]
  <1>1. f \in Injection(1 .. m, 1 .. Len(v))
    BY DEF Filled, Injection, IsInjective
  <1>2. /\ IsFiniteSet(1 .. m) /\ Cardinality(1 .. m) = m
        /\ IsFiniteSet(1 .. Len(v)) /\ Cardinality(1 .. Len(v)) = Len(v)
    <2>1. ASSUME NEW j \in Nat PROVE IsFiniteSet(1 .. j) /\ Cardinality(1 .. j) = j
      <3>0. 1 \in Int /\ j \in Int
        OBVIOUS
      <3>1. IsFiniteSet(1 .. j) /\ Cardinality(1 .. j) = IF 1 > j THEN 0 ELSE j - 1 + 1
        BY <3>0, FS_Interval, Zenon
      <3> QED
        BY <3>1
    <2> QED
      BY <2>1
  <1> HIDE DEF f
  <1>3. Cardinality(1 .. m) <= Cardinality(1 .. Len(v))
    BY <1>1, <1>2, FS_Injection
  <1> QED
    BY <1>2, <1>3

(* The elements of a bucket in the order s, one per place 1 .. k.          *)
Ordered(n, ch, s, k, id) ==
  /\ \A i \in 1 .. k : s[i] \in 1 .. Len(ch) /\ IdOf(n, ch, s[i]) = id
  /\ \A i, j \in 1 .. k : s[i] = s[j] => i = j
  /\ \A e \in 1 .. Len(ch) : IdOf(n, ch, e) = id => \E i \in 1 .. k : s[i] = e
  /\ \A i, j \in 1 .. k : i < j => ch[s[i]].hasher <= ch[s[j]].hasher

(* tx is the table tb and then the elements of s.                          *)
Extended(ch, tb, tx, s, k) ==
  /\ Len(tx) = Len(tb) + k
  /\ \A p \in 1 .. Len(tb) : tx[p] = tb[p]
  /\ \A i \in 1 .. k : /\ tx[Len(tb) + i].hasher = ch[s[i]].hasher
                       /\ tx[Len(tb) + i].val = s[i]

LEMMA FilledMore ==
  ASSUME NEW n, NEW v, NEW ch, Len(ch) \in Nat, Len(v) = Len(ch), Linked(n, ch),
         \A e \in 1 .. Len(ch) : ch[e].hasher = Hash[v[e]],
         NEW tb, NEW m \in Nat, Len(tb) = m, NEW lim \in Nat, Filled(n, v, tb, m, lim),
         \A p \in 1 .. m : Id(n, tb[p].hasher) \in Nat,
         NEW s, NEW k \in Nat, Ordered(n, ch, s, k, lim),
         NEW tx, Extended(ch, tb, tx, s, k)
  PROVE  Filled(n, v, tx, m + k, lim + 1)
  <1>1. \A p \in 1 .. m + k : p \in 1 .. m \/ (p - m \in 1 .. k /\ m + (p - m) = p)
    OBVIOUS
  <1>2. ASSUME NEW p \in 1 .. m
        PROVE  /\ tx[p] = tb[p] /\ tx[p].val \in 1 .. Len(v)
               /\ tx[p].hasher = Hash[v[tx[p].val]]
               /\ Id(n, tx[p].hasher) \in Nat /\ Id(n, tx[p].hasher) < lim
    BY DEF Filled, Extended
  <1>3. ASSUME NEW p \in 1 .. m + k, p - m \in 1 .. k, m + (p - m) = p
        PROVE  /\ tx[p].val = s[p - m] /\ tx[p].val \in 1 .. Len(v)
               /\ tx[p].hasher = Hash[v[tx[p].val]]
               /\ Id(n, tx[p].hasher) = lim
    <2> DEFINE i == p - m
    <2>1. tx[m + i].hasher = ch[s[i]].hasher /\ tx[m + i].val = s[i]
      BY <1>3 DEF Extended
    <2>2. s[i] \in 1 .. Len(ch) /\ IdOf(n, ch, s[i]) = lim
      BY <1>3 DEF Ordered
    <2>3. m + i = p
      BY <1>3
    <2> HIDE DEF i
    <2>4. tx[p].hasher = ch[s[i]].hasher /\ tx[p].val = s[i]
      BY <2>1, <2>3
    <2> QED
      BY <2>2, <2>4 DEF IdOf, i
  <1>4. m + k \in 0 .. Len(tx)
    BY DEF Extended
  <1>5. ASSUME NEW p \in 1 .. m + k
        PROVE  /\ tx[p].val \in 1 .. Len(v) /\ tx[p].hasher = Hash[v[tx[p].val]]
               /\ Id(n, tx[p].hasher) < lim + 1
    <2>1. CASE p \in 1 .. m
      <3>1. Id(n, tx[p].hasher) \in Nat /\ Id(n, tx[p].hasher) < lim
        BY <1>2, <2>1
      <3>2. Id(n, tx[p].hasher) < lim + 1
        BY <3>1
      <3> QED
        BY <1>2, <2>1, <3>2
    <2>2. CASE p - m \in 1 .. k /\ m + (p - m) = p
      <3>1. Id(n, tx[p].hasher) = lim
        BY <1>3, <2>2
      <3> QED
        BY <1>3, <2>2, <3>1
    <2> QED
      BY <1>1, <2>1, <2>2
  <1>6. ASSUME NEW p \in 1 .. m + k, NEW q \in 1 .. m + k, tx[p].val = tx[q].val
        PROVE  p = q
    <2>0. Id(n, tx[p].hasher) = Id(n, tx[q].hasher)
      BY <1>5, <1>6
    <2>1. CASE p \in 1 .. m /\ q \in 1 .. m
      <3>1. tx[p] = tb[p] /\ tx[q] = tb[q]
        BY <1>2, <2>1
      <3> QED
        BY <1>6, <2>1, <3>1 DEF Filled
    <2>2. CASE p \in 1 .. m /\ (q - m \in 1 .. k /\ m + (q - m) = q)
      <3>1. Id(n, tx[p].hasher) \in Nat /\ Id(n, tx[p].hasher) < lim
        BY <1>2, <2>2
      <3>2. Id(n, tx[q].hasher) = lim
        BY <1>3, <2>2
      <3> QED
        BY <2>0, <3>1, <3>2
    <2>3. CASE q \in 1 .. m /\ (p - m \in 1 .. k /\ m + (p - m) = p)
      <3>1. Id(n, tx[q].hasher) \in Nat /\ Id(n, tx[q].hasher) < lim
        BY <1>2, <2>3
      <3>2. Id(n, tx[p].hasher) = lim
        BY <1>3, <2>3
      <3> QED
        BY <2>0, <3>1, <3>2
    <2>4. CASE (p - m \in 1 .. k /\ m + (p - m) = p) /\ (q - m \in 1 .. k /\ m + (q - m) = q)
      <3>1. tx[p].val = s[p - m] /\ tx[q].val = s[q - m]
        BY <1>3, <2>4
      <3>2. p - m = q - m
        BY <1>6, <2>4, <3>1 DEF Ordered
      <3> QED
        BY <3>2
    <2> QED
      BY <1>1, <2>1, <2>2, <2>3, <2>4
  <1> QED
    BY <1>4, <1>5, <1>6 DEF Filled

LEMMA RunsMore ==
  ASSUME NEW n, NEW ch, Len(ch) \in Nat,
         NEW tb, NEW m \in Nat, Len(tb) = m, NEW lim \in Nat, NEW l,
         NEW bk, Runs(n, ch, bk, tb, m, lim, l),
         NEW s, NEW k \in Nat \ {0}, Ordered(n, ch, s, k, lim),
         NEW tx, Extended(ch, tb, tx, s, k),
         NEW bx, bx[lim] = m + 1, \A id \in 0 .. lim - 1 : bx[id] = bk[id]
  PROVE  Runs(n, ch, bx, tx, m + k, lim + 1, lim)
  <1>1. \A p \in 1 .. m : tx[p] = tb[p]
    BY DEF Extended
  <1>2. \A i \in 1 .. k : /\ tx[m + i].hasher = ch[s[i]].hasher /\ tx[m + i].val = s[i]
                         /\ Id(n, tx[m + i].hasher) = lim
    BY DEF Extended, Ordered, IdOf
  <1>3. ASSUME NEW id \in 0 .. lim - 1
        PROVE  IF bx[id] = 0 THEN \A e \in 1 .. Len(ch) : IdOf(n, ch, e) # id
               ELSE \E r \in 1 .. m + k : IsRun(n, ch, tx, m + k, bx[id], r, id, lim)
    <2>1. CASE bk[id] = 0
      BY <2>1 DEF Runs
    <2>2. CASE bk[id] # 0
      <3>1. PICK r \in 1 .. m : IsRun(n, ch, tb, m, bk[id], r, id, l)
        BY <2>2 DEF Runs
      <3> DEFINE o == bk[id]
      <3>2. /\ o \in 1 .. r
            /\ \A p \in o .. r : Id(n, tb[p].hasher) = id
            /\ \A p, q \in o .. r : p < q => tb[p].hasher <= tb[q].hasher
            /\ \A e \in 1 .. Len(ch) :
                 IdOf(n, ch, e) = id => \E p \in o .. r : tb[p].val = e
            /\ IF r < m THEN Id(n, tb[r + 1].hasher) # id ELSE l = id
        BY <3>1 DEF IsRun
      <3>3. bx[id] = o /\ o # 0
        BY <2>2
      <3> HIDE DEF o
      <3>4. \A p \in o .. r : tx[p] = tb[p]
        BY <1>1, <3>2
      <3>5. r \in 1 .. m + k /\ r < m + k
        OBVIOUS
      <3>6. Id(n, tx[r + 1].hasher) # id
        <4>1. CASE r < m
          <5>1. r + 1 \in 1 .. m
            BY <4>1
          <5> QED
            BY <1>1, <3>2, <4>1, <5>1
        <4>2. CASE ~(r < m)
          <5>1. r = m /\ 1 \in 1 .. k /\ lim # id
            BY <4>2
          <5> QED
            BY <1>2, <5>1
        <4> QED
          BY <4>1, <4>2
      <3>7. IsRun(n, ch, tx, m + k, o, r, id, lim)
        BY <3>2, <3>4, <3>5, <3>6 DEF IsRun
      <3> QED
        BY <3>3, <3>5, <3>7
    <2> QED
      BY <2>1, <2>2
  <1> DEFINE o == m + 1
             r == m + k
  <1>4. /\ r \in 1 .. r /\ o \in 1 .. r /\ ~(r < r)
        /\ \A p \in o .. r : p - m \in 1 .. k /\ m + (p - m) = p
        /\ \A i \in 1 .. k : m + i \in o .. r
    OBVIOUS
  <1> HIDE DEF o, r
  <1>5. \A p \in o .. r : /\ tx[p].hasher = ch[s[p - m]].hasher
                         /\ Id(n, tx[p].hasher) = lim
    <2>1. TAKE p \in o .. r
    <2> DEFINE i == p - m
    <2>2. i \in 1 .. k /\ m + i = p
      BY <1>4
    <2> HIDE DEF i
    <2>3. tx[p].hasher = ch[s[i]].hasher /\ Id(n, tx[p].hasher) = lim
      BY <1>2, <2>2
    <2> QED
      BY <2>3 DEF i
  <1>6. ASSUME NEW p \in o .. r, NEW q \in o .. r, p < q
        PROVE  tx[p].hasher <= tx[q].hasher
    <2>1. p - m \in 1 .. k /\ q - m \in 1 .. k /\ p - m < q - m
      BY <1>4, <1>6 DEF o, r
    <2>2. ch[s[p - m]].hasher <= ch[s[q - m]].hasher
      BY <2>1 DEF Ordered
    <2> QED
      BY <1>5, <2>2
  <1>7. ASSUME NEW e \in 1 .. Len(ch), IdOf(n, ch, e) = lim
        PROVE  \E p \in o .. r : tx[p].val = e
    <2>1. PICK i \in 1 .. k : s[i] = e
      BY <1>7 DEF Ordered
    <2> QED
      BY <1>2, <1>4, <2>1
  <1>8. IsRun(n, ch, tx, r, o, r, lim, lim)
    BY <1>4, <1>5, <1>6, <1>7 DEF IsRun
  <1>9. bx[lim] = o /\ o # 0
    BY DEF o
  <1>10. \A id \in 0 .. (lim + 1) - 1 : id \in 0 .. lim - 1 \/ id = lim
    OBVIOUS
  <1> QED
    BY <1>3, <1>4, <1>8, <1>9, <1>10 DEF Runs, r

(* The end mark.                                                           *)
LEMMA RunsEnd ==
  ASSUME NEW n \in Nat, n >= 2, NEW ch, NEW tb, NEW m \in Nat, NEW l \in 0 .. n - 1,
         NEW bk, Runs(n, ch, bk, tb, m, n, l),
         NEW tx, \A p \in 1 .. m : tx[p] = tb[p], tx[m + 1].hasher = l + 1
  PROVE  \A id \in 0 .. n - 1 :
           IF bk[id] = 0 THEN \A e \in 1 .. Len(ch) : IdOf(n, ch, e) # id
           ELSE \E r \in 1 .. m : IsRun(n, ch, tx, m + 1, bk[id], r, id, l)
  <1>1. ASSUME NEW id \in 0 .. n - 1, bk[id] # 0
        PROVE  \E r \in 1 .. m : IsRun(n, ch, tx, m + 1, bk[id], r, id, l)
    <2>1. PICK r \in 1 .. m : IsRun(n, ch, tb, m, bk[id], r, id, l)
      BY <1>1 DEF Runs
    <2> DEFINE o == bk[id]
    <2>2. /\ o \in 1 .. r
          /\ \A p \in o .. r : Id(n, tb[p].hasher) = id
          /\ \A p, q \in o .. r : p < q => tb[p].hasher <= tb[q].hasher
          /\ \A e \in 1 .. Len(ch) :
               IdOf(n, ch, e) = id => \E p \in o .. r : tb[p].val = e
          /\ IF r < m THEN Id(n, tb[r + 1].hasher) # id ELSE l = id
      BY <2>1 DEF IsRun
    <2> HIDE DEF o
    <2>3. \A p \in o .. r : tx[p] = tb[p]
      BY <2>2
    <2>4. r < m + 1
      OBVIOUS
    <2>5. Id(n, tx[r + 1].hasher) # id
      <3>1. CASE r < m
        <4>1. r + 1 \in 1 .. m
          BY <3>1
        <4> QED
          BY <2>2, <3>1, <4>1
      <3>2. CASE ~(r < m)
        <4>1. r = m
          BY <3>2
        <4>2. Id(n, l + 1) # l
          BY MarkIsElsewhere
        <4> QED
          BY <2>2, <3>2, <4>1, <4>2
      <3> QED
        BY <3>1, <3>2
    <2>6. IsRun(n, ch, tx, m + 1, o, r, id, l)
      BY <2>2, <2>3, <2>4, <2>5 DEF IsRun
    <2> QED
      BY <2>6 DEF o
  <1> QED
    BY <1>1 DEF Runs

-----------------------------------------------------------------------------
(* The invariant.                                                          *)

Elements ==
  /\ Len(chain) <= Len(vec)
  /\ pc # "chain" => Len(chain) = Len(vec)
  /\ \A e \in 1 .. Len(chain) : chain[e].hasher = Hash[vec[e]]
  /\ Linked(BucketNum, chain)

(* Buckets that are not packed yet lead to their first element.            *)
Heads ==
  pc \in {"chain", "pack"} =>
    \A id \in b .. BucketNum - 1 : IsHead(BucketNum, chain, bucket[id], id)

(* Buckets that are packed lead to their run.                              *)
Packing ==
  pc \in {"chain", "pack"} =>
    /\ pc = "chain" => b = 0 /\ table = <<>>
    /\ Filled(BucketNum, vec, table, Len(table), b)
    /\ Runs(BucketNum, chain, bucket, table, Len(table), b, last)

(* The end mark ends the last run as any other is ended.                   *)
Closed(n, ch, bk, tb, m, l) ==
  \A id \in 0 .. n - 1 :
    IF bk[id] = 0 THEN \A e \in 1 .. Len(ch) : IdOf(n, ch, e) # id
    ELSE \E r \in 1 .. m : IsRun(n, ch, tb, m + 1, bk[id], r, id, l)

Ended ==
  pc \in {"write", "done"} =>
    /\ Len(table) # 0
    /\ Filled(BucketNum, vec, table, Len(table) - 1, BucketNum)
    /\ Closed(BucketNum, chain, bucket, table, Len(table) - 1, last)

Opened == loaded => pc = "done" /\ invalid = NotFound

Inv == TypeOK /\ Elements /\ Heads /\ Packing /\ Ended /\ Opened

Entries(m) == [hasher : Nat, val : 1 .. m] \union [hasher : Nat, val : {Junk}]

LEMMA Types ==
  ASSUME StaticHashAssumption, TypeOK
  PROVE  /\ vec \in Seq(Keys) /\ Len(vec) \in Nat
         /\ BucketNum \in Nat /\ BucketNum >= 2 /\ Buckets = 0 .. BucketNum - 1
         /\ pow \in Nat
         /\ bucket \in [0 .. BucketNum - 1 -> 0 .. Len(vec)]
         /\ chain \in Seq(Links(Len(vec))) /\ Len(chain) \in Nat
         /\ \A e \in 1 .. Len(chain) : chain[e].hasher \in Nat
         /\ table \in Seq(Entries(Len(vec))) /\ Len(table) \in Nat
         /\ \A p \in 1 .. Len(table) : table[p].hasher \in Nat
         /\ b \in 0 .. BucketNum /\ last \in 0 .. BucketNum - 1
         /\ \A e \in 1 .. Len(vec) : Hash[vec[e]] \in Nat
         /\ \A k \in Keys : Hash[k] \in Nat
  <1>1. /\ vec \in Seq(Keys) /\ pow \in Pows
        /\ bucket \in [Buckets -> 0 .. Len(vec)]
        /\ chain \in Seq(Links(Len(vec)))
        /\ table \in Seq(Entries(Len(vec)))
        /\ b \in 0 .. BucketNum /\ last \in Buckets
    BY DEF TypeOK, Links, Entries
  <1>2. Buckets = 0 .. BucketNum - 1
    BY DEF Buckets
  <1>3. pow \in Nat /\ Hash \in [Keys -> Nat]
    BY <1>1 DEF StaticHashAssumption
  <1>4. BucketNum \in Nat /\ BucketNum >= 2
    BY <1>3, BucketNumType
  <1>5. \A L : \A u \in Seq(L) : Len(u) \in Nat /\ \A i \in 1 .. Len(u) : u[i] \in L
    OBVIOUS
  <1>6. \A e \in 1 .. Len(chain) : chain[e].hasher \in Nat
    <2>1. \A x \in Links(Len(vec)) : x.hasher \in Nat
      BY DEF Links
    <2> QED
      BY <1>1, <1>5, <2>1
  <1>7. \A p \in 1 .. Len(table) : table[p].hasher \in Nat
    <2>1. \A x \in Entries(Len(vec)) : x.hasher \in Nat
      BY DEF Entries
    <2> QED
      BY <1>1, <1>5, <2>1
  <1> QED
    BY <1>1, <1>2, <1>3, <1>4, <1>5, <1>6, <1>7

LEMMA InvInit ==
  ASSUME StaticHashAssumption
  PROVE  Init => Inv
  <1> SUFFICES ASSUME Init PROVE Inv
    OBVIOUS
  <1>1. /\ pow \in Nat /\ pow \in Pows /\ pc = "chain" /\ chain = <<>> /\ table = <<>>
        /\ b = 0 /\ last = 0 /\ loaded = FALSE /\ invalid = Vty /\ file = "none"
        /\ bucket = [id \in Buckets |-> 0]
    BY DEF Init, StaticHashAssumption
  <1>2. BucketNum \in Nat /\ BucketNum >= 2
    BY <1>1, BucketNumType
  <1>3. vec \in Seq(Keys)
    <2>1. PICK j \in 0 .. MaxElements : vec \in [1 .. j -> Keys]
      BY DEF Init
    <2>2. j \in Nat
      BY DEF StaticHashAssumption
    <2> QED
      BY <2>1, <2>2
  <1>4. Len(vec) \in Nat
    BY <1>3
  <1>5. TypeOK
    <2>1. 0 \in Buckets
      BY <1>2 DEF Buckets
    <2>2. bucket \in [Buckets -> 0 .. Len(vec)]
      BY <1>1, <1>4
    <2>3. b \in 0 .. BucketNum
      BY <1>1, <1>2
    <2>4. /\ chain \in Seq([hasher : Nat, next : 0 .. Len(vec)])
          /\ table \in Seq([hasher : Nat, val : 1 .. Len(vec)]
                           \union [hasher : Nat, val : {Junk}])
      BY <1>1
    <2> QED
      BY <1>1, <1>3, <2>1, <2>2, <2>3, <2>4 DEF TypeOK
  <1>6. Len(chain) = 0 /\ Len(table) = 0 /\ 1 .. Len(chain) = {} /\ 1 .. Len(table) = {}
    BY <1>1
  <1>7. Elements
    BY <1>1, <1>4, <1>6 DEF Elements, Linked
  <1>8. Heads
    BY <1>1, <1>6 DEF Heads, IsHead, Buckets
  <1>9. Packing
    <2>1. Filled(BucketNum, vec, table, Len(table), b)
      BY <1>6 DEF Filled
    <2>2. 0 .. b - 1 = {}
      BY <1>1
    <2> QED
      BY <1>1, <2>1, <2>2 DEF Packing, Runs
  <1> QED
    BY <1>1, <1>5, <1>7, <1>8, <1>9 DEF Inv, Ended, Opened

LEMMA SameBuckets ==
  pow' = pow => BucketNum' = BucketNum /\ Buckets' = Buckets
  BY DEF BucketNum, Buckets

LEMMA LastOfChain ==
  ASSUME NEW n, NEW ch, Len(ch) \in Nat, NEW h, NEW o \in 1 .. Len(ch),
         IsHead(n, ch, o, Id(n, h)), NEW z, IsLastOf(n, ch, z, o)
  PROVE  IsEnd(n, ch, z, h) /\ z # 0
  BY DEF IsHead, IsLastOf, IsEnd

(* What AddElement does to the chains.                                     *)
LEMMA AddedElement ==
  ASSUME StaticHashAssumption, Inv, AddElement
  PROVE  LET x == Len(chain) + 1
             h == Hash[vec[x]]
             id == Id(BucketNum, h)
         IN  /\ x \in 1 .. Len(vec)
             /\ chain' \in Seq(Links(Len(vec)))
             /\ \E z : IsEnd(BucketNum, chain, z, h) /\ Grown(chain, chain', z, h)
             /\ bucket' = [bucket EXCEPT ![id] = IF bucket[id] = 0 THEN x ELSE bucket[id]]
  <1> DEFINE x == Len(chain) + 1
             h == Hash[vec[x]]
             id == Id(BucketNum, h)
             M == Len(vec)
             longer == Append(chain, [hasher |-> h, next |-> 0])
  <1>1. /\ M \in Nat /\ Len(chain) \in Nat /\ chain \in Seq(Links(M))
        /\ BucketNum \in Nat \ {0}
        /\ bucket \in [0 .. BucketNum - 1 -> 0 .. M]
        /\ \A e \in 1 .. M : Hash[vec[e]] \in Nat
    BY Types DEF Inv
  <1>2. pc = "chain" /\ Len(chain) < M
    BY DEF AddElement
  <1>3. x \in 1 .. M /\ h \in Nat
    BY <1>1, <1>2
  <1>4. IF bucket[id] = 0
        THEN bucket' = [bucket EXCEPT ![id] = x] /\ chain' = longer
        ELSE chain' = [longer EXCEPT ![ChainEnd(bucket[id])].next = x] /\ bucket' = bucket
    BY DEF AddElement, BucketId, Id, LinkFrom
  <1>5. /\ Linked(BucketNum, chain) /\ b = 0
        /\ \A i \in b .. BucketNum - 1 : IsHead(BucketNum, chain, bucket[i], i)
    BY <1>2 DEF Inv, Elements, Heads, Packing
  <1>6. id \in 0 .. BucketNum - 1
    BY <1>1, <1>3, IdType
  <1>7. IsHead(BucketNum, chain, bucket[id], id)
    BY <1>5, <1>6
  <1>8. [hasher |-> h, next |-> 0] \in Links(M)
    BY <1>1, <1>3 DEF Links
  <1> HIDE DEF h
  <1>9. /\ longer \in Seq(Links(M)) /\ Len(longer) = x
        /\ \A e \in 1 .. Len(chain) : longer[e] = chain[e]
        /\ longer[x] = [hasher |-> h, next |-> 0]
    BY <1>1, <1>8
  <1> HIDE DEF longer
  <1>10. CASE bucket[id] = 0
    <2>1. Grown(chain, chain', 0, h)
      BY <1>4, <1>9, <1>10 DEF Grown
    <2>2. IsEnd(BucketNum, chain, 0, h)
      <3>1. \A e \in 1 .. Len(chain) : IdOf(BucketNum, chain, e) # id
        BY <1>7, <1>10 DEF IsHead
      <3> QED
        BY <1>1, <3>1 DEF IsEnd
    <2> QED
      BY <1>3, <1>4, <1>9, <1>10, <2>1, <2>2 DEF h
  <1>11. CASE bucket[id] # 0
    <2> DEFINE o == bucket[id]
               z == ChainEnd(o)
    <2>1. o \in 1 .. Len(chain)
      BY <1>7, <1>11 DEF IsHead
    <2>2. IsLastOf(BucketNum, chain, z, o)
      BY <1>1, <1>5, <2>1, ChainEndIsLast
    <2>3. IsEnd(BucketNum, chain, z, h) /\ z # 0
      BY <1>1, <1>7, <2>1, <2>2, LastOfChain
    <2>4. z \in 1 .. Len(chain)
      BY <2>2 DEF IsLastOf
    <2>5. chain' = [longer EXCEPT ![z].next = x]
      BY <1>4, <1>11
    <2>6. bucket' = [bucket EXCEPT ![id] = IF bucket[id] = 0 THEN x ELSE bucket[id]]
      BY <1>1, <1>4, <1>6, <1>11
    <2> HIDE DEF z
    <2>7. longer[z] \in Links(M) /\ z \in 1 .. Len(longer) /\ z # x /\ x \in 1 .. Len(longer)
      BY <1>1, <1>9, <2>4
    <2>8. [longer[z] EXCEPT !.next = x] \in Links(M)
      <3>1. \A y \in Links(M) : \A f \in 0 .. M : [y EXCEPT !.next = f] \in Links(M)
        BY DEF Links
      <3>2. x \in 0 .. M
        BY <1>1, <1>3
      <3> QED
        BY <2>7, <3>1, <3>2
    <2>9. chain' = [longer EXCEPT ![z] = [longer[z] EXCEPT !.next = x]]
      BY <2>5
    <2>10. chain' \in Seq(Links(M)) /\ Len(chain') = x
      <3>1. \A L : \A u \in Seq(L) : \A i \in 1 .. Len(u) : \A y \in L :
               [u EXCEPT ![i] = y] \in Seq(L) /\ Len([u EXCEPT ![i] = y]) = Len(u)
        OBVIOUS
      <3> QED
        BY <1>9, <2>7, <2>8, <2>9, <3>1
    <2>11. /\ \A e \in 1 .. Len(longer) : e # z => chain'[e] = longer[e]
           /\ chain'[z] = [longer[z] EXCEPT !.next = x]
      BY <1>9, <2>7, <2>9
    <2>12. chain'[z].hasher = longer[z].hasher /\ chain'[z].next = x
      BY <2>7, <2>11 DEF Links
    <2>13. Grown(chain, chain', z, h)
      <3>1. \A e \in 1 .. Len(chain) : e \in 1 .. Len(longer)
        BY <1>1, <1>9
      <3>2. chain'[x] = [hasher |-> h, next |-> 0]
        BY <1>9, <2>7, <2>11
      <3>3. \A e \in 1 .. Len(chain) : chain'[e].hasher = chain[e].hasher
        BY <1>9, <2>11, <2>12, <3>1
      <3>4. \A e \in 1 .. Len(chain) : e # z => chain'[e].next = chain[e].next
        BY <1>9, <2>11, <3>1
      <3> QED
        BY <2>10, <2>12, <3>2, <3>3, <3>4 DEF Grown
    <2> QED
      BY <1>3, <2>3, <2>6, <2>10, <2>13 DEF h
  <1> QED
    BY <1>10, <1>11

LEMMA InvAdd ==
  ASSUME StaticHashAssumption, Inv, AddElement
  PROVE  Inv'
  <1> DEFINE x == Len(chain) + 1
             h == Hash[vec[x]]
             n == BucketNum
             id == Id(n, h)
             M == Len(vec)
  <1>1. /\ M \in Nat /\ Len(chain) \in Nat /\ n \in Nat \ {0}
        /\ bucket \in [0 .. n - 1 -> 0 .. M]
        /\ \A e \in 1 .. M : Hash[vec[e]] \in Nat
        /\ Buckets = 0 .. n - 1
    BY Types DEF Inv
  <1>2. /\ pc = "chain" /\ Len(chain) < M
        /\ vec' = vec /\ pow' = pow /\ pc' = pc /\ table' = table /\ b' = b /\ last' = last
        /\ file' = file /\ loaded' = loaded /\ invalid' = invalid
    BY DEF AddElement
  <1>3. BucketNum' = BucketNum /\ Buckets' = Buckets
    BY <1>2, SameBuckets
  <1>4. /\ x \in 1 .. M
        /\ chain' \in Seq(Links(M))
        /\ \E z : IsEnd(n, chain, z, h) /\ Grown(chain, chain', z, h)
        /\ bucket' = [bucket EXCEPT ![id] = IF bucket[id] = 0 THEN x ELSE bucket[id]]
    BY AddedElement
  <1>5. PICK z : IsEnd(n, chain, z, h) /\ Grown(chain, chain', z, h)
    BY <1>4
  <1>6. h \in Nat /\ id \in 0 .. n - 1
    BY <1>1, <1>4, IdType
  <1>7. /\ Linked(n, chain) /\ b = 0
        /\ \A e \in 1 .. Len(chain) : chain[e].hasher = Hash[vec[e]]
        /\ \A i \in 0 .. n - 1 : IsHead(n, chain, bucket[i], i)
    BY <1>2 DEF Inv, Elements, Heads, Packing
  <1>8. Len(chain') = x
    BY <1>5 DEF Grown
  <1>9. Linked(n, chain')
    BY <1>1, <1>5, <1>7, LinkedMore
  <1>10. \A i \in 0 .. n - 1 : IsHead(n, chain', bucket'[i], i)
    <2>1. TAKE i \in 0 .. n - 1
    <2>2. IF i = id /\ bucket[i] = 0 THEN IsHead(n, chain', Len(chain'), i)
          ELSE IsHead(n, chain', bucket[i], i)
      BY <1>1, <1>5, <1>7, HeadsMore
    <2>3. bucket'[i] = IF i = id /\ bucket[i] = 0 THEN x ELSE bucket[i]
      <3> HIDE DEF id, x
      <3> QED
        BY <1>1, <1>4, <1>6
    <2> QED
      BY <1>8, <2>2, <2>3
  <1>11. TypeOK'
    <2>1. bucket' \in [0 .. n - 1 -> 0 .. M]
      <3> HIDE DEF id, x
      <3>1. x \in 0 .. M
        BY <1>1, <1>4
      <3> QED
        BY <1>1, <1>4, <1>6, <3>1
    <2>2. TypeOK
      BY DEF Inv
    <2> HIDE DEF M, n
    <2>3. /\ bucket' \in [Buckets' -> 0 .. Len(vec')]
          /\ chain' \in Seq([hasher : Nat, next : 0 .. Len(vec')])
      BY <1>1, <1>2, <1>3, <1>4, <2>1 DEF Links, M, n
    <2> QED
      BY <1>2, <1>3, <2>2, <2>3 DEF TypeOK
  <1>12. Elements'
    <2>1. ASSUME NEW e \in 1 .. Len(chain') PROVE chain'[e].hasher = Hash[vec'[e]]
      <3>1. e \in 1 .. Len(chain) \/ e = x
        BY <1>1, <1>8
      <3>2. chain'[x].hasher = h
        BY <1>5, <1>8 DEF Grown
      <3>3. \A f \in 1 .. Len(chain) : chain'[f].hasher = chain[f].hasher
        BY <1>5 DEF Grown
      <3> QED
        BY <1>2, <1>7, <3>1, <3>2, <3>3
    <2>2. Len(chain') <= Len(vec')
      BY <1>1, <1>2, <1>8
    <2> QED
      BY <1>2, <1>3, <1>9, <2>1, <2>2 DEF Elements
  <1>13. Heads'
    BY <1>2, <1>3, <1>7, <1>10 DEF Heads
  <1>14. Packing'
    <2>1. /\ b' = 0 /\ table' = <<>>
          /\ Filled(n, vec, table, Len(table), b)
      BY <1>2 DEF Inv, Packing
    <2>2. Runs(n, chain', bucket', table', Len(table'), b', last')
      <3>1. 0 .. b' - 1 = {}
        BY <2>1
      <3> QED
        BY <3>1 DEF Runs
    <2> QED
      BY <1>2, <1>3, <2>1, <2>2 DEF Packing
  <1>15. Ended' /\ Opened'
    BY <1>2 DEF Inv, Ended, Opened
  <1> QED
    BY <1>11, <1>12, <1>13, <1>14, <1>15 DEF Inv

(* What Pack appends for a bucket that holds something.                    *)
LEMMA PackedBucket ==
  ASSUME StaticHashAssumption, Inv, Pack, bucket[b] # 0
  PROVE  \E k \in Nat \ {0} : \E s :
           /\ Ordered(BucketNum, chain, s, k, b)
           /\ Extended(chain, table, table', s, k)
           /\ table' \in Seq(Entries(Len(vec)))
  <1> DEFINE n == BucketNum
             M == Len(vec)
             o == bucket[b]
             T == ToSet(Members(o))
  <1>1. /\ M \in Nat /\ Len(chain) \in Nat /\ chain \in Seq(Links(M))
        /\ table \in Seq(Entries(M)) /\ Len(table) \in Nat
        /\ \A e \in 1 .. Len(chain) : chain[e].hasher \in Nat
        /\ n \in Nat /\ Buckets = 0 .. n - 1
    BY Types DEF Inv
  <1>2. pc = "pack" /\ b \in 0 .. n - 1
    BY <1>1 DEF Pack
  <1>3. /\ Linked(n, chain) /\ Len(chain) = M
        /\ IsHead(n, chain, o, b)
    BY <1>1, <1>2 DEF Inv, Elements, Heads
  <1>4. /\ o \in 1 .. Len(chain) /\ IdOf(n, chain, o) = b
        /\ \A e \in 1 .. Len(chain) : e < o => IdOf(n, chain, e) # b
    BY <1>3 DEF IsHead
  <1>5. T = From(n, chain, o)
    BY <1>1, <1>3, <1>4, MembersAreTheBucket
  <1>6. T = {e \in 1 .. Len(chain) : IdOf(n, chain, e) = b}
    BY <1>1, <1>4, <1>5 DEF From
  <1>7. PICK s \in Orders(Members(o)) :
          table' = table \o
            [i \in DOMAIN s |-> [hasher |-> chain[s[i]].hasher, val |-> s[i]]]
    BY DEF Pack
  <1> DEFINE k == Len(s)
             more == [i \in DOMAIN s |-> [hasher |-> chain[s[i]].hasher, val |-> s[i]]]
  <1>8. /\ s \in Seq(T) /\ DOMAIN s = 1 .. k /\ k \in Nat
        /\ \A i, j \in 1 .. k : s[i] = s[j] => i = j
        /\ \A y \in T : \E i \in 1 .. k : s[i] = y
        /\ \A i, j \in 1 .. k : i < j => chain[s[i]].hasher <= chain[s[j]].hasher
    <2>1. T \subseteq 1 .. Len(chain)
      BY <1>6
    <2> QED
      BY <1>1, <2>1, OrderFacts
  <1> HIDE DEF T, o, k
  <1>9. \A i \in 1 .. k : s[i] \in T
    <2>1. \A L : \A u \in Seq(L) : \A i \in DOMAIN u : u[i] \in L
      OBVIOUS
    <2> QED
      BY <1>8, <2>1
  <1>10. k # 0
    <2>1. o \in T
      BY <1>4, <1>6
    <2>2. PICK i \in 1 .. k : s[i] = o
      BY <1>8, <2>1
    <2> QED
      BY <1>8, <2>2
  <1>11. Ordered(n, chain, s, k, b)
    <2>1. \A i \in 1 .. k : s[i] \in 1 .. Len(chain) /\ IdOf(n, chain, s[i]) = b
      BY <1>6, <1>9
    <2>2. \A e \in 1 .. Len(chain) : IdOf(n, chain, e) = b => \E i \in 1 .. k : s[i] = e
      BY <1>6, <1>8
    <2> QED
      BY <1>8, <2>1, <2>2 DEF Ordered
  <1>12. more \in Seq(Entries(M)) /\ Len(more) = k
    <2>1. ASSUME NEW i \in 1 .. k
          PROVE  [hasher |-> chain[s[i]].hasher, val |-> s[i]] \in Entries(M)
      <3>1. s[i] \in 1 .. Len(chain)
        BY <1>6, <1>9
      <3>2. chain[s[i]].hasher \in Nat /\ s[i] \in 1 .. M
        BY <1>1, <1>3, <3>1
      <3> QED
        BY <3>2 DEF Entries
    <2>2. more \in [1 .. k -> Entries(M)]
      BY <1>8, <2>1
    <2> HIDE DEF more
    <2> QED
      BY <1>8, <2>2
  <1>13. \A i \in 1 .. k : more[i] = [hasher |-> chain[s[i]].hasher, val |-> s[i]]
    BY <1>8
  <1>14. table' = table \o more
    BY <1>7
  <1> HIDE DEF more
  <1>15. \A L : \A u, w \in Seq(L) :
           /\ u \o w \in Seq(L) /\ Len(u \o w) = Len(u) + Len(w)
           /\ \A i \in 1 .. Len(u) : (u \o w)[i] = u[i]
           /\ \A i \in 1 .. Len(w) : (u \o w)[Len(u) + i] = w[i]
    OBVIOUS
  <1>16. /\ table' \in Seq(Entries(M)) /\ Len(table') = Len(table) + k
         /\ \A i \in 1 .. Len(table) : table'[i] = table[i]
         /\ \A i \in 1 .. k : table'[Len(table) + i] = more[i]
    <2>1. /\ table \o more \in Seq(Entries(M)) /\ Len(table \o more) = Len(table) + Len(more)
          /\ \A i \in 1 .. Len(table) : (table \o more)[i] = table[i]
          /\ \A i \in 1 .. Len(more) : (table \o more)[Len(table) + i] = more[i]
      <3>1. table \in Seq(Entries(M)) /\ more \in Seq(Entries(M))
        BY <1>1, <1>12
      <3> HIDE DEF M
      <3> QED
        BY <1>15, <3>1
    <2> QED
      BY <1>12, <1>14, <2>1, Zenon
  <1>17. Extended(chain, table, table', s, k)
    <2>1. ASSUME NEW i \in 1 .. k
          PROVE  /\ table'[Len(table) + i].hasher = chain[s[i]].hasher
                 /\ table'[Len(table) + i].val = s[i]
      <3>1. table'[Len(table) + i] = [hasher |-> chain[s[i]].hasher, val |-> s[i]]
        BY <1>13, <1>16, Zenon
      <3> QED
        BY <3>1
    <2> QED
      BY <1>16, <2>1, Zenon DEF Extended
  <1> QED
    BY <1>8, <1>10, <1>11, <1>16, <1>17

LEMMA InvPack ==
  ASSUME StaticHashAssumption, Inv, Pack
  PROVE  Inv'
  <1> DEFINE n == BucketNum
             M == Len(vec)
             m == Len(table)
  <1>1. /\ M \in Nat /\ Len(chain) \in Nat /\ chain \in Seq(Links(M))
        /\ table \in Seq(Entries(M)) /\ m \in Nat
        /\ \A e \in 1 .. Len(chain) : chain[e].hasher \in Nat
        /\ \A p \in 1 .. m : table[p].hasher \in Nat
        /\ n \in Nat \ {0} /\ Buckets = 0 .. n - 1
        /\ bucket \in [0 .. n - 1 -> 0 .. M]
    BY Types DEF Inv
  <1>2. /\ pc = "pack" /\ b \in 0 .. n - 1 /\ b' = b + 1
        /\ vec' = vec /\ pow' = pow /\ pc' = pc /\ chain' = chain
        /\ file' = file /\ loaded' = loaded /\ invalid' = invalid
    BY <1>1 DEF Pack
  <1>3. BucketNum' = BucketNum /\ Buckets' = Buckets
    BY <1>2, SameBuckets
  <1>4. /\ Linked(n, chain) /\ Len(chain) = M
        /\ \A e \in 1 .. Len(chain) : chain[e].hasher = Hash[vec[e]]
        /\ \A i \in b .. n - 1 : IsHead(n, chain, bucket[i], i)
        /\ Filled(n, vec, table, m, b)
        /\ Runs(n, chain, bucket, table, m, b, last)
    BY <1>2 DEF Inv, Elements, Heads, Packing
  <1>5. /\ \A i \in 0 .. n - 1 : i # b => bucket'[i] = bucket[i]
        /\ bucket'[b] = IF bucket[b] = 0 THEN 0 ELSE m + 1
        /\ bucket' \in [0 .. n - 1 -> Nat]
    <2>1. IF bucket[b] = 0 THEN bucket' = bucket ELSE bucket' = [bucket EXCEPT ![b] = m + 1]
      BY DEF Pack, RunStart
    <2>2. m + 1 \in Nat /\ \A i \in 0 .. M : i \in Nat
      BY <1>1
    <2>3. b \in 0 .. n - 1
      BY <1>2
    <2>4. bucket \in [0 .. n - 1 -> Nat]
      BY <1>1, <2>2
    <2> HIDE DEF n, m, M
    <2>5. CASE bucket[b] = 0
      BY <2>1, <2>3, <2>4, <2>5
    <2>6. CASE bucket[b] # 0
      BY <2>1, <2>2, <2>3, <2>4, <2>6
    <2> QED
      BY <2>5, <2>6
  <1>b. b \in Nat /\ \A i \in 0 .. b - 1 : i \in 0 .. n - 1 /\ i # b
    <2>1. b \in 0 .. n - 1 /\ n \in Nat
      BY <1>1, <1>2
    <2> HIDE DEF n
    <2> QED
      BY <2>1
  <1>6. /\ Filled(n, vec, table', Len(table'), b + 1)
        /\ Runs(n, chain, bucket', table', Len(table'), b + 1, last')
        /\ bucket'[b] \in 0 .. M
        /\ table' \in Seq(Entries(M))
        /\ last' \in 0 .. n - 1
    <2>1. CASE bucket[b] = 0
      <3>1. table' = table /\ last' = last /\ last \in 0 .. n - 1
        BY <2>1, Types DEF Pack, Inv
      <3>2. Filled(n, vec, table, m, b + 1)
        <4>1. \A p \in 1 .. m : Id(n, table[p].hasher) < b + 1
          <5>1. TAKE p \in 1 .. m
          <5>2. Id(n, table[p].hasher) \in 0 .. n - 1
            BY <1>1, IdType
          <5>3. Id(n, table[p].hasher) < b
            BY <1>4 DEF Filled
          <5> QED
            BY <1>2, <5>2, <5>3
        <4> HIDE DEF m, n
        <4> QED
          BY <1>4, <4>1 DEF Filled
      <3>3. Runs(n, chain, bucket', table, m, b + 1, last)
        <4>1. \A e \in 1 .. Len(chain) : IdOf(n, chain, e) # b
          BY <1>2, <1>4, <2>1 DEF IsHead
        <4>2. \A i \in 0 .. (b + 1) - 1 : i = b \/ (i \in 0 .. b - 1 /\ bucket'[i] = bucket[i])
          <5>1. \A i \in 0 .. (b + 1) - 1 : i = b \/ i \in 0 .. b - 1
            BY <1>b
          <5> HIDE DEF n, m
          <5> QED
            BY <1>5, <1>b, <5>1
        <4> HIDE DEF m, n
        <4> QED
          BY <1>4, <1>5, <2>1, <4>1, <4>2 DEF Runs
      <3> QED
        BY <1>1, <1>5, <2>1, <3>1, <3>2, <3>3
    <2>2. CASE bucket[b] # 0
      <3>1. PICK k \in Nat \ {0} : \E s :
              /\ Ordered(n, chain, s, k, b)
              /\ Extended(chain, table, table', s, k)
              /\ table' \in Seq(Entries(M))
        BY <2>2, PackedBucket
      <3>2. PICK s :
              /\ Ordered(n, chain, s, k, b)
              /\ Extended(chain, table, table', s, k)
              /\ table' \in Seq(Entries(M))
        BY <3>1
      <3>3. b \in Nat /\ \A i \in 0 .. b - 1 : bucket'[i] = bucket[i]
        <4> HIDE DEF n, m
        <4> QED
          BY <1>5, <1>b
      <3>4. \A p \in 1 .. m : Id(n, table[p].hasher) \in Nat
        <4>1. TAKE p \in 1 .. m
        <4>2. Id(n, table[p].hasher) \in 0 .. n - 1
          BY <1>1, IdType
        <4> QED
          BY <4>2
      <3>5. Len(table') = m + k /\ last' = b /\ bucket'[b] = m + 1
        BY <1>5, <2>2, <3>2 DEF Extended, Pack
      <3>6. Filled(n, vec, table', m + k, b + 1)
        BY <1>1, <1>4, <3>2, <3>3, <3>4, FilledMore
      <3>7. Runs(n, chain, bucket', table', m + k, b + 1, b)
        <4>1. /\ Len(chain) \in Nat /\ m \in Nat /\ Len(table) = m /\ b \in Nat
              /\ Runs(n, chain, bucket, table, m, b, last)
              /\ k \in Nat \ {0} /\ Ordered(n, chain, s, k, b)
              /\ Extended(chain, table, table', s, k)
              /\ bucket'[b] = m + 1 /\ \A i \in 0 .. b - 1 : bucket'[i] = bucket[i]
          BY <1>1, <1>4, <3>2, <3>3, <3>5
        <4> HIDE DEF m, n
        <4> QED
          BY <4>1, RunsMore, Zenon
      <3>8. m + k <= M
        <4>1. m + k \in Nat
          BY <1>1
        <4> QED
          BY <1>1, <3>6, <4>1, NoMoreThanElements
      <3>9. m + 1 \in 0 .. M
        BY <1>1, <3>8
      <3> QED
        BY <1>2, <3>2, <3>5, <3>6, <3>7, <3>9
    <2> QED
      BY <2>1, <2>2
  <1>7. TypeOK'
    <2>1. bucket' \in [0 .. n - 1 -> 0 .. M]
      BY <1>1, <1>5, <1>6
    <2>2. TypeOK
      BY DEF Inv
    <2>3. b' \in 0 .. n
      BY <1>1, <1>2
    <2> HIDE DEF M, n
    <2>4. /\ bucket' \in [Buckets' -> 0 .. Len(vec')]
          /\ table' \in Seq([hasher : Nat, val : 1 .. Len(vec')]
                            \union [hasher : Nat, val : {Junk}])
          /\ b' \in 0 .. BucketNum' /\ last' \in Buckets'
      BY <1>1, <1>2, <1>3, <1>6, <2>1, <2>3 DEF Entries, M, n
    <2> QED
      BY <1>2, <2>2, <2>4 DEF TypeOK
  <1>8. Elements'
    BY <1>2, <1>3 DEF Inv, Elements
  <1>9. Heads'
    <2>1. \A i \in b + 1 .. n - 1 : IsHead(n, chain, bucket'[i], i)
      <3>1. TAKE i \in b + 1 .. n - 1
      <3>2. i \in b .. n - 1 /\ i \in 0 .. n - 1 /\ i # b
        BY <1>1, <1>2
      <3> QED
        BY <1>4, <1>5, <3>2
    <2> QED
      BY <1>2, <1>3, <2>1 DEF Heads
  <1>10. Packing'
    BY <1>2, <1>3, <1>6 DEF Packing
  <1>11. Ended' /\ Opened'
    BY <1>2 DEF Inv, Ended, Opened
  <1> QED
    BY <1>7, <1>8, <1>9, <1>10, <1>11 DEF Inv

LEMMA InvPacked ==
  ASSUME StaticHashAssumption, Inv, Packed
  PROVE  Inv'
  <1> DEFINE n == BucketNum
             M == Len(vec)
             m == Len(table)
  <1>1. /\ M \in Nat /\ table \in Seq(Entries(M)) /\ m \in Nat
        /\ n \in Nat /\ n >= 2 /\ Buckets = 0 .. n - 1
        /\ b \in 0 .. n /\ last \in 0 .. n - 1
    BY Types DEF Inv
  <1>2. /\ pc = "pack" /\ b \notin 0 .. n - 1 /\ pc' = "write"
        /\ table' = Append(table, [hasher |-> last + 1, val |-> Junk])
        /\ vec' = vec /\ pow' = pow /\ chain' = chain /\ bucket' = bucket /\ b' = b
        /\ last' = last /\ file' = file /\ loaded' = loaded /\ invalid' = invalid
    BY <1>1 DEF Packed, EndMark
  <1>3. BucketNum' = BucketNum /\ Buckets' = Buckets
    BY <1>2, SameBuckets
  <1>4. b = n
    BY <1>1, <1>2
  <1>5. /\ Filled(n, vec, table, m, n)
        /\ Runs(n, chain, bucket, table, m, n, last)
    BY <1>2, <1>4 DEF Inv, Packing
  <1>6. [hasher |-> last + 1, val |-> Junk] \in Entries(M)
    BY <1>1 DEF Entries
  <1>7. /\ table' \in Seq(Entries(M)) /\ Len(table') = m + 1
        /\ \A p \in 1 .. m : table'[p] = table[p]
        /\ table'[m + 1] = [hasher |-> last + 1, val |-> Junk]
    BY <1>1, <1>2, <1>6
  <1>8. Closed(n, chain, bucket, table', m, last)
    <2>1. table'[m + 1].hasher = last + 1
      BY <1>7
    <2> QED
      BY <1>1, <1>5, <1>7, <2>1, RunsEnd DEF Closed
  <1>9. Filled(n, vec, table', m, n)
    <2>1. m \in 0 .. m + 1
      BY <1>1
    <2> HIDE DEF m, n
    <2> QED
      BY <1>5, <1>7, <2>1 DEF Filled
  <1>10. Len(table') # 0 /\ Len(table') - 1 = m
    BY <1>1, <1>7
  <1>11. TypeOK'
    <2>1. TypeOK
      BY DEF Inv
    <2>2. table' \in Seq([hasher : Nat, val : 1 .. Len(vec')]
                         \union [hasher : Nat, val : {Junk}])
      BY <1>2, <1>7 DEF Entries
    <2> QED
      BY <1>2, <1>3, <2>1, <2>2 DEF TypeOK
  <1>12. Elements'
    BY <1>2, <1>3 DEF Inv, Elements
  <1>13. Heads' /\ Packing'
    BY <1>2 DEF Heads, Packing
  <1>14. Ended'
    <2> HIDE DEF m
    <2> QED
      BY <1>2, <1>3, <1>8, <1>9, <1>10 DEF Ended
  <1>15. Opened'
    BY <1>2 DEF Inv, Opened
  <1> QED
    BY <1>11, <1>12, <1>13, <1>14, <1>15 DEF Inv

LEMMA InvNext ==
  ASSUME StaticHashAssumption, Inv, [Next]_vars
  PROVE  Inv'
  <1>1. CASE AddElement
    BY <1>1, InvAdd
  <1>2. CASE Chained
    <2>1. /\ vec' = vec /\ pow' = pow /\ bucket' = bucket /\ chain' = chain
          /\ table' = table /\ b' = b /\ last' = last /\ file' = file
          /\ loaded' = loaded /\ invalid' = invalid
          /\ pc = "chain" /\ pc' = "pack" /\ Len(chain) = Len(vec)
      BY <1>2 DEF Chained
    <2>2. BucketNum' = BucketNum /\ Buckets' = Buckets
      BY <2>1, SameBuckets
    <2>3. TypeOK'
      BY <2>1, <2>2 DEF Inv, TypeOK
    <2>4. Elements' /\ Heads' /\ Packing' /\ Ended' /\ Opened'
      BY <2>1, <2>2 DEF Inv, Elements, Heads, Packing, Ended, Opened
    <2> QED
      BY <2>3, <2>4 DEF Inv
  <1>3. CASE Pack
    BY <1>3, InvPack
  <1>4. CASE Packed
    BY <1>4, InvPacked
  <1>5. CASE Write
    <2>1. /\ vec' = vec /\ pow' = pow /\ bucket' = bucket /\ chain' = chain
          /\ table' = table /\ b' = b /\ last' = last
          /\ loaded' = loaded /\ invalid' = invalid
          /\ pc = "write" /\ pc' = "done" /\ file' \in {"none", "partial", "whole"}
      BY <1>5 DEF Write
    <2>2. BucketNum' = BucketNum /\ Buckets' = Buckets
      BY <2>1, SameBuckets
    <2>3. TypeOK'
      BY <2>1, <2>2 DEF Inv, TypeOK
    <2>4. Elements' /\ Heads' /\ Packing' /\ Ended' /\ Opened'
      BY <2>1, <2>2 DEF Inv, Elements, Heads, Packing, Ended, Opened
    <2> QED
      BY <2>3, <2>4 DEF Inv
  <1>6. CASE Load
    <2>1. /\ vec' = vec /\ pow' = pow /\ bucket' = bucket /\ chain' = chain
          /\ table' = table /\ b' = b /\ last' = last /\ file' = file
          /\ pc = "done" /\ pc' = pc /\ loaded' \in BOOLEAN /\ invalid' = NotFound
      BY <1>6 DEF Load
    <2>2. BucketNum' = BucketNum /\ Buckets' = Buckets
      BY <2>1, SameBuckets
    <2>3. TypeOK'
      BY <2>1, <2>2 DEF Inv, TypeOK
    <2>4. Elements' /\ Heads' /\ Packing' /\ Ended' /\ Opened'
      BY <2>1, <2>2 DEF Inv, Elements, Heads, Packing, Ended, Opened
    <2> QED
      BY <2>3, <2>4 DEF Inv
  <1>7. CASE UNCHANGED vars
    <2>1. /\ vec' = vec /\ pow' = pow /\ bucket' = bucket /\ chain' = chain
          /\ table' = table /\ b' = b /\ last' = last /\ file' = file
          /\ pc' = pc /\ loaded' = loaded /\ invalid' = invalid
      BY <1>7 DEF vars
    <2>2. BucketNum' = BucketNum /\ Buckets' = Buckets
      BY <2>1, SameBuckets
    <2>3. TypeOK'
      BY <2>1, <2>2 DEF Inv, TypeOK
    <2>4. Elements' /\ Heads' /\ Packing' /\ Ended' /\ Opened'
      BY <2>1, <2>2 DEF Inv, Elements, Heads, Packing, Ended, Opened
    <2> QED
      BY <2>3, <2>4 DEF Inv
  <1> QED
    BY <1>1, <1>2, <1>3, <1>4, <1>5, <1>6, <1>7 DEF Next

-----------------------------------------------------------------------------
(* Lookups.                                                                *)

(* The scan of a run stops in it or right behind it, and at hash h when    *)
(* the run has it.                                                         *)
Lands(tb, h, o, r, e) ==
  /\ e \in o + 1 .. r + 1
  /\ tb[e].hasher = h => e \in o .. r
  /\ \A p \in o + 1 .. r : tb[p].hasher = h => tb[e].hasher = h

LEMMA ScanInRun ==
  ASSUME NEW n, NEW ch, NEW tb, NEW m \in Nat, Len(tb) = m + 1, NEW h \in Nat,
         \A p \in 1 .. m + 1 : tb[p].hasher \in Nat,
         NEW o, NEW r \in 1 .. m, NEW l, IsRun(n, ch, tb, m + 1, o, r, Id(n, h), l),
         NEW e, StopsAt(n, tb, Id(n, h), h, o + 1, e)
  PROVE  Lands(tb, h, o, r, e)
  <1> DEFINE id == Id(n, h)
             g(p) == tb[p].hasher
             I(p) == Id(n, g(p))
  <1>1. /\ o \in 1 .. r
        /\ \A p \in o .. r : I(p) = id
        /\ \A p, q \in o .. r : p < q => g(p) <= g(q)
        /\ I(r + 1) # id
    <2>1. r < m + 1
      OBVIOUS
    <2> QED
      BY <2>1 DEF IsRun
  <1>2. /\ e \in o + 1 .. m + 2
        /\ e <= m + 1 => ~(I(e) = id /\ g(e) < h)
        /\ \A p \in 1 .. m + 1 : o + 1 <= p /\ p < e => I(p) = id /\ g(p) < h
    BY DEF StopsAt, GoesOn
  <1>3. \A p : g(p) = h => I(p) = id
    OBVIOUS
  <1>4. \A p \in 1 .. m + 1 : g(p) \in Nat
    OBVIOUS
  <1> HIDE DEF g, I, id
  <1>5. e \in o + 1 .. r + 1
    <2>1. SUFFICES ASSUME r + 1 < e PROVE FALSE
      BY <1>1, <1>2
    <2>2. r + 1 \in 1 .. m + 1 /\ o + 1 <= r + 1
      BY <1>1
    <2> QED
      BY <1>1, <1>2, <2>1, <2>2
  <1>6. ASSUME g(e) = h PROVE e \in o .. r
    <2>1. e # r + 1
      BY <1>1, <1>3, <1>6
    <2> QED
      BY <1>1, <1>5, <2>1
  <1>7. ASSUME NEW p \in o + 1 .. r, g(p) = h PROVE g(e) = h
    <2>1. p \in 1 .. m + 1 /\ p \in o .. r
      BY <1>1
    <2>2. ~(p < e)
      BY <1>1, <1>2, <1>7, <2>1
    <2>3. e \in o .. r /\ e \in 1 .. m + 1 /\ e <= p
      BY <1>1, <1>5, <2>2
    <2>4. I(e) = id
      BY <1>1, <2>3
    <2>5. ~(g(e) < h)
      BY <1>2, <2>3, <2>4
    <2>6. e = p \/ g(e) <= g(p)
      BY <1>1, <2>1, <2>3
    <2> QED
      BY <1>4, <1>7, <2>3, <2>5, <2>6
  <1> QED
    BY <1>5, <1>6, <1>7 DEF g, Lands

LEMMA WhereFound ==
  ASSUME StaticHashAssumption, Inv, Ready, NEW k \in Keys,
         bucket[BucketId(Hash[k])] # 0
  PROVE  LET f == Found(k)
         IN  /\ f <= Len(table)
             /\ table[f].hasher = Hash[k] => table[f].val \in Stored(k)
             /\ Stored(k) # {} => table[f].hasher = Hash[k]
  <1> DEFINE n == BucketNum
             M == Len(vec)
             m == Len(table) - 1
             h == Hash[k]
             id == Id(n, h)
             o == bucket[id]
             f == Found(k)
  <1>1. /\ M \in Nat /\ table \in Seq(Entries(M)) /\ Len(table) \in Nat
        /\ \A p \in 1 .. Len(table) : table[p].hasher \in Nat
        /\ n \in Nat \ {0} /\ h \in Nat
    BY Types DEF Inv
  <1>2. pc = "done" /\ Len(table) # 0
    BY DEF Inv, Opened, Ready, Ended
  <1>3. /\ Filled(n, vec, table, m, n)
        /\ Closed(n, chain, bucket, table, m, last)
        /\ Len(chain) = M
        /\ \A e \in 1 .. Len(chain) : chain[e].hasher = Hash[vec[e]]
    BY <1>2 DEF Inv, Ended, Elements
  <1>4. m \in Nat /\ Len(table) = m + 1
    BY <1>1, <1>2
  <1>5. id = BucketId(h) /\ o # 0
    BY DEF BucketId, Id
  <1>6. id \in 0 .. n - 1
    BY <1>1, IdType
  <1>7. PICK r \in 1 .. m : IsRun(n, chain, table, m + 1, o, r, id, last)
    BY <1>3, <1>5, <1>6 DEF Closed
  <1>8. /\ o \in 1 .. r
        /\ \A e \in 1 .. Len(chain) : IdOf(n, chain, e) = id => \E p \in o .. r : table[p].val = e
    BY <1>7 DEF IsRun
  <1>9. f = IF table[o].hasher = h THEN o ELSE ScanEnd(id, h, o + 1)
    BY <1>5 DEF Found
  <1>10. o + 1 \in 1 .. Len(table) + 1
    <2> HIDE DEF o, m
    <2> QED
      BY <1>4, <1>8
  <1> DEFINE e == ScanEnd(id, h, o + 1)
  <1>11. StopsAt(n, table, id, h, o + 1, e)
    BY <1>1, <1>10, ScanStops
  <1> HIDE DEF e, f, o, m, n, M
  <1>12. /\ e \in o + 1 .. r + 1
         /\ table[e].hasher = h => e \in o .. r
         /\ \A p \in o + 1 .. r : table[p].hasher = h => table[e].hasher = h
    <2>1. /\ m \in Nat /\ Len(table) = m + 1 /\ h \in Nat /\ r \in 1 .. m
          /\ \A p \in 1 .. m + 1 : table[p].hasher \in Nat
          /\ IsRun(n, chain, table, m + 1, o, r, Id(n, h), last)
          /\ StopsAt(n, table, Id(n, h), h, o + 1, e)
      BY <1>1, <1>4, <1>7, <1>11
    <2> HIDE DEF h
    <2>2. Lands(table, h, o, r, e)
      BY <2>1, ScanInRun
    <2> QED
      BY <2>2 DEF Lands
  <1> HIDE DEF id, h
  <1>13. \A p \in o .. r : p = o \/ p \in o + 1 .. r
    BY <1>8
  <1>14. /\ f \in o .. r + 1
         /\ table[f].hasher = h => f \in o .. r
         /\ \A p \in o .. r : table[p].hasher = h => table[f].hasher = h
    <2>1. CASE table[o].hasher = h
      <3>1. f = o
        BY <1>9, <2>1
      <3>2. o \in o .. r + 1 /\ o \in o .. r
        BY <1>8
      <3> QED
        BY <2>1, <3>1, <3>2
    <2>2. CASE table[o].hasher # h
      <3>1. f = e
        BY <1>9, <2>2 DEF e
      <3>2. e \in o .. r + 1
        BY <1>8, <1>12
      <3> QED
        BY <1>12, <1>13, <2>2, <3>1, <3>2
    <2> QED
      BY <2>1, <2>2
  <1>15. f <= Len(table)
    BY <1>4, <1>8, <1>14
  <1>16. \A p \in o .. r : p \in 1 .. m
    BY <1>4, <1>8
  <1>17. \A p \in o .. r : table[p].val \in 1 .. M /\ table[p].hasher = Hash[vec[table[p].val]]
    BY <1>3, <1>16 DEF Filled, M
  <1>18. Stored(k) = {i \in 1 .. M : Hash[vec[i]] = h}
    BY DEF Stored, M, h
  <1>19. ASSUME table[f].hasher = h PROVE table[f].val \in Stored(k)
    <2>1. f \in o .. r
      BY <1>14, <1>19
    <2> QED
      BY <1>17, <1>18, <1>19, <2>1
  <1>20. ASSUME Stored(k) # {} PROVE table[f].hasher = h
    <2>1. PICK i \in 1 .. M : Hash[vec[i]] = h
      BY <1>18, <1>20
    <2>2. i \in 1 .. Len(chain) /\ chain[i].hasher = h
      BY <1>3, <2>1
    <2>3. IdOf(n, chain, i) = id
      BY <2>2 DEF IdOf, id
    <2>4. PICK p \in o .. r : table[p].val = i
      BY <1>8, <2>2, <2>3
    <2>5. table[p].hasher = h
      BY <1>17, <2>1, <2>4
    <2> QED
      BY <1>14, <2>5
  <1> QED
    BY <1>15, <1>19, <1>20 DEF f, h

LEMMA InvScan ==
  ASSUME StaticHashAssumption, Inv
  PROVE  ScanStaysInTable
  BY WhereFound DEF ScanStaysInTable

LEMMA InvLookup ==
  ASSUME StaticHashAssumption, Inv
  PROVE  LookupIsRight
  <1> SUFFICES ASSUME Ready, NEW k \in Keys
               PROVE  IF Stored(k) = {} THEN Lookup(k) = NotFound
                      ELSE Lookup(k) \in Stored(k)
    BY DEF LookupIsRight
  <1> DEFINE id == BucketId(Hash[k])
             f == Found(k)
  <1>1. loaded /\ pc = "done" /\ invalid = NotFound
    BY DEF Inv, Opened, Ready
  <1>2. CASE bucket[id] = 0
    <2>1. Lookup(k) = NotFound
      BY <1>1, <1>2 DEF Lookup
    <2>2. Stored(k) = {}
      <3>1. SUFFICES ASSUME NEW i \in Stored(k) PROVE FALSE
        OBVIOUS
      <3>2. i \in 1 .. Len(vec) /\ Hash[vec[i]] = Hash[k]
        BY <3>1 DEF Stored
      <3>3. /\ Closed(BucketNum, chain, bucket, table, Len(table) - 1, last)
            /\ Len(chain) = Len(vec)
            /\ \A e \in 1 .. Len(chain) : chain[e].hasher = Hash[vec[e]]
        BY <1>1 DEF Inv, Ended, Elements
      <3>4. id = Id(BucketNum, Hash[k]) /\ id \in 0 .. BucketNum - 1
        <4>1. BucketNum \in Nat \ {0} /\ Hash[k] \in Nat
          BY Types DEF Inv
        <4>2. id = Id(BucketNum, Hash[k])
          BY DEF BucketId, Id
        <4> HIDE DEF id
        <4> QED
          BY <4>1, <4>2, IdType
      <3> HIDE DEF id
      <3>5. \A e \in 1 .. Len(chain) : IdOf(BucketNum, chain, e) # id
        BY <1>2, <3>3, <3>4 DEF Closed
      <3>6. IdOf(BucketNum, chain, i) = id /\ i \in 1 .. Len(chain)
        BY <3>2, <3>3, <3>4 DEF IdOf
      <3> QED
        BY <3>5, <3>6
    <2> QED
      BY <2>1, <2>2
  <1>3. CASE bucket[id] # 0
    <2>1. /\ table[f].hasher = Hash[k] => table[f].val \in Stored(k)
          /\ Stored(k) # {} => table[f].hasher = Hash[k]
      BY <1>3, WhereFound
    <2>2. Lookup(k) = IF table[f].hasher = Hash[k] THEN table[f].val ELSE NotFound
      BY <1>1, <1>3 DEF Lookup
    <2> HIDE DEF f
    <2> QED
      BY <2>1, <2>2
  <1> QED
    BY <1>2, <1>3

(***************************************************************************)
(* Types: in particular, packing never puts a position into a bucket that  *)
(* is larger than the number of elements, whatever hashes collide.         *)
(***************************************************************************)
THEOREM HashTypeCorrect == ASSUME StaticHashAssumption PROVE Spec => []TypeOK
  <1>1. Init => Inv
    BY InvInit
  <1>2. Inv /\ [Next]_vars => Inv'
    BY InvNext
  <1>3. Inv => TypeOK
    BY DEF Inv
  <1> QED
    BY <1>1, <1>2, <1>3, PTL DEF Spec

(***************************************************************************)
(* The unbounded loop of operator[] reads nothing behind the end mark, for *)
(* keys that are in the table and keys that are not.                       *)
(***************************************************************************)
THEOREM ScansEnd == ASSUME StaticHashAssumption PROVE Spec => []ScanStaysInTable
  <1>1. Init => Inv
    BY InvInit
  <1>2. Inv /\ [Next]_vars => Inv'
    BY InvNext
  <1>3. Inv => ScanStaysInTable
    BY InvScan
  <1> QED
    BY <1>1, <1>2, <1>3, PTL DEF Spec

(***************************************************************************)
(* A table that was written whole answers right, for every hash function,  *)
(* number of buckets, container and order std::sort leaves.                *)
(***************************************************************************)
THEOREM LookupsAreRight == ASSUME StaticHashAssumption PROVE Spec => []LookupIsRight
  <1>1. Init => Inv
    BY InvInit
  <1>2. Inv /\ [Next]_vars => Inv'
    BY InvNext
  <1>3. Inv => LookupIsRight
    BY InvLookup
  <1> QED
    BY <1>1, <1>2, <1>3, PTL DEF Spec
-----------------------------------------------------------------------------
(***************************************************************************)
(* The lists of static_hash_vector, for all maps, crashes and failures of  *)
(* the disk.  Keys and pc are those of its own module here, not of the     *)
(* hash table above.                                                       *)
(***************************************************************************)
CONSTANTS Items, Cut, Maps, MaxWrites
VARIABLES hashmap, left, tmpHash, offset, bin, index, full, flag, memIndex, data,
          writes, intact, source

Vector == INSTANCE HashVector

-----------------------------------------------------------------------------
(* Parts of sequences.                                                     *)

LEMMA Part ==
  ASSUME NEW A, NEW s \in Seq(A), NEW m \in Nat, NEW n \in Nat, m + n <= Len(s)
  PROVE  /\ SubSeq(s, m + 1, m + n) \in Seq(A)
         /\ Len(SubSeq(s, m + 1, m + n)) = n
         /\ \A i \in 1 .. n : SubSeq(s, m + 1, m + n)[i] = s[m + i]
  OBVIOUS

LEMMA EqualSequences ==
  ASSUME NEW A, NEW B, NEW s \in Seq(A), NEW t \in Seq(B), Len(s) = Len(t),
         \A i \in 1 .. Len(s) : s[i] = t[i]
  PROVE  s = t
  OBVIOUS

(* A part stays when something comes behind it.                            *)
LEMMA PartOfLonger ==
  ASSUME NEW A, NEW s \in Seq(A), NEW t \in Seq(A), NEW m \in Nat, NEW n \in Nat,
         m + n <= Len(s)
  PROVE  SubSeq(s \o t, m + 1, m + n) = SubSeq(s, m + 1, m + n)
  <1>1. s \o t \in Seq(A) /\ Len(s \o t) = Len(s) + Len(t)
    OBVIOUS
  <1>2. \A i \in 1 .. n : (s \o t)[m + i] = s[m + i]
    OBVIOUS
  <1> DEFINE u == s \o t
  <1>3. m + n <= Len(u) /\ u \in Seq(A) /\ \A i \in 1 .. n : u[m + i] = s[m + i]
    BY <1>1, <1>2
  <1> HIDE DEF u
  <1>4. /\ SubSeq(u, m + 1, m + n) \in Seq(A) /\ Len(SubSeq(u, m + 1, m + n)) = n
        /\ \A i \in 1 .. n : SubSeq(u, m + 1, m + n)[i] = u[m + i]
    BY <1>3, Part
  <1>5. /\ SubSeq(s, m + 1, m + n) \in Seq(A) /\ Len(SubSeq(s, m + 1, m + n)) = n
        /\ \A i \in 1 .. n : SubSeq(s, m + 1, m + n)[i] = s[m + i]
    BY Part
  <1> DEFINE x == SubSeq(u, m + 1, m + n)   y == SubSeq(s, m + 1, m + n)
  <1>6. x \in Seq(A) /\ y \in Seq(A) /\ Len(x) = Len(y) /\ \A i \in 1 .. Len(x) : x[i] = y[i]
    BY <1>3, <1>4, <1>5
  <1> HIDE DEF x, y
  <1>7. x = y
    BY <1>6, EqualSequences
  <1> QED
    BY <1>7 DEF x, y, u

(* What comes behind is a part.                                            *)
LEMMA PartBehind ==
  ASSUME NEW A, NEW s \in Seq(A), NEW t \in Seq(A)
  PROVE  SubSeq(s \o t, Len(s) + 1, Len(s) + Len(t)) = t
  <1> DEFINE u == s \o t   x == SubSeq(u, Len(s) + 1, Len(s) + Len(t))
  <1>1. /\ u \in Seq(A) /\ Len(u) = Len(s) + Len(t)
        /\ \A i \in 1 .. Len(t) : u[Len(s) + i] = t[i]
    OBVIOUS
  <1>2. Len(s) \in Nat /\ Len(t) \in Nat
    OBVIOUS
  <1> HIDE DEF u
  <1>3. /\ x \in Seq(A) /\ Len(x) = Len(t)
        /\ \A i \in 1 .. Len(t) : x[i] = u[Len(s) + i]
    BY <1>1, <1>2, Part
  <1> HIDE DEF x
  <1>4. x = t
    BY <1>1, <1>3, EqualSequences
  <1> QED
    BY <1>4 DEF x, u

(* A part of the beginning is a part of the whole.                         *)
LEMMA PartOfPart ==
  ASSUME NEW A, NEW s \in Seq(A), NEW l \in Nat, l <= Len(s),
         NEW m \in Nat, NEW n \in Nat, m + n <= l
  PROVE  SubSeq(SubSeq(s, 1, l), m + 1, m + n) = SubSeq(s, m + 1, m + n)
  <1> DEFINE u == SubSeq(s, 1, l)
             x == SubSeq(u, m + 1, m + n)   y == SubSeq(s, m + 1, m + n)
  <1>1. u \in Seq(A) /\ Len(u) = l /\ \A i \in 1 .. l : u[i] = s[i]
    OBVIOUS
  <1> HIDE DEF u
  <1>2. x \in Seq(A) /\ Len(x) = n /\ \A i \in 1 .. n : x[i] = u[m + i]
    BY <1>1, Part
  <1>3. y \in Seq(A) /\ Len(y) = n /\ \A i \in 1 .. n : y[i] = s[m + i]
    BY <1>1, Part
  <1>4. \A i \in 1 .. n : m + i \in 1 .. l
    OBVIOUS
  <1>5. \A i \in 1 .. n : x[i] = y[i]
    BY <1>1, <1>2, <1>3, <1>4
  <1> HIDE DEF x, y
  <1>6. x = y
    BY <1>2, <1>3, <1>5, EqualSequences
  <1> QED
    BY <1>6 DEF x, y, u

-----------------------------------------------------------------------------
(* The inductive invariant.                                                *)

(* The entry of k says where in some items the list of k is: it lies       *)
(* before bound, and is there as far as the items are.                     *)
EntryFits(ix, m, items, bound, k) ==
  /\ ix[k].count = Len(m[k]) /\ ix[k].offset \in Nat
  /\ ix[k].offset + ix[k].count <= bound
  /\ ix[k].offset + ix[k].count <= Len(items) =>
       SubSeq(items, ix[k].offset + 1, ix[k].offset + ix[k].count) = m[k]
IndexFits(ix, m, items, bound) ==
  /\ DOMAIN ix \subseteq DOMAIN m
  /\ \A k \in DOMAIN ix : EntryFits(ix, m, items, bound, k)

IsMap(m) == DOMAIN m \subseteq Keys /\ \A k \in DOMAIN m : m[k] \in Seq(Items)

Typed ==
  /\ pc \in {"idle", "items", "index"}
  /\ IsMap(hashmap) /\ left \subseteq DOMAIN hashmap
  /\ offset \in Nat
  /\ bin \in [exists : BOOLEAN, size : Nat, data : Seq(Items)]
  /\ index.state \in {"none", "partial", "whole"}
  /\ flag \in BOOLEAN /\ full \in BOOLEAN /\ data \in Seq(Items)
  /\ writes \in 0 .. MaxWrites

(* Every list that was written is where its entry says, and nothing is     *)
(* missing before the disk fails.                                          *)
Writing ==
  /\ IndexFits(tmpHash, hashmap, bin.data, offset)
  /\ pc # "idle" => /\ left = DOMAIN hashmap \ DOMAIN tmpHash
                    /\ Len(bin.data) <= offset
                    /\ ~full => Len(bin.data) = offset
  /\ pc = "index" => left = {} /\ bin.size = offset

(* After a write that returned true the files are those of its map.        *)
Complete ==
  intact.written =>
    /\ pc = "idle" /\ index.state = "whole"
    /\ IsMap(intact.map) /\ DOMAIN index.of = DOMAIN intact.map
    /\ IndexFits(index.of, intact.map, bin.data, bin.size)

(* What was read is whole.                                                 *)
ReadBack ==
  flag /\ source.written =>
    /\ IsMap(source.map) /\ DOMAIN memIndex = DOMAIN source.map
    /\ IndexFits(memIndex, source.map, data, Len(data))

VectorInv == Typed /\ Writing /\ Complete /\ ReadBack

LEMMA InitVector ==
  ASSUME Vector!HashVectorAssumption, Vector!Init
  PROVE  VectorInv
  <1>1. IsMap(Vector!NoMap) /\ DOMAIN Vector!NoMap = {}
    BY DEF IsMap, Vector!NoMap
  <1>2. bin = [exists |-> FALSE, size |-> 0, data |-> <<>>]
    BY DEF Vector!Init, Vector!NoFile
  <1>3. Typed
    <2>1. bin \in [exists : BOOLEAN, size : Nat, data : Seq(Items)]
      BY <1>2
    <2>2. /\ index = [state |-> "none", of |-> Vector!NoMap]
          /\ pc = "idle" /\ hashmap = Vector!NoMap /\ left = {} /\ offset = 0 /\ full = FALSE
          /\ flag = FALSE /\ data = <<>> /\ writes = 0
      BY DEF Vector!Init
    <2>3. index.state = "none"
      BY <2>2
    <2>4. MaxWrites \in Nat
      BY DEF Vector!HashVectorAssumption
    <2>5. IsMap(hashmap) /\ left \subseteq DOMAIN hashmap
      BY <1>1, <2>2
    <2>6. writes \in 0 .. MaxWrites /\ offset \in Nat /\ data \in Seq(Items)
      BY <2>2, <2>4
    <2> QED
      BY <2>1, <2>2, <2>3, <2>5, <2>6 DEF Typed
  <1>4. Writing
    BY <1>1 DEF Vector!Init, Writing, IndexFits
  <1>5. Complete /\ ReadBack
    BY DEF Vector!Init, Complete, ReadBack, Vector!Nothing
  <1> QED
    BY <1>3, <1>4, <1>5 DEF VectorInv

LEMMA BeginKeeps ==
  ASSUME Vector!HashVectorAssumption, VectorInv, Vector!Begin
  PROVE  VectorInv'
  <1>1. PICK m \in Maps : hashmap' = m /\ left' = DOMAIN m
    BY DEF Vector!Begin
  <1>2. IsMap(m)
    BY DEF Vector!HashVectorAssumption, IsMap
  <1>3. /\ pc' = "items" /\ tmpHash' = Vector!NoMap /\ offset' = 0 /\ full' = FALSE
        /\ bin' = [exists |-> TRUE, size |-> 0, data |-> <<>>]
        /\ writes' = writes + 1 /\ writes < MaxWrites /\ intact' = Vector!Nothing /\ index' = index
        /\ flag' = flag /\ memIndex' = memIndex /\ data' = data /\ source' = source
    BY DEF Vector!Begin, Vector!Opened, Vector!reader
  <1>4. DOMAIN Vector!NoMap = {}
    BY DEF Vector!NoMap
  <1>5. Typed'
    <2>1. bin' \in [exists : BOOLEAN, size : Nat, data : Seq(Items)]
      BY <1>3
    <2>2. writes' \in 0 .. MaxWrites
      BY <1>3 DEF VectorInv, Typed, Vector!HashVectorAssumption
    <2> QED
      BY <1>1, <1>2, <1>3, <2>1, <2>2 DEF VectorInv, Typed, IsMap
  <1>6. Writing'
    <2>1. bin'.data = <<>> /\ Len(bin'.data) = 0
      BY <1>3
    <2> QED
      BY <1>1, <1>3, <1>4, <2>1 DEF Writing, IndexFits
  <1>7. Complete'
    BY <1>3 DEF Complete, Vector!Nothing
  <1>8. ReadBack'
    BY <1>3 DEF VectorInv, ReadBack
  <1> QED
    BY <1>5, <1>6, <1>7, <1>8 DEF VectorInv

(* What is stored has the length of what was given.                        *)
LEMMA StoredList ==
  ASSUME Vector!HashVectorAssumption, NEW s \in Seq(Items)
  PROVE  Vector!Stored(s) \in Seq(Items) /\ Len(Vector!Stored(s)) = Len(s)
  <1>1. \A i \in 1 .. Len(s) : Cut[s[i]] \in Items
    BY DEF Vector!HashVectorAssumption
  <1>2. Vector!Stored(s) = [i \in 1 .. Len(s) |-> Cut[s[i]]] /\ Len(s) \in Nat
    BY DEF Vector!Stored
  <1> QED
    BY <1>1, <1>2

LEMMA WriteKeyKeeps ==
  ASSUME Vector!HashVectorAssumption, VectorInv, Vector!WriteKey
  PROVE  VectorInv'
  <1>1. PICK k \in left :
          /\ left' = left \ {k}
          /\ tmpHash' = Vector!Inserted(k)
          /\ offset' = offset + Len(hashmap[k])
          /\ hashmap' = [hashmap EXCEPT ![k] = Vector!Stored(@)]
          /\ \/ ~full /\ full' = full /\ bin' = [bin EXCEPT !.data = @ \o Vector!Stored(hashmap[k])]
             \/ full' = TRUE /\ bin' = bin
    BY DEF Vector!WriteKey
  <1>2. /\ pc = "items" /\ pc' = pc /\ index' = index /\ writes' = writes /\ intact' = intact
        /\ flag' = flag /\ memIndex' = memIndex /\ data' = data /\ source' = source
    BY DEF Vector!WriteKey, Vector!reader
  <1>3. Typed /\ Writing
    BY DEF VectorInv
  <1> DEFINE old == hashmap[k]
             new == Vector!Stored(hashmap[k])
             on == bin.data
             then == bin'.data
  <1>4. k \in DOMAIN hashmap /\ k \notin DOMAIN tmpHash /\ old \in Seq(Items) /\ k \in Keys
    BY <1>2, <1>3 DEF Typed, Writing, IsMap
  <1>5. new \in Seq(Items) /\ Len(new) = Len(old) /\ Len(old) \in Nat
    BY <1>4, StoredList
  <1>6. /\ DOMAIN hashmap' = DOMAIN hashmap /\ hashmap'[k] = new
        /\ \A l \in DOMAIN hashmap : l # k => hashmap'[l] = hashmap[l]
    BY <1>1, <1>4
  <1>7. /\ DOMAIN tmpHash' = DOMAIN tmpHash \union {k}
        /\ tmpHash'[k] = [count |-> Len(old), offset |-> offset]
        /\ \A l \in DOMAIN tmpHash : tmpHash'[l] = tmpHash[l]
    BY <1>1, <1>4 DEF Vector!Inserted, Vector!Entry
  <1>8. /\ offset \in Nat /\ on \in Seq(Items) /\ Len(on) \in Nat /\ Len(on) <= offset
        /\ ~full => Len(on) = offset
    BY <1>2, <1>3 DEF Typed, Writing
  <1>9. /\ bin' \in [exists : BOOLEAN, size : Nat, data : Seq(Items)]
        /\ \/ ~full /\ full' = full /\ then = on \o new
           \/ full' = TRUE /\ then = on
    <2>1. bin \in [exists : BOOLEAN, size : Nat, data : Seq(Items)] /\ on \o new \in Seq(Items)
      BY <1>3, <1>5, <1>8 DEF Typed
    <2>2. CASE ~full /\ full' = full /\ bin' = [bin EXCEPT !.data = @ \o new]
      <3>1. bin' = [bin EXCEPT !.data = on \o new]
        BY <2>2
      <3>2. then = on \o new
        BY <2>1, <3>1
      <3>3. bin' \in [exists : BOOLEAN, size : Nat, data : Seq(Items)]
        BY <2>1, <3>1
      <3> QED
        BY <2>2, <3>2, <3>3
    <2>3. CASE full' = TRUE /\ bin' = bin
      BY <2>1, <2>3
    <2> QED
      BY <1>1, <2>2, <2>3
  <1> HIDE DEF new, on, then, old
  <1>10. /\ then \in Seq(Items) /\ Len(then) \in Nat /\ Len(then) <= offset'
         /\ ~full' => Len(then) = offset'
    <2>1. offset' = offset + Len(old)
      BY <1>1 DEF old
    <2>2. CASE ~full /\ full' = full /\ then = on \o new
      <3>1. \A u, v \in Seq(Items) : u \o v \in Seq(Items) /\ Len(u \o v) = Len(u) + Len(v)
        OBVIOUS
      <3>2. Len(then) = Len(on) + Len(new) /\ then \in Seq(Items)
        BY <1>5, <1>8, <2>2, <3>1, Zenon
      <3>3. Len(on) = offset
        BY <1>8, <2>2
      <3> HIDE DEF then
      <3>4. Len(then) = offset' /\ offset' \in Nat
        BY <1>5, <1>8, <2>1, <3>2, <3>3
      <3> QED
        BY <3>2, <3>4
    <2>3. CASE full' = TRUE /\ then = on
      BY <1>5, <1>8, <2>1, <2>3
    <2> QED
      BY <1>9, <2>2, <2>3
  <1>11. IndexFits(tmpHash', hashmap', then, offset')
    <2>0. offset' = offset + Len(old)
      BY <1>1 DEF old
    <2>1. ASSUME NEW l \in DOMAIN tmpHash
          PROVE  EntryFits(tmpHash', hashmap', then, offset', l)
      <3>1. l # k /\ l \in DOMAIN hashmap
        BY <1>3, <1>4 DEF Writing, IndexFits
      <3>2. tmpHash'[l] = tmpHash[l] /\ hashmap'[l] = hashmap[l]
        BY <1>6, <1>7, <3>1
      <3>3. EntryFits(tmpHash, hashmap, on, offset, l)
        BY <1>3 DEF Writing, IndexFits, on
      <3> DEFINE c == tmpHash[l].count   o == tmpHash[l].offset   m == hashmap[l]
      <3>4. /\ c = Len(m) /\ o \in Nat /\ o + c <= offset
            /\ o + c <= Len(on) => SubSeq(on, o + 1, o + c) = m
        BY <3>3 DEF EntryFits
      <3>5. c \in Nat
        <4>1. m \in Seq(Items)
          BY <1>3, <3>1 DEF Typed, IsMap
        <4> QED
          BY <3>4, <4>1
      <3> HIDE DEF c, o, m
      <3>6. o + c <= Len(then) => SubSeq(then, o + 1, o + c) = m
        <4>1. CASE ~full /\ then = on \o new
          <5>1. o + c <= Len(on)
            BY <1>8, <3>4, <4>1
          <5>2. SubSeq(on \o new, o + 1, o + c) = SubSeq(on, o + 1, o + c)
            BY <1>5, <1>8, <3>4, <3>5, <5>1, PartOfLonger
          <5> QED
            BY <3>4, <4>1, <5>1, <5>2
        <4>2. CASE then = on
          BY <3>4, <4>2
        <4> QED
          BY <1>9, <4>1, <4>2
      <3>7. o + c <= offset'
        BY <1>5, <1>8, <2>0, <3>4, <3>5
      <3> QED
        BY <3>2, <3>4, <3>6, <3>7 DEF EntryFits, c, o, m
    <2>2. EntryFits(tmpHash', hashmap', then, offset', k)
      <3>1. tmpHash'[k].count = Len(old) /\ tmpHash'[k].offset = offset
        BY <1>7
      <3>2. offset + Len(old) <= Len(then) => SubSeq(then, offset + 1, offset + Len(old)) = new
        <4>1. CASE ~full /\ then = on \o new
          <5>1. SubSeq(on \o new, Len(on) + 1, Len(on) + Len(new)) = new
            BY <1>5, <1>8, PartBehind
          <5>2. Len(on) = offset
            BY <1>8, <4>1
          <5> QED
            BY <1>5, <4>1, <5>1, <5>2
        <4>2. CASE then = on
          <5>1. SUFFICES ASSUME offset + Len(old) <= Len(on)
                         PROVE  SubSeq(on, offset + 1, offset + Len(old)) = new
            BY <4>2
          <5>2. Len(old) = 0
            BY <1>5, <1>8, <5>1
          <5> DEFINE x == SubSeq(on, offset + 1, offset + Len(old))
          <5>3. x \in Seq(Items) /\ Len(x) = 0
            BY <1>5, <1>8, <5>1, <5>2, Part
          <5> HIDE DEF x
          <5>4. x = new
            BY <1>5, <5>2, <5>3, EqualSequences
          <5> QED
            BY <5>4 DEF x
        <4> QED
          BY <1>9, <4>1, <4>2
      <3>3. offset \in Nat /\ offset + Len(old) <= offset'
        BY <1>5, <1>8, <2>0
      <3>4. hashmap'[k] = new /\ Len(old) = Len(new)
        BY <1>5, <1>6
      <3> QED
        BY <3>1, <3>2, <3>3, <3>4 DEF EntryFits
    <2>3. DOMAIN tmpHash' \subseteq DOMAIN hashmap'
      BY <1>3, <1>4, <1>6, <1>7 DEF Writing, IndexFits
    <2> QED
      BY <1>7, <2>1, <2>2, <2>3 DEF IndexFits
  <1>12. Typed'
    <2>1. IsMap(hashmap')
      BY <1>3, <1>4, <1>5, <1>6 DEF Typed, IsMap
    <2>2. left' \subseteq DOMAIN hashmap'
      BY <1>1, <1>3, <1>6 DEF Typed
    <2>3. offset' \in Nat
      BY <1>1, <1>5, <1>8 DEF old
    <2>4. full' \in BOOLEAN
      BY <1>3, <1>9 DEF Typed
    <2> QED
      BY <1>2, <1>3, <1>9, <2>1, <2>2, <2>3, <2>4 DEF Typed, IsMap
  <1>13. Writing'
    <2>1. left' = DOMAIN hashmap' \ DOMAIN tmpHash'
      BY <1>1, <1>2, <1>3, <1>4, <1>6, <1>7 DEF Writing
    <2> QED
      BY <1>2, <1>10, <1>11, <2>1 DEF Writing, then
  <1>14. Complete'
    BY <1>2 DEF VectorInv, Complete
  <1>15. ReadBack'
    BY <1>2 DEF VectorInv, ReadBack
  <1> QED
    BY <1>12, <1>13, <1>14, <1>15 DEF VectorInv

LEMMA WriteSizeKeeps ==
  ASSUME Vector!HashVectorAssumption, VectorInv, Vector!WriteSize
  PROVE  VectorInv'
  <1>1. /\ pc = "items" /\ left = {} /\ pc' = "index"
        /\ bin' = [bin EXCEPT !.size = offset]
        /\ hashmap' = hashmap /\ left' = left /\ tmpHash' = tmpHash /\ offset' = offset
        /\ index' = index /\ full' = full /\ writes' = writes /\ intact' = intact
        /\ flag' = flag /\ memIndex' = memIndex /\ data' = data /\ source' = source
    BY DEF Vector!WriteSize, Vector!SizeOfItems, Vector!reader
  <1>2. Typed /\ Writing
    BY DEF VectorInv
  <1>3. bin \in [exists : BOOLEAN, size : Nat, data : Seq(Items)] /\ offset \in Nat
    BY <1>2 DEF Typed
  <1>4. /\ bin' \in [exists : BOOLEAN, size : Nat, data : Seq(Items)]
        /\ bin'.size = offset /\ bin'.data = bin.data
    BY <1>1, <1>3
  <1>5. Typed'
    BY <1>1, <1>2, <1>4 DEF Typed, IsMap
  <1>6. Writing'
    BY <1>1, <1>2, <1>4 DEF Writing
  <1>7. Complete'
    BY <1>1 DEF VectorInv, Complete
  <1>8. ReadBack'
    BY <1>1 DEF VectorInv, ReadBack
  <1> QED
    BY <1>5, <1>6, <1>7, <1>8 DEF VectorInv

LEMMA WriteIndexKeeps ==
  ASSUME Vector!HashVectorAssumption, VectorInv, Vector!WriteIndex
  PROVE  VectorInv'
  <1>1. /\ pc = "index" /\ pc' = "idle"
        /\ hashmap' = hashmap /\ left' = left /\ tmpHash' = tmpHash /\ offset' = offset
        /\ bin' = bin /\ full' = full /\ writes' = writes
        /\ flag' = flag /\ memIndex' = memIndex /\ data' = data /\ source' = source
    BY DEF Vector!WriteIndex, Vector!reader
  <1>2. Typed /\ Writing /\ Complete
    BY DEF VectorInv
  <1>3. ~intact.written
    BY <1>1, <1>2 DEF Complete
  <1>4. index'.state \in {"none", "partial", "whole"}
    <2>1. CASE index' = [state |-> "whole", of |-> tmpHash]
      BY <2>1
    <2>2. CASE index' = index
      BY <1>2, <2>2 DEF Typed
    <2>3. CASE index' = [state |-> "partial", of |-> Vector!NoMap]
      BY <2>3
    <2> QED
      BY <2>1, <2>2, <2>3 DEF Vector!WriteIndex
  <1>5. Typed'
    BY <1>1, <1>2, <1>4 DEF Typed, IsMap
  <1>6. Writing'
    BY <1>1, <1>2 DEF Writing
  <1>7. Complete'
    <2>1. CASE /\ index' = [state |-> "whole", of |-> tmpHash]
               /\ intact' = [written |-> TRUE, map |-> hashmap]
      <3>1. /\ index'.state = "whole" /\ index'.of = tmpHash /\ intact'.map = hashmap
        BY <2>1
      <3>2. IsMap(hashmap)
        BY <1>2 DEF Typed
      <3>3. DOMAIN tmpHash = DOMAIN hashmap
        BY <1>1, <1>2 DEF Writing, IndexFits
      <3>4. IndexFits(tmpHash, hashmap, bin.data, bin.size)
        BY <1>1, <1>2 DEF Writing
      <3> QED
        BY <1>1, <3>1, <3>2, <3>3, <3>4 DEF Complete, IsMap
    <2>2. CASE intact' = intact
      BY <1>3, <2>2 DEF Complete
    <2> QED
      BY <2>1, <2>2 DEF Vector!WriteIndex
  <1>8. ReadBack'
    BY <1>1 DEF VectorInv, ReadBack
  <1> QED
    BY <1>5, <1>6, <1>7, <1>8 DEF VectorInv

LEMMA CrashKeeps ==
  ASSUME Vector!HashVectorAssumption, VectorInv, Vector!Crash
  PROVE  VectorInv'
  <1>1. /\ pc # "idle" /\ pc' = "idle"
        /\ hashmap' = hashmap /\ left' = left /\ tmpHash' = tmpHash /\ offset' = offset
        /\ bin' = bin /\ index' = index /\ full' = full /\ writes' = writes /\ intact' = intact
        /\ flag' = flag /\ memIndex' = memIndex /\ data' = data /\ source' = source
    BY DEF Vector!Crash, Vector!reader
  <1>2. Typed' /\ Writing'
    BY <1>1 DEF VectorInv, Typed, IsMap, Writing
  <1>3. Complete' /\ ReadBack'
    BY <1>1 DEF VectorInv, Complete, ReadBack
  <1> QED
    BY <1>2, <1>3 DEF VectorInv

(* A part of the file is enough when it is all that the size says.         *)
LEMMA FitsInPart ==
  ASSUME NEW ix, NEW m, IsMap(m), NEW items \in Seq(Items), NEW size \in Nat,
         size <= Len(items), IndexFits(ix, m, items, size)
  PROVE  IndexFits(ix, m, SubSeq(items, 1, size), size)
  <1>1. ASSUME NEW k \in DOMAIN ix
        PROVE  EntryFits(ix, m, SubSeq(items, 1, size), size, k)
    <2> DEFINE c == ix[k].count   o == ix[k].offset   l == m[k]
    <2>1. /\ c = Len(l) /\ o \in Nat /\ o + c <= size
          /\ o + c <= Len(items) => SubSeq(items, o + 1, o + c) = l
      BY DEF IndexFits, EntryFits
    <2>2. c \in Nat
      <3>1. l \in Seq(Items)
        BY DEF IndexFits, IsMap
      <3> QED
        BY <2>1, <3>1
    <2> HIDE DEF c, o, l
    <2>3. SubSeq(items, o + 1, o + c) = l
      BY <2>1, <2>2
    <2>4. SubSeq(SubSeq(items, 1, size), o + 1, o + c) = SubSeq(items, o + 1, o + c)
      BY <2>1, <2>2, PartOfPart
    <2> QED
      BY <2>1, <2>3, <2>4 DEF EntryFits, c, o, l
  <1> QED
    BY <1>1 DEF IndexFits

LEMMA ReadKeeps ==
  ASSUME Vector!HashVectorAssumption, VectorInv, Vector!Read
  PROVE  VectorInv'
  <1>1. /\ source' = intact
        /\ memIndex' = IF index.state = "none" THEN memIndex ELSE index.of
        /\ pc' = pc /\ hashmap' = hashmap /\ left' = left /\ tmpHash' = tmpHash
        /\ offset' = offset /\ bin' = bin /\ index' = index /\ full' = full
        /\ writes' = writes /\ intact' = intact
    BY DEF Vector!Read
  <1>2. Typed /\ Writing /\ Complete
    BY DEF VectorInv
  <1> DEFINE items == bin.data
             size == bin.size
             least == Min({size, Len(items)})
  <1>3. items \in Seq(Items) /\ size \in Nat /\ Len(items) \in Nat
    BY <1>2 DEF Typed
  <1>4. least = IF size <= Len(items) THEN size ELSE Len(items)
    <2> HIDE DEF size, items
    <2> QED
      BY <1>3 DEF Min
  <1>5. \/ /\ data' = SubSeq(items, 1, least) /\ flag' = (Len(items) >= size)
           /\ index.state # "none"
        \/ flag' = FALSE /\ data' = data
    BY DEF Vector!Read, Vector!SizeHolds, Vector!Min, Min
  <1> HIDE DEF items, size, least
  <1>6. SubSeq(items, 1, least) \in Seq(Items)
    BY <1>3, <1>4
  <1>7. Typed'
    <2>1. data' \in Seq(Items)
      BY <1>2, <1>5, <1>6 DEF Typed
    <2>2. flag' \in BOOLEAN
      <3>1. (Len(items) >= size) \in BOOLEAN
        BY <1>3
      <3> QED
        BY <1>5, <3>1
    <2> QED
      BY <1>1, <1>2, <2>1, <2>2 DEF Typed, IsMap
  <1>8. Writing' /\ Complete'
    BY <1>1, <1>2 DEF Writing, Complete
  <1>9. ReadBack'
    <2>1. SUFFICES ASSUME flag', intact.written
                   PROVE  /\ IsMap(intact.map) /\ DOMAIN memIndex' = DOMAIN intact.map
                          /\ IndexFits(memIndex', intact.map, data', Len(data'))
      BY <1>1 DEF ReadBack, IsMap
    <2>2. /\ data' = SubSeq(items, 1, least) /\ Len(items) >= size /\ index.state # "none"
      BY <1>5, <2>1, Zenon
    <2>3. /\ IsMap(intact.map) /\ DOMAIN index.of = DOMAIN intact.map
          /\ IndexFits(index.of, intact.map, items, size)
      BY <1>2, <2>1 DEF Complete, items, size
    <2>4. memIndex' = index.of
      BY <1>1, <2>2
    <2>5. data' = SubSeq(items, 1, size) /\ Len(data') = size
      BY <1>3, <1>4, <2>2
    <2>6. IndexFits(index.of, intact.map, SubSeq(items, 1, size), size)
      BY <1>3, <2>2, <2>3, FitsInPart
    <2> QED
      BY <2>3, <2>4, <2>5, <2>6
  <1> QED
    BY <1>7, <1>8, <1>9 DEF VectorInv

LEMMA VectorInvariant ==
  ASSUME Vector!HashVectorAssumption
  PROVE  Vector!Spec => []VectorInv
  <1>1. Vector!Init => VectorInv
    BY InitVector
  <1>2. VectorInv /\ [Vector!Next]_Vector!vars => VectorInv'
    <2>1. CASE UNCHANGED Vector!vars
      BY <2>1 DEF Vector!vars, VectorInv, Typed, IsMap, Writing, Complete, ReadBack
    <2> QED
      BY <2>1, BeginKeeps, WriteKeyKeeps, WriteSizeKeeps, WriteIndexKeeps, CrashKeeps,
         ReadKeeps DEF Vector!Next
  <1> QED
    BY <1>1, <1>2, PTL DEF Vector!Spec

-----------------------------------------------------------------------------

(***************************************************************************)
(* The entries of the index being written lie within the items counted so  *)
(* far, whatever failed: static_hash_vector.h:144.                         *)
(***************************************************************************)
THEOREM VectorTypeCorrect ==
  ASSUME Vector!HashVectorAssumption
  PROVE  Vector!Spec => []Vector!TypeOK
  <1>1. VectorInv => Vector!TypeOK
    <2>1. SUFFICES ASSUME VectorInv PROVE Vector!TypeOK
      OBVIOUS
    <2>2. Typed /\ Writing
      BY <2>1 DEF VectorInv
    <2>3. ASSUME NEW k \in DOMAIN tmpHash
          PROVE  /\ k \in Keys /\ tmpHash[k].offset \in 0 .. offset
                 /\ tmpHash[k].count \in 0 .. offset - tmpHash[k].offset
      <3>1. EntryFits(tmpHash, hashmap, bin.data, offset, k) /\ k \in DOMAIN hashmap
        BY <2>2 DEF Writing, IndexFits
      <3>2. k \in Keys /\ hashmap[k] \in Seq(Items)
        BY <2>2, <3>1 DEF Typed, IsMap
      <3> DEFINE c == tmpHash[k].count   o == tmpHash[k].offset
      <3>3. c \in Nat /\ o \in Nat /\ o + c <= offset
        <4>1. c = Len(hashmap[k]) /\ o \in Nat /\ o + c <= offset
          BY <3>1 DEF EntryFits
        <4>2. Len(hashmap[k]) \in Nat
          BY <3>2
        <4> QED
          BY <4>1, <4>2
      <3>4. offset \in Nat
        BY <2>2 DEF Typed
      <3> HIDE DEF c, o
      <3>5. o \in 0 .. offset /\ c \in 0 .. offset - o
        BY <3>3, <3>4
      <3> QED
        BY <3>2, <3>5 DEF c, o
    <2>4. bin.data \in Seq(Items) /\ bin.size \in Nat
      BY <2>2 DEF Typed
    <2> QED
      BY <2>2, <2>3, <2>4 DEF Typed, IsMap, Vector!TypeOK
  <1> QED
    BY <1>1, VectorInvariant, PTL

(***************************************************************************)
(* After a write that returned true, whatever crashed or failed before and *)
(* whatever items were lost unnoticed, an object that was read gives every *)
(* key exactly its list: static_hash_vector.h:144-325.                     *)
(***************************************************************************)
THEOREM ListsAreReadBack ==
  ASSUME Vector!HashVectorAssumption
  PROVE  Vector!Spec => []Vector!LookupExact
  <1>1. VectorInv => Vector!LookupExact
    <2>1. SUFFICES ASSUME VectorInv, flag, source.written, NEW k \in Keys
                   PROVE  /\ Vector!HasList(k) <=> k \in DOMAIN source.map
                          /\ Vector!HasList(k) => Vector!ListOf(k) = source.map[k]
      BY DEF Vector!LookupExact
    <2>2. /\ IsMap(source.map) /\ DOMAIN memIndex = DOMAIN source.map
          /\ IndexFits(memIndex, source.map, data, Len(data))
      BY <2>1 DEF VectorInv, ReadBack
    <2>3. CASE k \in DOMAIN memIndex
      <3>1. EntryFits(memIndex, source.map, data, Len(data), k)
        BY <2>2, <2>3 DEF IndexFits
      <3>2. memIndex[k].count = Len(source.map[k]) /\ source.map[k] \in Seq(Items)
        BY <2>2, <2>3, <3>1 DEF EntryFits, IsMap
      <3>3. memIndex[k] # Vector!Invalid
        <4>1. memIndex[k].count \in Nat
          BY <3>2
        <4>2. Vector!Invalid.count = -1
          BY DEF Vector!Invalid
        <4> QED
          BY <4>1, <4>2
      <3>4. Vector!EntryOf(k) = memIndex[k]
        BY <2>3 DEF Vector!EntryOf
      <3>5. Vector!HasList(k)
        BY <2>1, <3>3, <3>4 DEF Vector!HasList
      <3>6. Vector!ListOf(k) = source.map[k]
        BY <3>1, <3>4 DEF EntryFits, Vector!ListOf
      <3> QED
        BY <2>2, <2>3, <3>5, <3>6
    <2>4. CASE k \notin DOMAIN memIndex
      BY <2>2, <2>4 DEF Vector!EntryOf, Vector!HasList
    <2> QED
      BY <2>3, <2>4
  <1> QED
    BY <1>1, VectorInvariant, PTL
=============================================================================
