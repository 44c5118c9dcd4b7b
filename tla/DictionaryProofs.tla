--------------------------- MODULE DictionaryProofs ---------------------------
(***************************************************************************)
(* Theorems about DictionaryTrie, for all words, bytes and texts.          *)
(*                                                                         *)
(* A trie is Sound when its nodes form a tree, the leaves' tails are whole *)
(* and apart, and the leaves are numbered.  While an insertion is under    *)
(* way one node, the open one, may have neither children nor a tail yet.   *)
(* Has(T, o, v, d) says what a trie is for: the word v is in it, with the  *)
(* number d.  Each operation keeps the trie sound, and of what it has      *)
(* changes nothing (CHANGE_BC, the chain of TAIL_INSERT) or adds one word  *)
(* (Separate).  search(), fmm() and bmm() are then shown to answer what    *)
(* the trie has.                                                           *)
(***************************************************************************)
EXTENDS DictionaryTrie, SetInduction, FiniteSetTheorems, TLAPS

-----------------------------------------------------------------------------
(* The arrays.                                                             *)

Cells == [base : Int, check : Int, detail : Int]
TriesOf(p, q) ==
  [m_pnBC : [0 .. p -> Cells], m_nBC_POS : {p},
   m_psTAIL : [0 .. q - 1 -> Codes], m_nTAIL_POS : {q},
   m_nPreCurrent_Detail_Pos : Nat, m_nDictWordCount : Nat, m_nMaxLenOfWord : Nat]
Tries == UNION {TriesOf(x[1], x[2]) : x \in (Nat \ {0}) \X (Nat \ {0})}

SameCounters(T, U) ==
  /\ U.m_nPreCurrent_Detail_Pos = T.m_nPreCurrent_Detail_Pos
  /\ U.m_nDictWordCount = T.m_nDictWordCount
  /\ U.m_nMaxLenOfWord = T.m_nMaxLenOfWord
SameTail(T, U) == U.m_psTAIL = T.m_psTAIL /\ U.m_nTAIL_POS = T.m_nTAIL_POS
SameNodes(T, U) == U.m_pnBC = T.m_pnBC /\ U.m_nBC_POS = T.m_nBC_POS

LEMMA TrieFields ==
  ASSUME NEW T \in Tries
  PROVE  /\ T.m_nBC_POS \in Nat \ {0} /\ T.m_nTAIL_POS \in Nat \ {0}
         /\ T.m_pnBC \in [0 .. T.m_nBC_POS -> Cells]
         /\ T.m_psTAIL \in [0 .. T.m_nTAIL_POS - 1 -> Codes]
         /\ T.m_nPreCurrent_Detail_Pos \in Nat /\ T.m_nDictWordCount \in Nat
         /\ T.m_nMaxLenOfWord \in Nat
  <1>1. PICK p \in Nat \ {0}, q \in Nat \ {0} : T \in TriesOf(p, q)
    BY DEF Tries
  <1> QED
    BY <1>1 DEF TriesOf

LEMMA TrieMade ==
  ASSUME NEW p \in Nat \ {0}, NEW q \in Nat \ {0}, NEW T \in TriesOf(p, q)
  PROVE  T \in Tries
  <1>1. <<p, q>> \in (Nat \ {0}) \X (Nat \ {0})
    OBVIOUS
  <1>2. TriesOf(<<p, q>>[1], <<p, q>>[2]) = TriesOf(p, q)
    OBVIOUS
  <1> QED
    BY <1>1, <1>2 DEF Tries

LEMMA TrieOf ==
  ASSUME NEW T \in Tries
  PROVE  T \in TriesOf(T.m_nBC_POS, T.m_nTAIL_POS)
  <1>1. PICK p \in Nat \ {0}, q \in Nat \ {0} : T \in TriesOf(p, q)
    BY DEF Tries
  <1>2. T.m_nBC_POS = p /\ T.m_nTAIL_POS = q
    BY <1>1 DEF TriesOf
  <1> QED
    BY <1>1, <1>2

LEMMA CellTypes ==
  ASSUME NEW T \in Tries, NEW n \in Nat
  PROVE  /\ Cell(T, n) \in Cells
         /\ BASE(T, n) \in Int /\ CHECK(T, n) \in Int /\ DETAIL(T, n) \in Int
         /\ n > T.m_nBC_POS => Cell(T, n) = Free
  <1>1. T.m_nBC_POS \in Nat /\ T.m_pnBC \in [0 .. T.m_nBC_POS -> Cells]
    BY TrieFields
  <1>2. Cell(T, n) \in Cells
    <2>1. CASE n > T.m_nBC_POS
      BY <2>1 DEF Cell, Free, Cells
    <2>2. CASE ~ (n > T.m_nBC_POS)
      <3>1. n \in 0 .. T.m_nBC_POS
        BY <1>1, <2>2
      <3> QED
        BY <1>1, <2>2, <3>1 DEF Cell
    <2> QED
      BY <2>1, <2>2
  <1>3. BASE(T, n) \in Int /\ CHECK(T, n) \in Int /\ DETAIL(T, n) \in Int
    BY <1>2 DEF BASE, CHECK, DETAIL, Cells
  <1>4. n > T.m_nBC_POS => Cell(T, n) = Free
    BY DEF Cell
  <1> QED
    BY <1>2, <1>3, <1>4

(* What a write of one cell does, and that it does nothing else.           *)
LEMMA WriteCell ==
  ASSUME NEW T \in Tries, NEW n \in Nat, NEW c \in Cells
  PROVE  /\ Write(T, n, c) \in Tries
         /\ SameTail(T, Write(T, n, c)) /\ SameCounters(T, Write(T, n, c))
         /\ \A m \in Nat : Cell(Write(T, n, c), m) = IF m = n THEN c ELSE Cell(T, m)
  <1> DEFINE p == IF n > T.m_nBC_POS THEN n ELSE T.m_nBC_POS
             q == T.m_nTAIL_POS
             bc == [m \in 0 .. p |-> IF m = n THEN c ELSE Cell(T, m)]
             U == Write(T, n, c)
  <1>1. T.m_nBC_POS \in Nat \ {0} /\ q \in Nat \ {0}
    BY TrieFields
  <1>2. p \in Nat \ {0} /\ n <= p /\ T.m_nBC_POS <= p
    BY <1>1
  <1>3. bc \in [0 .. p -> Cells]
    <2>1. \A m \in 0 .. p : m \in Nat
      OBVIOUS
    <2>2. \A m \in 0 .. p : Cell(T, m) \in Cells
      BY <2>1, CellTypes
    <2> QED
      BY <2>2
  <1>4. U = [T EXCEPT !.m_pnBC = bc, !.m_nBC_POS = p]
    BY DEF Write
  <1>5. T \in TriesOf(T.m_nBC_POS, q)
    BY TrieOf
  <1> HIDE DEF bc, p, U, q
  <1>6. U \in TriesOf(p, q)
    BY <1>3, <1>4, <1>5 DEF TriesOf
  <1>7. U.m_pnBC = bc /\ U.m_nBC_POS = p
    BY <1>4, <1>5 DEF TriesOf
  <1>8. SameTail(T, U) /\ SameCounters(T, U)
    BY <1>4, <1>5 DEF TriesOf, SameTail, SameCounters
  <1>9. ASSUME NEW m \in Nat PROVE Cell(U, m) = IF m = n THEN c ELSE Cell(T, m)
    <2>1. CASE m > p
      <3>1. m # n /\ m > T.m_nBC_POS
        BY <1>1, <1>2, <2>1
      <3> QED
        BY <1>7, <2>1, <3>1 DEF Cell
    <2>2. CASE ~ (m > p)
      <3>1. m \in 0 .. p
        BY <1>2, <2>2
      <3>2. bc[m] = IF m = n THEN c ELSE Cell(T, m)
        BY <3>1 DEF bc
      <3> QED
        BY <1>7, <2>2, <3>2 DEF Cell
    <2> QED
      BY <2>1, <2>2
  <1>10. U \in Tries
    BY <1>1, <1>2, <1>6, TrieMade
  <1> QED
    BY <1>8, <1>9, <1>10 DEF U

(* A trie U is T but for BASE, CHECK or DETAIL of one node.                *)
Beside(T, U) == U \in Tries /\ SameTail(T, U) /\ SameCounters(T, U)
OnlyBase(T, U, n, v) ==
  \A m \in Nat : /\ BASE(U, m) = IF m = n THEN v ELSE BASE(T, m)
                 /\ CHECK(U, m) = CHECK(T, m) /\ DETAIL(U, m) = DETAIL(T, m)
OnlyCheck(T, U, n, v) ==
  \A m \in Nat : /\ CHECK(U, m) = IF m = n THEN v ELSE CHECK(T, m)
                 /\ BASE(U, m) = BASE(T, m) /\ DETAIL(U, m) = DETAIL(T, m)
OnlyDetail(T, U, n, v) ==
  \A m \in Nat : /\ DETAIL(U, m) = IF m = n THEN v ELSE DETAIL(T, m)
                 /\ BASE(U, m) = BASE(T, m) /\ CHECK(U, m) = CHECK(T, m)

LEMMA Writes ==
  ASSUME NEW T \in Tries, NEW n \in Nat, NEW v \in Int
  PROVE  /\ Beside(T, Write_BASE(T, n, v)) /\ OnlyBase(T, Write_BASE(T, n, v), n, v)
         /\ Beside(T, Write_CHECK(T, n, v)) /\ OnlyCheck(T, Write_CHECK(T, n, v), n, v)
         /\ Beside(T, Write_DETAIL(T, n, v)) /\ OnlyDetail(T, Write_DETAIL(T, n, v), n, v)
  <1>1. Cell(T, n) \in Cells
    BY CellTypes
  <1>2. Beside(T, Write_BASE(T, n, v)) /\ OnlyBase(T, Write_BASE(T, n, v), n, v)
    <2> DEFINE c == [Cell(T, n) EXCEPT !.base = v]
    <2>1. c \in Cells /\ c.base = v /\ c.check = Cell(T, n).check /\ c.detail = Cell(T, n).detail
      BY <1>1 DEF Cells
    <2> HIDE DEF c
    <2>2. /\ Write(T, n, c) \in Tries
          /\ SameTail(T, Write(T, n, c)) /\ SameCounters(T, Write(T, n, c))
          /\ \A m \in Nat : Cell(Write(T, n, c), m) = IF m = n THEN c ELSE Cell(T, m)
      BY <2>1, WriteCell
    <2>3. Write_BASE(T, n, v) = Write(T, n, c)
      BY DEF Write_BASE, c
    <2>4. OnlyBase(T, Write(T, n, c), n, v)
      BY <2>1, <2>2 DEF OnlyBase, BASE, CHECK, DETAIL
    <2> QED
      BY <2>2, <2>3, <2>4 DEF Beside
  <1>3. Beside(T, Write_CHECK(T, n, v)) /\ OnlyCheck(T, Write_CHECK(T, n, v), n, v)
    <2> DEFINE c == [Cell(T, n) EXCEPT !.check = v]
    <2>1. c \in Cells /\ c.check = v /\ c.base = Cell(T, n).base /\ c.detail = Cell(T, n).detail
      BY <1>1 DEF Cells
    <2> HIDE DEF c
    <2>2. /\ Write(T, n, c) \in Tries
          /\ SameTail(T, Write(T, n, c)) /\ SameCounters(T, Write(T, n, c))
          /\ \A m \in Nat : Cell(Write(T, n, c), m) = IF m = n THEN c ELSE Cell(T, m)
      BY <2>1, WriteCell
    <2>3. Write_CHECK(T, n, v) = Write(T, n, c)
      BY DEF Write_CHECK, c
    <2>4. OnlyCheck(T, Write(T, n, c), n, v)
      BY <2>1, <2>2 DEF OnlyCheck, BASE, CHECK, DETAIL
    <2> QED
      BY <2>2, <2>3, <2>4 DEF Beside
  <1>4. Beside(T, Write_DETAIL(T, n, v)) /\ OnlyDetail(T, Write_DETAIL(T, n, v), n, v)
    <2> DEFINE c == [Cell(T, n) EXCEPT !.detail = v]
    <2>1. c \in Cells /\ c.detail = v /\ c.base = Cell(T, n).base /\ c.check = Cell(T, n).check
      BY <1>1 DEF Cells
    <2> HIDE DEF c
    <2>2. /\ Write(T, n, c) \in Tries
          /\ SameTail(T, Write(T, n, c)) /\ SameCounters(T, Write(T, n, c))
          /\ \A m \in Nat : Cell(Write(T, n, c), m) = IF m = n THEN c ELSE Cell(T, m)
      BY <2>1, WriteCell
    <2>3. Write_DETAIL(T, n, v) = Write(T, n, c)
      BY DEF Write_DETAIL, c
    <2>4. OnlyDetail(T, Write(T, n, c), n, v)
      BY <2>1, <2>2 DEF OnlyDetail, BASE, CHECK, DETAIL
    <2> QED
      BY <2>2, <2>3, <2>4 DEF Beside
  <1> QED
    BY <1>2, <1>3, <1>4

LEMMA BesideTwice ==
  ASSUME NEW T, NEW U, NEW W, Beside(T, U), Beside(U, W)
  PROVE  Beside(T, W)
  BY DEF Beside, SameTail, SameCounters

LEMMA SameCells ==
  ASSUME NEW T, NEW U, SameNodes(T, U), NEW n
  PROVE  /\ Cell(U, n) = Cell(T, n) /\ BASE(U, n) = BASE(T, n)
         /\ CHECK(U, n) = CHECK(T, n) /\ DETAIL(U, n) = DETAIL(T, n)
  BY DEF SameNodes, Cell, BASE, CHECK, DETAIL

(* What a write to the tail does.                                          *)
LEMMA WriteTail ==
  ASSUME NEW T \in Tries, NEW s \in Seq(Codes), NEW p \in 1 .. T.m_nTAIL_POS
  PROVE  /\ Write_TAIL(T, s, p) \in Tries
         /\ SameNodes(T, Write_TAIL(T, s, p)) /\ SameCounters(T, Write_TAIL(T, s, p))
         /\ Write_TAIL(T, s, p).m_nTAIL_POS =
              IF p + Len(s) > T.m_nTAIL_POS THEN p + Len(s) ELSE T.m_nTAIL_POS
         /\ \A q \in 0 .. Write_TAIL(T, s, p).m_nTAIL_POS - 1 :
              Write_TAIL(T, s, p).m_psTAIL[q] =
                IF q \in p .. p + Len(s) - 1 THEN s[q - p + 1] ELSE T.m_psTAIL[q]
  <1> DEFINE l == Len(s)
             old == T.m_nTAIL_POS
             end == IF p + l + 1 > old THEN p + l ELSE old
             tail == [q \in 0 .. end - 1 |-> IF q \in p .. p + l - 1
                                             THEN s[q - p + 1] ELSE T.m_psTAIL[q]]
             U == Write_TAIL(T, s, p)
             b == T.m_nBC_POS
  <1>1. /\ old \in Nat \ {0} /\ b \in Nat \ {0}
        /\ T.m_psTAIL \in [0 .. old - 1 -> Codes]
    BY TrieFields
  <1>2. l \in Nat /\ p \in Nat \ {0} /\ p <= old /\ \A k \in 1 .. l : s[k] \in Codes
    BY <1>1
  <1>3. end = (IF p + l > old THEN p + l ELSE old) /\ end \in Nat \ {0} /\ p + l <= end
        /\ (end > old => end = p + l)
    <2>1. p \in Nat /\ l \in Nat /\ old \in Nat /\ old > 0 /\ p > 0
      BY <1>1, <1>2
    <2> HIDE DEF l, old
    <2>2. p + l + 1 > old <=> p + l >= old
      BY <2>1
    <2> QED
      BY <2>1, <2>2, <1>2
  <1>4. tail \in [0 .. end - 1 -> Codes]
    <2>1. ASSUME NEW q \in 0 .. end - 1
          PROVE (IF q \in p .. p + l - 1 THEN s[q - p + 1] ELSE T.m_psTAIL[q]) \in Codes
      <3>1. CASE q \in p .. p + l - 1
        <4>1. q - p + 1 \in 1 .. l
          BY <1>2, <3>1
        <4> QED
          BY <1>2, <3>1, <4>1
      <3>2. CASE q \notin p .. p + l - 1
        <4>1. q \in 0 .. old - 1
          BY <1>1, <1>2, <1>3, <3>2
        <4> QED
          BY <1>1, <3>2, <4>1
      <3> QED
        BY <3>1, <3>2
    <2> QED
      BY <2>1
  <1>5. U = [T EXCEPT !.m_psTAIL = tail, !.m_nTAIL_POS = end]
    <2>1. T \in TriesOf(b, old)
      BY TrieOf
    <2> QED
      BY <2>1 DEF Write_TAIL, TriesOf
  <1>6. T \in TriesOf(b, old)
    BY TrieOf
  <1> HIDE DEF tail, end, U, old, b
  <1>7. U \in TriesOf(b, end) /\ U.m_psTAIL = tail /\ U.m_nTAIL_POS = end
    BY <1>3, <1>4, <1>5, <1>6 DEF TriesOf
  <1>8. SameNodes(T, U) /\ SameCounters(T, U)
    BY <1>5, <1>6 DEF TriesOf, SameNodes, SameCounters
  <1>9. \A q \in 0 .. end - 1 : tail[q] = IF q \in p .. p + l - 1 THEN s[q - p + 1] ELSE T.m_psTAIL[q]
    BY DEF tail
  <1>10. U \in Tries
    BY <1>1, <1>3, <1>7, TrieMade
  <1> QED
    BY <1>3, <1>7, <1>8, <1>9, <1>10 DEF U, old, l

-----------------------------------------------------------------------------
(* Walks.                                                                  *)

LEMMA ChildTypes ==
  ASSUME NEW T \in Tries, NEW n \in Nat, NEW c \in Nat
  PROVE  Child(T, n, c) \in Nat
  <1>1. BASE(T, n) \in Int
    BY CellTypes
  <1> QED
    BY <1>1 DEF Child

LEMMA PathIs ==
  ASSUME NEW T \in Tries, NEW key \in Seq(Nat)
  PROVE  /\ Path(T, key) \in [0 .. Len(key) -> Nat] /\ Path(T, key)[0] = 1
         /\ \A h \in 1 .. Len(key) : Path(T, key)[h] = Child(T, Path(T, key)[h - 1], key[h])
  <1> DEFINE N == Len(key)
             S == [h \in 1 .. N |-> [n \in Nat |-> Child(T, n, key[h])]]
             body(h, g) == IF h = 0 THEN 1 ELSE Child(T, g[h - 1], key[h])
  <1>1. N \in Nat /\ \A h \in 1 .. N : key[h] \in Nat
    OBVIOUS
  <1>2. S \in [1 .. N -> [Nat -> Nat]]
    BY <1>1, ChildTypes
  <1>3. PICK f \in [0 .. N -> Nat] : Iterates(N, 1, S, f)
    <2>1. 1 \in Nat
      OBVIOUS
    <2> HIDE DEF S
    <2> QED
      BY <1>1, <1>2, <2>1, Iteration
  <1>4. \A h \in 0 .. N : f[h] = body(h, f)
    <2>1. ASSUME NEW h \in 0 .. N, h # 0 PROVE f[h] = Child(T, f[h - 1], key[h])
      <3>1. h \in 1 .. N /\ h - 1 \in 0 .. N
        BY <1>1, <2>1
      <3>2. f[h - 1] \in Nat
        BY <3>1
      <3>3. f[h] = S[h][f[h - 1]]
        BY <1>3, <3>1 DEF Iterates
      <3> QED
        BY <3>1, <3>2, <3>3
    <2>2. f[0] = 1
      BY <1>3 DEF Iterates
    <2> QED
      BY <2>1, <2>2
  <1> HIDE DEF body
  <1>5. f = [h \in 0 .. N |-> body(h, f)]
    BY <1>4
  <1>6. \E g : g = [h \in 0 .. N |-> body(h, g)]
    BY <1>5
  <1> DEFINE P == CHOOSE g : g = [h \in 0 .. N |-> body(h, g)]
  <1>7. Path(T, key) = P
    BY DEF Path, body
  <1>8. P = [h \in 0 .. N |-> body(h, P)]
    <2> HIDE DEF N
    <2> QED
      BY <1>6, <1>7, Zenon
  <1> HIDE DEF P
  <1>9. \A h \in 0 .. N : P[h] = IF h = 0 THEN 1 ELSE Child(T, P[h - 1], key[h])
    BY <1>8 DEF body
  <1>10. P[0] = 1 /\ \A h \in 1 .. N : P[h] = Child(T, P[h - 1], key[h])
    BY <1>1, <1>9
  <1>11. \A h \in Nat : h \in 0 .. N => P[h] \in Nat
    <2> DEFINE I == {h \in Nat : h \in 0 .. N => P[h] \in Nat}
    <2>1. 0 \in I
      BY <1>10
    <2>2. ASSUME NEW h \in Nat, h \in I PROVE h + 1 \in I
      <3>1. SUFFICES ASSUME h + 1 \in 0 .. N PROVE P[h + 1] \in Nat
        OBVIOUS
      <3>2. h \in 0 .. N /\ h + 1 \in 1 .. N /\ (h + 1) - 1 = h
        BY <1>1, <3>1
      <3>3. P[h] \in Nat
        BY <2>2, <3>2
      <3>4. P[h + 1] = Child(T, P[h], key[h + 1])
        BY <1>10, <3>2
      <3> QED
        BY <1>1, <3>2, <3>3, <3>4, ChildTypes
    <2> HIDE DEF I
    <2>3. \A h \in Nat : h \in I
      BY <2>1, <2>2, Induction
    <2> QED
      BY <2>3 DEF I
  <1>12. P \in [0 .. N -> Nat]
    BY <1>1, <1>8, <1>11
  <1> QED
    BY <1>7, <1>10, <1>12

LEMMA MinIs ==
  ASSUME NEW S, S \subseteq Nat, S # {}
  PROVE  Min(S) \in S /\ \A x \in S : Min(S) <= x
  <1>1. \E n \in S : \A m \in S : n <= m
    BY Least
  <1> QED
    BY <1>1 DEF Min

LEMMA MaxIs ==
  ASSUME NEW k \in Nat, NEW S, S \subseteq 0 .. k, S # {}
  PROVE  Max(S) \in S /\ \A x \in S : Max(S) >= x
  <1> DEFINE R == {k - x : x \in S}
  <1>1. R \subseteq Nat /\ R # {}
    <2>1. \A x \in S : k - x \in Nat
      OBVIOUS
    <2> QED
      BY <2>1
  <1> HIDE DEF R
  <1>2. PICK r \in R : \A m \in R : r <= m
    BY <1>1, Least
  <1>3. PICK n \in S : r = k - n
    BY DEF R
  <1>4. ASSUME NEW m \in S PROVE n >= m
    <2>1. k - m \in R
      BY DEF R
    <2>2. k - n <= k - m /\ n \in Nat /\ m \in Nat
      BY <1>2, <1>3, <2>1
    <2> QED
      BY <2>2
  <1>5. \E x \in S : \A y \in S : x >= y
    BY <1>4
  <1> QED
    BY <1>5 DEF Max

-----------------------------------------------------------------------------
(* The nodes form a tree: each node in use is the child, for one byte, of  *)
(* another one that has children, and it has either children or a tail.    *)
(* Of the open node o nothing is known but that it has no children; the    *)
(* tree has none if o is 0.                                                *)
Used(T, n) == n \in Nat /\ (n = 1 \/ CHECK(T, n) # 0)
IsChild(T, n) ==
  /\ n >= 2 /\ Used(T, CHECK(T, n)) /\ CHECK(T, n) # n
  /\ BASE(T, CHECK(T, n)) > 0 /\ n - BASE(T, CHECK(T, n)) \in Codes
Byte(T, n) == n - BASE(T, CHECK(T, n))
IsNode(T, n) == BASE(T, n) # 0 /\ (Byte(T, n) = POSTFIX_CHAR => BASE(T, n) < 0)
IsOpen(T, o) ==
  /\ CHECK(T, o) # 0 /\ Byte(T, o) # POSTFIX_CHAR
  /\ \A n \in Nat : CHECK(T, n) # o
Tree(T, o) ==
  /\ T \in Tries /\ CHECK(T, 1) = 0 /\ BASE(T, 1) > 0
  /\ \A n \in Nat : CHECK(T, n) # 0 => IsChild(T, n) /\ (n # o => IsNode(T, n))
  /\ o \in Nat /\ (o # 0 => IsOpen(T, o))

LEMMA StepDown ==
  ASSUME NEW T, NEW o, Tree(T, o), NEW n \in Nat, NEW c \in Nat, Child(T, n, c) # 0
  PROVE  LET t == Child(T, n, c)
         IN  /\ t = BASE(T, n) + c /\ CHECK(T, t) = n /\ n # 0 /\ BASE(T, n) > 0
             /\ t \in Nat /\ t >= 2 /\ c \in Codes /\ Used(T, n) /\ IsChild(T, t)
  <1> DEFINE t == Child(T, n, c)
  <1>1. T \in Tries
    BY DEF Tree
  <1>2. t \in Nat
    BY <1>1, ChildTypes
  <1>3. BASE(T, n) \in Int
    BY <1>1, CellTypes
  <1>4. t = BASE(T, n) + c /\ CHECK(T, t) = n /\ n # 0
    BY DEF Child
  <1>5. IsChild(T, t)
    BY <1>2, <1>4 DEF Tree
  <1> HIDE DEF t
  <1>6. t >= 2 /\ Used(T, n) /\ BASE(T, n) > 0 /\ t - BASE(T, n) \in Codes
    BY <1>4, <1>5 DEF IsChild
  <1>7. t - BASE(T, n) = c
    BY <1>3, <1>4
  <1> QED
    BY <1>2, <1>4, <1>5, <1>6, <1>7 DEF t

LEMMA StepUp ==
  ASSUME NEW T, NEW o, Tree(T, o), NEW t \in Nat, CHECK(T, t) # 0
  PROVE  /\ CHECK(T, t) \in Nat /\ BASE(T, CHECK(T, t)) \in Int /\ Byte(T, t) \in Codes
         /\ Child(T, CHECK(T, t), Byte(T, t)) = t /\ t = BASE(T, CHECK(T, t)) + Byte(T, t)
  <1>1. IsChild(T, t) /\ T \in Tries
    BY DEF Tree
  <1>2. CHECK(T, t) \in Nat
    BY <1>1 DEF IsChild, Used
  <1>3. BASE(T, CHECK(T, t)) \in Int
    BY <1>1, <1>2, CellTypes
  <1>4. BASE(T, CHECK(T, t)) > 0 /\ Byte(T, t) \in Codes
    BY <1>1 DEF IsChild, Byte
  <1>5. t = BASE(T, CHECK(T, t)) + Byte(T, t)
    BY <1>3 DEF Byte
  <1> QED
    BY <1>2, <1>3, <1>4, <1>5 DEF Child

LEMMA PathDown ==
  ASSUME NEW T, NEW o, Tree(T, o), NEW key \in Seq(Nat), NEW h \in 1 .. Len(key),
         Path(T, key)[h] # 0
  PROVE  LET t == Path(T, key)[h]
             n == Path(T, key)[h - 1]
         IN  /\ n \in Nat /\ n # 0 /\ BASE(T, n) > 0 /\ Used(T, n)
             /\ t \in Nat /\ t >= 2 /\ t = BASE(T, n) + key[h] /\ CHECK(T, t) = n
             /\ key[h] \in Codes /\ IsChild(T, t) /\ Byte(T, t) = key[h]
  <1> DEFINE t == Path(T, key)[h]
             n == Path(T, key)[h - 1]
  <1>1. T \in Tries
    BY DEF Tree
  <1>2. h \in Nat /\ h - 1 \in 0 .. Len(key) /\ key[h] \in Nat
    OBVIOUS
  <1>3. n \in Nat /\ t = Child(T, n, key[h])
    BY <1>1, <1>2, PathIs
  <1> HIDE DEF t, n
  <1>4. Child(T, n, key[h]) # 0
    BY <1>3 DEF t
  <1>5. /\ t = BASE(T, n) + key[h] /\ CHECK(T, t) = n /\ n # 0 /\ BASE(T, n) > 0
        /\ t \in Nat /\ t >= 2 /\ key[h] \in Codes /\ Used(T, n) /\ IsChild(T, t)
    BY <1>2, <1>3, <1>4, StepDown
  <1>6. BASE(T, n) \in Int
    BY <1>1, <1>3, CellTypes
  <1>7. Byte(T, t) = key[h]
    BY <1>2, <1>5, <1>6 DEF Byte
  <1> QED
    BY <1>3, <1>5, <1>7 DEF t, n

LEMMA PathTypes ==
  ASSUME NEW T \in Tries, NEW key \in Seq(Nat), NEW h \in 0 .. Len(key)
  PROVE  Path(T, key)[h] \in Nat
  BY PathIs

(* A node is reached along one key only.                                   *)
LEMMA PathUnique ==
  ASSUME NEW T, NEW o, Tree(T, o), NEW v \in Seq(Nat), NEW w \in Seq(Nat),
         NEW h \in 0 .. Len(v), NEW g \in 0 .. Len(w),
         Path(T, v)[h] # 0, Path(T, v)[h] = Path(T, w)[g]
  PROVE  h = g /\ \A i \in 1 .. h : v[i] = w[i]
  <1> DEFINE Same(i, j) == i = j /\ \A m \in 1 .. i : v[m] = w[m]
             I == {i \in Nat : \A j \in 0 .. Len(w) :
                     i <= Len(v) /\ Path(T, v)[i] # 0 /\ Path(T, v)[i] = Path(T, w)[j] => Same(i, j)}
  <1>1. T \in Tries /\ Len(v) \in Nat /\ Len(w) \in Nat
    BY DEF Tree
  <1>2. Path(T, v)[0] = 1 /\ Path(T, w)[0] = 1
    BY <1>1, PathIs
  <1>3. 0 \in I
    <2>1. ASSUME NEW j \in 0 .. Len(w), Path(T, v)[0] = Path(T, w)[j] PROVE j = 0
      <3>1. SUFFICES ASSUME j # 0 PROVE FALSE
        OBVIOUS
      <3>2. j \in 1 .. Len(w)
        BY <1>1, <3>1
      <3>3. Path(T, w)[j] = 1
        BY <1>2, <2>1
      <3>4. Path(T, w)[j] # 0
        BY <3>3
      <3>5. Path(T, w)[j] >= 2
        BY <3>2, <3>4, PathDown
      <3> QED
        BY <3>3, <3>5
    <2>2. \A j \in 0 .. Len(w) : j = 0 => Same(0, j)
      OBVIOUS
    <2> HIDE DEF Same
    <2> QED
      BY <2>1, <2>2
  <1>4. ASSUME NEW i \in Nat, i \in I PROVE i + 1 \in I
    <2>1. SUFFICES ASSUME NEW j \in 0 .. Len(w), i + 1 <= Len(v), Path(T, v)[i + 1] # 0,
                          Path(T, v)[i + 1] = Path(T, w)[j]
                   PROVE  Same(i + 1, j)
      BY DEF I
    <2>2. i + 1 \in 1 .. Len(v) /\ (i + 1) - 1 = i /\ i <= Len(v)
      BY <1>1, <2>1
    <2> DEFINE t == Path(T, v)[i + 1]
    <2>3. /\ t >= 2 /\ t = BASE(T, Path(T, v)[i]) + v[i + 1] /\ CHECK(T, t) = Path(T, v)[i]
          /\ Path(T, v)[i] # 0 /\ Byte(T, t) = v[i + 1]
      BY <2>1, <2>2, PathDown
    <2>4. j # 0
      <3>1. j = 0 => t = 1
        BY <1>2, <2>1
      <3> QED
        BY <2>3, <3>1
    <2>5. j \in 1 .. Len(w) /\ j - 1 \in 0 .. Len(w) /\ j = (j - 1) + 1
      BY <1>1, <2>4
    <2>6. Path(T, w)[j] # 0
      BY <2>1
    <2>7. CHECK(T, t) = Path(T, w)[j - 1] /\ Byte(T, t) = w[j]
      BY <2>1, <2>5, <2>6, PathDown
    <2>8. Same(i, j - 1)
      BY <1>4, <2>2, <2>3, <2>5, <2>7
    <2>9. i + 1 = j /\ v[i + 1] = w[i + 1]
      BY <2>3, <2>5, <2>7, <2>8
    <2>10. \A m \in 1 .. i + 1 : m \in 1 .. i \/ m = i + 1
      OBVIOUS
    <2> QED
      BY <2>8, <2>9, <2>10
  <1> HIDE DEF I, Same
  <1>5. \A i \in Nat : i \in I
    BY <1>3, <1>4, Induction
  <1>6. h \in I /\ h <= Len(v) /\ h \in Nat
    BY <1>1, <1>5
  <1>7. Same(h, g)
    BY <1>6 DEF I
  <1> QED
    BY <1>7 DEF Same

LEMMA PathPrefix ==
  ASSUME NEW T \in Tries, NEW v \in Seq(Nat), NEW w \in Seq(Nat), NEW h \in Nat,
         h <= Len(v), h <= Len(w), \A i \in 1 .. h : v[i] = w[i]
  PROVE  \A i \in 0 .. h : Path(T, v)[i] = Path(T, w)[i]
  <1> DEFINE I == {i \in Nat : i <= h => Path(T, v)[i] = Path(T, w)[i]}
  <1>1. 0 \in I
    BY PathIs
  <1>2. ASSUME NEW i \in Nat, i \in I PROVE i + 1 \in I
    <2>1. SUFFICES ASSUME i + 1 <= h PROVE Path(T, v)[i + 1] = Path(T, w)[i + 1]
      BY DEF I
    <2>2. /\ i + 1 \in 1 .. Len(v) /\ i + 1 \in 1 .. Len(w) /\ (i + 1) - 1 = i
          /\ i <= h /\ i + 1 \in 1 .. h
      <3>1. Len(v) \in Nat /\ Len(w) \in Nat
        OBVIOUS
      <3> QED
        BY <2>1, <3>1
    <2>3. /\ Path(T, v)[i + 1] = Child(T, Path(T, v)[i], v[i + 1])
          /\ Path(T, w)[i + 1] = Child(T, Path(T, w)[i], w[i + 1])
      BY <2>2, PathIs
    <2>4. Path(T, v)[i] = Path(T, w)[i] /\ v[i + 1] = w[i + 1]
      BY <1>2, <2>2
    <2> QED
      BY <2>3, <2>4
  <1> HIDE DEF I
  <1>3. \A i \in Nat : i \in I
    BY <1>1, <1>2, Induction
  <1> QED
    BY <1>3 DEF I

(* A key that ends: the walk along it stops in time.                       *)
Ended(key) == key \in Seq(Nat) /\ Len(key) >= 1 /\ key[Len(key)] = POSTFIX_CHAR

LEMMA StopIs ==
  ASSUME NEW T, Tree(T, 0), NEW key, Ended(key)
  PROVE  /\ Stop(T, key) \in 1 .. Len(key)
         /\ Path(T, key)[Stop(T, key)] = 0 \/ BASE(T, Path(T, key)[Stop(T, key)]) < 0
         /\ \A i \in 0 .. Stop(T, key) - 1 :
              Path(T, key)[i] # 0 /\ BASE(T, Path(T, key)[i]) > 0 /\ Used(T, Path(T, key)[i])
         /\ \A i \in Stop(T, key) + 1 .. Len(key) : Path(T, key)[i] = 0
  <1> DEFINE N == Path(T, key)
             l == Len(key)
             S == {h \in 1 .. l : N[h] = 0 \/ BASE(T, N[h]) < 0}
             h == Stop(T, key)
  <1>1. T \in Tries /\ key \in Seq(Nat) /\ l \in Nat /\ l >= 1
    BY DEF Tree, Ended
  <1>2. N[0] = 1 /\ \A i \in 0 .. l : N[i] \in Nat /\ BASE(T, N[i]) \in Int
    BY <1>1, PathIs, PathTypes, CellTypes
  <1>3. ASSUME NEW i \in 1 .. l, N[i] # 0
        PROVE  /\ N[i - 1] # 0 /\ BASE(T, N[i - 1]) > 0 /\ Used(T, N[i - 1])
               /\ N[i] >= 2 /\ CHECK(T, N[i]) = N[i - 1] /\ IsNode(T, N[i]) /\ Byte(T, N[i]) = key[i]
    <2>1. /\ N[i - 1] # 0 /\ BASE(T, N[i - 1]) > 0 /\ Used(T, N[i - 1])
          /\ N[i] >= 2 /\ CHECK(T, N[i]) = N[i - 1] /\ Byte(T, N[i]) = key[i] /\ N[i] \in Nat
      BY <1>1, <1>3, PathDown
    <2>2. IsNode(T, N[i])
      BY <1>3, <2>1 DEF Tree
    <2> QED
      BY <2>1, <2>2
  <1> HIDE DEF N
  <1>4. l \in S
    <2>1. SUFFICES ASSUME N[l] # 0 PROVE BASE(T, N[l]) < 0
      BY <1>1
    <2>2. l \in 1 .. l
      BY <1>1
    <2>3. IsNode(T, N[l]) /\ Byte(T, N[l]) = key[l]
      BY <1>3, <2>1, <2>2
    <2> QED
      BY <2>3 DEF IsNode, Ended
  <1>5. S \subseteq Nat /\ S # {}
    BY <1>4
  <1>6. h = Min(S)
    BY DEF Stop, N
  <1> HIDE DEF h
  <1>7. h \in S /\ \A x \in S : h <= x
    <2> HIDE DEF S
    <2> QED
      BY <1>5, <1>6, MinIs
  <1>8. h \in 1 .. l /\ (N[h] = 0 \/ BASE(T, N[h]) < 0)
    BY <1>7
  <1>9. ASSUME NEW i \in 0 .. h - 1 PROVE N[i] # 0 /\ BASE(T, N[i]) > 0 /\ Used(T, N[i])
    <2>1. CASE i = 0
      BY <1>2, <2>1 DEF Tree, Used
    <2>2. CASE i # 0
      <3>1. i \in 1 .. l /\ ~ (h <= i)
        BY <1>1, <1>8, <2>2
      <3>2. i \notin S
        BY <1>7, <3>1
      <3>3. N[i] # 0 /\ ~ (BASE(T, N[i]) < 0)
        BY <3>1, <3>2
      <3>4. BASE(T, N[i]) # 0 /\ CHECK(T, N[i]) # 0 /\ N[i] \in Nat /\ BASE(T, N[i]) \in Int
        BY <1>2, <1>3, <3>1, <3>3 DEF IsNode
      <3> QED
        BY <3>3, <3>4 DEF Used
    <2> QED
      BY <2>1, <2>2
  <1>10. \A i \in Nat : i \in h + 1 .. l => N[i] = 0
    <2> DEFINE I == {i \in Nat : i \in h + 1 .. l => N[i] = 0}
    <2>1. 0 \in I
      BY <1>8
    <2>2. ASSUME NEW i \in Nat, i \in I PROVE i + 1 \in I
      <3>1. SUFFICES ASSUME i + 1 \in h + 1 .. l, N[i + 1] # 0 PROVE FALSE
        OBVIOUS
      <3>2. i + 1 \in 1 .. l /\ (i + 1) - 1 = i /\ (i = h \/ i \in h + 1 .. l)
        BY <1>1, <1>8, <3>1
      <3>3. N[i] # 0 /\ BASE(T, N[i]) > 0
        BY <1>3, <3>1, <3>2
      <3>4. ~ (BASE(T, N[i]) < 0)
        BY <1>1, <1>2, <3>2, <3>3
      <3> QED
        BY <1>8, <2>2, <3>2, <3>3, <3>4
    <2> HIDE DEF I
    <2>3. \A i \in Nat : i \in I
      BY <2>1, <2>2, Induction
    <2> QED
      BY <2>3 DEF I
  <1>11. \A i \in h + 1 .. l : i \in Nat
    BY <1>1, <1>8
  <1> QED
    BY <1>8, <1>9, <1>10, <1>11 DEF N, h, l

LEMMA LeafStops ==
  ASSUME NEW T, Tree(T, 0), NEW key, Ended(key), NEW h \in 1 .. Len(key),
         Path(T, key)[h] # 0, BASE(T, Path(T, key)[h]) < 0
  PROVE  h = Stop(T, key)
  <1> DEFINE s == Stop(T, key)
             N == Path(T, key)
  <1>1. /\ s \in 1 .. Len(key)
        /\ \A i \in 0 .. s - 1 : BASE(T, N[i]) > 0
        /\ \A i \in s + 1 .. Len(key) : N[i] = 0
    BY StopIs
  <1>2. BASE(T, N[h]) \in Int /\ Len(key) \in Nat
    <2>1. T \in Tries /\ key \in Seq(Nat) /\ h \in 0 .. Len(key)
      BY DEF Tree, Ended
    <2>2. N[h] \in Nat /\ Len(key) \in Nat
      BY <2>1, PathTypes
    <2> QED
      BY <2>1, <2>2, CellTypes
  <1> HIDE DEF s, N
  <1>3. ~ (h \in 0 .. s - 1) /\ ~ (h \in s + 1 .. Len(key))
    BY <1>1, <1>2 DEF N
  <1>4. h = s
    BY <1>1, <1>2, <1>3
  <1> QED
    BY <1>4 DEF s

LEMMA KeyIs ==
  ASSUME NEW w \in Seq(Letters)
  PROVE  /\ Key(w) \in Seq(Codes) /\ Key(w) \in Seq(Nat) /\ Len(Key(w)) = Len(w) + 1
         /\ Key(w)[Len(w) + 1] = POSTFIX_CHAR /\ Ended(Key(w))
         /\ \A i \in 1 .. Len(w) : Key(w)[i] = w[i] /\ w[i] # POSTFIX_CHAR /\ w[i] \in Codes
  <1>1. POSTFIX_CHAR \in Codes /\ MAX_CODE \in Nat
    BY DictionaryTrieAssumption
  <1>2. \A c \in Codes : c \in Nat
    BY <1>1 DEF Codes
  <1>3. \A c \in Letters : c \in Codes /\ c # POSTFIX_CHAR
    BY DEF Letters
  <1>4. w \in Seq(Codes) /\ w \in Seq(Nat) /\ POSTFIX_CHAR \in Nat
    BY <1>1, <1>2, <1>3
  <1>5. /\ Key(w) \in Seq(Codes) /\ Key(w) \in Seq(Nat) /\ Len(Key(w)) = Len(w) + 1
        /\ Key(w)[Len(w) + 1] = POSTFIX_CHAR /\ \A i \in 1 .. Len(w) : Key(w)[i] = w[i]
    BY <1>1, <1>4 DEF Key
  <1>6. \A i \in 1 .. Len(w) : w[i] \in Letters
    OBVIOUS
  <1> QED
    BY <1>3, <1>5, <1>6 DEF Ended

(***************************************************************************)
(* The word v is in the trie, with number d: its key leads to a leaf, not  *)
(* the open one, whose tail is the rest of the key.                        *)
(***************************************************************************)
Spells(T, o, key, h) ==
  LET n == Path(T, key)[h]
  IN  /\ n # 0 /\ n # o /\ BASE(T, n) < 0
      /\ key[h] = POSTFIX_CHAR \/ RestOf(T, n) = SubSeq(key, h + 1, Len(key))
Has(T, o, v, d) ==
  \E h \in 1 .. Len(v) + 1 : Spells(T, o, Key(v), h) /\ d = DETAIL(T, Path(T, Key(v))[h])

LEMMA SearchFinds ==
  ASSUME NEW T, Tree(T, 0), NEW v \in Seq(Letters), NEW d, Has(T, 0, v, d)
  PROVE  search(T, v) = d /\ IsLeafOf(T, Key(v))
  <1>1. PICK h \in 1 .. Len(v) + 1 : Spells(T, 0, Key(v), h) /\ d = DETAIL(T, Path(T, Key(v))[h])
    BY DEF Has
  <1>2. Ended(Key(v)) /\ Len(Key(v)) = Len(v) + 1
    BY KeyIs
  <1>3. h \in 1 .. Len(Key(v)) /\ Path(T, Key(v))[h] # 0 /\ BASE(T, Path(T, Key(v))[h]) < 0
    BY <1>1, <1>2 DEF Spells
  <1>4. h = Stop(T, Key(v))
    BY <1>2, <1>3, LeafStops
  <1>5. IsLeafOf(T, Key(v))
    BY <1>1, <1>4 DEF IsLeafOf, Spells
  <1> QED
    BY <1>1, <1>4, <1>5 DEF search

LEMMA LeafIsFound ==
  ASSUME NEW T, Tree(T, 0), NEW v \in Seq(Letters), IsLeafOf(T, Key(v))
  PROVE  Has(T, 0, v, search(T, v))
  <1> DEFINE h == Stop(T, Key(v))
             n == Path(T, Key(v))[h]
  <1>1. Ended(Key(v)) /\ Len(Key(v)) = Len(v) + 1
    BY KeyIs
  <1>2. h \in 1 .. Len(v) + 1 /\ (n = 0 \/ BASE(T, n) < 0)
    BY <1>1, StopIs
  <1>3. n # 0 /\ (Key(v)[h] = POSTFIX_CHAR \/ RestOf(T, n) = SubSeq(Key(v), h + 1, Len(Key(v))))
    BY DEF IsLeafOf
  <1>4. Spells(T, 0, Key(v), h)
    BY <1>2, <1>3 DEF Spells
  <1>5. search(T, v) = DETAIL(T, n)
    BY DEF search
  <1> QED
    BY <1>2, <1>4, <1>5 DEF Has

-----------------------------------------------------------------------------
(* Tails.                                                                  *)

Tailed(T, p) ==
  p \in 1 .. T.m_nTAIL_POS - 1
  /\ \E e \in p .. T.m_nTAIL_POS - 1 : T.m_psTAIL[e] = POSTFIX_CHAR

LEMMA TailEndIs ==
  ASSUME NEW T \in Tries, NEW p, Tailed(T, p)
  PROVE  /\ TailEnd(T, p) \in p .. T.m_nTAIL_POS - 1
         /\ T.m_psTAIL[TailEnd(T, p)] = POSTFIX_CHAR
         /\ \A q \in p .. T.m_nTAIL_POS - 1 : T.m_psTAIL[q] = POSTFIX_CHAR => TailEnd(T, p) <= q
  <1> DEFINE S == {q \in p .. T.m_nTAIL_POS - 1 : T.m_psTAIL[q] = POSTFIX_CHAR}
  <1>1. p \in Nat /\ T.m_nTAIL_POS \in Nat
    BY TrieFields DEF Tailed
  <1>2. S \subseteq Nat /\ S # {}
    BY <1>1 DEF Tailed
  <1>3. TailEnd(T, p) = Min(S)
    BY DEF TailEnd
  <1>4. Min(S) \in S /\ \A x \in S : Min(S) <= x
    <2> HIDE DEF S
    <2> QED
      BY <1>2, MinIs
  <1> QED
    BY <1>3, <1>4

LEMMA ReadTail ==
  ASSUME NEW T \in Tries, NEW p, Tailed(T, p)
  PROVE  /\ READ_TAIL(T, p) \in Seq(Codes) /\ p \in Nat /\ TailEnd(T, p) \in Nat
         /\ Len(READ_TAIL(T, p)) = TailEnd(T, p) - p + 1 /\ Len(READ_TAIL(T, p)) >= 1
         /\ \A k \in 1 .. Len(READ_TAIL(T, p)) : READ_TAIL(T, p)[k] = T.m_psTAIL[p + k - 1]
         /\ \A k \in 1 .. Len(READ_TAIL(T, p)) :
              READ_TAIL(T, p)[k] = POSTFIX_CHAR <=> k = Len(READ_TAIL(T, p))
  <1> DEFINE e == TailEnd(T, p)
             l == e - p + 1
             a == READ_TAIL(T, p)
             pos == T.m_nTAIL_POS
  <1>1. /\ e \in p .. pos - 1 /\ T.m_psTAIL[e] = POSTFIX_CHAR
        /\ \A q \in p .. pos - 1 : T.m_psTAIL[q] = POSTFIX_CHAR => e <= q
    BY TailEndIs
  <1>2. p \in Nat /\ pos \in Nat /\ T.m_psTAIL \in [0 .. pos - 1 -> Codes]
    BY TrieFields DEF Tailed
  <1>3. a = [k \in 1 .. l |-> T.m_psTAIL[p + k - 1]]
    BY DEF READ_TAIL
  <1> HIDE DEF e, a, pos
  <1>4. e \in Nat /\ l \in Nat /\ l >= 1 /\ p <= e /\ e <= pos - 1 /\ p + l - 1 = e
    BY <1>1, <1>2
  <1>5. \A k \in 1 .. l : p + k - 1 \in 0 .. pos - 1 /\ p + k - 1 \in p .. pos - 1
    BY <1>2, <1>4
  <1> HIDE DEF l
  <1>6. \A k \in 1 .. l : T.m_psTAIL[p + k - 1] \in Codes
    BY <1>2, <1>5
  <1>7. a \in Seq(Codes) /\ Len(a) = l /\ \A k \in 1 .. l : a[k] = T.m_psTAIL[p + k - 1]
    BY <1>3, <1>4, <1>6
  <1>8. ASSUME NEW k \in 1 .. l PROVE a[k] = POSTFIX_CHAR <=> k = l
    <2>1. k = l => a[k] = POSTFIX_CHAR
      BY <1>1, <1>4, <1>7
    <2>2. a[k] = POSTFIX_CHAR => e <= p + k - 1
      BY <1>1, <1>5, <1>7
    <2>3. e <= p + k - 1 => k = l
      BY <1>2, <1>4
    <2> QED
      BY <2>1, <2>2, <2>3
  <1> QED
    BY <1>2, <1>4, <1>7, <1>8 DEF a, e, l

(* A tail that nobody writes to can be read as before.                     *)
LEMMA SameRest ==
  ASSUME NEW T \in Tries, NEW U \in Tries, NEW p, Tailed(T, p),
         T.m_nTAIL_POS <= U.m_nTAIL_POS,
         \A q \in p .. TailEnd(T, p) : U.m_psTAIL[q] = T.m_psTAIL[q]
  PROVE  Tailed(U, p) /\ TailEnd(U, p) = TailEnd(T, p) /\ READ_TAIL(U, p) = READ_TAIL(T, p)
  <1> DEFINE e == TailEnd(T, p)
             f == TailEnd(U, p)
  <1>1. /\ e \in p .. T.m_nTAIL_POS - 1 /\ T.m_psTAIL[e] = POSTFIX_CHAR
        /\ \A q \in p .. T.m_nTAIL_POS - 1 : T.m_psTAIL[q] = POSTFIX_CHAR => e <= q
    BY TailEndIs
  <1>2. p \in Nat /\ p >= 1 /\ T.m_nTAIL_POS \in Nat /\ U.m_nTAIL_POS \in Nat
    BY TrieFields DEF Tailed
  <1>3. e \in Nat /\ p <= e /\ e \in p .. e /\ e \in p .. U.m_nTAIL_POS - 1
        /\ p \in 1 .. U.m_nTAIL_POS - 1
    BY <1>1, <1>2
  <1>4. U.m_psTAIL[e] = POSTFIX_CHAR
    BY <1>1, <1>3
  <1>5. Tailed(U, p)
    BY <1>3, <1>4 DEF Tailed
  <1>6. /\ f \in p .. U.m_nTAIL_POS - 1 /\ U.m_psTAIL[f] = POSTFIX_CHAR
        /\ \A q \in p .. U.m_nTAIL_POS - 1 : U.m_psTAIL[q] = POSTFIX_CHAR => f <= q
    BY <1>5, TailEndIs
  <1> HIDE DEF e, f
  <1>7. f <= e /\ f \in Nat /\ f \in p .. e
    BY <1>2, <1>3, <1>4, <1>6
  <1>8. T.m_psTAIL[f] = POSTFIX_CHAR
    BY <1>6, <1>7 DEF e
  <1>9. f \in p .. T.m_nTAIL_POS - 1
    BY <1>1, <1>2, <1>3, <1>7
  <1>10. f = e
    BY <1>1, <1>3, <1>7, <1>8, <1>9
  <1>11. \A k \in 1 .. e - p + 1 : p + k - 1 \in p .. e
    BY <1>2, <1>3
  <1>12. \A k \in 1 .. e - p + 1 : U.m_psTAIL[p + k - 1] = T.m_psTAIL[p + k - 1]
    BY <1>11 DEF e
  <1>13. READ_TAIL(U, p) = READ_TAIL(T, p)
    BY <1>10, <1>12 DEF READ_TAIL, e, f
  <1> QED
    BY <1>5, <1>10, <1>13 DEF e, f

(***************************************************************************)
(* Each leaf whose byte does not end a word has a tail of its own.         *)
(***************************************************************************)
HasTail(T, o, n) ==
  n \in Nat /\ n # o /\ CHECK(T, n) # 0 /\ BASE(T, n) < 0 /\ Byte(T, n) # POSTFIX_CHAR
Apart(T, m, n) == -BASE(T, m) \notin -BASE(T, n) .. TailEnd(T, -BASE(T, n))
Tails(T, o) ==
  \A n \in Nat : HasTail(T, o, n) =>
    /\ Tailed(T, -BASE(T, n))
    /\ \A m \in Nat : HasTail(T, o, m) /\ m # n => Apart(T, m, n)
(* Leaves have numbers.                                                    *)
Numbered(T, o) ==
  \A n \in Nat : n # o /\ CHECK(T, n) # 0 /\ BASE(T, n) < 0 =>
    DETAIL(T, n) \in 1 .. T.m_nPreCurrent_Detail_Pos

LEMMA WrittenTail ==
  ASSUME NEW T \in Tries, NEW p \in Nat \ {0}, NEW a \in Seq(Codes), Len(a) >= 1,
         \A k \in 1 .. Len(a) : a[k] = POSTFIX_CHAR <=> k = Len(a),
         p + Len(a) <= T.m_nTAIL_POS,
         \A k \in 1 .. Len(a) : T.m_psTAIL[p + k - 1] = a[k]
  PROVE  Tailed(T, p) /\ TailEnd(T, p) = p + Len(a) - 1 /\ READ_TAIL(T, p) = a
  <1> DEFINE l == Len(a)
             pos == T.m_nTAIL_POS
             e == TailEnd(T, p)
  <1>1. l \in Nat /\ pos \in Nat
    BY TrieFields
  <1>2. l \in 1 .. l /\ p + l - 1 \in p .. pos - 1 /\ p \in 1 .. pos - 1
    BY <1>1
  <1>3. T.m_psTAIL[p + l - 1] = POSTFIX_CHAR
    BY <1>2
  <1>4. Tailed(T, p)
    BY <1>2, <1>3 DEF Tailed
  <1>5. /\ e \in p .. pos - 1 /\ T.m_psTAIL[e] = POSTFIX_CHAR
        /\ \A q \in p .. pos - 1 : T.m_psTAIL[q] = POSTFIX_CHAR => e <= q
    BY <1>4, TailEndIs
  <1> HIDE DEF e
  <1>6. e <= p + l - 1 /\ e \in Nat /\ p <= e
    BY <1>1, <1>2, <1>3, <1>5
  <1>7. (e - p + 1) \in 1 .. l /\ p + (e - p + 1) - 1 = e
    BY <1>1, <1>6
  <1>8. a[e - p + 1] = POSTFIX_CHAR
    BY <1>5, <1>7
  <1>9. e - p + 1 = l
    BY <1>7, <1>8
  <1>10. e = p + l - 1
    BY <1>1, <1>6, <1>9
  <1>11. READ_TAIL(T, p) = [k \in 1 .. l |-> T.m_psTAIL[p + k - 1]]
    BY <1>9 DEF READ_TAIL, e
  <1>12. a = [k \in 1 .. l |-> a[k]]
    OBVIOUS
  <1>13. READ_TAIL(T, p) = a
    BY <1>11, <1>12
  <1> QED
    BY <1>4, <1>10, <1>13 DEF e

LEMMA RestOfKey ==
  ASSUME NEW w \in Seq(Letters), NEW h \in 1 .. Len(w) + 1
  PROVE  LET a == SubSeq(Key(w), h + 1, Len(Key(w)))
             b == SubSeq(Key(w), h, Len(Key(w)))
         IN  /\ b \in Seq(Codes) /\ Len(b) = Len(w) + 2 - h /\ b[1] = Key(w)[h] /\ Tail(b) = a
             /\ a \in Seq(Codes) /\ Len(a) = Len(w) + 1 - h
             /\ \A k \in 1 .. Len(a) : a[k] = Key(w)[h + k]
             /\ \A k \in 1 .. Len(a) : a[k] = POSTFIX_CHAR <=> k = Len(a)
             /\ Key(w)[h] \in Codes
             /\ Key(w)[h] = POSTFIX_CHAR <=> h = Len(w) + 1
  <1> DEFINE key == Key(w)
             l == Len(w)
             a == SubSeq(key, h + 1, Len(key))
             b == SubSeq(key, h, Len(key))
  <1>1. /\ key \in Seq(Codes) /\ Len(key) = l + 1 /\ key[l + 1] = POSTFIX_CHAR
        /\ \A i \in 1 .. l : key[i] = w[i] /\ w[i] # POSTFIX_CHAR
    BY KeyIs
  <1>2. l \in Nat /\ h \in Nat
    OBVIOUS
  <1> HIDE DEF key, l
  <1>3. a = [k \in 1 .. l + 1 - h |-> key[h + k]]
    <2>1. a = [k \in 1 .. (l + 1) - (h + 1) + 1 |-> key[(h + 1) + k - 1]]
      BY <1>1
    <2>2. (l + 1) - (h + 1) + 1 = l + 1 - h
      BY <1>2
    <2>3. \A k \in 1 .. l + 1 - h : (h + 1) + k - 1 = h + k
      BY <1>2
    <2> QED
      BY <2>1, <2>2, <2>3
  <1>4. b = [k \in 1 .. l + 2 - h |-> key[h + k - 1]]
    <2>1. b = [k \in 1 .. (l + 1) - h + 1 |-> key[h + k - 1]]
      BY <1>1
    <2>2. (l + 1) - h + 1 = l + 2 - h
      BY <1>2
    <2> QED
      BY <2>1, <2>2
  <1>5. h <= l + 1
    BY DEF l
  <1>6. \A k \in 1 .. l + 1 : key[k] \in Codes
    BY <1>1
  <1>7. l + 1 - h \in Nat /\ \A k \in 1 .. l + 1 - h : h + k \in 1 .. l + 1 /\ key[h + k] \in Codes
    BY <1>2, <1>5, <1>6
  <1>8. l + 2 - h \in Nat /\ l + 2 - h >= 1
        /\ \A k \in 1 .. l + 2 - h : h + k - 1 \in 1 .. l + 1 /\ key[h + k - 1] \in Codes
    BY <1>2, <1>5, <1>6
  <1> HIDE DEF a, b
  <1>9. a \in Seq(Codes) /\ Len(a) = l + 1 - h /\ \A k \in 1 .. Len(a) : a[k] = key[h + k]
    BY <1>3, <1>7
  <1>10. b \in Seq(Codes) /\ Len(b) = l + 2 - h /\ \A k \in 1 .. Len(b) : b[k] = key[h + k - 1]
    <2> DEFINE m == l + 2 - h
    <2>1. m \in Nat /\ b = [k \in 1 .. m |-> key[h + k - 1]]
          /\ \A k \in 1 .. m : key[h + k - 1] \in Codes
      BY <1>4, <1>8
    <2> HIDE DEF m
    <2>2. b \in Seq(Codes) /\ Len(b) = m
      BY <2>1
    <2>3. \A k \in 1 .. m : b[k] = key[h + k - 1]
      BY <2>1
    <2> QED
      BY <2>2, <2>3 DEF m
  <1>11. b[1] = key[h]
    <2>1. 1 \in 1 .. Len(b) /\ h + 1 - 1 = h
      BY <1>2, <1>8, <1>10
    <2> QED
      BY <1>10, <2>1
  <1>12. Tail(b) = a
    <2>1. Tail(b) = [k \in 1 .. Len(b) - 1 |-> b[k + 1]]
      <3>1. b \in Seq(Codes) /\ b # <<>>
        BY <1>8, <1>10
      <3>2. Tail(b) \in Seq(Codes) /\ Len(Tail(b)) = Len(b) - 1
            /\ \A k \in 1 .. Len(b) - 1 : Tail(b)[k] = b[k + 1]
        BY <3>1
      <3> DEFINE c == Tail(b)
      <3> HIDE DEF c
      <3>3. c \in Seq(Codes) /\ Len(c) = Len(b) - 1 /\ \A k \in 1 .. Len(b) - 1 : c[k] = b[k + 1]
        BY <3>2 DEF c
      <3>4. c = [k \in 1 .. Len(c) |-> c[k]]
        BY <3>3
      <3>5. c = [k \in 1 .. Len(b) - 1 |-> b[k + 1]]
        BY <3>3, <3>4
      <3> QED
        BY <3>5 DEF c
    <2>2. Len(b) - 1 = l + 1 - h
      BY <1>2, <1>10
    <2>3. \A k \in 1 .. l + 1 - h : k + 1 \in 1 .. Len(b) /\ h + (k + 1) - 1 = h + k
      BY <1>2, <1>5, <1>10
    <2>4. \A k \in 1 .. l + 1 - h : b[k + 1] = key[h + k]
      BY <1>10, <2>3
    <2> QED
      BY <1>3, <2>1, <2>2, <2>4
  <1>13. ASSUME NEW k \in 1 .. Len(a) PROVE a[k] = POSTFIX_CHAR <=> k = Len(a)
    <2>1. h + k \in 1 .. l \/ h + k = l + 1
      BY <1>2, <1>7, <1>9
    <2>2. h + k \in 1 .. l => k # Len(a)
      BY <1>2, <1>9
    <2>3. h + k = l + 1 => k = Len(a)
      BY <1>2, <1>9
    <2> QED
      BY <1>1, <1>9, <2>1, <2>2, <2>3
  <1>14. key[h] \in Codes /\ (key[h] = POSTFIX_CHAR <=> h = l + 1)
    <2>1. h \in 1 .. l \/ h = l + 1
      BY <1>2, <1>5
    <2>2. h \in 1 .. l + 1
      BY <1>2, <1>5
    <2>3. ~ (l + 1 \in 1 .. l)
      BY <1>2
    <2> QED
      BY <1>1, <1>6, <2>1, <2>2, <2>3
  <1> QED
    BY <1>9, <1>10, <1>11, <1>12, <1>13, <1>14 DEF a, b, key, l

(* Keys with the same beginning and the same rest are one word's.          *)
LEMMA SameWord ==
  ASSUME NEW v \in Seq(Letters), NEW w \in Seq(Letters), NEW h \in Nat,
         h \in 1 .. Len(v) + 1, h \in 1 .. Len(w) + 1,
         \A i \in 1 .. h : Key(v)[i] = Key(w)[i],
         \/ Key(v)[h] = POSTFIX_CHAR
         \/ SubSeq(Key(v), h + 1, Len(Key(v))) = SubSeq(Key(w), h + 1, Len(Key(w)))
  PROVE  v = w
  <1> DEFINE a == SubSeq(Key(v), h + 1, Len(Key(v)))
             b == SubSeq(Key(w), h + 1, Len(Key(w)))
  <1>1. /\ Len(a) = Len(v) + 1 - h /\ \A k \in 1 .. Len(a) : a[k] = Key(v)[h + k]
        /\ Key(v)[h] = POSTFIX_CHAR <=> h = Len(v) + 1
    BY RestOfKey
  <1>2. /\ Len(b) = Len(w) + 1 - h /\ \A k \in 1 .. Len(b) : b[k] = Key(w)[h + k]
        /\ Key(w)[h] = POSTFIX_CHAR <=> h = Len(w) + 1
    BY RestOfKey
  <1>3. Len(v) \in Nat /\ Len(w) \in Nat /\ Key(v)[h] = Key(w)[h]
    OBVIOUS
  <1>4. Key(v)[h] = POSTFIX_CHAR \/ a = b
    OBVIOUS
  <1> HIDE DEF a, b
  <1>5. Len(v) = Len(w)
    BY <1>1, <1>2, <1>3, <1>4
  <1>6. ASSUME NEW i \in 1 .. Len(v) PROVE v[i] = w[i]
    <2>1. Key(v)[i] = v[i] /\ Key(w)[i] = w[i]
      BY <1>5, KeyIs
    <2>2. CASE i \in 1 .. h
      BY <2>1, <2>2
    <2>3. CASE i \notin 1 .. h
      <3>1. i - h \in 1 .. Len(a) /\ h + (i - h) = i /\ h # Len(v) + 1
        BY <1>1, <1>3, <2>3
      <3>2. a = b
        BY <1>1, <1>4, <3>1
      <3>3. a[i - h] = Key(v)[i] /\ b[i - h] = Key(w)[i]
        BY <1>1, <1>2, <3>1, <3>2
      <3> QED
        BY <2>1, <3>2, <3>3
    <2> QED
      BY <2>2, <2>3
  <1> QED
    BY <1>5, <1>6

-----------------------------------------------------------------------------
(* A trie grows at node o: what was in use stays where it was, and only o  *)
(* may get a new base.                                                     *)
Extends(T, U, o) ==
  /\ \A n \in Nat : Used(T, n) =>
       /\ Used(U, n) /\ CHECK(U, n) = CHECK(T, n)
       /\ n # o => BASE(U, n) = BASE(T, n)
  /\ \A n \in Nat : CHECK(T, n) # 0 => CHECK(T, n) # o

LEMMA PathExtends ==
  ASSUME NEW T, NEW U, NEW x, NEW y, NEW o, Tree(T, x), Tree(U, y), Extends(T, U, o),
         NEW key \in Seq(Nat)
  PROVE  \A h \in 0 .. Len(key) : \A n \in Nat :
           Used(T, n) => (Path(U, key)[h] = n <=> Path(T, key)[h] = n)
  <1> DEFINE P == Path(T, key)
             Q == Path(U, key)
             l == Len(key)
             I == {h \in Nat : h <= l => \A n \in Nat : Used(T, n) => (Q[h] = n <=> P[h] = n)}
  <1>1. T \in Tries /\ U \in Tries /\ l \in Nat
    BY DEF Tree
  <1>2. /\ P[0] = 1 /\ \A h \in 1 .. l : P[h] = Child(T, P[h - 1], key[h])
        /\ Q[0] = 1 /\ \A h \in 1 .. l : Q[h] = Child(U, Q[h - 1], key[h])
    BY <1>1, PathIs
  <1>3. 0 \in I
    BY <1>2
  <1>4. ASSUME NEW h \in Nat, h \in I PROVE h + 1 \in I
    <2>1. SUFFICES ASSUME h + 1 <= l, NEW n \in Nat, Used(T, n)
                   PROVE  Q[h + 1] = n <=> P[h + 1] = n
      OBVIOUS
    <2>2. h + 1 \in 1 .. l /\ (h + 1) - 1 = h /\ h <= l /\ key[h + 1] \in Nat
      BY <1>1, <2>1
    <2>3. n # 0
      BY <2>1 DEF Used, Tree, IsChild
    <2>4. ASSUME P[h + 1] = n PROVE Q[h + 1] = n
      <3>1. /\ P[h] \in Nat /\ P[h] # 0 /\ BASE(T, P[h]) > 0 /\ Used(T, P[h])
            /\ n = BASE(T, P[h]) + key[h + 1] /\ CHECK(T, n) = P[h]
        BY <2>2, <2>3, <2>4, PathDown
      <3>2. Q[h] = P[h]
        BY <1>4, <2>2, <3>1
      <3>3. BASE(U, P[h]) = BASE(T, P[h]) /\ CHECK(U, n) = P[h]
        BY <2>1, <3>1 DEF Extends
      <3>4. Q[h + 1] = Child(U, P[h], key[h + 1])
        BY <1>2, <2>2, <3>2
      <3>5. BASE(T, P[h]) \in Int
        BY <1>1, <3>1, CellTypes
      <3> HIDE DEF P, Q
      <3> QED
        BY <3>1, <3>3, <3>4, <3>5 DEF Child
    <2>5. ASSUME Q[h + 1] = n PROVE P[h + 1] = n
      <3>1. /\ Q[h] \in Nat /\ Q[h] # 0 /\ BASE(U, Q[h]) > 0
            /\ n = BASE(U, Q[h]) + key[h + 1] /\ CHECK(U, n) = Q[h] /\ n >= 2
        BY <2>2, <2>3, <2>5, PathDown
      <3>2. CHECK(T, n) = Q[h] /\ Q[h] # o
        BY <2>1, <3>1 DEF Extends, Used
      <3>3. Used(T, Q[h])
        BY <3>1, <3>2 DEF Tree, IsChild
      <3>4. BASE(U, Q[h]) = BASE(T, Q[h])
        BY <3>1, <3>2, <3>3 DEF Extends
      <3>5. P[h] = Q[h]
        BY <1>4, <2>2, <3>1, <3>3
      <3>6. P[h + 1] = Child(T, Q[h], key[h + 1])
        BY <1>2, <2>2, <3>5
      <3>7. BASE(T, Q[h]) \in Int
        BY <1>1, <3>1, CellTypes
      <3> HIDE DEF P, Q
      <3> QED
        BY <3>1, <3>2, <3>4, <3>6, <3>7 DEF Child
    <2> QED
      BY <2>4, <2>5
  <1> HIDE DEF I
  <1>5. \A h \in Nat : h \in I
    BY <1>3, <1>4, Induction
  <1>6. \A h \in 0 .. l : h \in Nat /\ h <= l
    BY <1>1
  <1> QED
    BY <1>5, <1>6 DEF I

-----------------------------------------------------------------------------
(* Separate: a new leaf t below s, with number d and the tail a at p.      *)
Sound(T, o) == Tree(T, o) /\ Tails(T, o) /\ Numbered(T, o)
LeafAt(T, U, s, t, p, d) ==
  \A n \in Nat : /\ CHECK(U, n) = IF n = t THEN s ELSE CHECK(T, n)
                 /\ BASE(U, n) = IF n = t THEN -p ELSE BASE(T, n)
                 /\ DETAIL(U, n) = IF n = t THEN d ELSE DETAIL(T, n)
TailWritten(T, U, a, p) ==
  /\ U.m_nTAIL_POS = IF p + Len(a) > T.m_nTAIL_POS THEN p + Len(a) ELSE T.m_nTAIL_POS
  /\ \A q \in 0 .. U.m_nTAIL_POS - 1 :
       U.m_psTAIL[q] = IF q \in p .. p + Len(a) - 1 THEN a[q - p + 1] ELSE T.m_psTAIL[q]
HasRoom(T, p, l) ==
  /\ p \in 1 .. T.m_nTAIL_POS
  /\ \A m \in Nat : HasTail(T, 0, m) =>
       -BASE(T, m) \notin p .. p + l - 1 /\ p \notin -BASE(T, m) .. TailEnd(T, -BASE(T, m))

LEMMA SeparateIs ==
  ASSUME NEW T \in Tries, NEW s \in Nat, BASE(T, s) > 0, NEW b \in Seq(Codes), Len(b) >= 1,
         NEW p \in 1 .. T.m_nTAIL_POS, NEW d \in Nat
  PROVE  LET U == Separate(T, s, b, p, d)
         IN  /\ U \in Tries /\ SameCounters(T, U) /\ TailWritten(T, U, Tail(b), p)
             /\ LeafAt(T, U, s, BASE(T, s) + b[1], p, d)
  <1> DEFINE t == BASE(T, s) + b[1]
             A == Write_CHECK(T, t, s)
             B == Write_BASE(A, t, -p)
             C == Write_DETAIL(B, t, d)
             U == Write_TAIL(C, Tail(b), p)
  <1>1. b[1] \in Codes /\ Tail(b) \in Seq(Codes)
    <2>1. 1 \in 1 .. Len(b) /\ b # <<>>
      OBVIOUS
    <2> QED
      BY <2>1
  <1>2. b[1] \in Nat /\ BASE(T, s) \in Int
    <2>1. \A c \in Codes : c \in Nat
      BY DictionaryTrieAssumption DEF Codes
    <2>2. BASE(T, s) \in Int
      BY CellTypes
    <2> QED
      BY <1>1, <2>1, <2>2
  <1>3. t \in Nat /\ s \in Int /\ -p \in Int /\ d \in Int
    BY <1>2
  <1>4. Separate(T, s, b, p, d) = U
    BY DEF Separate
  <1> HIDE DEF t
  <1>5. A \in Tries /\ Beside(T, A) /\ OnlyCheck(T, A, t, s)
    BY <1>3, Writes DEF Beside
  <1> HIDE DEF A
  <1>6. B \in Tries /\ Beside(A, B) /\ OnlyBase(A, B, t, -p)
    BY <1>3, <1>5, Writes DEF Beside
  <1> HIDE DEF B
  <1>7. C \in Tries /\ Beside(B, C) /\ OnlyDetail(B, C, t, d)
    BY <1>3, <1>6, Writes DEF Beside
  <1> HIDE DEF C
  <1>8. C.m_nTAIL_POS = T.m_nTAIL_POS /\ C.m_psTAIL = T.m_psTAIL /\ SameCounters(T, C)
    BY <1>5, <1>6, <1>7 DEF Beside, SameTail, SameCounters
  <1>9. p \in 1 .. C.m_nTAIL_POS
    BY <1>8
  <1>10. U \in Tries /\ SameNodes(C, U) /\ SameCounters(C, U) /\ TailWritten(C, U, Tail(b), p)
    BY <1>1, <1>7, <1>9, WriteTail, ZenonT(40) DEF TailWritten
  <1> HIDE DEF U
  <1>11. TailWritten(T, U, Tail(b), p) /\ SameCounters(T, U)
    BY <1>8, <1>10 DEF TailWritten, SameCounters
  <1>12. LeafAt(T, U, s, t, p, d)
    <2>1. ASSUME NEW n \in Nat
          PROVE  /\ CHECK(U, n) = IF n = t THEN s ELSE CHECK(T, n)
                 /\ BASE(U, n) = IF n = t THEN -p ELSE BASE(T, n)
                 /\ DETAIL(U, n) = IF n = t THEN d ELSE DETAIL(T, n)
      <3>1. CHECK(U, n) = CHECK(C, n) /\ BASE(U, n) = BASE(C, n) /\ DETAIL(U, n) = DETAIL(C, n)
        BY <1>10, SameCells
      <3> QED
        BY <1>5, <1>6, <1>7, <3>1 DEF OnlyCheck, OnlyBase, OnlyDetail
    <2> QED
      BY <2>1 DEF LeafAt
  <1> QED
    BY <1>4, <1>10, <1>11, <1>12 DEF t

LEMMA LeafTree ==
  ASSUME NEW T, Tree(T, 0), NEW U \in Tries, NEW s \in Nat, Used(T, s), BASE(T, s) > 0,
         NEW c \in Codes, NEW t, t = BASE(T, s) + c, CHECK(T, t) = 0,
         NEW p \in Nat \ {0}, NEW d, LeafAt(T, U, s, t, p, d)
  PROVE  /\ t \in Nat /\ t >= 2 /\ ~ Used(T, t) /\ Byte(U, t) = c
         /\ Tree(U, 0) /\ Extends(T, U, 0)
  <1>1. T \in Tries /\ CHECK(T, 1) = 0 /\ BASE(T, 1) > 0
    BY DEF Tree
  <1>2. BASE(T, s) \in Int /\ c \in Nat /\ c >= 1
    BY <1>1, DictionaryTrieAssumption, CellTypes DEF Codes
  <1>3. t \in Nat /\ t >= 2 /\ ~ Used(T, t)
    BY <1>2 DEF Used
  <1>4. s # t
    BY <1>3
  <1>5. ASSUME NEW n \in Nat, n # t
        PROVE  CHECK(U, n) = CHECK(T, n) /\ BASE(U, n) = BASE(T, n)
    BY <1>5 DEF LeafAt
  <1>6. CHECK(U, t) = s /\ BASE(U, t) = -p
    BY <1>3 DEF LeafAt
  <1>7. ASSUME NEW n \in Nat, Used(T, n)
        PROVE  n # t /\ Used(U, n) /\ CHECK(U, n) = CHECK(T, n) /\ BASE(U, n) = BASE(T, n)
    BY <1>3, <1>5, <1>7 DEF Used
  <1>8. Byte(U, t) = c
    BY <1>2, <1>4, <1>5, <1>6 DEF Byte
  <1>9. CHECK(U, 1) = 0 /\ BASE(U, 1) > 0
    BY <1>1, <1>3, <1>5
  <1>10. ASSUME NEW n \in Nat, CHECK(U, n) # 0 PROVE IsChild(U, n) /\ IsNode(U, n)
    <2>1. CASE n = t
      <3>1. Used(U, s) /\ BASE(U, s) = BASE(T, s)
        BY <1>7
      <3>2. IsChild(U, t)
        BY <1>2, <1>3, <1>4, <1>6, <1>8, <3>1 DEF IsChild, Byte
      <3>3. IsNode(U, t)
        BY <1>6 DEF IsNode
      <3> QED
        BY <2>1, <3>2, <3>3
    <2>2. CASE n # t
      <3>1. CHECK(U, n) = CHECK(T, n) /\ BASE(U, n) = BASE(T, n) /\ CHECK(T, n) # 0
        BY <1>5, <1>10, <2>2
      <3>2. IsChild(T, n) /\ IsNode(T, n)
        <4>1. n # 0
          BY <1>1, <3>1 DEF Tree, IsChild
        <4> QED
          BY <3>1, <4>1 DEF Tree
      <3>3. CHECK(T, n) \in Nat /\ Used(T, CHECK(T, n))
        BY <3>2 DEF IsChild, Used
      <3>4. BASE(U, CHECK(T, n)) = BASE(T, CHECK(T, n)) /\ Used(U, CHECK(T, n))
        BY <1>7, <3>3
      <3> QED
        BY <3>1, <3>2, <3>4 DEF IsChild, IsNode, Byte
    <2> QED
      BY <2>1, <2>2
  <1>11. Tree(U, 0)
    BY <1>9, <1>10 DEF Tree
  <1>12. Extends(T, U, 0)
    BY <1>7 DEF Extends
  <1> QED
    BY <1>3, <1>8, <1>11, <1>12

(* Who had a tail keeps it; the new leaf has one unless it ends a word.    *)
KeepsTails(T, U) ==
  \A n \in Nat : HasTail(T, 0, n) =>
    HasTail(U, 0, n) /\ RestOf(U, n) = RestOf(T, n)

LEMMA LeafTails ==
  ASSUME NEW T, Tree(T, 0), Tails(T, 0), NEW U \in Tries,
         NEW s \in Nat, Used(T, s), BASE(T, s) > 0,
         NEW c \in Codes, NEW t, t = BASE(T, s) + c, CHECK(T, t) = 0,
         NEW p, NEW d, LeafAt(T, U, s, t, p, d),
         NEW a \in Seq(Codes), TailWritten(T, U, a, p), HasRoom(T, p, Len(a)),
         c # POSTFIX_CHAR => Len(a) >= 1,
         \A k \in 1 .. Len(a) : a[k] = POSTFIX_CHAR <=> k = Len(a)
  PROVE  /\ Tails(U, 0) /\ KeepsTails(T, U)
         /\ c # POSTFIX_CHAR => HasTail(U, 0, t) /\ RestOf(U, t) = a
  <1> DEFINE l == Len(a)
             pos == T.m_nTAIL_POS
             end == U.m_nTAIL_POS
  <1>1. T \in Tries /\ l \in Nat /\ pos \in Nat /\ end \in Nat /\ p \in 1 .. pos
    <2>1. T \in Tries
      BY DEF Tree
    <2> QED
      BY <2>1, TrieFields DEF HasRoom
  <1>2. p \in Nat /\ p \in Nat \ {0} /\ p >= 1 /\ p <= pos /\ end >= pos /\ end >= p + l
    BY <1>1 DEF TailWritten
  <1>3. /\ t \in Nat /\ t >= 2 /\ ~ Used(T, t) /\ Byte(U, t) = c
        /\ Tree(U, 0) /\ Extends(T, U, 0)
    BY <1>2, LeafTree
  <1>4. \A q \in 0 .. end - 1 :
          U.m_psTAIL[q] = IF q \in p .. p + l - 1 THEN a[q - p + 1] ELSE T.m_psTAIL[q]
    BY DEF TailWritten
  <1>5. CHECK(U, t) = s /\ BASE(U, t) = -p /\ s # 0
    <2>1. CHECK(U, t) = s /\ BASE(U, t) = -p
      BY <1>3 DEF LeafAt
    <2>2. s # 0
      BY DEF Used, Tree, IsChild
    <2> QED
      BY <2>1, <2>2
  <1> HIDE DEF l, pos, end
  <1>6. ASSUME NEW n \in Nat, n # t, CHECK(T, n) # 0
        PROVE  CHECK(U, n) = CHECK(T, n) /\ BASE(U, n) = BASE(T, n) /\ Byte(U, n) = Byte(T, n)
    <2>1. Used(T, n)
      BY <1>6 DEF Used
    <2>2. CHECK(U, n) = CHECK(T, n) /\ BASE(U, n) = BASE(T, n)
      BY <1>6 DEF LeafAt
    <2>3. Used(T, CHECK(T, n))
      BY <1>6 DEF Tree, IsChild
    <2>4. BASE(U, CHECK(T, n)) = BASE(T, CHECK(T, n))
      <3>1. CHECK(T, n) \in Nat /\ CHECK(T, n) # t
        BY <1>3, <2>3 DEF Used
      <3> QED
        BY <3>1 DEF LeafAt
    <2> QED
      BY <2>2, <2>4 DEF Byte
  <1>7. ASSUME NEW n \in Nat, n # t PROVE HasTail(U, 0, n) <=> HasTail(T, 0, n)
    <2>1. CHECK(U, n) = CHECK(T, n)
      BY <1>7 DEF LeafAt
    <2> QED
      BY <1>6, <1>7, <2>1 DEF HasTail
  <1>8. ~ HasTail(T, 0, t)
    BY <1>3 DEF HasTail, Used
  <1>9. ASSUME NEW n \in Nat, HasTail(T, 0, n)
        PROVE  /\ n # t /\ BASE(U, n) = BASE(T, n) /\ Tailed(U, -BASE(T, n))
               /\ TailEnd(U, -BASE(T, n)) = TailEnd(T, -BASE(T, n))
               /\ READ_TAIL(U, -BASE(T, n)) = READ_TAIL(T, -BASE(T, n))
    <2> DEFINE r == -BASE(T, n)
               e == TailEnd(T, r)
    <2>1. n # t /\ BASE(U, n) = BASE(T, n)
      BY <1>6, <1>8, <1>9 DEF HasTail
    <2>2. Tailed(T, r)
      BY <1>9 DEF Tails
    <2>3. r \in Nat /\ e \in r .. pos - 1 /\ r >= 1
      BY <1>1, <2>2, TailEndIs DEF Tailed, pos
    <2>4. r \notin p .. p + l - 1 /\ p \notin r .. e
      BY <1>9 DEF HasRoom, l
    <2> HIDE DEF r, e
    <2>5. ASSUME NEW q \in r .. e PROVE U.m_psTAIL[q] = T.m_psTAIL[q]
      <3>1. q \in 0 .. end - 1
        BY <1>1, <1>2, <2>3
      <3>2. q \notin p .. p + l - 1
        BY <1>1, <1>2, <2>3, <2>4
      <3> QED
        BY <1>4, <3>1, <3>2
    <2>6. Tailed(U, r) /\ TailEnd(U, r) = e /\ READ_TAIL(U, r) = READ_TAIL(T, r)
      BY <1>1, <1>2, <2>2, <2>5, SameRest DEF e, pos, end
    <2> QED
      BY <2>1, <2>6 DEF r, e
  <1>10. KeepsTails(T, U)
    BY <1>7, <1>9 DEF KeepsTails, RestOf
  <1>11. ASSUME c # POSTFIX_CHAR
         PROVE  Tailed(U, p) /\ TailEnd(U, p) = p + l - 1 /\ READ_TAIL(U, p) = a
    <2>1. l >= 1
      BY <1>11 DEF l
    <2>2. ASSUME NEW k \in 1 .. l PROVE U.m_psTAIL[p + k - 1] = a[k]
      <3>1. p + k - 1 \in 0 .. end - 1 /\ p + k - 1 \in p .. p + l - 1 /\ (p + k - 1) - p + 1 = k
        BY <1>1, <1>2
      <3> QED
        BY <1>4, <3>1
    <2> QED
      BY <1>2, <2>1, <2>2, WrittenTail DEF l, end
  <1>12. HasTail(U, 0, t) <=> c # POSTFIX_CHAR
    BY <1>2, <1>3, <1>5 DEF HasTail
  <1>13. c # POSTFIX_CHAR => HasTail(U, 0, t) /\ RestOf(U, t) = a
    <2>1. -BASE(U, t) = p
      BY <1>2, <1>5
    <2> QED
      BY <1>11, <1>12, <2>1 DEF RestOf
  <1>14. Tails(U, 0)
    <2>1. SUFFICES ASSUME NEW n \in Nat, HasTail(U, 0, n)
                   PROVE  /\ Tailed(U, -BASE(U, n))
                          /\ \A m \in Nat : HasTail(U, 0, m) /\ m # n => Apart(U, m, n)
      BY DEF Tails
    <2>2. CASE n = t
      <3>1. -BASE(U, n) = p /\ c # POSTFIX_CHAR
        BY <1>2, <1>5, <1>12, <2>1, <2>2
      <3>2. Tailed(U, p) /\ TailEnd(U, p) = p + l - 1
        BY <1>11, <3>1
      <3>3. ASSUME NEW m \in Nat, HasTail(U, 0, m), m # n PROVE Apart(U, m, n)
        <4>1. HasTail(T, 0, m)
          BY <1>7, <2>2, <3>3
        <4>2. BASE(U, m) = BASE(T, m) /\ -BASE(T, m) \notin p .. p + l - 1
          BY <1>9, <4>1 DEF HasRoom, l
        <4> QED
          BY <3>1, <3>2, <4>2 DEF Apart
      <3> QED
        BY <3>1, <3>2, <3>3
    <2>3. CASE n # t
      <3>1. HasTail(T, 0, n)
        BY <1>7, <2>1, <2>3
      <3>2. /\ BASE(U, n) = BASE(T, n) /\ Tailed(U, -BASE(T, n))
            /\ TailEnd(U, -BASE(T, n)) = TailEnd(T, -BASE(T, n))
        BY <1>9, <3>1
      <3>3. ASSUME NEW m \in Nat, HasTail(U, 0, m), m # n PROVE Apart(U, m, n)
        <4>1. CASE m = t
          <5>1. -BASE(U, m) = p
            BY <1>2, <1>5, <4>1
          <5>2. p \notin -BASE(T, n) .. TailEnd(T, -BASE(T, n))
            BY <3>1 DEF HasRoom
          <5> QED
            BY <3>2, <5>1, <5>2 DEF Apart
        <4>2. CASE m # t
          <5>1. HasTail(T, 0, m)
            BY <1>7, <3>3, <4>2
          <5>2. BASE(U, m) = BASE(T, m) /\ Apart(T, m, n)
            BY <1>9, <3>1, <3>3, <5>1 DEF Tails
          <5> QED
            BY <3>2, <5>2 DEF Apart
        <4> QED
          BY <4>1, <4>2
      <3> QED
        BY <3>2, <3>3
    <2> QED
      BY <2>2, <2>3
  <1> QED
    BY <1>10, <1>13, <1>14

-----------------------------------------------------------------------------
(* What a new leaf spells.                                                 *)

(* The rest of a key: it ends where its first POSTFIX_CHAR is.             *)
Closed(b) ==
  b \in Seq(Codes) /\ Len(b) >= 1 /\ \A k \in 1 .. Len(b) : b[k] = POSTFIX_CHAR <=> k = Len(b)
(* The key of v leads to s, and then goes on with b.                       *)
Below(T, s, b, v) ==
  \E h \in 1 .. Len(v) + 1 : Path(T, Key(v))[h - 1] = s /\ SubSeq(Key(v), h, Len(Key(v))) = b

LEMMA TailIs ==
  ASSUME NEW b \in Seq(Codes), Len(b) >= 1
  PROVE  /\ Tail(b) \in Seq(Codes) /\ Len(Tail(b)) = Len(b) - 1 /\ b[1] \in Codes
         /\ \A k \in 1 .. Len(b) - 1 : Tail(b)[k] = b[k + 1]
  <1>1. b # <<>> /\ 1 \in 1 .. Len(b)
    OBVIOUS
  <1> QED
    BY <1>1

LEMMA EmptySeq ==
  ASSUME NEW x \in Seq(Codes), Len(x) = 0
  PROVE  x = <<>>
  OBVIOUS

LEMMA SameHeadAndTail ==
  ASSUME NEW x \in Seq(Codes), NEW y \in Seq(Codes), Len(x) >= 1, Len(y) >= 1,
         x[1] = y[1], Tail(x) = Tail(y)
  PROVE  x = y
  <1>1. Len(Tail(x)) = Len(x) - 1 /\ \A k \in 1 .. Len(x) - 1 : Tail(x)[k] = x[k + 1]
    BY TailIs
  <1>2. Len(Tail(y)) = Len(y) - 1 /\ \A k \in 1 .. Len(y) - 1 : Tail(y)[k] = y[k + 1]
    BY TailIs
  <1>3. Len(x) = Len(y) /\ Len(x) \in Nat /\ Len(y) \in Nat
    BY <1>1, <1>2
  <1>4. ASSUME NEW k \in 1 .. Len(x) PROVE x[k] = y[k]
    <2>1. k = 1 \/ (k - 1 \in 1 .. Len(x) - 1 /\ k - 1 \in 1 .. Len(y) - 1 /\ (k - 1) + 1 = k)
      BY <1>3
    <2>2. ASSUME k - 1 \in 1 .. Len(x) - 1, k - 1 \in 1 .. Len(y) - 1, (k - 1) + 1 = k
          PROVE  x[k] = y[k]
      <3>1. Tail(x)[k - 1] = x[k] /\ Tail(y)[k - 1] = y[k]
        BY <1>1, <1>2, <2>2
      <3> QED
        BY <3>1
    <2> QED
      BY <2>1, <2>2
  <1> QED
    BY <1>3, <1>4

LEMMA SpellsSame ==
  ASSUME NEW T, NEW U, NEW x, NEW y, NEW o, Tree(T, x), Tree(U, y), Extends(T, U, o),
         NEW v \in Seq(Letters), NEW h \in 1 .. Len(v) + 1,
         NEW n \in Nat, Used(T, n), n # x, n # y, BASE(U, n) = BASE(T, n),
         HasTail(T, x, n) => RestOf(U, n) = RestOf(T, n)
  PROVE  /\ Path(U, Key(v))[h] = n <=> Path(T, Key(v))[h] = n
         /\ Path(T, Key(v))[h] = n => (Spells(U, y, Key(v), h) <=> Spells(T, x, Key(v), h))
  <1>1. Key(v) \in Seq(Nat) /\ Len(Key(v)) = Len(v) + 1 /\ Len(v) \in Nat
    BY KeyIs
  <1>2. h \in 0 .. Len(Key(v)) /\ h \in 1 .. Len(Key(v))
    BY <1>1
  <1>3. Path(U, Key(v))[h] = n <=> Path(T, Key(v))[h] = n
    BY <1>1, <1>2, PathExtends
  <1>4. ASSUME Path(T, Key(v))[h] = n
        PROVE  Spells(U, y, Key(v), h) <=> Spells(T, x, Key(v), h)
    <2>1. Path(U, Key(v))[h] = n
      BY <1>3, <1>4
    <2>2. n # 0 /\ BASE(T, n) < 0 /\ Key(v)[h] # POSTFIX_CHAR => RestOf(U, n) = RestOf(T, n)
      <3>1. SUFFICES ASSUME n # 0, BASE(T, n) < 0, Key(v)[h] # POSTFIX_CHAR
                     PROVE  HasTail(T, x, n)
        OBVIOUS
      <3>2. CHECK(T, n) # 0
        <4>1. CHECK(T, n) = Path(T, Key(v))[h - 1] /\ Path(T, Key(v))[h - 1] # 0
          BY <1>1, <1>2, <1>4, <3>1, PathDown
        <4> QED
          BY <4>1
      <3>3. Byte(T, n) = Key(v)[h]
        BY <1>1, <1>2, <1>4, <3>1, PathDown
      <3> QED
        BY <3>1, <3>2, <3>3 DEF HasTail
    <2> QED
      BY <1>4, <2>1, <2>2 DEF Spells
  <1> QED
    BY <1>3, <1>4

LEMMA LeafHas ==
  ASSUME NEW T, Sound(T, 0), NEW s \in Nat, Used(T, s), BASE(T, s) > 0,
         NEW b, Closed(b), CHECK(T, BASE(T, s) + b[1]) = 0,
         NEW p, HasRoom(T, p, Len(b) - 1), NEW d \in 1 .. T.m_nPreCurrent_Detail_Pos
  PROVE  LET U == Separate(T, s, b, p, d)
         IN  /\ Sound(U, 0) /\ SameCounters(T, U) /\ Extends(T, U, 0)
             /\ TailWritten(T, U, Tail(b), p) /\ LeafAt(T, U, s, BASE(T, s) + b[1], p, d)
             /\ \A v \in Seq(Letters) : \A e :
                  Has(U, 0, v, e) <=> Has(T, 0, v, e) \/ (e = d /\ Below(T, s, b, v))
  <1> DEFINE U == Separate(T, s, b, p, d)
             a == Tail(b)
             c == b[1]
             t == BASE(T, s) + c
  <1>1. /\ Tree(T, 0) /\ Tails(T, 0) /\ Numbered(T, 0) /\ T \in Tries
        /\ T.m_nPreCurrent_Detail_Pos \in Nat
    <2>1. Tree(T, 0) /\ Tails(T, 0) /\ Numbered(T, 0) /\ T \in Tries
      BY DEF Sound, Tree
    <2> QED
      BY <2>1, TrieFields
  <1>2. /\ b \in Seq(Codes) /\ Len(b) >= 1 /\ Len(b) \in Nat
        /\ \A k \in 1 .. Len(b) : b[k] = POSTFIX_CHAR <=> k = Len(b)
    BY DEF Closed
  <1>3. a \in Seq(Codes) /\ Len(a) = Len(b) - 1 /\ c \in Codes
        /\ \A k \in 1 .. Len(b) - 1 : a[k] = b[k + 1]
    BY <1>2, TailIs
  <1>4. c = POSTFIX_CHAR <=> Len(b) = 1
    <2>1. 1 \in 1 .. Len(b)
      BY <1>2
    <2> QED
      BY <1>2, <2>1
  <1> HIDE DEF a, c
  <1>5. c # POSTFIX_CHAR => Len(a) >= 1
    BY <1>2, <1>3, <1>4
  <1>6. \A k \in 1 .. Len(a) : a[k] = POSTFIX_CHAR <=> k = Len(a)
    <2>1. ASSUME NEW k \in 1 .. Len(a) PROVE a[k] = POSTFIX_CHAR <=> k = Len(a)
      <3>1. k \in 1 .. Len(b) - 1 /\ k + 1 \in 1 .. Len(b) /\ (k + 1 = Len(b) <=> k = Len(a))
        BY <1>2, <1>3
      <3> QED
        BY <1>2, <1>3, <3>1
    <2> QED
      BY <2>1
  <1>7. p \in 1 .. T.m_nTAIL_POS /\ HasRoom(T, p, Len(a)) /\ d \in Nat
    BY <1>1, <1>3 DEF HasRoom
  <1>8. U \in Tries /\ SameCounters(T, U) /\ TailWritten(T, U, a, p) /\ LeafAt(T, U, s, t, p, d)
    <2>1. LET W == Separate(T, s, b, p, d)
          IN  /\ W \in Tries /\ SameCounters(T, W) /\ TailWritten(T, W, Tail(b), p)
              /\ LeafAt(T, W, s, BASE(T, s) + b[1], p, d)
      BY <1>1, <1>2, <1>7, SeparateIs
    <2> QED
      BY <2>1 DEF a, c
  <1>9. p \in Nat \ {0} /\ CHECK(T, t) = 0
    <2>1. T.m_nTAIL_POS \in Nat
      BY <1>1, TrieFields
    <2> QED
      BY <1>7, <2>1 DEF c
  <1> HIDE DEF t, U
  <1>10. /\ t \in Nat /\ t >= 2 /\ ~ Used(T, t) /\ Byte(U, t) = c
         /\ Tree(U, 0) /\ Extends(T, U, 0)
    BY <1>1, <1>3, <1>8, <1>9, LeafTree DEF t
  <1>11. /\ Tails(U, 0) /\ KeepsTails(T, U)
         /\ c # POSTFIX_CHAR => HasTail(U, 0, t) /\ RestOf(U, t) = a
    BY <1>1, <1>3, <1>5, <1>6, <1>7, <1>8, <1>9, LeafTails DEF t
  <1>12. CHECK(U, t) = s /\ BASE(U, t) = -p /\ DETAIL(U, t) = d
    BY <1>8, <1>10 DEF LeafAt
  <1>13. ASSUME NEW n \in Nat, n # t
         PROVE  CHECK(U, n) = CHECK(T, n) /\ BASE(U, n) = BASE(T, n) /\ DETAIL(U, n) = DETAIL(T, n)
    BY <1>8, <1>13 DEF LeafAt
  <1>14. Numbered(U, 0)
    <2>1. SUFFICES ASSUME NEW n \in Nat, n # 0, CHECK(U, n) # 0, BASE(U, n) < 0
                   PROVE  DETAIL(U, n) \in 1 .. U.m_nPreCurrent_Detail_Pos
      BY DEF Numbered
    <2>2. U.m_nPreCurrent_Detail_Pos = T.m_nPreCurrent_Detail_Pos
      BY <1>8 DEF SameCounters
    <2>3. CASE n = t
      BY <1>12, <2>2, <2>3
    <2>4. CASE n # t
      BY <1>1, <1>13, <2>1, <2>2, <2>4 DEF Numbered
    <2> QED
      BY <2>3, <2>4
  <1>15. ASSUME NEW v \in Seq(Letters), NEW h \in 1 .. Len(v) + 1, NEW n \in Nat, n # t, n # 0
         PROVE  /\ Path(U, Key(v))[h] = n <=> Path(T, Key(v))[h] = n
                /\ Path(T, Key(v))[h] = n => (Spells(U, 0, Key(v), h) <=> Spells(T, 0, Key(v), h))
    <2>1. Key(v) \in Seq(Nat) /\ h \in 1 .. Len(Key(v))
      BY KeyIs
    <2>2. CASE Used(T, n)
      <3>1. BASE(U, n) = BASE(T, n)
        BY <1>13, <1>15
      <3>2. HasTail(T, 0, n) => RestOf(U, n) = RestOf(T, n)
        BY <1>11 DEF KeepsTails
      <3> QED
        BY <1>1, <1>10, <1>15, <2>2, <3>1, <3>2, SpellsSame
    <2>3. CASE ~ Used(T, n)
      <3>1. Path(T, Key(v))[h] # n
        <4>1. SUFFICES ASSUME Path(T, Key(v))[h] = n PROVE FALSE
          OBVIOUS
        <4>2. CHECK(T, n) # 0
          <5> DEFINE key == Key(v)
          <5>1. /\ Tree(T, 0) /\ key \in Seq(Nat) /\ h \in 1 .. Len(key)
                /\ Path(T, key)[h] = n /\ n # 0
            BY <1>1, <1>15, <2>1, <4>1
          <5> HIDE DEF key
          <5> QED
            BY <5>1, PathDown, SMTT(20)
        <4> QED
          BY <1>15, <2>3, <4>2 DEF Used
      <3>2. Path(U, Key(v))[h] # n
        <4>1. CHECK(U, n) = 0
          BY <1>13, <1>15, <2>3 DEF Used
        <4>2. ASSUME Path(U, Key(v))[h] = n PROVE CHECK(U, n) # 0
          <5>1. Path(U, Key(v))[h] # 0
            BY <1>15, <4>2
          <5>2. CHECK(U, n) = Path(U, Key(v))[h - 1] /\ Path(U, Key(v))[h - 1] # 0
            BY <1>10, <2>1, <4>2, <5>1, PathDown
          <5> QED
            BY <5>2
        <4> QED
          BY <4>1, <4>2
      <3> QED
        BY <3>1, <3>2
    <2> QED
      BY <2>2, <2>3
  <1>16. ASSUME NEW v \in Seq(Letters), NEW h \in 1 .. Len(v) + 1
         PROVE  /\ Path(T, Key(v))[h] # t
                /\ Path(U, Key(v))[h] \in Nat /\ Path(T, Key(v))[h] \in Nat
                /\ Path(U, Key(v))[h] = t /\ Spells(U, 0, Key(v), h) <=>
                     Path(T, Key(v))[h - 1] = s /\ SubSeq(Key(v), h, Len(Key(v))) = b
    <2> DEFINE key == Key(v)
               y == SubSeq(key, h, Len(key))
    <2>1. /\ key \in Seq(Nat) /\ h \in 1 .. Len(key) /\ h \in 0 .. Len(key) /\ h - 1 \in 0 .. Len(key)
          /\ h \in Nat /\ Len(v) \in Nat
      BY KeyIs
    <2>2. /\ y \in Seq(Codes) /\ Len(y) = Len(v) + 2 - h /\ y[1] = key[h]
          /\ Tail(y) = SubSeq(key, h + 1, Len(key))
          /\ key[h] = POSTFIX_CHAR <=> h = Len(v) + 1
      BY RestOfKey
    <2> HIDE DEF key, y
    <2>3. Path(U, key)[h] \in Nat /\ Path(T, key)[h] \in Nat /\ Path(T, key)[h] # t
      <3>1. Path(U, key)[h] \in Nat /\ Path(T, key)[h] \in Nat
        BY <1>1, <1>8, <2>1, PathTypes
      <3>2. CHECK(T, t) = 0 /\ t # 0
        BY <1>10 DEF Used
      <3>3. ASSUME Path(T, key)[h] = t PROVE CHECK(T, t) # 0
        <4>1. Path(T, key)[h] # 0
          BY <3>2, <3>3
        <4>2. CHECK(T, t) = Path(T, key)[h - 1] /\ Path(T, key)[h - 1] # 0
          BY <1>1, <2>1, <3>3, <4>1, PathDown
        <4> QED
          BY <4>2
      <3> QED
        BY <3>1, <3>2, <3>3
    <2>4. Path(U, key)[h - 1] = s <=> Path(T, key)[h - 1] = s
      <3>1. \A i \in 0 .. Len(key) : \A n \in Nat :
              Used(T, n) => (Path(U, key)[i] = n <=> Path(T, key)[i] = n)
        BY <1>1, <1>10, <2>1, PathExtends
      <3> QED
        BY <2>1, <3>1
    <2>5. ASSUME Path(U, key)[h] = t, Spells(U, 0, key, h)
          PROVE  Path(T, key)[h - 1] = s /\ y = b
      <3>1. CHECK(U, t) = Path(U, key)[h - 1] /\ Byte(U, t) = key[h]
        BY <1>10, <2>1, <2>5, PathDown DEF Spells
      <3>2. y[1] = c /\ Path(T, key)[h - 1] = s
        BY <1>10, <1>12, <2>2, <2>4, <3>1
      <3>3. Tail(y) = a
        <4>1. CASE c = POSTFIX_CHAR
          <5>1. Len(y) = 1 /\ Len(b) = 1
            BY <1>4, <2>1, <2>2, <3>2, <4>1
          <5>2. Len(Tail(y)) = 0 /\ Tail(y) \in Seq(Codes)
            BY <2>2, <5>1, TailIs
          <5>3. Len(a) = 0
            BY <1>3, <5>1
          <5>4. Tail(y) = <<>>
            BY <5>2, EmptySeq
          <5>5. a = <<>>
            BY <1>3, <5>3, EmptySeq
          <5> QED
            BY <5>4, <5>5
        <4>2. CASE c # POSTFIX_CHAR
          BY <1>11, <2>2, <2>5, <3>2, <4>2 DEF Spells
        <4> QED
          BY <4>1, <4>2
      <3>4. Len(y) >= 1
        BY <2>1, <2>2
      <3>5. y[1] = b[1] /\ Tail(y) = Tail(b)
        BY <3>2, <3>3 DEF a, c
      <3>6. y = b
        BY <1>2, <2>2, <3>4, <3>5, SameHeadAndTail
      <3> QED
        BY <3>2, <3>6
    <2>6. ASSUME Path(T, key)[h - 1] = s, y = b
          PROVE  Path(U, key)[h] = t /\ Spells(U, 0, key, h)
      <3>1. Path(U, key)[h - 1] = s /\ key[h] = c
        BY <2>2, <2>4, <2>6 DEF c
      <3>2. Path(U, key)[h] = Child(U, s, c)
        BY <1>8, <2>1, <3>1, PathIs
      <3>3. BASE(U, s) = BASE(T, s) /\ s # 0
        <4>1. s # t
          BY <1>10
        <4>2. s # 0
          BY <1>1 DEF Used, Tree, IsChild
        <4> QED
          BY <1>13, <4>1, <4>2
      <3>4. BASE(T, s) \in Int
        BY <1>1, CellTypes
      <3>5. Child(U, s, c) = t
        BY <1>12, <3>3, <3>4 DEF Child, t
      <3>6. BASE(U, t) < 0
        BY <1>9, <1>12
      <3>7. key[h] = POSTFIX_CHAR \/ RestOf(U, t) = SubSeq(key, h + 1, Len(key))
        BY <1>11, <2>2, <2>6, <3>1 DEF a
      <3> QED
        BY <1>10, <3>2, <3>5, <3>6, <3>7 DEF Spells
    <2> QED
      BY <2>3, <2>5, <2>6 DEF key, y
  <1>17. ASSUME NEW v \in Seq(Letters), NEW e
         PROVE  Has(U, 0, v, e) <=> Has(T, 0, v, e) \/ (e = d /\ Below(T, s, b, v))
    <2>1. ASSUME Has(U, 0, v, e) PROVE Has(T, 0, v, e) \/ (e = d /\ Below(T, s, b, v))
      <3>1. PICK h \in 1 .. Len(v) + 1 :
              Spells(U, 0, Key(v), h) /\ e = DETAIL(U, Path(U, Key(v))[h])
        BY <2>1 DEF Has
      <3> DEFINE n == Path(U, Key(v))[h]
      <3>2. n \in Nat /\ n # 0
        BY <1>16, <3>1 DEF Spells
      <3>3. CASE n = t
        BY <1>12, <1>16, <3>1, <3>3 DEF Below
      <3>4. CASE n # t
        <4>1. Path(T, Key(v))[h] = n /\ Spells(T, 0, Key(v), h)
          BY <1>15, <3>1, <3>2, <3>4
        <4>2. e = DETAIL(T, n)
          BY <1>13, <3>1, <3>2, <3>4
        <4> QED
          BY <4>1, <4>2 DEF Has
      <3> QED
        BY <3>3, <3>4
    <2>2. ASSUME Has(T, 0, v, e) PROVE Has(U, 0, v, e)
      <3>1. PICK h \in 1 .. Len(v) + 1 :
              Spells(T, 0, Key(v), h) /\ e = DETAIL(T, Path(T, Key(v))[h])
        BY <2>2 DEF Has
      <3> DEFINE n == Path(T, Key(v))[h]
      <3>2. n \in Nat /\ n # 0 /\ n # t
        BY <1>16, <3>1 DEF Spells
      <3>3. Path(U, Key(v))[h] = n /\ Spells(U, 0, Key(v), h)
        BY <1>15, <3>1, <3>2
      <3>4. e = DETAIL(U, n)
        BY <1>13, <3>1, <3>2
      <3> QED
        BY <3>3, <3>4 DEF Has
    <2>3. ASSUME e = d, Below(T, s, b, v) PROVE Has(U, 0, v, e)
      <3>1. PICK h \in 1 .. Len(v) + 1 :
              Path(T, Key(v))[h - 1] = s /\ SubSeq(Key(v), h, Len(Key(v))) = b
        BY <2>3 DEF Below
      <3>2. Path(U, Key(v))[h] = t /\ Spells(U, 0, Key(v), h)
        BY <1>16, <3>1
      <3> QED
        BY <1>12, <2>3, <3>2 DEF Has
    <2> QED
      BY <2>1, <2>2, <2>3
  <1> QED
    BY <1>1, <1>8, <1>10, <1>11, <1>14, <1>17 DEF Sound, U, a, t, c

-----------------------------------------------------------------------------
(* Room for nodes and tails.                                               *)

LEMMA RoomAtEnd ==
  ASSUME NEW T, Sound(T, 0), NEW l \in Nat
  PROVE  HasRoom(T, T.m_nTAIL_POS, l)
  <1> DEFINE pos == T.m_nTAIL_POS
  <1>1. T \in Tries /\ Tails(T, 0)
    BY DEF Sound, Tree
  <1>2. pos \in Nat \ {0}
    BY <1>1, TrieFields
  <1>3. ASSUME NEW m \in Nat, HasTail(T, 0, m)
        PROVE  -BASE(T, m) \notin pos .. pos + l - 1 /\ pos \notin -BASE(T, m) .. TailEnd(T, -BASE(T, m))
    <2>1. Tailed(T, -BASE(T, m))
      BY <1>1, <1>3 DEF Tails
    <2>2. TailEnd(T, -BASE(T, m)) \in -BASE(T, m) .. pos - 1
      BY <1>1, <2>1, TailEndIs
    <2>3. -BASE(T, m) \in 1 .. pos - 1
      BY <2>1 DEF Tailed
    <2> HIDE DEF pos
    <2>4. -BASE(T, m) \in Nat /\ -BASE(T, m) < pos
      BY <1>2, <2>3
    <2>5. TailEnd(T, -BASE(T, m)) \in Int /\ TailEnd(T, -BASE(T, m)) < pos
      BY <1>2, <2>2, <2>4
    <2> QED
      BY <1>2, <2>4, <2>5
  <1> QED
    BY <1>2, <1>3 DEF HasRoom

LEMMA XCheckIs ==
  ASSUME NEW T \in Tries, NEW list \in Seq(Codes)
  PROVE  /\ X_CHECK(T, list) \in Nat \ {0}
         /\ \A k \in 1 .. Len(list) : CHECK(T, X_CHECK(T, list) + list[k]) = 0
  <1> DEFINE S == {b \in 1 .. T.m_nBC_POS : \A k \in DOMAIN list : CHECK(T, b + list[k]) = 0}
             pos == T.m_nBC_POS
  <1>1. pos \in Nat \ {0}
    BY TrieFields
  <1>2. ASSUME NEW k \in DOMAIN list PROVE CHECK(T, pos + list[k]) = 0
    <2>1. list[k] \in Nat /\ list[k] >= 1
      <3>1. list[k] \in Codes
        OBVIOUS
      <3>2. \A c \in Codes : c \in Nat /\ c >= 1
        BY DictionaryTrieAssumption DEF Codes
      <3> QED
        BY <3>1, <3>2
    <2>2. pos + list[k] > T.m_nBC_POS
      BY <1>1, <2>1
    <2>3. Cell(T, pos + list[k]) = Free
      BY <2>2 DEF Cell
    <2> QED
      BY <2>3 DEF CHECK, Free
  <1>3. pos \in S
    BY <1>1, <1>2
  <1>4. S \subseteq Nat /\ S \subseteq Nat \ {0} /\ S # {}
    BY <1>1, <1>3
  <1>5. X_CHECK(T, list) = Min(S)
    BY DEF X_CHECK
  <1>6. Min(S) \in S
    <2> HIDE DEF S
    <2> QED
      BY <1>4, MinIs
  <1>7. DOMAIN list = 1 .. Len(list)
    OBVIOUS
  <1>8. X_CHECK(T, list) \in S
    BY <1>5, <1>6
  <1>9. \A k \in DOMAIN list : CHECK(T, X_CHECK(T, list) + list[k]) = 0
    BY <1>8
  <1>10. X_CHECK(T, list) \in Nat \ {0}
    <2> HIDE DEF S
    <2> QED
      BY <1>4, <1>8
  <1> QED
    BY <1>7, <1>9, <1>10

-----------------------------------------------------------------------------
(* A trie with the same leaves has the same words.                         *)

Leaf(T, x, n) == n \in Nat /\ n # x /\ CHECK(T, n) # 0 /\ BASE(T, n) < 0
SameLeaves(T, x, U, y) ==
  \A n \in Nat : /\ Leaf(U, y, n) <=> Leaf(T, x, n)
                 /\ Leaf(T, x, n) => /\ BASE(U, n) = BASE(T, n) /\ DETAIL(U, n) = DETAIL(T, n)
                                     /\ Byte(U, n) = Byte(T, n)
SameWords(T, x, U, y) ==
  /\ \A n \in Nat : HasTail(U, y, n) <=> HasTail(T, x, n)
  /\ \A n \in Nat : HasTail(T, x, n) => BASE(U, n) = BASE(T, n)
  /\ \A v \in Seq(Letters) : \A e : Has(U, y, v, e) <=> Has(T, x, v, e)

LEMMA SameTailReads ==
  ASSUME NEW T, NEW U, SameTail(T, U), NEW p
  PROVE  /\ Tailed(U, p) <=> Tailed(T, p)
         /\ TailEnd(U, p) = TailEnd(T, p) /\ READ_TAIL(U, p) = READ_TAIL(T, p)
  BY DEF SameTail, Tailed, TailEnd, READ_TAIL

LEMMA SameLeavesSound ==
  ASSUME NEW T, NEW U, NEW x, NEW y, NEW o, Sound(T, x), Tree(U, y), Extends(T, U, o),
         Beside(T, U), SameLeaves(T, x, U, y)
  PROVE  Sound(U, y) /\ SameWords(T, x, U, y)
  <1>1. Tree(T, x) /\ Tails(T, x) /\ Numbered(T, x) /\ T \in Tries /\ U \in Tries
    BY DEF Sound, Tree
  <1>2. SameTail(T, U) /\ U.m_nPreCurrent_Detail_Pos = T.m_nPreCurrent_Detail_Pos
    BY DEF Beside, SameCounters
  <1>3. ASSUME NEW n \in Nat
        PROVE  /\ HasTail(U, y, n) <=> HasTail(T, x, n)
               /\ HasTail(T, x, n) => BASE(U, n) = BASE(T, n)
    BY <1>3 DEF SameLeaves, Leaf, HasTail
  <1>4. Tails(U, y)
    <2>1. SUFFICES ASSUME NEW n \in Nat, HasTail(U, y, n)
                   PROVE  /\ Tailed(U, -BASE(U, n))
                          /\ \A m \in Nat : HasTail(U, y, m) /\ m # n => Apart(U, m, n)
      BY DEF Tails
    <2>2. HasTail(T, x, n) /\ BASE(U, n) = BASE(T, n)
      BY <1>3, <2>1
    <2>3. Tailed(T, -BASE(T, n))
      BY <1>1, <2>2 DEF Tails
    <2>4. Tailed(U, -BASE(U, n)) /\ TailEnd(U, -BASE(U, n)) = TailEnd(T, -BASE(T, n))
      BY <1>2, <2>2, <2>3, SameTailReads
    <2>5. ASSUME NEW m \in Nat, HasTail(U, y, m), m # n PROVE Apart(U, m, n)
      <3>1. HasTail(T, x, m) /\ BASE(U, m) = BASE(T, m)
        BY <1>3, <2>5
      <3>2. Apart(T, m, n)
        BY <1>1, <2>2, <2>5, <3>1 DEF Tails
      <3> QED
        BY <2>2, <2>4, <3>1, <3>2 DEF Apart
    <2> QED
      BY <2>4, <2>5
  <1>5. Numbered(U, y)
    <2>1. SUFFICES ASSUME NEW n \in Nat, n # y, CHECK(U, n) # 0, BASE(U, n) < 0
                   PROVE  DETAIL(U, n) \in 1 .. U.m_nPreCurrent_Detail_Pos
      BY DEF Numbered
    <2>2. Leaf(U, y, n)
      BY <2>1 DEF Leaf
    <2>3. Leaf(T, x, n) /\ DETAIL(U, n) = DETAIL(T, n)
      BY <2>2 DEF SameLeaves
    <2> QED
      BY <1>1, <1>2, <2>3 DEF Numbered, Leaf
  <1>6. ASSUME NEW v \in Seq(Letters), NEW h \in 1 .. Len(v) + 1, NEW n \in Nat, Leaf(T, x, n)
        PROVE  /\ Path(U, Key(v))[h] = n <=> Path(T, Key(v))[h] = n
               /\ Path(T, Key(v))[h] = n => (Spells(U, y, Key(v), h) <=> Spells(T, x, Key(v), h))
               /\ DETAIL(U, n) = DETAIL(T, n)
    <2>1. Used(T, n) /\ n # x
      BY <1>6 DEF Leaf, Used
    <2>2. n # y /\ BASE(U, n) = BASE(T, n) /\ DETAIL(U, n) = DETAIL(T, n)
      BY <1>6 DEF SameLeaves, Leaf
    <2>3. RestOf(U, n) = RestOf(T, n)
      BY <1>2, <2>2, SameTailReads DEF RestOf
    <2> QED
      BY <1>1, <2>1, <2>2, <2>3, SpellsSame
  <1>7. ASSUME NEW v \in Seq(Letters), NEW h \in 1 .. Len(v) + 1
        PROVE  /\ Path(T, Key(v))[h] \in Nat /\ Path(U, Key(v))[h] \in Nat
               /\ Spells(T, x, Key(v), h) => Leaf(T, x, Path(T, Key(v))[h])
               /\ Spells(U, y, Key(v), h) => Leaf(U, y, Path(U, Key(v))[h])
    <2>1. Key(v) \in Seq(Nat) /\ h \in 1 .. Len(Key(v)) /\ h \in 0 .. Len(Key(v))
      BY KeyIs
    <2>2. Path(T, Key(v))[h] \in Nat /\ Path(U, Key(v))[h] \in Nat
      BY <1>1, <2>1, PathTypes
    <2>3. ASSUME Spells(T, x, Key(v), h) PROVE Leaf(T, x, Path(T, Key(v))[h])
      <3>1. Path(T, Key(v))[h] # 0
        BY <2>3 DEF Spells
      <3>2. CHECK(T, Path(T, Key(v))[h]) = Path(T, Key(v))[h - 1] /\ Path(T, Key(v))[h - 1] # 0
        BY <1>1, <2>1, <3>1, PathDown
      <3> QED
        BY <2>2, <2>3, <3>2 DEF Spells, Leaf
    <2>4. ASSUME Spells(U, y, Key(v), h) PROVE Leaf(U, y, Path(U, Key(v))[h])
      <3>1. Path(U, Key(v))[h] # 0
        BY <2>4 DEF Spells
      <3>2. CHECK(U, Path(U, Key(v))[h]) = Path(U, Key(v))[h - 1] /\ Path(U, Key(v))[h - 1] # 0
        BY <1>1, <2>1, <3>1, PathDown
      <3> QED
        BY <2>2, <2>4, <3>2 DEF Spells, Leaf
    <2> QED
      BY <2>2, <2>3, <2>4
  <1>8. ASSUME NEW v \in Seq(Letters), NEW e PROVE Has(U, y, v, e) <=> Has(T, x, v, e)
    <2>1. ASSUME Has(U, y, v, e) PROVE Has(T, x, v, e)
      <3>1. PICK h \in 1 .. Len(v) + 1 :
              Spells(U, y, Key(v), h) /\ e = DETAIL(U, Path(U, Key(v))[h])
        BY <2>1 DEF Has
      <3> DEFINE n == Path(U, Key(v))[h]
      <3>2. n \in Nat /\ Leaf(U, y, n)
        BY <1>7, <3>1
      <3>3. Leaf(T, x, n)
        BY <3>2 DEF SameLeaves
      <3>4. Path(T, Key(v))[h] = n /\ Spells(T, x, Key(v), h) /\ DETAIL(U, n) = DETAIL(T, n)
        BY <1>6, <3>1, <3>2, <3>3
      <3> QED
        BY <3>1, <3>4 DEF Has
    <2>2. ASSUME Has(T, x, v, e) PROVE Has(U, y, v, e)
      <3>1. PICK h \in 1 .. Len(v) + 1 :
              Spells(T, x, Key(v), h) /\ e = DETAIL(T, Path(T, Key(v))[h])
        BY <2>2 DEF Has
      <3> DEFINE n == Path(T, Key(v))[h]
      <3>2. n \in Nat /\ Leaf(T, x, n)
        BY <1>7, <3>1
      <3>3. Path(U, Key(v))[h] = n /\ Spells(U, y, Key(v), h) /\ DETAIL(U, n) = DETAIL(T, n)
        BY <1>6, <3>1, <3>2
      <3> QED
        BY <3>1, <3>3 DEF Has
    <2> QED
      BY <2>1, <2>2
  <1> QED
    BY <1>3, <1>4, <1>5, <1>8 DEF Sound, SameWords

(* The open node gets a base: it is no longer open.                        *)
LEMMA Rebased ==
  ASSUME NEW T, NEW o, Sound(T, o), o # 0, NEW v \in Nat \ {0}
  PROVE  LET U == Write_BASE(T, o, v)
         IN  /\ Sound(U, 0) /\ Beside(T, U) /\ OnlyBase(T, U, o, v) /\ Extends(T, U, o)
             /\ SameWords(T, o, U, 0) /\ BASE(U, o) = v /\ o \in Nat /\ Used(U, o)
  <1> DEFINE U == Write_BASE(T, o, v)
  <1>1. Tree(T, o) /\ T \in Tries /\ o \in Nat /\ IsOpen(T, o) /\ v \in Int /\ v > 0
    BY DEF Sound, Tree
  <1>2. Beside(T, U) /\ OnlyBase(T, U, o, v) /\ U \in Tries
    BY <1>1, Writes DEF Beside
  <1> HIDE DEF U
  <1>3. CHECK(T, o) # 0 /\ IsChild(T, o) /\ Byte(T, o) # POSTFIX_CHAR
        /\ \A n \in Nat : CHECK(T, n) # o
    BY <1>1 DEF IsOpen, Tree
  <1>4. BASE(U, o) = v /\ CHECK(U, o) # 0 /\ o # 1
    BY <1>1, <1>2, <1>3 DEF OnlyBase, IsChild
  <1>5. ASSUME NEW n \in Nat, n # o PROVE BASE(U, n) = BASE(T, n)
    BY <1>2, <1>5 DEF OnlyBase
  <1>6. ASSUME NEW n \in Nat PROVE CHECK(U, n) = CHECK(T, n) /\ DETAIL(U, n) = DETAIL(T, n)
    BY <1>2 DEF OnlyBase
  <1>7. ASSUME NEW n \in Nat, CHECK(T, n) # 0
        PROVE  /\ CHECK(T, n) \in Nat /\ CHECK(T, n) # o /\ BASE(U, CHECK(T, n)) = BASE(T, CHECK(T, n))
               /\ Byte(U, n) = Byte(T, n) /\ IsChild(U, n)
    <2>1. IsChild(T, n)
      BY <1>1, <1>7 DEF Tree
    <2>2. CHECK(T, n) \in Nat /\ CHECK(T, n) # o
      BY <1>3, <2>1 DEF IsChild, Used
    <2>3. BASE(U, CHECK(T, n)) = BASE(T, CHECK(T, n))
      BY <1>5, <2>2
    <2> QED
      BY <1>6, <2>1, <2>2, <2>3 DEF Byte, IsChild, Used
  <1>8. Extends(T, U, o)
    <2>1. \A n \in Nat : CHECK(T, n) # 0 => CHECK(T, n) # o
      BY <1>3
    <2> QED
      BY <1>5, <1>6, <2>1 DEF Extends, Used
  <1>9. Tree(U, 0)
    <2>1. CHECK(U, 1) = 0 /\ BASE(U, 1) > 0
      BY <1>1, <1>4, <1>5, <1>6 DEF Tree
    <2>2. ASSUME NEW n \in Nat, CHECK(U, n) # 0 PROVE IsChild(U, n) /\ IsNode(U, n)
      <3>1. CHECK(T, n) # 0
        BY <1>6, <2>2
      <3>2. IsChild(U, n) /\ Byte(U, n) = Byte(T, n)
        BY <1>7, <3>1
      <3>3. CASE n = o
        BY <1>1, <1>3, <1>4, <3>2, <3>3 DEF IsNode
      <3>4. CASE n # o
        <4>1. IsNode(T, n)
          BY <1>1, <3>1, <3>4 DEF Tree
        <4> QED
          BY <1>5, <3>2, <3>4, <4>1 DEF IsNode
      <3> QED
        BY <3>2, <3>3, <3>4
    <2> QED
      BY <1>2, <2>1, <2>2 DEF Tree
  <1>10. SameLeaves(T, o, U, 0)
    <2>1. SUFFICES ASSUME NEW n \in Nat
                   PROVE  /\ Leaf(U, 0, n) <=> Leaf(T, o, n)
                          /\ Leaf(T, o, n) => /\ BASE(U, n) = BASE(T, n) /\ DETAIL(U, n) = DETAIL(T, n)
                                              /\ Byte(U, n) = Byte(T, n)
      BY DEF SameLeaves
    <2>2. CASE n = o
      <3>1. ~ (BASE(U, n) < 0)
        BY <1>1, <1>4, <2>2
      <3> QED
        BY <2>2, <3>1 DEF Leaf
    <2>3. CASE n # o
      <3>1. n # 0 \/ CHECK(T, n) = 0
        BY <1>1 DEF Tree, IsChild
      <3> QED
        BY <1>5, <1>6, <1>7, <2>3, <3>1 DEF Leaf
    <2> QED
      BY <2>2, <2>3
  <1>11. Sound(U, 0) /\ SameWords(T, o, U, 0)
    BY <1>2, <1>8, <1>9, <1>10, SameLeavesSound
  <1>12. Used(U, o)
    BY <1>1, <1>4 DEF Used
  <1> QED
    BY <1>1, <1>2, <1>4, <1>8, <1>11, <1>12 DEF U

(* A free place becomes the open child of s.                               *)
LEMMA Opened ==
  ASSUME NEW T, Sound(T, 0), NEW s \in Nat, Used(T, s), BASE(T, s) > 0,
         NEW c \in Letters, CHECK(T, BASE(T, s) + c) = 0
  PROVE  LET t == BASE(T, s) + c
             U == Write_CHECK(T, t, s)
         IN  /\ Sound(U, t) /\ Beside(T, U) /\ Extends(T, U, 0) /\ SameWords(T, 0, U, t)
             /\ t \in Nat \ {0} /\ CHECK(U, t) = s /\ Byte(U, t) = c /\ CHECK(U, t) # 0
             /\ OnlyCheck(T, U, t, s)
  <1> DEFINE t == BASE(T, s) + c
             U == Write_CHECK(T, t, s)
  <1>1. Tree(T, 0) /\ T \in Tries
    BY DEF Sound, Tree
  <1>2. BASE(T, s) \in Int /\ c \in Codes /\ c # POSTFIX_CHAR /\ c \in Nat /\ c >= 1
    <2>1. \A x \in Codes : x \in Nat /\ x >= 1
      BY DictionaryTrieAssumption DEF Codes
    <2> QED
      BY <1>1, <2>1, CellTypes DEF Letters
  <1>3. t \in Nat /\ t >= 2 /\ CHECK(T, t) = 0
    BY <1>2
  <1>4. t = BASE(T, s) + c
    OBVIOUS
  <1> HIDE DEF t
  <1>5. Beside(T, U) /\ OnlyCheck(T, U, t, s) /\ U \in Tries
    BY <1>1, <1>3, Writes DEF Beside
  <1> HIDE DEF U
  <1>6. ~ Used(T, t) /\ s # t /\ s # 0
    BY <1>1, <1>3 DEF Used, Tree, IsChild
  <1>7. CHECK(U, t) = s /\ \A n \in Nat : BASE(U, n) = BASE(T, n) /\ DETAIL(U, n) = DETAIL(T, n)
    BY <1>3, <1>5 DEF OnlyCheck
  <1>8. \A n \in Nat : n # t => CHECK(U, n) = CHECK(T, n)
    BY <1>5 DEF OnlyCheck
  <1>9. \A n \in Nat : Used(T, n) => n # t /\ Used(U, n) /\ CHECK(U, n) = CHECK(T, n)
    BY <1>6, <1>8 DEF Used
  <1>10. Byte(U, t) = c
    BY <1>2, <1>4, <1>7 DEF Byte
  <1>11. Extends(T, U, 0)
    BY <1>7, <1>9 DEF Extends
  <1>12. ASSUME NEW n \in Nat, n # t, CHECK(U, n) # 0
         PROVE  /\ CHECK(T, n) # 0 /\ IsChild(U, n) /\ IsNode(U, n) /\ Byte(U, n) = Byte(T, n)
                /\ CHECK(U, n) # t
    <2>1. CHECK(U, n) = CHECK(T, n) /\ CHECK(T, n) # 0
      BY <1>8, <1>12
    <2>2. n # 0
      BY <1>1, <2>1 DEF Tree, IsChild
    <2>3. IsChild(T, n) /\ IsNode(T, n)
      BY <1>1, <2>1, <2>2 DEF Tree
    <2>4. CHECK(T, n) \in Nat /\ Used(T, CHECK(T, n))
      BY <2>3 DEF IsChild, Used
    <2>5. BASE(U, CHECK(T, n)) = BASE(T, CHECK(T, n)) /\ Used(U, CHECK(T, n)) /\ BASE(U, n) = BASE(T, n)
          /\ CHECK(T, n) # t
      BY <1>7, <1>9, <2>4
    <2> QED
      BY <2>1, <2>3, <2>4, <2>5 DEF IsChild, IsNode, Byte
  <1>13. IsChild(U, t)
    BY <1>2, <1>3, <1>6, <1>7, <1>9, <1>10 DEF IsChild, Byte
  <1>14. Tree(U, t)
    <2>1. CHECK(U, 1) = 0 /\ BASE(U, 1) > 0
      BY <1>1, <1>3, <1>7, <1>8 DEF Tree
    <2>2. ASSUME NEW n \in Nat PROVE CHECK(U, n) # t
      <3>1. n = t => CHECK(U, n) = s
        BY <1>7
      <3>2. CHECK(U, n) # 0 /\ n # t => CHECK(U, n) # t
        BY <1>12
      <3> QED
        BY <1>3, <1>6, <3>1, <3>2
    <2>3. IsOpen(U, t)
      BY <1>2, <1>6, <1>7, <1>10, <2>2 DEF IsOpen
    <2> QED
      BY <1>3, <1>5, <1>12, <1>13, <2>1, <2>3 DEF Tree
  <1>15. SameLeaves(T, 0, U, t)
    <2>1. SUFFICES ASSUME NEW n \in Nat
                   PROVE  /\ Leaf(U, t, n) <=> Leaf(T, 0, n)
                          /\ Leaf(T, 0, n) => /\ BASE(U, n) = BASE(T, n) /\ DETAIL(U, n) = DETAIL(T, n)
                                              /\ Byte(U, n) = Byte(T, n)
      BY DEF SameLeaves
    <2>2. CASE n = t
      BY <1>3, <2>2 DEF Leaf
    <2>3. CASE n # t
      <3>1. CHECK(U, n) = CHECK(T, n) /\ BASE(U, n) = BASE(T, n) /\ DETAIL(U, n) = DETAIL(T, n)
        BY <1>7, <1>8, <2>3
      <3>2. CHECK(T, n) # 0 => Byte(U, n) = Byte(T, n) /\ n # 0
        <4>1. CHECK(T, n) # 0 => n # 0
          BY <1>1 DEF Tree, IsChild
        <4> QED
          BY <1>12, <2>3, <3>1, <4>1
      <3> QED
        BY <2>3, <3>1, <3>2 DEF Leaf
    <2> QED
      BY <2>2, <2>3
  <1>16. Sound(U, t) /\ SameWords(T, 0, U, t)
    BY <1>5, <1>11, <1>14, <1>15, SameLeavesSound
  <1> QED
    BY <1>3, <1>5, <1>6, <1>7, <1>10, <1>11, <1>16 DEF U, t

-----------------------------------------------------------------------------
(* What lies below a node.                                                 *)

LEMMA BelowSame ==
  ASSUME NEW T, NEW U, NEW x, NEW y, NEW o, Tree(T, x), Tree(U, y), Extends(T, U, o),
         NEW n \in Nat, Used(T, n), NEW b, NEW v \in Seq(Letters)
  PROVE  Below(U, n, b, v) <=> Below(T, n, b, v)
  <1>1. Key(v) \in Seq(Nat) /\ Len(Key(v)) = Len(v) + 1 /\ Len(v) \in Nat
    BY KeyIs
  <1>2. \A h \in 1 .. Len(v) + 1 : h - 1 \in 0 .. Len(Key(v))
    BY <1>1
  <1>3. \A h \in 0 .. Len(Key(v)) : Path(U, Key(v))[h] = n <=> Path(T, Key(v))[h] = n
    BY <1>1, PathExtends
  <1> QED
    BY <1>2, <1>3 DEF Below

(* Below a child is what goes on with its byte below its parent.           *)
LEMMA BelowChild ==
  ASSUME NEW T, NEW o, Tree(T, o), NEW t \in Nat, CHECK(T, t) # 0,
         NEW b \in Seq(Codes), Len(b) >= 2, b[1] = Byte(T, t), NEW v \in Seq(Letters)
  PROVE  Below(T, t, Tail(b), v) <=> Below(T, CHECK(T, t), b, v)
  <1> DEFINE key == Key(v)
             s == CHECK(T, t)
  <1>1. key \in Seq(Nat) /\ Len(key) = Len(v) + 1 /\ Len(v) \in Nat /\ T \in Tries
    BY KeyIs DEF Tree
  <1>2. t >= 2
    BY DEF Tree, IsChild
  <1>3. /\ s \in Nat /\ Child(T, s, b[1]) = t
    BY StepUp
  <1>4. ASSUME Below(T, t, Tail(b), v) PROVE Below(T, s, b, v)
    <2>1. PICK h \in 1 .. Len(v) + 1 : Path(T, key)[h - 1] = t /\ SubSeq(key, h, Len(key)) = Tail(b)
      BY <1>4 DEF Below
    <2>2. Path(T, key)[0] = 1
      BY <1>1, PathIs
    <2>3. h # 1
      BY <1>2, <2>1, <2>2
    <2> DEFINE g == h - 1
    <2>4. g \in 1 .. Len(v) + 1 /\ g \in 1 .. Len(key) /\ h = g + 1
      <3>1. h \in 1 .. Len(v) + 1 /\ Len(v) \in Nat /\ Len(key) = Len(v) + 1
        BY <1>1
      <3> HIDE DEF key
      <3> QED
        BY <2>3, <3>1
    <2>5. Path(T, key)[g] # 0
      BY <1>2, <2>1
    <2>6. CHECK(T, Path(T, key)[g]) = Path(T, key)[g - 1] /\ Byte(T, Path(T, key)[g]) = key[g]
      BY <1>1, <2>4, <2>5, PathDown
    <2>7. Path(T, key)[g - 1] = s /\ key[g] = b[1]
      BY <2>1, <2>6
    <2> DEFINE y == SubSeq(key, g, Len(key))
    <2>8. y \in Seq(Codes) /\ Len(y) = Len(v) + 2 - g /\ y[1] = key[g]
          /\ Tail(y) = SubSeq(key, g + 1, Len(key))
      BY <2>4, RestOfKey
    <2>9. Tail(y) = Tail(b)
      BY <2>1, <2>4, <2>8
    <2> HIDE DEF g, y, key
    <2>10. Len(y) >= 1
      <3>1. Len(y) = Len(v) + 2 - g /\ Len(v) \in Nat /\ g \in 1 .. Len(v) + 1
        BY <1>1, <2>4, <2>8
      <3> QED
        BY <3>1
    <2>11. y = b
      BY <2>7, <2>8, <2>9, <2>10, SameHeadAndTail, SMTT(20)
    <2> QED
      BY <2>4, <2>7, <2>11 DEF Below, key, y
  <1>5. ASSUME Below(T, s, b, v) PROVE Below(T, t, Tail(b), v)
    <2>1. PICK h \in 1 .. Len(v) + 1 : Path(T, key)[h - 1] = s /\ SubSeq(key, h, Len(key)) = b
      BY <1>5 DEF Below
    <2> DEFINE y == SubSeq(key, h, Len(key))
    <2>2. y \in Seq(Codes) /\ Len(y) = Len(v) + 2 - h /\ y[1] = key[h]
          /\ Tail(y) = SubSeq(key, h + 1, Len(key))
      BY RestOfKey
    <2>3. y = b
      BY <2>1
    <2> HIDE DEF y, key
    <2>4. h \in 1 .. Len(v) /\ h + 1 \in 1 .. Len(v) + 1 /\ h \in 1 .. Len(key) /\ (h + 1) - 1 = h
      BY <1>1, <2>2, <2>3
    <2>5. Path(T, key)[h] = Child(T, Path(T, key)[h - 1], key[h])
      BY <1>1, <2>4, PathIs
    <2>6. Path(T, key)[h] = t
      BY <1>3, <2>1, <2>2, <2>3, <2>5
    <2>7. SubSeq(key, h + 1, Len(key)) = Tail(b)
      BY <2>2, <2>3
    <2> QED
      BY <2>4, <2>6, <2>7 DEF Below, key
  <1> QED
    BY <1>4, <1>5

(* A leaf with a tail may be opened.                                       *)
LEMMA LeafOpened ==
  ASSUME NEW T, Sound(T, 0), NEW s, HasTail(T, 0, s)
  PROVE  /\ Sound(T, s) /\ s \in Nat \ {0} /\ Used(T, s)
         /\ \A n \in Nat : HasTail(T, s, n) <=> HasTail(T, 0, n) /\ n # s
         /\ \A v \in Seq(Letters) : \A e :
              Has(T, 0, v, e) <=> Has(T, s, v, e) \/ (e = DETAIL(T, s) /\ Below(T, s, RestOf(T, s), v))
  <1>1. Tree(T, 0) /\ Tails(T, 0) /\ Numbered(T, 0) /\ T \in Tries
    BY DEF Sound, Tree
  <1>2. s \in Nat /\ s # 0 /\ CHECK(T, s) # 0 /\ BASE(T, s) < 0 /\ Byte(T, s) # POSTFIX_CHAR
    BY DEF HasTail
  <1>3. BASE(T, s) \in Int /\ s >= 2
    BY <1>1, <1>2, CellTypes DEF Tree, IsChild
  <1>4. ASSUME NEW n \in Nat PROVE CHECK(T, n) # s
    <2>1. CASE CHECK(T, n) = 0
      BY <1>2, <2>1
    <2>2. CASE CHECK(T, n) # 0
      <3>1. BASE(T, CHECK(T, n)) > 0
        BY <1>1, <2>2 DEF Tree, IsChild
      <3> QED
        BY <1>2, <1>3, <3>1
    <2> QED
      BY <2>1, <2>2
  <1>5. Tree(T, s)
    <2>1. \A n \in Nat : CHECK(T, n) # 0 => n # 0
      BY <1>1 DEF Tree, IsChild
    <2> QED
      BY <1>1, <1>2, <1>4, <2>1 DEF Tree, IsOpen
  <1>6. \A n \in Nat : HasTail(T, s, n) <=> HasTail(T, 0, n) /\ n # s
    <2>1. \A n \in Nat : CHECK(T, n) # 0 => n # 0
      BY <1>1 DEF Tree, IsChild
    <2> QED
      BY <2>1 DEF HasTail
  <1>7. Tails(T, s)
    BY <1>1, <1>6 DEF Tails
  <1>8. Numbered(T, s)
    <2>1. \A n \in Nat : CHECK(T, n) # 0 => n # 0
      BY <1>1 DEF Tree, IsChild
    <2> QED
      BY <1>1, <2>1 DEF Numbered
  <1>9. ASSUME NEW v \in Seq(Letters), NEW e
        PROVE  Has(T, 0, v, e) <=>
                 Has(T, s, v, e) \/ (e = DETAIL(T, s) /\ Below(T, s, RestOf(T, s), v))
    <2>1. Key(v) \in Seq(Nat) /\ Len(Key(v)) = Len(v) + 1 /\ Len(v) \in Nat
      BY KeyIs
    <2>2. ASSUME Has(T, 0, v, e), ~ Has(T, s, v, e)
          PROVE  e = DETAIL(T, s) /\ Below(T, s, RestOf(T, s), v)
      <3>1. PICK h \in 1 .. Len(v) + 1 : Spells(T, 0, Key(v), h) /\ e = DETAIL(T, Path(T, Key(v))[h])
        BY <2>2 DEF Has
      <3>2. Path(T, Key(v))[h] = s
        BY <2>2, <3>1 DEF Has, Spells
      <3>3. h \in 1 .. Len(Key(v))
        BY <2>1
      <3>4. Byte(T, s) = Key(v)[h]
        BY <1>1, <1>2, <2>1, <3>2, <3>3, PathDown
      <3>5. RestOf(T, s) = SubSeq(Key(v), h + 1, Len(Key(v))) /\ Key(v)[h] # POSTFIX_CHAR
        BY <1>2, <3>1, <3>2, <3>4 DEF Spells
      <3>6. h + 1 \in 1 .. Len(v) + 1 /\ (h + 1) - 1 = h
        <4>1. Key(v)[h] = POSTFIX_CHAR <=> h = Len(v) + 1
          BY RestOfKey
        <4> QED
          BY <2>1, <3>5, <4>1
      <3> QED
        BY <3>1, <3>2, <3>5, <3>6 DEF Below
    <2>3. Has(T, s, v, e) => Has(T, 0, v, e)
      <3>1. \A h \in 1 .. Len(v) + 1 : Spells(T, s, Key(v), h) => Spells(T, 0, Key(v), h)
        BY DEF Spells
      <3> QED
        BY <3>1 DEF Has
    <2>4. ASSUME e = DETAIL(T, s), Below(T, s, RestOf(T, s), v) PROVE Has(T, 0, v, e)
      <3>1. PICK g \in 1 .. Len(v) + 1 :
              Path(T, Key(v))[g - 1] = s /\ SubSeq(Key(v), g, Len(Key(v))) = RestOf(T, s)
        BY <2>4 DEF Below
      <3>2. Path(T, Key(v))[0] = 1
        BY <1>1, <2>1, PathIs
      <3>3. g # 1
        BY <1>3, <3>1, <3>2
      <3>4. g - 1 \in 1 .. Len(v) + 1 /\ (g - 1) + 1 = g
        BY <2>1, <3>3
      <3>5. Spells(T, 0, Key(v), g - 1)
        BY <1>2, <3>1, <3>4 DEF Spells
      <3> QED
        BY <2>4, <3>1, <3>4, <3>5 DEF Has
    <2> QED
      BY <2>2, <2>3, <2>4
  <1> QED
    BY <1>1, <1>2, <1>5, <1>6, <1>7, <1>8, <1>9 DEF Sound, Used

(* Only the word itself has its key there.                                 *)
LEMMA BelowKey ==
  ASSUME NEW T, NEW o, Tree(T, o), NEW w \in Seq(Letters), NEW h \in 1 .. Len(w) + 1,
         Path(T, Key(w))[h - 1] # 0, NEW v \in Seq(Letters)
  PROVE  Below(T, Path(T, Key(w))[h - 1], SubSeq(Key(w), h, Len(Key(w))), v) <=> v = w
  <1> DEFINE s == Path(T, Key(w))[h - 1]
             b == SubSeq(Key(w), h, Len(Key(w)))
  <1>1. v = w => Below(T, s, b, v)
    BY DEF Below
  <1>2. ASSUME Below(T, s, b, v) PROVE v = w
    <2>1. PICK g \in 1 .. Len(v) + 1 :
            Path(T, Key(v))[g - 1] = s /\ SubSeq(Key(v), g, Len(Key(v))) = b
      BY <1>2 DEF Below
    <2>2. /\ Key(v) \in Seq(Nat) /\ Len(Key(v)) = Len(v) + 1 /\ Len(v) \in Nat
          /\ Key(w) \in Seq(Nat) /\ Len(Key(w)) = Len(w) + 1 /\ Len(w) \in Nat
      BY KeyIs
    <2>3. g - 1 \in 0 .. Len(Key(v)) /\ h - 1 \in 0 .. Len(Key(w))
      BY <2>2
    <2>4. g - 1 = h - 1 /\ \A i \in 1 .. g - 1 : Key(v)[i] = Key(w)[i]
      <3> DEFINE i == g - 1
                 j == h - 1
      <3>1. Path(T, Key(v))[i] # 0 /\ Path(T, Key(v))[i] = Path(T, Key(w))[j]
        BY <2>1
      <3>2. i \in 0 .. Len(Key(v)) /\ j \in 0 .. Len(Key(w))
        BY <2>3
      <3> HIDE DEF i, j
      <3>3. i = j /\ \A k \in 1 .. i : Key(v)[k] = Key(w)[k]
        <4> DEFINE x == Key(v)
                   y == Key(w)
        <4>1. x \in Seq(Nat) /\ y \in Seq(Nat) /\ Tree(T, o)
          BY <2>2
        <4>2. i \in 0 .. Len(x) /\ j \in 0 .. Len(y)
          BY <3>2
        <4>3. Path(T, x)[i] # 0 /\ Path(T, x)[i] = Path(T, y)[j]
          BY <3>1
        <4> HIDE DEF x, y
        <4>4. i = j /\ \A k \in 1 .. i : x[k] = y[k]
          BY <4>1, <4>2, <4>3, PathUnique, SMTT(60)
        <4> QED
          BY <4>4 DEF x, y
      <3> QED
        BY <3>3 DEF i, j
    <2>5. g = h
      BY <2>4
    <2>6. /\ b[1] = Key(w)[h] /\ Tail(b) = SubSeq(Key(w), h + 1, Len(Key(w)))
      BY RestOfKey
    <2>7. h \in 1 .. Len(v) + 1
      BY <2>5
    <2>8. /\ b[1] = Key(v)[h] /\ Tail(b) = SubSeq(Key(v), h + 1, Len(Key(v)))
      <3>1. LET y == SubSeq(Key(v), h, Len(Key(v)))
            IN  y[1] = Key(v)[h] /\ Tail(y) = SubSeq(Key(v), h + 1, Len(Key(v)))
        BY <2>7, RestOfKey
      <3> QED
        BY <2>1, <2>5, <3>1
    <2> HIDE DEF b
    <2>9. ASSUME NEW i \in 1 .. h PROVE Key(v)[i] = Key(w)[i]
      <3>1. i = h \/ i \in 1 .. g - 1
        BY <2>5
      <3>2. CASE i = h
        BY <2>6, <2>8, <3>2
      <3>3. CASE i \in 1 .. g - 1
        BY <2>4, <3>3
      <3> QED
        BY <3>1, <3>2, <3>3
    <2>10. SubSeq(Key(v), h + 1, Len(Key(v))) = SubSeq(Key(w), h + 1, Len(Key(w)))
      BY <2>6, <2>8
    <2> QED
      BY <2>7, <2>9, <2>10, SameWord, SMTT(20)
  <1> QED
    BY <1>1, <1>2

-----------------------------------------------------------------------------
(* Who has a base has children: but for the open node, and the root of an  *)
(* empty trie.                                                             *)
HasKids(T, n) == \E k \in Nat : CHECK(T, k) = n
Filled(T) == \E k \in Nat : CHECK(T, k) # 0
Busy(T, o) ==
  \A n \in Nat : Used(T, n) /\ n # o /\ BASE(T, n) > 0 /\ (n = 1 => Filled(T)) => HasKids(T, n)

LEMMA BusyGrows ==
  ASSUME NEW T, NEW x, Tree(T, x), NEW U, NEW o \in Nat, NEW e \in {0, o}, Extends(T, U, e),
         NEW p \in Nat, Busy(T, o),
         \A n \in Nat : Used(U, n) /\ BASE(U, n) > 0 /\ n # p => Used(T, n),
         o = p \/ HasKids(U, o),
         Filled(U) => o = 1 \/ Filled(T)
  PROVE  Busy(U, p)
  <1> SUFFICES ASSUME NEW n \in Nat, Used(U, n), n # p, BASE(U, n) > 0, n = 1 => Filled(U)
               PROVE  HasKids(U, n)
    BY DEF Busy
  <1>1. Used(T, n) /\ n # 0
    BY DEF Used, Tree, IsChild
  <1>2. CASE n = o
    BY <1>2
  <1>3. CASE n # o
    <2>1. BASE(T, n) > 0
      BY <1>1, <1>3 DEF Extends
    <2>2. n = 1 => Filled(T)
      BY <1>3
    <2>3. PICK k \in Nat : CHECK(T, k) = n
      BY <1>1, <1>3, <2>1, <2>2 DEF Busy, HasKids
    <2>4. CHECK(U, k) = n
      BY <1>1, <2>3 DEF Extends, Used
    <2> QED
      BY <2>4 DEF HasKids
  <1> QED
    BY <1>2, <1>3

LEMMA BusyOpen ==
  ASSUME NEW T, NEW x, Tree(T, x), Busy(T, 0), NEW s
  PROVE  Busy(T, s)
  <1>1. \A n \in Nat : Used(T, n) => n # 0
    BY DEF Used, Tree, IsChild
  <1> QED
    BY <1>1 DEF Busy

LEMMA BusyLeaf ==
  ASSUME NEW T, Tree(T, 0), NEW U, NEW s \in Nat, Used(T, s), BASE(T, s) > 0, NEW c \in Codes,
         Extends(T, U, 0), NEW p \in Nat, NEW d, LeafAt(T, U, s, BASE(T, s) + c, p, d),
         Busy(T, s)
  PROVE  Busy(U, 0)
  <1> DEFINE t == BASE(T, s) + c
  <1>1. t \in Nat
    <2>1. BASE(T, s) \in Int
      BY CellTypes DEF Tree
    <2>2. c \in Nat
      BY DEF Codes
    <2> QED
      BY <2>1, <2>2
  <1> HIDE DEF t
  <1>2. \A n \in Nat : /\ CHECK(U, n) = IF n = t THEN s ELSE CHECK(T, n)
                       /\ BASE(U, n) = IF n = t THEN -p ELSE BASE(T, n)
    BY DEF LeafAt, t
  <1>3. HasKids(U, s)
    BY <1>1, <1>2 DEF HasKids
  <1>4. \A n \in Nat : Used(U, n) /\ BASE(U, n) > 0 /\ n # 0 => Used(T, n)
    <2>1. ~ (-p > 0)
      OBVIOUS
    <2> QED
      BY <1>2, <2>1 DEF Used
  <1>5. s = 1 \/ Filled(T)
    BY DEF Used, Filled
  <1> QED
    BY <1>3, <1>4, <1>5, BusyGrows

(* A node gets a base and stays open.                                      *)
LEMMA BusyRebased ==
  ASSUME NEW T, NEW o \in Nat, Tree(T, o), NEW U, NEW v, OnlyBase(T, U, o, v), Extends(T, U, o),
         Busy(T, o)
  PROVE  Busy(U, o)
  <1>1. \A n \in Nat : CHECK(U, n) = CHECK(T, n)
    BY DEF OnlyBase
  <1>2. \A n \in Nat : Used(U, n) => Used(T, n)
    BY <1>1 DEF Used
  <1>3. Filled(U) => Filled(T)
    BY <1>1 DEF Filled
  <1> QED
    BY <1>2, <1>3, BusyGrows

(* Its child is the open node now.                                         *)
LEMMA BusyOpened ==
  ASSUME NEW T, Tree(T, 0), NEW o \in Nat, CHECK(T, o) # 0, NEW U, NEW t \in Nat,
         OnlyCheck(T, U, t, o), Extends(T, U, 0), CHECK(U, t) = o, Busy(T, o)
  PROVE  Busy(U, t)
  <1>1. \A n \in Nat : n # t => CHECK(U, n) = CHECK(T, n)
    BY DEF OnlyCheck
  <1>2. \A n \in Nat : Used(U, n) /\ n # t => Used(T, n)
    BY <1>1 DEF Used
  <1>3. HasKids(U, o) /\ Filled(T)
    BY DEF HasKids, Filled
  <1> QED
    BY <1>2, <1>3, BusyGrows

-----------------------------------------------------------------------------
(* TAIL_INSERT.                                                            *)

(* The open node o of T became the open node t of U.                       *)
Keeps(T, o, U, t) ==
  /\ Sound(U, t) /\ t \in Nat \ {0} /\ Beside(T, U) /\ SameWords(T, o, U, t)
  /\ Busy(T, o) => Busy(U, t)

LEMMA KeepsTwice ==
  ASSUME NEW T, NEW U, NEW W, NEW o, NEW s, NEW t, Keeps(T, o, U, s), Keeps(U, s, W, t)
  PROVE  Keeps(T, o, W, t)
  <1>1. Beside(T, W)
    BY BesideTwice DEF Keeps
  <1>2. SameWords(T, o, W, t)
    BY DEF Keeps, SameWords
  <1> QED
    BY <1>1, <1>2 DEF Keeps

LEMMA SameWordsTwice ==
  ASSUME NEW T, NEW U, NEW W, NEW o, NEW s, NEW t, SameWords(T, o, U, s), SameWords(U, s, W, t)
  PROVE  SameWords(T, o, W, t)
  BY DEF SameWords

ChainStep(T, o, c) ==
  LET based == Write_BASE(T, o, X_CHECK(T, <<c>>))
      t == BASE(based, o) + c
  IN  [trie |-> Write_CHECK(based, t, o), node |-> t]

LEMMA ChainStepIs ==
  ASSUME NEW T, NEW o, Sound(T, o), o # 0, NEW c \in Letters
  PROVE  LET x == ChainStep(T, o, c)
         IN  /\ Keeps(T, o, x.trie, x.node)
             /\ \A b \in Seq(Codes) : Len(b) >= 2 /\ b[1] = c =>
                  \A v \in Seq(Letters) : Below(x.trie, x.node, Tail(b), v) <=> Below(T, o, b, v)
  <1> DEFINE r == X_CHECK(T, <<c>>)
             B == Write_BASE(T, o, r)
             t == BASE(B, o) + c
             U == Write_CHECK(B, t, o)
             x == ChainStep(T, o, c)
  <1>1. T \in Tries /\ <<c>> \in Seq(Codes) /\ Tree(T, o) /\ c \in Codes
    <2>1. c \in Codes
      BY DEF Letters
    <2> QED
      BY <2>1 DEF Sound, Tree
  <1>2. r \in Nat \ {0} /\ CHECK(T, r + c) = 0
    <2>1. r \in Nat \ {0} /\ \A k \in 1 .. Len(<<c>>) : CHECK(T, r + <<c>>[k]) = 0
      BY <1>1, XCheckIs
    <2>2. 1 \in 1 .. Len(<<c>>) /\ <<c>>[1] = c
      OBVIOUS
    <2> QED
      BY <2>1, <2>2
  <1> HIDE DEF r
  <1>3. /\ Sound(B, 0) /\ Beside(T, B) /\ OnlyBase(T, B, o, r) /\ Extends(T, B, o)
        /\ SameWords(T, o, B, 0) /\ BASE(B, o) = r /\ o \in Nat /\ Used(B, o)
    BY <1>2, Rebased
  <1> HIDE DEF B
  <1>4. c \in Nat
    BY <1>1, DictionaryTrieAssumption DEF Codes
  <1>5. CHECK(B, BASE(B, o) + c) = 0 /\ BASE(B, o) > 0
    <2>1. r + c \in Nat
      BY <1>2, <1>4
    <2> QED
      BY <1>2, <1>3, <2>1 DEF OnlyBase
  <1>6. /\ Sound(U, t) /\ Beside(B, U) /\ Extends(B, U, 0) /\ SameWords(B, 0, U, t)
        /\ t \in Nat \ {0} /\ CHECK(U, t) = o /\ Byte(U, t) = c /\ CHECK(U, t) # 0
        /\ OnlyCheck(B, U, t, o)
    BY <1>3, <1>5, Opened
  <1>7. x.trie = U /\ x.node = t
    BY DEF ChainStep, B, r
  <1> HIDE DEF x, U, t
  <1>8. Keeps(T, o, U, t)
    <2>1. Beside(T, U)
      BY <1>3, <1>6, BesideTwice
    <2>2. SameWords(T, o, U, t)
      BY <1>3, <1>6, SameWordsTwice
    <2>3. CHECK(T, o) # 0
      BY <1>1 DEF Tree, IsOpen
    <2>4. CHECK(B, o) # 0
      BY <1>3, <2>3 DEF OnlyBase
    <2>5. Busy(T, o) => Busy(B, o)
      BY <1>1, <1>3, BusyRebased
    <2>6. Busy(B, o) => Busy(U, t)
      BY <1>3, <1>6, <2>4, BusyOpened DEF Sound
    <2> QED
      BY <1>6, <2>1, <2>2, <2>5, <2>6 DEF Keeps
  <1>9. ASSUME NEW b \in Seq(Codes), Len(b) >= 2, b[1] = c, NEW v \in Seq(Letters)
        PROVE  Below(U, t, Tail(b), v) <=> Below(T, o, b, v)
    <2>1. Tree(U, t) /\ Tree(B, 0)
      BY <1>3, <1>6 DEF Sound
    <2>2. Below(U, t, Tail(b), v) <=> Below(U, o, b, v)
      BY <1>6, <1>9, <2>1, BelowChild
    <2>3. Below(U, o, b, v) <=> Below(B, o, b, v)
      BY <1>3, <1>6, <2>1, BelowSame
    <2>4. Used(T, o)
      BY <1>1, <1>3 DEF Tree, IsOpen, Used
    <2>5. Below(B, o, b, v) <=> Below(T, o, b, v)
      BY <1>1, <1>3, <2>1, <2>4, BelowSame
    <2> QED
      BY <2>2, <2>3, <2>5
  <1> QED
    BY <1>7, <1>8, <1>9 DEF x

LEMMA SameSeq ==
  ASSUME NEW x \in Seq(Codes), NEW y \in Seq(Codes), Len(x) = Len(y),
         \A k \in 1 .. Len(x) : x[k] = y[k]
  PROVE  x = y
  OBVIOUS

LEMMA RestIs ==
  ASSUME NEW c \in Seq(Codes), NEW i \in Nat, i < Len(c)
  PROVE  LET b == SubSeq(c, i + 1, Len(c))
         IN  /\ b \in Seq(Codes) /\ Len(b) = Len(c) - i /\ Len(b) >= 1
             /\ \A k \in 1 .. Len(b) : b[k] = c[i + k]
             /\ b[1] = c[i + 1] /\ Tail(b) = SubSeq(c, i + 2, Len(c))
             /\ i = 0 => b = c
  <1> DEFINE l == Len(c)
             b == SubSeq(c, i + 1, l)
             a == SubSeq(c, i + 2, l)
  <1>1. l \in Nat /\ \A k \in 1 .. l : c[k] \in Codes
    OBVIOUS
  <1> DEFINE m == l - i
  <1>2. m \in Nat /\ m >= 1 /\ m - 1 \in Nat /\ m = l - i
    BY <1>1
  <1>3. b = [k \in 1 .. m |-> c[i + k]]
    <2>1. b = [k \in 1 .. l - (i + 1) + 1 |-> c[(i + 1) + k - 1]]
      BY <1>1
    <2>2. l - (i + 1) + 1 = m
      BY <1>1
    <2>3. \A k \in 1 .. m : (i + 1) + k - 1 = i + k
      BY <1>2
    <2> QED
      BY <2>1, <2>2, <2>3
  <1>4. a = [k \in 1 .. m - 1 |-> c[i + (k + 1)]]
    <2>1. a = [k \in 1 .. l - (i + 2) + 1 |-> c[(i + 2) + k - 1]]
      BY <1>1
    <2>2. l - (i + 2) + 1 = m - 1
      BY <1>1
    <2>3. \A k \in 1 .. m - 1 : (i + 2) + k - 1 = i + (k + 1)
      BY <1>2
    <2> QED
      BY <2>1, <2>2, <2>3
  <1> HIDE DEF b, a, l, m
  <1>5. \A k \in 1 .. m : c[i + k] \in Codes
    <2>1. \A k \in 1 .. m : i + k \in 1 .. l
      BY <1>1, <1>2
    <2> QED
      BY <1>1, <2>1
  <1>6. \A k \in 1 .. m - 1 : k + 1 \in 1 .. m /\ c[i + (k + 1)] \in Codes
    <2>1. \A k \in 1 .. m - 1 : k + 1 \in 1 .. m
      BY <1>2
    <2> QED
      BY <1>5, <2>1
  <1>7. b \in Seq(Codes) /\ Len(b) = m /\ \A k \in 1 .. m : b[k] = c[i + k]
    <2>1. m \in Nat
      BY <1>2
    <2>2. b \in Seq(Codes) /\ Len(b) = m
      BY <1>3, <1>5, <2>1
    <2>3. \A k \in 1 .. m : b[k] = c[i + k]
      BY <1>3
    <2> QED
      BY <2>2, <2>3
  <1>8. a \in Seq(Codes) /\ Len(a) = m - 1 /\ \A k \in 1 .. m - 1 : a[k] = c[i + (k + 1)]
    <2>1. a \in Seq(Codes) /\ Len(a) = m - 1
      <3> DEFINE n == m - 1
      <3>1. /\ n \in Nat /\ a = [k \in 1 .. n |-> c[i + (k + 1)]]
            /\ \A k \in 1 .. n : c[i + (k + 1)] \in Codes
        BY <1>2, <1>4, <1>6
      <3> HIDE DEF n
      <3>2. a \in Seq(Codes) /\ Len(a) = n
        BY <3>1
      <3> QED
        BY <3>2 DEF n
    <2> QED
      BY <1>4, <2>1
  <1>9. Tail(b) \in Seq(Codes) /\ Len(Tail(b)) = m - 1 /\ \A k \in 1 .. m - 1 : Tail(b)[k] = b[k + 1]
    <2>1. Len(b) >= 1
      BY <1>2, <1>7
    <2> QED
      BY <1>7, <2>1, TailIs
  <1>10. \A k \in 1 .. m - 1 : Tail(b)[k] = a[k]
    BY <1>6, <1>7, <1>8, <1>9
  <1>11. Tail(b) = a
    BY <1>8, <1>9, <1>10, SameSeq
  <1>12. b[1] = c[i + 1]
    <2>1. 1 \in 1 .. m
      BY <1>2
    <2> QED
      BY <1>7, <2>1
  <1>13. i = 0 => b = c
    <2>1. ASSUME i = 0 PROVE b = c
      <3>1. m = l /\ \A k \in 1 .. l : i + k = k
        BY <1>1, <1>2, <2>1
      <3> QED
        BY <1>7, <3>1, SameSeq DEF l
    <2> QED
      BY <2>1
  <1> QED
    BY <1>2, <1>7, <1>11, <1>12, <1>13 DEF b, a, l

(* The whole chain.                                                        *)
Agree(c, a, i) == \A k \in 1 .. i : c[k] = a[k]
ChainTo(T, s, a, i, x) ==
  /\ Keeps(T, s, x.trie, x.node)
  /\ \A c \in Seq(Codes) : i < Len(c) /\ Agree(c, a, i) =>
       \A v \in Seq(Letters) :
         Below(x.trie, x.node, SubSeq(c, i + 1, Len(c)), v) <=> Below(T, s, c, v)

LEMMA ChainFurther ==
  ASSUME NEW T, NEW s, NEW a, NEW i \in Nat, NEW x, ChainTo(T, s, a, i, x),
         a[i + 1] \in Letters
  PROVE  ChainTo(T, s, a, i + 1, ChainStep(x.trie, x.node, a[i + 1]))
  <1> DEFINE W == x.trie
             o == x.node
             y == ChainStep(W, o, a[i + 1])
  <1>1. Keeps(T, s, W, o) /\ Sound(W, o) /\ o # 0
    BY DEF ChainTo, Keeps
  <1>2. \A c \in Seq(Codes) : i < Len(c) /\ Agree(c, a, i) =>
          \A v \in Seq(Letters) :
            Below(W, o, SubSeq(c, i + 1, Len(c)), v) <=> Below(T, s, c, v)
    BY DEF ChainTo
  <1> HIDE DEF W, o
  <1>3. /\ Keeps(W, o, y.trie, y.node)
        /\ \A b \in Seq(Codes) : Len(b) >= 2 /\ b[1] = a[i + 1] =>
             \A v \in Seq(Letters) : Below(y.trie, y.node, Tail(b), v) <=> Below(W, o, b, v)
    BY <1>1, ChainStepIs
  <1> HIDE DEF y
  <1>4. Keeps(T, s, y.trie, y.node)
    BY <1>1, <1>3, KeepsTwice
  <1>5. ASSUME NEW c \in Seq(Codes), i + 1 < Len(c), Agree(c, a, i + 1), NEW v \in Seq(Letters)
        PROVE  Below(y.trie, y.node, SubSeq(c, (i + 1) + 1, Len(c)), v) <=> Below(T, s, c, v)
    <2> DEFINE b == SubSeq(c, i + 1, Len(c))
    <2>1. Len(c) \in Nat /\ i < Len(c) /\ (i + 1) + 1 = i + 2
      BY <1>5
    <2>2. /\ b \in Seq(Codes) /\ Len(b) = Len(c) - i
          /\ b[1] = c[i + 1] /\ Tail(b) = SubSeq(c, i + 2, Len(c))
      BY <2>1, RestIs
    <2>3. Agree(c, a, i) /\ c[i + 1] = a[i + 1]
      <3>1. (i + 1) \in 1 .. i + 1 /\ \A k \in 1 .. i : k \in 1 .. i + 1
        OBVIOUS
      <3> QED
        BY <1>5, <3>1 DEF Agree
    <2>4. Below(W, o, b, v) <=> Below(T, s, c, v)
      BY <1>2, <2>1, <2>3
    <2> HIDE DEF b
    <2>5. Len(b) >= 2 /\ b[1] = a[i + 1]
      BY <1>5, <2>1, <2>2, <2>3
    <2>6. Below(y.trie, y.node, Tail(b), v) <=> Below(W, o, b, v)
      BY <1>3, <2>2, <2>5
    <2> QED
      BY <2>1, <2>2, <2>4, <2>6
  <1>6. ChainTo(T, s, a, i + 1, y)
    BY <1>4, <1>5 DEF ChainTo
  <1> QED
    BY <1>6 DEF y, W, o

LEMMA ChainDownIs ==
  ASSUME NEW T, NEW s, Sound(T, s), s # 0, NEW a, NEW length \in Nat,
         \A k \in 1 .. length : a[k] \in Letters
  PROVE  ChainTo(T, s, a, length, ChainDown(T, s, a, length))
  <1> DEFINE V == {x \in [trie : Tries, node : Nat \ {0}] : Sound(x.trie, x.node)}
             v0 == [trie |-> T, node |-> s]
             S == [i \in 1 .. length |-> [x \in V |-> ChainStep(x.trie, x.node, a[i])]]
             body(i, g) == IF i = 0 THEN v0 ELSE ChainStep(g[i - 1].trie, g[i - 1].node, a[i])
  <1>1. T \in Tries /\ s \in Nat \ {0} /\ v0 \in V
    BY DEF Sound, Tree
  <1>2. S \in [1 .. length -> [V -> V]]
    <2>1. ASSUME NEW i \in 1 .. length, NEW x \in V PROVE ChainStep(x.trie, x.node, a[i]) \in V
      <3> DEFINE y == ChainStep(x.trie, x.node, a[i])
      <3>1. Sound(x.trie, x.node) /\ x.node # 0 /\ a[i] \in Letters
        OBVIOUS
      <3>2. Keeps(x.trie, x.node, y.trie, y.node)
        BY <3>1, ChainStepIs
      <3>3. y.trie \in Tries /\ y.node \in Nat \ {0} /\ Sound(y.trie, y.node)
        BY <3>2 DEF Keeps, Beside
      <3>4. y = [trie |-> y.trie, node |-> y.node]
        BY DEF ChainStep
      <3> HIDE DEF y
      <3>5. y \in V
        BY <3>3, <3>4
      <3> QED
        BY <3>5 DEF y
    <2> HIDE DEF V
    <2> QED
      BY <2>1
  <1>3. PICK f \in [0 .. length -> V] : Iterates(length, v0, S, f)
    <2> HIDE DEF S, V, v0
    <2> QED
      BY <1>1, <1>2, Iteration
  <1>4. \A i \in 0 .. length : f[i] = body(i, f)
    <2>1. ASSUME NEW i \in 0 .. length, i # 0
          PROVE  f[i] = ChainStep(f[i - 1].trie, f[i - 1].node, a[i])
      <3>1. i \in 1 .. length /\ i - 1 \in 0 .. length
        BY <2>1
      <3>2. f[i - 1] \in V
        BY <3>1
      <3>3. f[i] = S[i][f[i - 1]]
        BY <1>3, <3>1 DEF Iterates
      <3> HIDE DEF V
      <3> QED
        BY <3>1, <3>2, <3>3
    <2>2. f[0] = v0
      BY <1>3 DEF Iterates
    <2> HIDE DEF v0
    <2> QED
      BY <2>1, <2>2
  <1> HIDE DEF body
  <1>5. f = [i \in 0 .. length |-> body(i, f)]
    BY <1>4
  <1>6. \E g : g = [i \in 0 .. length |-> body(i, g)]
    BY <1>5
  <1> DEFINE P == CHOOSE g : g = [i \in 0 .. length |-> body(i, g)]
  <1>7. ChainDown(T, s, a, length) = P[length]
    BY DEF ChainDown, ChainStep, body
  <1>8. P = [i \in 0 .. length |-> body(i, P)]
    BY <1>6, Zenon
  <1> HIDE DEF P
  <1>9. \A i \in 0 .. length : P[i] = IF i = 0 THEN v0 ELSE ChainStep(P[i - 1].trie, P[i - 1].node, a[i])
    BY <1>8 DEF body
  <1> DEFINE I == {i \in Nat : i <= length => ChainTo(T, s, a, i, P[i])}
  <1>10. 0 \in I
    <2>1. P[0] = v0
      BY <1>9
    <2>2. P[0].trie = T /\ P[0].node = s
      BY <2>1
    <2>3. Keeps(T, s, T, s)
      BY <1>1 DEF Keeps, Beside, SameTail, SameCounters, SameWords
    <2>4. ASSUME NEW c \in Seq(Codes), 0 < Len(c) PROVE SubSeq(c, 0 + 1, Len(c)) = c
      BY <2>4, RestIs
    <2>5. ChainTo(T, s, a, 0, P[0])
      BY <2>2, <2>3, <2>4 DEF ChainTo
    <2> QED
      BY <2>5
  <1>11. ASSUME NEW i \in Nat, i \in I PROVE i + 1 \in I
    <2>1. SUFFICES ASSUME i + 1 <= length PROVE ChainTo(T, s, a, i + 1, P[i + 1])
      OBVIOUS
    <2>2. i + 1 \in 0 .. length /\ i + 1 # 0 /\ (i + 1) - 1 = i /\ i <= length /\ i + 1 \in 1 .. length
      BY <2>1
    <2>3. P[i + 1] = ChainStep(P[i].trie, P[i].node, a[i + 1])
      BY <1>9, <2>2
    <2>4. ChainTo(T, s, a, i, P[i])
      BY <1>11, <2>2
    <2> QED
      BY <2>2, <2>3, <2>4, ChainFurther
  <1> HIDE DEF I
  <1>12. \A i \in Nat : i \in I
    BY <1>10, <1>11, Induction
  <1>13. ChainTo(T, s, a, length, P[length])
    BY <1>12 DEF I
  <1> QED
    BY <1>7, <1>13

(* Two rests differ before one of them ends.                               *)
LEMMA SharedIs ==
  ASSUME NEW a, NEW b, Closed(a), Closed(b), a # b
  PROVE  LET n == Shared(a, b)
         IN  /\ n \in Nat /\ n < Len(a) /\ n < Len(b) /\ a[n + 1] # b[n + 1]
             /\ \A k \in 1 .. n : a[k] \in Letters
             /\ Agree(b, a, n)
  <1> DEFINE S == {m \in 0 .. Len(a) - 1 : m < Len(b) /\ a[m + 1] # b[m + 1]}
             n == Shared(a, b)
  <1>1. /\ a \in Seq(Codes) /\ Len(a) \in Nat /\ Len(a) >= 1
        /\ b \in Seq(Codes) /\ Len(b) \in Nat /\ Len(b) >= 1
    BY DEF Closed
  <1>2. /\ \A k \in 1 .. Len(a) : a[k] = POSTFIX_CHAR <=> k = Len(a)
        /\ \A k \in 1 .. Len(b) : b[k] = POSTFIX_CHAR <=> k = Len(b)
    BY DEF Closed
  <1>3. \E k \in Nat : k \in 1 .. Len(a) /\ k \in 1 .. Len(b) /\ a[k] # b[k]
    <2>1. CASE Len(a) = Len(b)
      BY <1>1, <2>1, SameSeq
    <2>2. CASE Len(a) < Len(b)
      <3>1. Len(a) \in 1 .. Len(a) /\ Len(a) \in 1 .. Len(b) /\ Len(a) # Len(b)
        BY <1>1, <2>2
      <3> QED
        BY <1>1, <1>2, <3>1
    <2>3. CASE Len(a) > Len(b)
      <3>1. Len(b) \in 1 .. Len(a) /\ Len(b) \in 1 .. Len(b) /\ Len(a) # Len(b)
        BY <1>1, <2>3
      <3> QED
        BY <1>1, <1>2, <3>1
    <2> QED
      BY <1>1, <2>1, <2>2, <2>3
  <1>4. S # {}
    <2>1. PICK k \in Nat : k \in 1 .. Len(a) /\ k \in 1 .. Len(b) /\ a[k] # b[k]
      BY <1>3
    <2>2. k - 1 \in 0 .. Len(a) - 1 /\ k - 1 < Len(b) /\ (k - 1) + 1 = k
      BY <1>1, <2>1
    <2>3. k - 1 \in S
      BY <2>1, <2>2
    <2> QED
      BY <2>3
  <1>5. S \subseteq Nat
    BY <1>1
  <1>6. n = Min(S)
    BY DEF Shared
  <1>7. Min(S) \in S /\ \A m \in S : Min(S) <= m
    <2> HIDE DEF S
    <2> QED
      BY <1>4, <1>5, MinIs
  <1>8. n \in Nat /\ n < Len(a) /\ n < Len(b) /\ a[n + 1] # b[n + 1]
    BY <1>1, <1>6, <1>7
  <1>9. ASSUME NEW k \in 1 .. n PROVE a[k] = b[k] /\ a[k] \in Letters
    <2>1. /\ k \in 1 .. Len(a) /\ k # Len(a) /\ k - 1 \in 0 .. Len(a) - 1 /\ k - 1 < Len(b)
          /\ k - 1 < n /\ (k - 1) + 1 = k
      BY <1>1, <1>8
    <2>2. k - 1 \notin S
      BY <1>5, <1>6, <1>7, <1>8, <2>1
    <2>3. a[k] = b[k]
      BY <2>1, <2>2
    <2>4. a[k] \in Codes /\ a[k] # POSTFIX_CHAR
      BY <1>1, <1>2, <2>1
    <2> QED
      BY <2>3, <2>4 DEF Letters
  <1> QED
    BY <1>8, <1>9 DEF Agree

LEMMA RestClosed ==
  ASSUME NEW c, Closed(c), NEW i \in Nat, i < Len(c)
  PROVE  Closed(SubSeq(c, i + 1, Len(c)))
  <1> DEFINE b == SubSeq(c, i + 1, Len(c))
  <1>1. c \in Seq(Codes) /\ Len(c) \in Nat
        /\ \A k \in 1 .. Len(c) : c[k] = POSTFIX_CHAR <=> k = Len(c)
    BY DEF Closed
  <1>2. /\ b \in Seq(Codes) /\ Len(b) = Len(c) - i /\ Len(b) >= 1
        /\ \A k \in 1 .. Len(b) : b[k] = c[i + k]
    BY <1>1, RestIs
  <1> HIDE DEF b
  <1>3. ASSUME NEW k \in 1 .. Len(b) PROVE b[k] = POSTFIX_CHAR <=> k = Len(b)
    <2>1. i + k \in 1 .. Len(c) /\ (i + k = Len(c) <=> k = Len(b))
      BY <1>1, <1>2
    <2> QED
      BY <1>1, <1>2, <2>1
  <1> QED
    BY <1>2, <1>3 DEF Closed, b

LEMMA TailInsertIs ==
  ASSUME NEW T, Sound(T, 0), NEW s, HasTail(T, 0, s), NEW b, Closed(b), RestOf(T, s) # b,
         T.m_nPreCurrent_Detail_Pos # 0
  PROVE  LET U == TAIL_INSERT(T, s, RestOf(T, s), b)
         IN  /\ Sound(U, 0) /\ SameCounters(T, U) /\ (Busy(T, 0) => Busy(U, 0))
             /\ \A v \in Seq(Letters) : \A e :
                  Has(U, 0, v, e) <=>
                    Has(T, 0, v, e) \/ (e = T.m_nPreCurrent_Detail_Pos /\ Below(T, s, b, v))
  <1> DEFINE a == RestOf(T, s)
             p == -BASE(T, s)
             n == Shared(a, b)
             x == ChainDown(T, s, a, n)
             W == x.trie
             o == x.node
             r == X_CHECK(W, <<a[n + 1], b[n + 1]>>)
             F == Write_BASE(W, o, r)
             a1 == SubSeq(a, n + 1, Len(a))
             b1 == SubSeq(b, n + 1, Len(b))
             old == DETAIL(T, s)
             new == T.m_nPreCurrent_Detail_Pos
             O == Separate(F, o, a1, p, old)
             R == Separate(O, o, b1, O.m_nTAIL_POS, new)
  <1>1. R = TAIL_INSERT(T, s, RestOf(T, s), b)
    BY DEF TAIL_INSERT
  <1>2. /\ Tree(T, 0) /\ Tails(T, 0) /\ Numbered(T, 0) /\ T \in Tries
        /\ s \in Nat /\ CHECK(T, s) # 0 /\ BASE(T, s) < 0
    BY DEF Sound, Tree, HasTail
  <1>3. s # 0 /\ new \in Nat \ {0} /\ BASE(T, s) \in Int
    BY <1>2, TrieFields, CellTypes DEF HasTail
  <1>4. Tailed(T, p)
    BY <1>2 DEF Tails
  <1>5. /\ a \in Seq(Codes) /\ p \in Nat /\ TailEnd(T, p) \in Nat
        /\ Len(a) = TailEnd(T, p) - p + 1 /\ Closed(a)
    <2>1. a = READ_TAIL(T, p)
      BY DEF RestOf
    <2> HIDE DEF p, a
    <2> QED
      BY <1>2, <1>4, <2>1, ReadTail DEF Closed
  <1>6. /\ n \in Nat /\ n < Len(a) /\ n < Len(b) /\ a[n + 1] # b[n + 1]
        /\ \A k \in 1 .. n : a[k] \in Letters
        /\ Agree(b, a, n)
    <2> HIDE DEF a
    <2>1. a # b
      BY DEF a
    <2> QED
      BY <1>5, <2>1, SharedIs
  <1>7. Agree(a, a, n) /\ b \in Seq(Codes) /\ Len(b) \in Nat
    BY DEF Agree, Closed
  <1>8. /\ Sound(T, s)
        /\ \A m \in Nat : HasTail(T, s, m) <=> HasTail(T, 0, m) /\ m # s
        /\ \A v \in Seq(Letters) : \A e :
             Has(T, 0, v, e) <=> Has(T, s, v, e) \/ (e = old /\ Below(T, s, a, v))
    BY LeafOpened
  <1>9. old \in 1 .. new
    BY <1>2, <1>3 DEF Numbered
  <1>10. /\ a1 \in Seq(Codes) /\ Len(a1) = Len(a) - n /\ a1[1] = a[n + 1] /\ Closed(a1)
         /\ b1 \in Seq(Codes) /\ b1[1] = b[n + 1] /\ Closed(b1)
         /\ a1[1] \in Codes /\ b1[1] \in Codes
    <2> HIDE DEF a, n
    <2>1. /\ a1 \in Seq(Codes) /\ Len(a1) = Len(a) - n /\ a1[1] = a[n + 1] /\ Len(a1) >= 1
      BY <1>5, <1>6, RestIs
    <2>2. b1 \in Seq(Codes) /\ b1[1] = b[n + 1] /\ Len(b1) >= 1
      BY <1>6, <1>7, RestIs
    <2>3. Closed(a1) /\ Closed(b1)
      BY <1>5, <1>6, RestClosed
    <2> HIDE DEF a1, b1
    <2>4. a1[1] \in Codes /\ b1[1] \in Codes
      BY <2>1, <2>2, TailIs
    <2> QED
      BY <2>1, <2>2, <2>3, <2>4
  <1>11. ChainTo(T, s, a, n, x)
    <2> HIDE DEF a, n
    <2> QED
      BY <1>3, <1>6, <1>8, ChainDownIs
  <1> HIDE DEF x
  <1>12. /\ Keeps(T, s, W, o)
         /\ \A v \in Seq(Letters) : Below(W, o, a1, v) <=> Below(T, s, a, v)
         /\ \A v \in Seq(Letters) : Below(W, o, b1, v) <=> Below(T, s, b, v)
    <2> HIDE DEF a, n
    <2> QED
      BY <1>5, <1>6, <1>7, <1>11 DEF ChainTo
  <1> HIDE DEF W, o, a, n, p, a1, b1, old, new
  <1>13. /\ Sound(W, o) /\ o \in Nat \ {0} /\ Beside(T, W) /\ SameWords(T, s, W, o) /\ W \in Tries
         /\ Busy(T, s) => Busy(W, o)
    BY <1>12 DEF Keeps, Beside
  <1>14. r \in Nat \ {0} /\ CHECK(W, r + a1[1]) = 0 /\ CHECK(W, r + b1[1]) = 0
    <2> DEFINE list == <<a1[1], b1[1]>>
    <2>1. r = X_CHECK(W, list)
      BY <1>10
    <2>2. list \in Seq(Codes) /\ Len(list) = 2 /\ list[1] = a1[1] /\ list[2] = b1[1]
      BY <1>10
    <2> HIDE DEF list, r
    <2>3. r \in Nat \ {0} /\ \A k \in 1 .. Len(list) : CHECK(W, r + list[k]) = 0
      BY <1>13, <2>1, <2>2, XCheckIs
    <2>4. 1 \in 1 .. Len(list) /\ 2 \in 1 .. Len(list)
      BY <2>2
    <2> QED
      BY <2>2, <2>3, <2>4
  <1> HIDE DEF r
  <1>15. /\ Sound(F, 0) /\ Beside(W, F) /\ OnlyBase(W, F, o, r) /\ Extends(W, F, o)
         /\ SameWords(W, o, F, 0) /\ BASE(F, o) = r /\ Used(F, o)
    BY <1>13, <1>14, Rebased
  <1> HIDE DEF F
  <1>16. \A c \in Codes : c \in Nat
    BY DictionaryTrieAssumption DEF Codes
  <1>17. CHECK(F, BASE(F, o) + a1[1]) = 0 /\ CHECK(F, BASE(F, o) + b1[1]) = 0 /\ BASE(F, o) > 0
    <2>1. r + a1[1] \in Nat /\ r + b1[1] \in Nat
      <3>1. a1[1] \in Nat /\ b1[1] \in Nat /\ r \in Nat
        BY <1>10, <1>14, <1>16
      <3> QED
        BY <3>1
    <2> QED
      BY <1>14, <1>15, <2>1 DEF OnlyBase
  <1>18. Beside(T, F) /\ SameWords(T, s, F, 0)
    BY <1>13, <1>15, BesideTwice, SameWordsTwice
  <1>19. F.m_nPreCurrent_Detail_Pos = new /\ SameTail(T, F) /\ F.m_nTAIL_POS = T.m_nTAIL_POS
         /\ SameCounters(T, F)
    BY <1>18 DEF Beside, SameCounters, SameTail, new
  <1>20. HasRoom(F, p, Len(a1) - 1)
    <2>1. p \in 1 .. F.m_nTAIL_POS
      <3>1. T.m_nTAIL_POS \in Nat
        BY <1>2, TrieFields
      <3> QED
        BY <1>4, <1>19, <3>1 DEF Tailed
    <2>2. ASSUME NEW m \in Nat, HasTail(F, 0, m)
          PROVE  /\ -BASE(F, m) \notin p .. p + (Len(a1) - 1) - 1
                 /\ p \notin -BASE(F, m) .. TailEnd(F, -BASE(F, m))
      <3>1. HasTail(T, s, m) /\ BASE(F, m) = BASE(T, m)
        BY <1>18, <2>2 DEF SameWords
      <3>2. HasTail(T, 0, m) /\ m # s
        BY <1>8, <3>1
      <3>3. Apart(T, m, s) /\ Apart(T, s, m)
        BY <1>2, <3>2 DEF Tails
      <3>4. TailEnd(F, -BASE(F, m)) = TailEnd(T, -BASE(T, m))
        BY <1>19, <3>1, SameTailReads
      <3>5. p \notin -BASE(F, m) .. TailEnd(F, -BASE(F, m))
        BY <3>1, <3>3, <3>4 DEF Apart, p
      <3>6. -BASE(T, m) \notin p .. TailEnd(T, p) /\ -BASE(T, m) \in Int
        <4>1. BASE(T, m) \in Int
          BY <1>2, CellTypes
        <4> QED
          BY <3>3, <4>1 DEF Apart, p
      <3>7. p + (Len(a1) - 1) - 1 <= TailEnd(T, p) /\ Len(a1) \in Nat
        <4>1. Len(a1) = Len(a) - n /\ Len(a1) \in Nat /\ n \in Nat /\ p \in Int
          BY <1>5, <1>6, <1>10
        <4> QED
          BY <1>5, <4>1
      <3>8. -BASE(T, m) \notin p .. p + (Len(a1) - 1) - 1
        <4> DEFINE q == -BASE(T, m)
        <4> HIDE DEF q
        <4>1. q \in Int /\ q \notin p .. TailEnd(T, p)
          BY <3>6 DEF q
        <4>2. q \notin p .. p + (Len(a1) - 1) - 1
          BY <1>5, <3>7, <4>1
        <4> QED
          BY <4>2 DEF q
      <3> QED
        BY <3>1, <3>5, <3>8
    <2> QED
      BY <2>1, <2>2 DEF HasRoom
  <1>21. /\ Sound(O, 0) /\ SameCounters(F, O) /\ Extends(F, O, 0)
         /\ LeafAt(F, O, o, BASE(F, o) + a1[1], p, old)
         /\ \A v \in Seq(Letters) : \A e :
              Has(O, 0, v, e) <=> Has(F, 0, v, e) \/ (e = old /\ Below(F, o, a1, v))
    <2>1. old \in 1 .. F.m_nPreCurrent_Detail_Pos /\ o \in Nat
      BY <1>9, <1>13, <1>19
    <2> QED
      BY <1>10, <1>15, <1>17, <1>20, <2>1, LeafHas
  <1> HIDE DEF O
  <1>22. BASE(O, o) = BASE(F, o) /\ Used(O, o)
    BY <1>13, <1>15, <1>21 DEF Extends
  <1>23. CHECK(O, BASE(O, o) + b1[1]) = 0
    <2>1. BASE(F, o) + b1[1] # BASE(F, o) + a1[1] /\ BASE(F, o) + b1[1] \in Nat
      <3>1. a1[1] # b1[1]
        BY <1>6, <1>10
      <3> QED
        BY <1>10, <1>14, <1>15, <1>16, <3>1
    <2> QED
      BY <1>17, <1>21, <1>22, <2>1 DEF LeafAt
  <1>24. O.m_nPreCurrent_Detail_Pos = new /\ SameCounters(T, O)
    BY <1>19, <1>21 DEF SameCounters
  <1>25. HasRoom(O, O.m_nTAIL_POS, Len(b1) - 1)
    <2>1. Len(b1) - 1 \in Nat
      BY <1>10 DEF Closed
    <2> QED
      BY <1>21, <2>1, RoomAtEnd
  <1>26. /\ Sound(R, 0) /\ SameCounters(O, R) /\ Extends(O, R, 0)
         /\ LeafAt(O, R, o, BASE(O, o) + b1[1], O.m_nTAIL_POS, new)
         /\ \A v \in Seq(Letters) : \A e :
              Has(R, 0, v, e) <=> Has(O, 0, v, e) \/ (e = new /\ Below(O, o, b1, v))
    <2>1. new \in 1 .. O.m_nPreCurrent_Detail_Pos /\ o \in Nat
      BY <1>3, <1>13, <1>24
    <2>2. BASE(O, o) > 0
      BY <1>17, <1>22
    <2> QED
      BY <1>10, <1>21, <1>22, <1>23, <1>25, <2>1, <2>2, LeafHas
  <1> HIDE DEF R
  <1>27. SameCounters(T, R)
    BY <1>24, <1>26 DEF SameCounters
  <1>28. ASSUME NEW v \in Seq(Letters)
         PROVE  /\ Below(F, o, a1, v) <=> Below(T, s, a, v)
                /\ Below(O, o, b1, v) <=> Below(T, s, b, v)
    <2>1. Tree(W, o) /\ Tree(F, 0) /\ Tree(O, 0) /\ o \in Nat
      BY <1>13, <1>15, <1>21 DEF Sound
    <2>2. Used(W, o)
      BY <1>13, <2>1 DEF Tree, IsOpen, Used
    <2>3. /\ Below(F, o, a1, v) <=> Below(W, o, a1, v)
          /\ Below(F, o, b1, v) <=> Below(W, o, b1, v)
      BY <1>15, <2>1, <2>2, BelowSame
    <2>4. Below(O, o, b1, v) <=> Below(F, o, b1, v)
      BY <1>15, <1>21, <2>1, BelowSame
    <2> QED
      BY <1>12, <2>3, <2>4
  <1>29. ASSUME NEW v \in Seq(Letters), NEW e
         PROVE  Has(R, 0, v, e) <=> Has(T, 0, v, e) \/ (e = new /\ Below(T, s, b, v))
    <2>1. Has(F, 0, v, e) <=> Has(T, s, v, e)
      BY <1>18 DEF SameWords
    <2> QED
      BY <1>8, <1>21, <1>26, <1>28, <2>1
  <1>30. ASSUME Busy(T, 0) PROVE Busy(R, 0)
    <2>1. Tree(W, o) /\ Tree(F, 0) /\ Tree(O, 0) /\ o \in Nat
      BY <1>13, <1>15, <1>21 DEF Sound
    <2>2. Busy(W, o)
      BY <1>2, <1>13, <1>30, BusyOpen
    <2>3. Busy(F, o)
      BY <1>15, <2>1, <2>2, BusyRebased
    <2>4. Busy(O, 0)
      <3>1. p \in Nat
        BY <1>5
      <3> QED
        BY <1>10, <1>15, <1>17, <1>21, <2>1, <2>3, <3>1, BusyLeaf
    <2>5. Busy(O, o)
      BY <2>1, <2>4, BusyOpen
    <2> QED
      <3>1. O.m_nTAIL_POS \in Nat
        BY <2>1, TrieFields DEF Tree
      <3>2. BASE(O, o) > 0
        BY <1>17, <1>22
      <3> QED
        BY <1>10, <1>22, <1>26, <2>1, <2>5, <3>1, <3>2, BusyLeaf
  <1> QED
    BY <1>1, <1>26, <1>27, <1>29, <1>30 DEF new

-----------------------------------------------------------------------------
(* CHANGE_BC: one node moves.                                              *)

LEMMA TellIs ==
  ASSUME NEW T \in Tries, NEW old \in Nat, old # 0, NEW new \in Nat,
         \A k \in Nat : CHECK(T, k) = old => BASE(T, old) > 0 /\ k - BASE(T, old) \in Codes
  PROVE  /\ Beside(T, TellChildren(T, old, new))
         /\ \A n \in Nat :
              /\ CHECK(TellChildren(T, old, new), n) = IF CHECK(T, n) = old THEN new ELSE CHECK(T, n)
              /\ BASE(TellChildren(T, old, new), n) = BASE(T, n)
              /\ DETAIL(TellChildren(T, old, new), n) = DETAIL(T, n)
  <1> DEFINE U == TellChildren(T, old, new)
             p == T.m_nBC_POS
             q == T.m_nTAIL_POS
             C == Children(T, old)
             bc == [k \in 0 .. p |-> IF k \in C THEN [T.m_pnBC[k] EXCEPT !.check = new] ELSE T.m_pnBC[k]]
  <1>1. /\ T \in TriesOf(p, q) /\ p \in Nat \ {0} /\ q \in Nat \ {0}
        /\ T.m_pnBC \in [0 .. p -> Cells]
    BY TrieOf, TrieFields
  <1>2. BASE(T, old) \in Int
    BY CellTypes
  <1>3. CASE BASE(T, old) <= 0
    <2>1. U = T
      BY <1>3 DEF TellChildren
    <2>2. \A n \in Nat : CHECK(T, n) # old
      BY <1>2, <1>3
    <2> QED
      BY <2>1, <2>2 DEF Beside, SameTail, SameCounters
  <1>4. CASE ~ (BASE(T, old) <= 0)
    <2>1. U = [T EXCEPT !.m_pnBC = bc]
      <3>1. DOMAIN T.m_pnBC = 0 .. p
        BY <1>1
      <3>2. U = [T EXCEPT !.m_pnBC = [k \in DOMAIN @ |-> IF k \in C
                                          THEN [@[k] EXCEPT !.check = new] ELSE @[k]]]
        BY <1>4 DEF TellChildren
      <3> HIDE DEF C, p
      <3> QED
        BY <1>1, <3>1, <3>2 DEF TriesOf
    <2>2. ASSUME NEW k \in 0 .. p PROVE k \in C <=> CHECK(T, k) = old
      <3>1. k \in Nat
        OBVIOUS
      <3>2. k \in C => CHECK(T, k) = old
        BY DEF Children
      <3>3. ASSUME CHECK(T, k) = old PROVE k \in C
        <4>1. k - BASE(T, old) \in Codes
          BY <3>1, <3>3
        <4>2. k - BASE(T, old) >= 1 /\ k - BASE(T, old) < MAX_CODE - 1
          BY <4>1, DictionaryTrieAssumption DEF Codes
        <4>3. k > BASE(T, old)
          BY <1>2, <4>2
        <4> QED
          BY <3>3, <4>2, <4>3 DEF Children
      <3> QED
        BY <3>2, <3>3
    <2>3. bc \in [0 .. p -> Cells]
      <3>1. ASSUME NEW k \in 0 .. p
            PROVE  (IF k \in C THEN [T.m_pnBC[k] EXCEPT !.check = new] ELSE T.m_pnBC[k]) \in Cells
        <4>1. T.m_pnBC[k] \in Cells
          BY <1>1
        <4> HIDE DEF C
        <4> QED
          BY <4>1 DEF Cells
      <3> HIDE DEF C, p
      <3> QED
        BY <3>1
    <2> HIDE DEF bc, U, p, q
    <2>4. U \in TriesOf(p, q) /\ U.m_pnBC = bc /\ U.m_nBC_POS = p /\ SameTail(T, U) /\ SameCounters(T, U)
      BY <1>1, <2>1, <2>3 DEF TriesOf, SameTail, SameCounters
    <2>5. Beside(T, U)
      BY <1>1, <2>4, TrieMade DEF Beside
    <2>6. ASSUME NEW n \in Nat
          PROVE  /\ CHECK(U, n) = IF CHECK(T, n) = old THEN new ELSE CHECK(T, n)
                 /\ BASE(U, n) = BASE(T, n) /\ DETAIL(U, n) = DETAIL(T, n)
      <3>1. CASE n > p
        <4>1. Cell(T, n) = Free /\ Cell(U, n) = Free
          BY <2>4, <3>1 DEF Cell, p
        <4>2. CHECK(T, n) = 0
          BY <4>1 DEF CHECK, Free
        <4> QED
          BY <4>1, <4>2 DEF CHECK, BASE, DETAIL
      <3>2. CASE ~ (n > p)
        <4>1. n \in 0 .. p
          BY <1>1, <3>2
        <4>2. Cell(T, n) = T.m_pnBC[n] /\ Cell(U, n) = bc[n]
          BY <2>4, <3>2 DEF Cell, p
        <4>3. T.m_pnBC[n] \in Cells
          BY <1>1, <4>1
        <4>4. bc[n] = IF n \in C THEN [T.m_pnBC[n] EXCEPT !.check = new] ELSE T.m_pnBC[n]
          BY <4>1 DEF bc
        <4>5. n \in C <=> CHECK(T, n) = old
          BY <2>2, <4>1
        <4> HIDE DEF C
        <4> QED
          BY <4>2, <4>3, <4>4, <4>5 DEF CHECK, BASE, DETAIL, Cells
      <3> QED
        BY <3>1, <3>2
    <2> QED
      BY <2>5, <2>6 DEF U
  <1> QED
    BY <1>3, <1>4

LEMMA MoveNodeIs ==
  ASSUME NEW T \in Tries, NEW s \in Nat, NEW old \in Nat, old # 0, NEW new \in Nat,
         old # new, s # old, CHECK(T, new) = 0,
         \A k \in Nat : CHECK(T, k) = old => BASE(T, old) > 0 /\ k - BASE(T, old) \in Codes
  PROVE  LET U == MoveNode(T, s, old, new)
         IN  /\ Beside(T, U)
             /\ \A n \in Nat :
                  /\ CHECK(U, n) = IF n = old THEN 0 ELSE IF n = new THEN s
                                   ELSE IF CHECK(T, n) = old THEN new ELSE CHECK(T, n)
                  /\ BASE(U, n) = IF n = old THEN 0 ELSE IF n = new THEN BASE(T, old) ELSE BASE(T, n)
                  /\ DETAIL(U, n) = IF n = old THEN 0
                                    ELSE IF n = new THEN DETAIL(T, old) ELSE DETAIL(T, n)
  <1> DEFINE A == Write_BASE(T, new, BASE(T, old))
             B == Write_DETAIL(A, new, DETAIL(T, old))
             C == Write_CHECK(B, new, s)
             D == TellChildren(C, old, new)
             E == Write_BASE(D, old, 0)
             F == Write_DETAIL(E, old, 0)
             U == Write_CHECK(F, old, 0)
  <1>1. U = MoveNode(T, s, old, new)
    BY DEF MoveNode
  <1>2. BASE(T, old) \in Int /\ DETAIL(T, old) \in Int
    BY CellTypes
  <1>3. Beside(T, A) /\ OnlyBase(T, A, new, BASE(T, old)) /\ A \in Tries
    BY <1>2, Writes DEF Beside
  <1> HIDE DEF A
  <1>4. Beside(A, B) /\ OnlyDetail(A, B, new, DETAIL(T, old)) /\ B \in Tries
    BY <1>2, <1>3, Writes DEF Beside
  <1> HIDE DEF B
  <1>5. Beside(B, C) /\ OnlyCheck(B, C, new, s) /\ C \in Tries
    <2>1. s \in Int
      OBVIOUS
    <2> QED
      BY <1>4, <2>1, Writes DEF Beside
  <1> HIDE DEF C
  <1>6. ASSUME NEW n \in Nat
        PROVE  /\ CHECK(C, n) = IF n = new THEN s ELSE CHECK(T, n)
               /\ BASE(C, n) = IF n = new THEN BASE(T, old) ELSE BASE(T, n)
               /\ DETAIL(C, n) = IF n = new THEN DETAIL(T, old) ELSE DETAIL(T, n)
    BY <1>3, <1>4, <1>5 DEF OnlyBase, OnlyDetail, OnlyCheck
  <1>7. ASSUME NEW k \in Nat, CHECK(C, k) = old PROVE BASE(C, old) > 0 /\ k - BASE(C, old) \in Codes
    <2>1. CHECK(T, k) = old
      BY <1>6, <1>7
    <2>2. BASE(C, old) = BASE(T, old)
      BY <1>6
    <2> QED
      BY <2>1, <2>2
  <1>8. /\ Beside(C, D) /\ D \in Tries
        /\ \A n \in Nat : /\ CHECK(D, n) = IF CHECK(C, n) = old THEN new ELSE CHECK(C, n)
                          /\ BASE(D, n) = BASE(C, n) /\ DETAIL(D, n) = DETAIL(C, n)
    BY <1>5, <1>7, TellIs DEF Beside
  <1> HIDE DEF D
  <1>9. Beside(D, E) /\ OnlyBase(D, E, old, 0) /\ E \in Tries
    BY <1>8, Writes DEF Beside
  <1> HIDE DEF E
  <1>10. Beside(E, F) /\ OnlyDetail(E, F, old, 0) /\ F \in Tries
    BY <1>9, Writes DEF Beside
  <1> HIDE DEF F
  <1>11. Beside(F, U) /\ OnlyCheck(F, U, old, 0)
    BY <1>10, Writes
  <1> HIDE DEF U
  <1>12. Beside(T, U)
    BY <1>3, <1>4, <1>5, <1>8, <1>9, <1>10, <1>11 DEF Beside, SameTail, SameCounters
  <1>13. ASSUME NEW n \in Nat
         PROVE  /\ CHECK(U, n) = IF n = old THEN 0 ELSE IF n = new THEN s
                                 ELSE IF CHECK(T, n) = old THEN new ELSE CHECK(T, n)
                /\ BASE(U, n) = IF n = old THEN 0 ELSE IF n = new THEN BASE(T, old) ELSE BASE(T, n)
                /\ DETAIL(U, n) = IF n = old THEN 0
                                  ELSE IF n = new THEN DETAIL(T, old) ELSE DETAIL(T, n)
    <2>1. /\ CHECK(U, n) = IF n = old THEN 0 ELSE CHECK(D, n)
          /\ BASE(U, n) = IF n = old THEN 0 ELSE BASE(D, n)
          /\ DETAIL(U, n) = IF n = old THEN 0 ELSE DETAIL(D, n)
      BY <1>9, <1>10, <1>11 DEF OnlyBase, OnlyDetail, OnlyCheck
    <2> QED
      BY <1>6, <1>8, <2>1
  <1> QED
    BY <1>1, <1>12, <1>13

(* Set_List: each byte with a child once.                                  *)
Lists(T, s, q, c) ==
  /\ q \in Seq(Codes)
  /\ \A i \in 1 .. Len(q) : q[i] <= c /\ CHECK(T, BASE(T, s) + q[i]) = s
  /\ \A i, j \in 1 .. Len(q) : q[i] = q[j] => i = j
  /\ \A x \in 1 .. c : CHECK(T, BASE(T, s) + x) = s => \E i \in 1 .. Len(q) : q[i] = x

ListStep(T, s, q, c) == IF CHECK(T, BASE(T, s) + c) = s THEN Append(q, c) ELSE q

LEMMA ListFurther ==
  ASSUME NEW T, NEW s, NEW q, NEW c \in Nat, Lists(T, s, q, c), c + 1 \in Codes
  PROVE  Lists(T, s, ListStep(T, s, q, c + 1), c + 1)
  <1> DEFINE new == c + 1
             hit == CHECK(T, BASE(T, s) + new) = s
             r == Append(q, new)
  <1>1. /\ q \in Seq(Codes) /\ Len(q) \in Nat
        /\ \A i \in 1 .. Len(q) : q[i] <= c /\ CHECK(T, BASE(T, s) + q[i]) = s
        /\ \A i, j \in 1 .. Len(q) : q[i] = q[j] => i = j
        /\ \A x \in 1 .. c : CHECK(T, BASE(T, s) + x) = s => \E i \in 1 .. Len(q) : q[i] = x
    BY DEF Lists
  <1>2. \A i \in 1 .. Len(q) : q[i] \in Nat
    <2>1. \A x \in Codes : x \in Nat
      BY DictionaryTrieAssumption DEF Codes
    <2> QED
      BY <1>1, <2>1
  <1>3. \A x \in 1 .. new : x \in 1 .. c \/ x = new
    OBVIOUS
  <1>4. \A i \in 1 .. Len(q) : q[i] <= new /\ q[i] # new
    BY <1>1, <1>2
  <1>5. CASE ~ hit
    <2>1. ListStep(T, s, q, new) = q
      BY <1>5 DEF ListStep
    <2>2. Lists(T, s, q, new)
      BY <1>1, <1>3, <1>4, <1>5 DEF Lists
    <2> QED
      BY <2>1, <2>2
  <1>6. CASE hit
    <2>1. ListStep(T, s, q, new) = r
      BY <1>6 DEF ListStep
    <2>2. /\ r \in Seq(Codes) /\ Len(r) = Len(q) + 1 /\ r[Len(q) + 1] = new
          /\ \A i \in 1 .. Len(q) : r[i] = q[i]
      BY <1>1
    <2> HIDE DEF r
    <2>3. /\ \A i \in 1 .. Len(r) : i \in 1 .. Len(q) \/ i = Len(q) + 1
          /\ \A i \in 1 .. Len(q) : i \in 1 .. Len(r)
          /\ Len(q) + 1 \in 1 .. Len(r)
      BY <1>1, <2>2
    <2>4. \A i \in 1 .. Len(r) : r[i] <= new /\ CHECK(T, BASE(T, s) + r[i]) = s
      <3>1. new <= new
        OBVIOUS
      <3> HIDE DEF new
      <3> QED
        BY <1>1, <1>4, <1>6, <2>2, <2>3, <3>1
    <2>5. \A i, j \in 1 .. Len(r) : r[i] = r[j] => i = j
      <3> HIDE DEF new
      <3> QED
        BY <1>1, <1>4, <2>2, <2>3
    <2>6. \A x \in 1 .. new : CHECK(T, BASE(T, s) + x) = s => \E i \in 1 .. Len(r) : r[i] = x
      <3> HIDE DEF new
      <3> QED
        BY <1>1, <1>3, <2>2, <2>3
    <2>7. Lists(T, s, r, new)
      BY <2>2, <2>4, <2>5, <2>6 DEF Lists
    <2> QED
      BY <2>1, <2>7
  <1> QED
    BY <1>5, <1>6

LEMMA SetListIs ==
  ASSUME NEW T, NEW s
  PROVE  Lists(T, s, Set_List(T, s), MAX_CODE - 2)
  <1> DEFINE N == MAX_CODE - 2
             V == Seq(Codes)
             e == <<>>
             S == [c \in 1 .. N |-> [q \in V |-> ListStep(T, s, q, c)]]
             body(c, g) == IF c = 0 THEN e
                           ELSE IF CHECK(T, BASE(T, s) + c) = s THEN Append(g[c - 1], c) ELSE g[c - 1]
  <1>1. N \in Nat /\ Codes = 1 .. N
    BY DictionaryTrieAssumption DEF Codes
  <1>2. e \in V
    OBVIOUS
  <1> HIDE DEF N, V, e
  <1>3. S \in [1 .. N -> [V -> V]]
    <2>1. ASSUME NEW c \in 1 .. N, NEW q \in V PROVE ListStep(T, s, q, c) \in V
      <3>1. c \in Codes
        BY <1>1
      <3> QED
        BY <3>1 DEF ListStep, V
    <2> QED
      BY <2>1
  <1>4. PICK f \in [0 .. N -> V] : Iterates(N, e, S, f)
    <2> HIDE DEF S
    <2> QED
      BY <1>1, <1>2, <1>3, Iteration
  <1>5. \A c \in 0 .. N : f[c] = body(c, f)
    <2>1. ASSUME NEW c \in 0 .. N, c # 0 PROVE f[c] = ListStep(T, s, f[c - 1], c)
      <3>1. c \in 1 .. N /\ c - 1 \in 0 .. N
        BY <1>1, <2>1
      <3>2. f[c - 1] \in V
        BY <3>1
      <3>3. f[c] = S[c][f[c - 1]]
        BY <1>4, <3>1 DEF Iterates
      <3> QED
        BY <3>1, <3>2, <3>3
    <2>2. f[0] = e
      BY <1>4 DEF Iterates
    <2> QED
      BY <2>1, <2>2 DEF ListStep
  <1> HIDE DEF body
  <1>6. f = [c \in 0 .. N |-> body(c, f)]
    BY <1>5
  <1>7. \E g : g = [c \in 0 .. N |-> body(c, g)]
    BY <1>6
  <1> DEFINE P == CHOOSE g : g = [c \in 0 .. N |-> body(c, g)]
  <1>8. Set_List(T, s) = P[N]
    BY DEF Set_List, N, body, e
  <1>9. P = [c \in 0 .. N |-> body(c, P)]
    BY <1>7, Zenon
  <1> HIDE DEF P
  <1>10. \A c \in 0 .. N : P[c] = IF c = 0 THEN e ELSE ListStep(T, s, P[c - 1], c)
    BY <1>9 DEF body, ListStep
  <1> DEFINE I == {c \in Nat : c <= N => Lists(T, s, P[c], c)}
  <1>11. 0 \in I
    <2>1. P[0] = e
      BY <1>1, <1>10
    <2>2. e \in Seq(Codes) /\ Len(e) = 0
      BY DEF e
    <2>3. Lists(T, s, e, 0)
      BY <2>2 DEF Lists
    <2> QED
      BY <2>1, <2>3
  <1>12. ASSUME NEW c \in Nat, c \in I PROVE c + 1 \in I
    <2>1. SUFFICES ASSUME c + 1 <= N PROVE Lists(T, s, P[c + 1], c + 1)
      OBVIOUS
    <2>2. c + 1 \in 0 .. N /\ c + 1 # 0 /\ (c + 1) - 1 = c /\ c <= N /\ c + 1 \in Codes
      BY <1>1, <2>1
    <2>3. P[c + 1] = ListStep(T, s, P[c], c + 1)
      BY <1>10, <2>2
    <2>4. Lists(T, s, P[c], c)
      BY <1>12, <2>2
    <2> QED
      BY <2>2, <2>3, <2>4, ListFurther
  <1> HIDE DEF I
  <1>13. \A c \in Nat : c \in I
    BY <1>11, <1>12, Induction
  <1>14. N <= N
    BY <1>1
  <1>15. Lists(T, s, P[N], N)
    BY <1>1, <1>13, <1>14 DEF I
  <1> QED
    BY <1>8, <1>15 DEF N

-----------------------------------------------------------------------------
(* CHANGE_BC: all of them move.  The nodes of D are those that have moved, *)
(* by sh places, to free ones.                                             *)
Ren(D, sh, n) == IF n \in D THEN n + sh ELSE n
Shift(T, s, r) == r - BASE(T, s)
Kids(T, s, r, K) ==
  /\ Tree(T, 0) /\ s \in Nat /\ Used(T, s) /\ BASE(T, s) > 0 /\ r \in Nat \ {0}
  /\ K \subseteq Nat
  /\ \A n \in K : /\ CHECK(T, n) = s /\ n + Shift(T, s, r) \in Nat /\ n + Shift(T, s, r) >= 2
                  /\ CHECK(T, n + Shift(T, s, r)) = 0
Moving(T, s, r, D, U) ==
  /\ Beside(T, U)
  /\ \A n \in Nat :
       /\ CHECK(U, n) = IF n \in D THEN 0 ELSE IF n - Shift(T, s, r) \in D THEN s
                        ELSE Ren(D, Shift(T, s, r), CHECK(T, n))
       /\ n \notin D => BASE(U, n) = IF n - Shift(T, s, r) \in D THEN BASE(T, n - Shift(T, s, r))
                                     ELSE IF n = s THEN r ELSE BASE(T, n)
       /\ n \notin D => DETAIL(U, n) = IF n - Shift(T, s, r) \in D THEN DETAIL(T, n - Shift(T, s, r))
                                       ELSE DETAIL(T, n)

LEMMA KidsAre ==
  ASSUME NEW T, NEW s, NEW r, NEW K, Kids(T, s, r, K)
  PROVE  /\ Shift(T, s, r) \in Int /\ s # 0 /\ 0 \notin K /\ s \notin K
         /\ \A n \in K : /\ n \in Nat /\ n >= 2 /\ CHECK(T, n) = s /\ Used(T, n)
                         /\ n + Shift(T, s, r) \in Nat /\ n + Shift(T, s, r) >= 2
                         /\ CHECK(T, n + Shift(T, s, r)) = 0 /\ ~ Used(T, n + Shift(T, s, r))
                         /\ n + Shift(T, s, r) \notin K /\ n + Shift(T, s, r) # s
                         /\ IsChild(T, n)
  <1>1. Tree(T, 0) /\ s \in Nat /\ Used(T, s) /\ r \in Nat /\ T \in Tries /\ K \subseteq Nat
    BY DEF Kids, Tree
  <1>2. Shift(T, s, r) \in Int
    BY <1>1, CellTypes DEF Shift
  <1>3. s # 0
    BY <1>1 DEF Used, Tree, IsChild
  <1> DEFINE sh == Shift(T, s, r)
  <1>4. ASSUME NEW n \in K
        PROVE  /\ n \in Nat /\ n >= 2 /\ CHECK(T, n) = s /\ Used(T, n) /\ n # s /\ IsChild(T, n)
               /\ n + sh \in Nat /\ n + sh >= 2 /\ CHECK(T, n + sh) = 0 /\ ~ Used(T, n + sh)
               /\ n + sh \notin K /\ n + sh # s
    <2>1. n \in Nat /\ CHECK(T, n) = s /\ n + sh \in Nat /\ n + sh >= 2 /\ CHECK(T, n + sh) = 0
      BY <1>1 DEF Kids
    <2>2. IsChild(T, n)
      BY <1>1, <1>3, <2>1 DEF Tree
    <2>3. n >= 2 /\ n # s /\ Used(T, n)
      BY <1>3, <2>1, <2>2 DEF IsChild, Used
    <2> DEFINE t == n + sh
    <2>4. t \in Nat /\ t >= 2 /\ CHECK(T, t) = 0
      BY <2>1
    <2> HIDE DEF t
    <2>5. ~ Used(T, t)
      BY <2>4 DEF Used
    <2>6. t # s
      BY <1>1, <2>5
    <2>7. t \notin K
      BY <1>3, <2>4 DEF Kids
    <2> QED
      BY <2>1, <2>2, <2>3, <2>5, <2>6, <2>7 DEF t
  <1>5. 0 \notin K /\ s \notin K
    BY <1>4
  <1> QED
    BY <1>2, <1>3, <1>4, <1>5

LEMMA MoveFurther ==
  ASSUME NEW T, NEW s, NEW r, NEW K, Kids(T, s, r, K),
         NEW D, D \subseteq K, NEW U, Moving(T, s, r, D, U), NEW old \in K, old \notin D
  PROVE  Moving(T, s, r, D \union {old}, MoveNode(U, s, old, old + Shift(T, s, r)))
  <1> DEFINE sh == Shift(T, s, r)
             new == old + sh
             W == MoveNode(U, s, old, new)
             E == D \union {old}
  <1>1. /\ sh \in Int /\ s # 0 /\ 0 \notin K /\ s \notin K /\ s \in Nat /\ Tree(T, 0) /\ T \in Tries
        /\ \A n \in K : /\ n \in Nat /\ n >= 2 /\ CHECK(T, n) = s
                        /\ n + sh \in Nat /\ n + sh >= 2 /\ CHECK(T, n + sh) = 0
                        /\ n + sh \notin K /\ n + sh # s
    <2>1. /\ sh \in Int /\ s # 0 /\ 0 \notin K /\ s \notin K
          /\ \A n \in K : /\ n \in Nat /\ n >= 2 /\ CHECK(T, n) = s
                          /\ n + sh \in Nat /\ n + sh >= 2 /\ CHECK(T, n + sh) = 0
                          /\ n + sh \notin K /\ n + sh # s
      BY KidsAre
    <2>2. s \in Nat /\ Tree(T, 0) /\ T \in Tries
      BY DEF Kids, Tree
    <2> QED
      BY <2>1, <2>2
  <1> HIDE DEF sh
  <1>2. /\ Beside(T, U)
        /\ \A n \in Nat :
             /\ CHECK(U, n) = IF n \in D THEN 0 ELSE IF n - sh \in D THEN s ELSE Ren(D, sh, CHECK(T, n))
             /\ n \notin D => BASE(U, n) = IF n - sh \in D THEN BASE(T, n - sh)
                                           ELSE IF n = s THEN r ELSE BASE(T, n)
             /\ n \notin D => DETAIL(U, n) = IF n - sh \in D THEN DETAIL(T, n - sh) ELSE DETAIL(T, n)
    BY DEF Moving, sh
  <1>3. /\ old \in Nat /\ old >= 2 /\ new \in Nat /\ new >= 2 /\ CHECK(T, old) = s /\ CHECK(T, new) = 0
        /\ new \notin K /\ new # s /\ old # s /\ new # old /\ new - sh = old
    BY <1>1
  <1>4. \A n \in D : n \in K /\ n \in Nat /\ n + sh \notin K /\ n + sh # old
    BY <1>1
  <1>5. ASSUME NEW n \in Nat, n - sh \in D PROVE n \notin K /\ n # old /\ n # s
    <2>1. (n - sh) + sh = n
      BY <1>1
    <2> QED
      BY <1>1, <1>5, <2>1
  <1>6. ASSUME NEW n \in Nat PROVE n - sh = old <=> n = new
    BY <1>1, <1>3
  <1>7. old - sh \notin D
    BY <1>3, <1>5
  <1> HIDE DEF new
  <1>8. CHECK(U, new) = 0
    <2>1. new \notin D /\ new - sh \notin D /\ 0 \notin D
      BY <1>1, <1>3
    <2> QED
      BY <1>2, <1>3, <2>1 DEF Ren
  <1>9. BASE(U, old) = BASE(T, old) /\ DETAIL(U, old) = DETAIL(T, old)
    BY <1>2, <1>3, <1>7
  <1>10. ASSUME NEW k \in Nat
         PROVE  CHECK(U, k) = old <=> k \notin D /\ k - sh \notin D /\ CHECK(T, k) = old
    <2>1. ASSUME CHECK(T, k) \in D PROVE CHECK(T, k) + sh # old
      BY <1>4, <2>1
    <2> QED
      BY <1>2, <1>3, <2>1 DEF Ren
  <1>11. ASSUME NEW k \in Nat, CHECK(U, k) = old PROVE BASE(U, old) > 0 /\ k - BASE(U, old) \in Codes
    <2>1. CHECK(T, k) = old /\ CHECK(T, k) # 0
      BY <1>3, <1>10, <1>11
    <2>2. IsChild(T, k)
      <3>1. k # 0 \/ k = 0
        OBVIOUS
      <3> QED
        BY <1>1, <2>1 DEF Tree
    <2> QED
      BY <1>9, <2>1, <2>2 DEF IsChild
  <1>12. /\ Beside(U, W)
         /\ \A n \in Nat :
              /\ CHECK(W, n) = IF n = old THEN 0 ELSE IF n = new THEN s
                               ELSE IF CHECK(U, n) = old THEN new ELSE CHECK(U, n)
              /\ BASE(W, n) = IF n = old THEN 0 ELSE IF n = new THEN BASE(U, old) ELSE BASE(U, n)
              /\ DETAIL(W, n) = IF n = old THEN 0 ELSE IF n = new THEN DETAIL(U, old) ELSE DETAIL(U, n)
    <2>1. U \in Tries
      BY <1>2 DEF Beside
    <2>2. old # 0 /\ old # new /\ s # old
      BY <1>3
    <2> QED
      BY <1>1, <1>3, <1>8, <1>11, <2>1, <2>2, MoveNodeIs
  <1> HIDE DEF W
  <1>13. Beside(T, W)
    BY <1>2, <1>12, BesideTwice
  <1>14. ASSUME NEW n \in Nat
         PROVE  /\ CHECK(W, n) = IF n \in E THEN 0 ELSE IF n - sh \in E THEN s
                                 ELSE Ren(E, sh, CHECK(T, n))
                /\ n \notin E => BASE(W, n) = IF n - sh \in E THEN BASE(T, n - sh)
                                              ELSE IF n = s THEN r ELSE BASE(T, n)
                /\ n \notin E => DETAIL(W, n) = IF n - sh \in E THEN DETAIL(T, n - sh)
                                                ELSE DETAIL(T, n)
    <2>1. /\ n \in E <=> n \in D \/ n = old
          /\ n - sh \in E <=> n - sh \in D \/ n = new
          /\ \A m : m \in E <=> m \in D \/ m = old
      BY <1>6
    <2> HIDE DEF E
    <2>2. CASE n = old
      BY <1>12, <2>1, <2>2
    <2>3. CASE n = new
      <3>1. n \notin E /\ n - sh \in E /\ n - sh = old /\ n # old
        BY <1>3, <1>4, <2>1, <2>3
      <3> QED
        BY <1>9, <1>12, <2>3, <3>1
    <2>4. CASE n # old /\ n # new
      <3>1. /\ CHECK(W, n) = IF CHECK(U, n) = old THEN new ELSE CHECK(U, n)
            /\ BASE(W, n) = BASE(U, n) /\ DETAIL(W, n) = DETAIL(U, n)
        BY <1>12, <2>4
      <3>2. CASE n \in D
        <4>1. CHECK(U, n) = 0
          BY <1>2, <3>2
        <4> QED
          BY <1>3, <2>1, <3>1, <3>2, <4>1
      <3>3. CASE n \notin D /\ n - sh \in D
        <4>1. CHECK(U, n) = s
          BY <1>2, <3>3
        <4> QED
          BY <1>2, <1>3, <2>1, <2>4, <3>1, <3>3, <4>1
      <3>4. CASE n \notin D /\ n - sh \notin D
        <4>1. CHECK(U, n) = Ren(D, sh, CHECK(T, n))
          BY <1>2, <3>4
        <4>2. CHECK(W, n) = Ren(E, sh, CHECK(T, n))
          <5>1. CASE CHECK(T, n) = old
            BY <1>10, <2>1, <3>1, <3>4, <5>1 DEF Ren, new
          <5>2. CASE CHECK(T, n) # old
            BY <1>10, <2>1, <3>1, <3>4, <4>1, <5>2 DEF Ren
          <5> QED
            BY <5>1, <5>2
        <4> QED
          BY <1>2, <2>1, <2>4, <3>1, <3>4, <4>2
      <3> QED
        BY <3>2, <3>3, <3>4
    <2> QED
      BY <2>2, <2>3, <2>4
  <1>15. Moving(T, s, r, E, W)
    BY <1>13, <1>14 DEF Moving, sh
  <1> QED
    BY <1>15 DEF W, new, sh

MoveStep(s, ob, c, x) ==
  LET old == ob + c
      new == BASE(x.trie, s) + c
  IN  [trie |-> MoveNode(x.trie, s, old, new),
       current |-> IF x.current # s /\ x.current = old THEN new ELSE x.current]
Listed(ob, list, i) == {ob + list[j] : j \in 1 .. i}
Reached(T, s, r, from, D, x) ==
  /\ x \in [trie : Tries, current : Nat]
  /\ Moving(T, s, r, D, x.trie) /\ x.current = Ren(D, Shift(T, s, r), from)

LEMMA MoveStepIs ==
  ASSUME NEW T, NEW s, NEW r, NEW K, Kids(T, s, r, K), NEW from \in Nat,
         NEW D, D \subseteq K, NEW x, Reached(T, s, r, from, D, x),
         NEW c \in Nat, BASE(T, s) + c \in K, BASE(T, s) + c \notin D
  PROVE  Reached(T, s, r, from, D \union {BASE(T, s) + c}, MoveStep(s, BASE(T, s), c, x))
  <1> DEFINE ob == BASE(T, s)
             sh == Shift(T, s, r)
             old == ob + c
             new == BASE(x.trie, s) + c
             y == MoveStep(s, ob, c, x)
             E == D \union {old}
  <1>1. /\ sh \in Int /\ s # 0 /\ s \notin K /\ s \in Nat /\ T \in Tries /\ r \in Nat
        /\ \A n \in K : /\ n \in Nat /\ n >= 2 /\ n + sh \in Nat /\ n + sh >= 2
                        /\ n + sh \notin K /\ n + sh # s
    <2>1. /\ sh \in Int /\ s # 0 /\ s \notin K
          /\ \A n \in K : /\ n \in Nat /\ n >= 2 /\ n + sh \in Nat /\ n + sh >= 2
                          /\ n + sh \notin K /\ n + sh # s
      BY KidsAre
    <2>2. s \in Nat /\ T \in Tries /\ r \in Nat
      BY DEF Kids, Tree
    <2> QED
      BY <2>1, <2>2
  <1>2. ob \in Int /\ sh = r - ob
    BY <1>1, CellTypes DEF Shift
  <1>3. x.trie \in Tries /\ x.current \in Nat /\ Moving(T, s, r, D, x.trie) /\ x.current = Ren(D, sh, from)
    BY DEF Reached
  <1> HIDE DEF sh
  <1>4. BASE(x.trie, s) = r
    <2>1. s \notin D
      BY <1>1
    <2>2. s - sh \notin D
      <3>1. (s - sh) + sh = s
        BY <1>1
      <3> QED
        BY <1>1, <3>1
    <2> QED
      BY <1>1, <1>3, <2>1, <2>2 DEF Moving, sh
  <1> HIDE DEF ob
  <1>5. new = old + sh /\ old \in K /\ old \notin D
    BY <1>1, <1>2, <1>4 DEF ob
  <1>6. y.trie = MoveNode(x.trie, s, old, new)
        /\ y.current = (IF x.current # s /\ x.current = old THEN new ELSE x.current)
        /\ y = [trie |-> y.trie, current |-> y.current]
    BY DEF MoveStep
  <1> HIDE DEF y, old, new
  <1>7. Moving(T, s, r, E, y.trie)
    BY <1>3, <1>5, <1>6, MoveFurther DEF sh
  <1>8. y.trie \in Tries
    BY <1>7 DEF Moving, Beside
  <1>9. y.current = Ren(E, sh, from) /\ y.current \in Nat
    <2>1. \A m : m \in E <=> m \in D \/ m = old
      OBVIOUS
    <2>2. new \in Nat /\ old # s
      BY <1>1, <1>5
    <2> HIDE DEF E
    <2>3. CASE from = old
      BY <1>3, <1>5, <1>6, <2>1, <2>2, <2>3 DEF Ren
    <2>4. CASE from # old /\ from \in D
      <3>1. x.current = from + sh /\ from + sh \notin K
        BY <1>1, <1>3, <2>4 DEF Ren
      <3>2. x.current # old
        BY <1>5, <3>1
      <3> QED
        BY <1>3, <1>6, <2>1, <2>4, <3>1, <3>2 DEF Ren
    <2>5. CASE from # old /\ from \notin D
      BY <1>3, <1>6, <2>1, <2>5 DEF Ren
    <2> QED
      BY <2>3, <2>4, <2>5
  <1>10. Reached(T, s, r, from, E, y)
    <2>1. y \in [trie : Tries, current : Nat]
      BY <1>6, <1>8, <1>9
    <2> QED
      BY <1>7, <1>9, <2>1 DEF Reached, sh
  <1> QED
    BY <1>10 DEF y, old, ob

LEMMA ChangeIs ==
  ASSUME NEW T, Tree(T, 0), NEW s \in Nat, Used(T, s), BASE(T, s) > 0, NEW from \in Nat,
         NEW list, Lists(T, s, list, MAX_CODE - 2), NEW extra \in Seq(Codes)
  PROVE  LET x == CHANGE_BC(T, from, s, list, extra)
             r == X_CHECK(T, list \o extra)
             K == {n \in Nat : CHECK(T, n) = s}
         IN  /\ Kids(T, s, r, K) /\ Reached(T, s, r, from, K, x)
             /\ \A j \in 1 .. Len(extra) : CHECK(T, r + extra[j]) = 0
  <1> DEFINE ob == BASE(T, s)
             l == Len(list)
             r == X_CHECK(T, list \o extra)
             K == {n \in Nat : CHECK(T, n) = s}
             sh == Shift(T, s, r)
             V == [trie : Tries, current : Nat]
             v0 == [trie |-> Write_BASE(T, s, r), current |-> from]
             step(c, x) == MoveStep(s, ob, c, x)
             S == [i \in 1 .. l |-> [x \in V |-> IF step(list[i], x) \in V THEN step(list[i], x) ELSE v0]]
             body(i, g) == IF i = 0 THEN v0 ELSE step(list[i], g[i - 1])
             D(i) == Listed(ob, list, i)
  <1>1. /\ T \in Tries /\ ob \in Int /\ ob > 0 /\ l \in Nat /\ list \in Seq(Codes)
        /\ \A i \in 1 .. l : CHECK(T, ob + list[i]) = s
        /\ \A i, j \in 1 .. l : list[i] = list[j] => i = j
        /\ \A x \in 1 .. MAX_CODE - 2 : CHECK(T, ob + x) = s => \E i \in 1 .. l : list[i] = x
    <2>1. T \in Tries
      BY DEF Tree
    <2>2. ob \in Int /\ ob > 0
      BY <2>1, CellTypes
    <2>3. /\ list \in Seq(Codes)
          /\ \A i \in 1 .. l : CHECK(T, ob + list[i]) = s
          /\ \A i, j \in 1 .. l : list[i] = list[j] => i = j
          /\ \A x \in 1 .. MAX_CODE - 2 : CHECK(T, ob + x) = s => \E i \in 1 .. l : list[i] = x
      BY DEF Lists
    <2>4. l \in Nat
      BY <2>3
    <2> QED
      BY <2>1, <2>2, <2>3, <2>4
  <1>2. s # 0
    BY DEF Tree, Used, IsChild
  <1>3. \A i \in 1 .. l : list[i] \in Codes /\ list[i] \in Nat /\ list[i] >= 1
    <2>1. \A x \in Codes : x \in Nat /\ x >= 1
      BY DictionaryTrieAssumption DEF Codes
    <2> QED
      BY <1>1, <2>1
  <1>4. /\ r \in Nat \ {0}
        /\ \A j \in 1 .. l : CHECK(T, r + list[j]) = 0
        /\ \A j \in 1 .. Len(extra) : CHECK(T, r + extra[j]) = 0
    <2> DEFINE both == list \o extra
    <2>1. /\ both \in Seq(Codes) /\ Len(both) = l + Len(extra) /\ Len(extra) \in Nat
          /\ \A j \in 1 .. l : both[j] = list[j]
          /\ \A j \in 1 .. Len(extra) : both[l + j] = extra[j]
      BY <1>1
    <2>2. r = X_CHECK(T, both)
      OBVIOUS
    <2> HIDE DEF both, r
    <2>3. r \in Nat \ {0} /\ \A k \in 1 .. Len(both) : CHECK(T, r + both[k]) = 0
      BY <1>1, <2>1, <2>2, XCheckIs
    <2>4. /\ \A j \in 1 .. l : j \in 1 .. Len(both)
          /\ \A j \in 1 .. Len(extra) : l + j \in 1 .. Len(both)
      BY <1>1, <2>1
    <2> QED
      BY <2>1, <2>3, <2>4
  <1> HIDE DEF r, ob, l
  <1>5. sh \in Int /\ sh = r - ob
    BY <1>1, <1>4 DEF Shift, ob
  <1>6. ASSUME NEW n PROVE n \in K <=> \E j \in 1 .. l : n = ob + list[j]
    <2>1. ASSUME n \in K PROVE \E j \in 1 .. l : n = ob + list[j]
      <3>1. n \in Nat /\ CHECK(T, n) = s
        BY <2>1
      <3>2. IsChild(T, n)
        BY <1>2, <3>1 DEF Tree
      <3>3. n - ob \in Codes
        BY <3>1, <3>2 DEF IsChild, ob
      <3>4. ob + (n - ob) = n
        BY <1>1, <3>1
      <3>5. n - ob \in 1 .. MAX_CODE - 2
        BY <3>3 DEF Codes
      <3>6. PICK j \in 1 .. l : list[j] = n - ob
        BY <1>1, <3>1, <3>4, <3>5
      <3> QED
        BY <3>4, <3>6
    <2>2. ASSUME NEW j \in 1 .. l, n = ob + list[j] PROVE n \in K
      <3>1. n \in Nat
        BY <1>1, <1>3, <2>2
      <3> QED
        BY <1>1, <2>2, <3>1
    <2> QED
      BY <2>1, <2>2
  <1>7. Kids(T, s, r, K)
    <2>1. ASSUME NEW n \in K
          PROVE  CHECK(T, n) = s /\ n + sh \in Nat /\ n + sh >= 2 /\ CHECK(T, n + sh) = 0
      <3>1. PICK j \in 1 .. l : n = ob + list[j]
        BY <1>6
      <3>2. n + sh = r + list[j]
        BY <1>1, <1>3, <1>4, <1>5, <3>1
      <3>3. r + list[j] \in Nat /\ r + list[j] >= 2
        BY <1>3, <1>4
      <3> QED
        BY <1>4, <3>2, <3>3
    <2>2. K \subseteq Nat
      OBVIOUS
    <2> HIDE DEF K
    <2> QED
      BY <1>4, <2>1, <2>2 DEF Kids
  <1> HIDE DEF K, sh
  <1>8. D(0) = {} /\ D(l) = K
    <2>1. D(0) = {}
      BY DEF Listed
    <2>2. D(l) = K
      BY <1>6 DEF Listed
    <2> QED
      BY <2>1, <2>2
  <1>9. ASSUME NEW i \in Nat, i + 1 <= l
        PROVE  /\ D(i) \subseteq K /\ ob + list[i + 1] \in K /\ ob + list[i + 1] \notin D(i)
               /\ D(i + 1) = D(i) \union {ob + list[i + 1]} /\ list[i + 1] \in Nat
    <2>1. /\ i + 1 \in 1 .. l /\ \A j \in 1 .. i : j \in 1 .. l /\ j # i + 1
          /\ \A j : j \in 1 .. i + 1 <=> j \in 1 .. i \/ j = i + 1
      BY <1>1, <1>9
    <2>2. D(i) \subseteq K /\ ob + list[i + 1] \in K
      BY <1>6, <2>1 DEF Listed
    <2>3. ASSUME NEW j \in 1 .. i PROVE ob + list[j] # ob + list[i + 1]
      <3>1. list[j] # list[i + 1]
        BY <1>1, <2>1
      <3> QED
        BY <1>1, <1>3, <2>1, <3>1
    <2>4. ob + list[i + 1] \notin D(i)
      BY <2>3 DEF Listed
    <2>5. D(i + 1) = D(i) \union {ob + list[i + 1]}
      BY <2>1 DEF Listed
    <2> QED
      BY <1>3, <2>1, <2>2, <2>4, <2>5
  <1> HIDE DEF D
  <1>10. v0 \in V /\ Reached(T, s, r, from, D(0), v0)
    <2> DEFINE B == Write_BASE(T, s, r)
    <2>1. Beside(T, B) /\ OnlyBase(T, B, s, r) /\ B \in Tries
      <3>1. r \in Int
        BY <1>4
      <3> QED
        BY <1>1, <3>1, Writes DEF Beside
    <2> HIDE DEF B
    <2>2. Moving(T, s, r, {}, B)
      BY <2>1 DEF Moving, OnlyBase, Ren
    <2>3. v0 \in V /\ v0.trie = B /\ v0.current = from
      BY <2>1 DEF B
    <2> HIDE DEF v0
    <2> QED
      BY <1>8, <2>2, <2>3 DEF Reached, Ren
  <1> HIDE DEF v0
  <1>11. ASSUME NEW i \in Nat, i + 1 <= l, NEW x, Reached(T, s, r, from, D(i), x)
         PROVE  Reached(T, s, r, from, D(i + 1), step(list[i + 1], x))
    <2>1. /\ D(i) \subseteq K /\ ob + list[i + 1] \in K /\ ob + list[i + 1] \notin D(i)
          /\ D(i + 1) = D(i) \union {ob + list[i + 1]} /\ list[i + 1] \in Nat
      BY <1>9, <1>11
    <2> QED
      BY <1>7, <1>11, <2>1, MoveStepIs DEF ob
  <1>12. ASSUME NEW D1, NEW x, Reached(T, s, r, from, D1, x) PROVE x \in V
    BY <1>12 DEF Reached
  <1> HIDE DEF step, V
  <1>13. S \in [1 .. l -> [V -> V]]
    <2>1. ASSUME NEW i \in 1 .. l, NEW x \in V
          PROVE  (IF step(list[i], x) \in V THEN step(list[i], x) ELSE v0) \in V
      BY <1>10
    <2> QED
      BY <2>1
  <1>14. PICK f \in [0 .. l -> V] : Iterates(l, v0, S, f)
    <2> HIDE DEF S
    <2> QED
      BY <1>1, <1>10, <1>13, Iteration
  <1>15. f[0] = v0 /\ \A i \in Nat : i + 1 <= l =>
           f[i + 1] = IF step(list[i + 1], f[i]) \in V THEN step(list[i + 1], f[i]) ELSE v0
    <2>1. ASSUME NEW i \in Nat, i + 1 <= l
          PROVE  f[i + 1] = IF step(list[i + 1], f[i]) \in V THEN step(list[i + 1], f[i]) ELSE v0
      <3>1. i + 1 \in 1 .. l /\ (i + 1) - 1 = i /\ i \in 0 .. l
        BY <1>1, <2>1
      <3>2. f[i] \in V
        BY <3>1
      <3>3. f[i + 1] = S[i + 1][f[i]]
        BY <1>14, <3>1 DEF Iterates
      <3> QED
        BY <3>1, <3>2, <3>3
    <2> QED
      BY <1>14, <2>1 DEF Iterates
  <1>16. \A i \in Nat : i <= l => Reached(T, s, r, from, D(i), f[i])
    <2> DEFINE I == {i \in Nat : i <= l => Reached(T, s, r, from, D(i), f[i])}
    <2>1. 0 \in I
      BY <1>10, <1>15
    <2>2. ASSUME NEW i \in Nat, i \in I PROVE i + 1 \in I
      <3>1. SUFFICES ASSUME i + 1 <= l PROVE Reached(T, s, r, from, D(i + 1), f[i + 1])
        OBVIOUS
      <3>2. i <= l
        BY <1>1, <3>1
      <3>3. Reached(T, s, r, from, D(i), f[i])
        BY <2>2, <3>2
      <3>4. Reached(T, s, r, from, D(i + 1), step(list[i + 1], f[i]))
        BY <1>11, <3>1, <3>3
      <3>5. step(list[i + 1], f[i]) \in V
        BY <1>12, <3>4
      <3> QED
        BY <1>15, <3>1, <3>4, <3>5
    <2> HIDE DEF I
    <2>3. \A i \in Nat : i \in I
      BY <2>1, <2>2, Induction
    <2> QED
      BY <2>3 DEF I
  <1>17. \A i \in 0 .. l : f[i] = body(i, f)
    <2>1. ASSUME NEW i \in 0 .. l, i # 0 PROVE f[i] = step(list[i], f[i - 1])
      <3> DEFINE j == i - 1
      <3>1. j \in Nat /\ j + 1 = i /\ j + 1 <= l /\ j <= l
        BY <1>1, <2>1
      <3> HIDE DEF j
      <3>2. Reached(T, s, r, from, D(j), f[j])
        BY <1>16, <3>1
      <3>3. Reached(T, s, r, from, D(j + 1), step(list[j + 1], f[j]))
        BY <1>11, <3>1, <3>2
      <3>4. f[j + 1] = step(list[j + 1], f[j])
        BY <1>12, <1>15, <3>1, <3>3
      <3> QED
        BY <3>1, <3>4 DEF j
    <2> QED
      BY <1>15, <2>1
  <1> HIDE DEF body
  <1>18. f = [i \in 0 .. l |-> body(i, f)]
    BY <1>17
  <1>19. \E g : g = [i \in 0 .. l |-> body(i, g)]
    BY <1>18
  <1> DEFINE P == CHOOSE g : g = [i \in 0 .. l |-> body(i, g)]
  <1>20. CHANGE_BC(T, from, s, list, extra) = P[l]
    BY DEF CHANGE_BC, body, step, MoveStep, v0, ob, l, r
  <1>21. P = [i \in 0 .. l |-> body(i, P)]
    BY <1>19, Zenon
  <1> HIDE DEF P
  <1>22. \A i \in 0 .. l : P[i] = IF i = 0 THEN v0 ELSE step(list[i], P[i - 1])
    BY <1>21 DEF body
  <1>23. \A i \in Nat : i <= l => P[i] = f[i]
    <2> DEFINE I == {i \in Nat : i <= l => P[i] = f[i]}
    <2>1. 0 \in I
      BY <1>1, <1>15, <1>22
    <2>2. ASSUME NEW i \in Nat, i \in I PROVE i + 1 \in I
      <3>1. SUFFICES ASSUME i + 1 <= l PROVE P[i + 1] = f[i + 1]
        OBVIOUS
      <3>2. i + 1 \in 0 .. l /\ i + 1 # 0 /\ (i + 1) - 1 = i /\ i <= l
        BY <1>1, <3>1
      <3>3. P[i + 1] = step(list[i + 1], P[i])
        BY <1>22, <3>2
      <3>4. f[i + 1] = step(list[i + 1], f[i])
        BY <1>17, <3>2 DEF body
      <3> QED
        BY <2>2, <3>2, <3>3, <3>4
    <2> HIDE DEF I
    <2>3. \A i \in Nat : i \in I
      BY <2>1, <2>2, Induction
    <2> QED
      BY <2>3 DEF I
  <1>24. Reached(T, s, r, from, K, P[l])
    <2>1. l <= l
      BY <1>1
    <2> QED
      BY <1>1, <1>8, <1>16, <1>23, <2>1
  <1> QED
    BY <1>4, <1>7, <1>20, <1>24 DEF r, K

-----------------------------------------------------------------------------
(* The trie after CHANGE_BC is the one before with other names for nodes.  *)
Renaming(T, U, s, r, D, sh) ==
  /\ Tree(T, 0) /\ Beside(T, U) /\ s \in Nat /\ Used(T, s) /\ BASE(T, s) > 0 /\ r \in Nat \ {0}
  /\ Ren(D, sh, 0) = 0 /\ Ren(D, sh, 1) = 1
  /\ \A n \in Nat : Used(T, n) =>
       /\ Ren(D, sh, n) \in Nat /\ Ren(D, sh, n) # 0 /\ n # 0
       /\ n >= 2 => Ren(D, sh, n) >= 2
       /\ \A m \in Nat : Used(T, m) /\ Ren(D, sh, m) = Ren(D, sh, n) => m = n
       /\ BASE(U, Ren(D, sh, n)) = (IF n = s THEN r ELSE BASE(T, n))
       /\ DETAIL(U, Ren(D, sh, n)) = DETAIL(T, n)
       /\ CHECK(U, Ren(D, sh, n)) = Ren(D, sh, CHECK(T, n))
       /\ Used(U, Ren(D, sh, n))
  /\ \A m \in Nat : CHECK(U, m) # 0 => \E n \in Nat : CHECK(T, n) # 0 /\ m = Ren(D, sh, n)
  /\ \A n \in Nat : CHECK(T, n) # 0 => Byte(U, Ren(D, sh, n)) = Byte(T, n)

LEMMA RenamingIs ==
  ASSUME NEW T, NEW s, NEW r, NEW K, Kids(T, s, r, K), \A n \in Nat : CHECK(T, n) = s => n \in K,
         NEW U, Moving(T, s, r, K, U)
  PROVE  Renaming(T, U, s, r, K, Shift(T, s, r))
  <1> DEFINE sh == Shift(T, s, r)
             new(n) == Ren(K, sh, n)
  <1>1. /\ sh \in Int /\ s # 0 /\ 0 \notin K /\ s \notin K
        /\ \A n \in K : /\ n \in Nat /\ n >= 2 /\ CHECK(T, n) = s /\ Used(T, n)
                        /\ n + sh \in Nat /\ n + sh >= 2
                        /\ CHECK(T, n + sh) = 0 /\ ~ Used(T, n + sh)
                        /\ n + sh \notin K /\ n + sh # s
    BY KidsAre
  <1>2. /\ Tree(T, 0) /\ s \in Nat /\ Used(T, s) /\ BASE(T, s) > 0 /\ r \in Nat \ {0} /\ T \in Tries
        /\ sh = r - BASE(T, s) /\ BASE(T, s) \in Int
    <2>1. Tree(T, 0) /\ s \in Nat /\ Used(T, s) /\ BASE(T, s) > 0 /\ r \in Nat \ {0} /\ T \in Tries
      BY DEF Kids, Tree
    <2> QED
      BY <2>1, CellTypes DEF Shift
  <1> HIDE DEF sh
  <1>3. /\ Beside(T, U)
        /\ \A n \in Nat :
             /\ CHECK(U, n) = IF n \in K THEN 0 ELSE IF n - sh \in K THEN s ELSE Ren(K, sh, CHECK(T, n))
             /\ n \notin K => BASE(U, n) = IF n - sh \in K THEN BASE(T, n - sh)
                                           ELSE IF n = s THEN r ELSE BASE(T, n)
             /\ n \notin K => DETAIL(U, n) = IF n - sh \in K THEN DETAIL(T, n - sh) ELSE DETAIL(T, n)
    BY DEF Moving, sh
  <1>4. new(0) = 0 /\ new(s) = s
    BY <1>1 DEF Ren
  <1>5. new(1) = 1 /\ CHECK(T, 1) = 0
    BY <1>1, <1>2 DEF Ren, Tree
  <1>6. ASSUME NEW n \in Nat, Used(T, n), n \notin K PROVE n - sh \notin K
    <2>1. n - sh \in K => (n - sh) + sh = n
      BY <1>1
    <2> QED
      BY <1>1, <1>6, <2>1
  <1>7. ASSUME NEW n \in K PROVE (n + sh) - sh = n
    BY <1>1
  <1>8. ASSUME NEW n \in Nat, Used(T, n)
        PROVE  /\ new(n) \in Nat /\ new(n) # 0 /\ n # 0
               /\ n >= 2 => new(n) >= 2
               /\ \A m \in Nat : Used(T, m) /\ new(m) = new(n) => m = n
               /\ BASE(U, new(n)) = (IF n = s THEN r ELSE BASE(T, n))
               /\ DETAIL(U, new(n)) = DETAIL(T, n)
               /\ CHECK(U, new(n)) = new(CHECK(T, n))
               /\ Used(U, new(n))
    <2>1. n # 0
      BY <1>2, <1>8 DEF Used, Tree, IsChild
    <2>2. new(n) \in Nat /\ new(n) # 0 /\ (n >= 2 => new(n) >= 2)
      BY <1>1, <2>1 DEF Ren
    <2>3. ASSUME NEW m \in Nat, Used(T, m), new(m) = new(n) PROVE m = n
      <3>1. CASE m \in K /\ n \in K
        BY <1>1, <2>3, <3>1 DEF Ren
      <3>2. CASE m \in K /\ n \notin K
        BY <1>1, <1>8, <2>3, <3>2 DEF Ren
      <3>3. CASE m \notin K /\ n \in K
        BY <1>1, <2>3, <3>3 DEF Ren
      <3>4. CASE m \notin K /\ n \notin K
        BY <2>3, <3>4 DEF Ren
      <3> QED
        BY <3>1, <3>2, <3>3, <3>4
    <2>4. /\ BASE(U, new(n)) = (IF n = s THEN r ELSE BASE(T, n))
          /\ DETAIL(U, new(n)) = DETAIL(T, n)
          /\ CHECK(U, new(n)) = new(CHECK(T, n))
      <3>1. CASE n \in K
        <4>1. new(n) = n + sh /\ n + sh \in Nat /\ n + sh \notin K /\ (n + sh) - sh = n
          BY <1>1, <1>7, <3>1 DEF Ren
        <4>2. CHECK(T, n) = s /\ n # s
          BY <1>1, <3>1
        <4> HIDE DEF new
        <4>3. CHECK(U, n + sh) = s /\ BASE(U, n + sh) = BASE(T, n) /\ DETAIL(U, n + sh) = DETAIL(T, n)
          BY <1>3, <3>1, <4>1
        <4> QED
          BY <1>4, <4>1, <4>2, <4>3
      <3>2. CASE n \notin K
        <4>1. new(n) = n /\ n - sh \notin K
          BY <1>6, <1>8, <3>2 DEF Ren
        <4> QED
          BY <1>3, <3>2, <4>1
      <3> QED
        BY <3>1, <3>2
    <2>5. Used(U, new(n))
      <3>1. CASE n = 1
        BY <1>5, <3>1 DEF Used
      <3>2. CASE n # 1
        <4>1. CHECK(T, n) # 0
          BY <1>8, <3>2 DEF Used
        <4>2. new(CHECK(T, n)) # 0
          BY <1>1, <4>1 DEF Ren
        <4> QED
          BY <2>2, <2>4, <4>2 DEF Used
      <3> QED
        BY <3>1, <3>2
    <2> QED
      BY <2>1, <2>2, <2>3, <2>4, <2>5
  <1>9. ASSUME NEW m \in Nat, CHECK(U, m) # 0 PROVE \E n \in Nat : CHECK(T, n) # 0 /\ m = new(n)
    <2>1. m \notin K
      BY <1>3, <1>9
    <2>2. CASE m - sh \in K
      <3>1. (m - sh) + sh = m
        BY <1>1
      <3>2. m - sh \in Nat /\ CHECK(T, m - sh) # 0 /\ new(m - sh) = m
        BY <1>1, <2>2, <3>1 DEF Ren
      <3> QED
        BY <3>2
    <2>3. CASE m - sh \notin K
      <3>1. CHECK(U, m) = new(CHECK(T, m)) /\ new(m) = m
        BY <1>3, <2>1, <2>3 DEF Ren
      <3>2. CHECK(T, m) # 0
        BY <1>4, <1>9, <3>1
      <3> QED
        BY <3>1, <3>2
    <2> QED
      BY <2>2, <2>3
  <1>10. ASSUME NEW n \in Nat, CHECK(T, n) # 0 PROVE Byte(U, new(n)) = Byte(T, n)
    <2> DEFINE q == CHECK(T, n)
    <2>1. n # 0 /\ Used(T, n)
      BY <1>2, <1>10 DEF Tree, IsChild, Used
    <2>2. q \in Nat /\ Used(T, q) /\ BASE(T, q) \in Int
      <3>1. q \in Nat /\ Used(T, q)
        BY <1>2, <1>10, <2>1 DEF Tree, IsChild, Used
      <3> QED
        BY <1>2, <3>1, CellTypes
    <2>3. CHECK(U, new(n)) = new(q)
      BY <1>8, <2>1
    <2>4. BASE(U, new(q)) = IF q = s THEN r ELSE BASE(T, q)
      BY <1>8, <2>2
    <2>5. Byte(U, new(n)) = new(n) - (IF q = s THEN r ELSE BASE(T, q)) /\ Byte(T, n) = n - BASE(T, q)
      BY <2>3, <2>4 DEF Byte
    <2>6. n \in K <=> q = s
      BY <1>1
    <2> HIDE DEF q
    <2>7. CASE n \in K
      <3>1. new(n) = n + sh
        BY <2>7 DEF Ren
      <3> HIDE DEF new
      <3>2. n + (r - BASE(T, s)) - r = n - BASE(T, s)
        BY <1>2
      <3> QED
        BY <1>2, <2>5, <2>6, <2>7, <3>1, <3>2
    <2>8. CASE n \notin K
      BY <2>5, <2>6, <2>8 DEF Ren
    <2> QED
      BY <2>7, <2>8
  <1>11. Renaming(T, U, s, r, K, sh)
    BY <1>2, <1>3, <1>4, <1>5, <1>8, <1>9, <1>10 DEF Renaming
  <1> QED
    BY <1>11 DEF sh

LEMMA RenamedTree ==
  ASSUME NEW T, NEW U, NEW s, NEW r, NEW D, NEW sh, Renaming(T, U, s, r, D, sh)
  PROVE  Tree(U, 0)
  <1> DEFINE new(n) == Ren(D, sh, n)
  <1>1. /\ Tree(T, 0) /\ U \in Tries /\ s \in Nat /\ BASE(T, s) > 0 /\ r > 0 /\ r \in Nat
        /\ new(0) = 0 /\ new(1) = 1
    BY DEF Renaming, Beside
  <1>2. \A n \in Nat : Used(T, n) =>
          /\ new(n) \in Nat /\ new(n) # 0 /\ n # 0 /\ (n >= 2 => new(n) >= 2)
          /\ \A m \in Nat : Used(T, m) /\ new(m) = new(n) => m = n
          /\ BASE(U, new(n)) = (IF n = s THEN r ELSE BASE(T, n))
          /\ CHECK(U, new(n)) = new(CHECK(T, n)) /\ Used(U, new(n))
    BY DEF Renaming
  <1>3. \A m \in Nat : CHECK(U, m) # 0 => \E n \in Nat : CHECK(T, n) # 0 /\ m = new(n)
    BY DEF Renaming
  <1>4. \A n \in Nat : CHECK(T, n) # 0 => Byte(U, new(n)) = Byte(T, n)
    BY DEF Renaming
  <1> HIDE DEF new
  <1>5. CHECK(U, 1) = 0 /\ BASE(U, 1) > 0
    <2>1. Used(T, 1) /\ CHECK(T, 1) = 0 /\ BASE(T, 1) > 0
      BY <1>1 DEF Used, Tree
    <2> QED
      BY <1>1, <1>2, <2>1
  <1>6. ASSUME NEW m \in Nat, CHECK(U, m) # 0 PROVE IsChild(U, m) /\ IsNode(U, m)
    <2>1. PICK n \in Nat : CHECK(T, n) # 0 /\ m = new(n)
      BY <1>3, <1>6
    <2>2. n # 0 /\ IsChild(T, n) /\ Used(T, n)
      BY <1>1, <2>1 DEF Tree, IsChild, Used
    <2>3. IsNode(T, n)
      BY <1>1, <2>1, <2>2 DEF Tree
    <2> DEFINE q == CHECK(T, n)
    <2>4. n >= 2 /\ q \in Nat /\ Used(T, q) /\ q # n /\ BASE(T, q) > 0 /\ Byte(T, n) \in Codes
      BY <2>2 DEF IsChild, Used, Byte
    <2>5. CHECK(U, m) = new(q) /\ m >= 2 /\ Used(U, new(q)) /\ new(q) # m
      BY <1>2, <2>1, <2>2, <2>4
    <2>6. BASE(U, new(q)) > 0
      BY <1>1, <1>2, <2>4
    <2>7. Byte(U, m) = Byte(T, n)
      BY <1>4, <2>1
    <2>8. IsChild(U, m)
      BY <2>4, <2>5, <2>6, <2>7 DEF IsChild, Byte
    <2>9. BASE(U, m) = IF n = s THEN r ELSE BASE(T, n)
      BY <1>2, <2>1, <2>2
    <2>10. BASE(T, s) \in Int
      BY <1>1, CellTypes DEF Tree
    <2>11. IsNode(U, m)
      BY <1>1, <2>3, <2>7, <2>9, <2>10 DEF IsNode
    <2> QED
      BY <2>8, <2>11
  <1> QED
    BY <1>1, <1>5, <1>6 DEF Tree

LEMMA RenamedPath ==
  ASSUME NEW T, NEW U, NEW s, NEW r, NEW D, NEW sh, Renaming(T, U, s, r, D, sh),
         NEW key \in Seq(Nat)
  PROVE  \A h \in 0 .. Len(key) :
           /\ Path(U, key)[h] = Ren(D, sh, Path(T, key)[h])
           /\ Path(T, key)[h] \in Nat /\ (Path(T, key)[h] = 0 \/ Used(T, Path(T, key)[h]))
  <1> DEFINE new(n) == Ren(D, sh, n)
             P == Path(T, key)
             Q == Path(U, key)
             l == Len(key)
             I == {h \in Nat : h <= l => Q[h] = new(P[h]) /\ P[h] \in Nat /\ (P[h] = 0 \/ Used(T, P[h]))}
  <1>1. /\ Tree(T, 0) /\ Tree(U, 0) /\ T \in Tries /\ U \in Tries /\ s \in Nat /\ BASE(T, s) > 0
        /\ r > 0 /\ r \in Nat /\ new(0) = 0 /\ new(1) = 1 /\ l \in Nat
    <2>1. Tree(U, 0)
      BY RenamedTree
    <2>2. /\ Tree(T, 0) /\ s \in Nat /\ BASE(T, s) > 0 /\ r \in Nat \ {0}
          /\ new(0) = 0 /\ new(1) = 1
      BY DEF Renaming
    <2>3. T \in Tries /\ U \in Tries
      BY <2>1, <2>2 DEF Tree
    <2> HIDE DEF new
    <2>4. r \in Nat /\ r > 0 /\ l \in Nat
      BY <2>2
    <2> QED
      BY <2>1, <2>2, <2>3, <2>4
  <1>2. \A n \in Nat : Used(T, n) =>
          /\ new(n) \in Nat /\ new(n) # 0 /\ n # 0
          /\ \A m \in Nat : Used(T, m) /\ new(m) = new(n) => m = n
          /\ BASE(U, new(n)) = (IF n = s THEN r ELSE BASE(T, n))
          /\ CHECK(U, new(n)) = new(CHECK(T, n))
    BY DEF Renaming
  <1>3. \A m \in Nat : CHECK(U, m) # 0 => \E n \in Nat : CHECK(T, n) # 0 /\ m = new(n)
    BY DEF Renaming
  <1>4. \A n \in Nat : CHECK(T, n) # 0 => Byte(U, new(n)) = Byte(T, n)
    BY DEF Renaming
  <1>5. /\ P[0] = 1 /\ \A h \in 1 .. l : P[h] = Child(T, P[h - 1], key[h])
        /\ Q[0] = 1 /\ \A h \in 1 .. l : Q[h] = Child(U, Q[h - 1], key[h])
    BY <1>1, PathIs
  <1> HIDE DEF new, P, Q
  <1>6. ASSUME NEW n \in Nat, n = 0 \/ Used(T, n), NEW c \in Nat
        PROVE  /\ Child(U, new(n), c) = new(Child(T, n, c))
               /\ Child(T, n, c) \in Nat /\ (Child(T, n, c) = 0 \/ Used(T, Child(T, n, c)))
    <2>1. Child(T, n, c) \in Nat
      BY <1>1, ChildTypes
    <2>2. CASE n = 0
      BY <1>1, <2>2 DEF Child
    <2>3. CASE n # 0 /\ Child(T, n, c) # 0
      <3> DEFINE t == Child(T, n, c)
      <3>1. /\ t = BASE(T, n) + c /\ CHECK(T, t) = n /\ BASE(T, n) > 0 /\ t \in Nat
        BY <1>1, <2>3, StepDown
      <3>2. BASE(T, n) \in Int
        BY <1>1, CellTypes
      <3> HIDE DEF t
      <3>3. Used(T, n) /\ Used(T, t) /\ CHECK(T, t) # 0 /\ Byte(T, t) = c
        <4>1. Byte(T, t) = c
          BY <3>1, <3>2 DEF Byte
        <4> QED
          BY <1>6, <2>3, <3>1, <4>1 DEF Used
      <3>4. /\ new(t) \in Nat /\ CHECK(U, new(t)) = new(n) /\ Byte(U, new(t)) = c /\ new(n) # 0
            /\ BASE(U, new(n)) = (IF n = s THEN r ELSE BASE(T, n)) /\ new(n) \in Nat
        BY <1>2, <1>4, <3>1, <3>3
      <3>5. BASE(U, new(n)) \in Int /\ BASE(U, new(n)) >= 0
        BY <1>1, <3>1, <3>2, <3>4
      <3>6. new(t) = BASE(U, new(n)) + c
        BY <3>4, <3>5 DEF Byte
      <3>7. Child(U, new(n), c) = new(t)
        BY <3>4, <3>5, <3>6 DEF Child
      <3> QED
        BY <3>1, <3>3, <3>7 DEF t
    <2>4. CASE n # 0 /\ Child(T, n, c) = 0
      <3>1. SUFFICES ASSUME Child(U, new(n), c) # 0 PROVE FALSE
        BY <1>1, <2>4
      <3> DEFINE m == Child(U, new(n), c)
      <3>2. Used(T, n) /\ new(n) \in Nat
        BY <1>2, <1>6, <2>4
      <3>3. /\ m = BASE(U, new(n)) + c /\ CHECK(U, m) = new(n) /\ new(n) # 0 /\ m \in Nat
        BY <1>1, <3>1, <3>2, StepDown
      <3>4. BASE(U, new(n)) \in Int
        BY <1>1, <3>2, CellTypes
      <3> HIDE DEF m
      <3>5. Byte(U, m) = c
        BY <3>3, <3>4 DEF Byte
      <3>6. PICK k \in Nat : CHECK(T, k) # 0 /\ m = new(k)
        BY <1>3, <3>3
      <3>7. k # 0 /\ Used(T, k) /\ CHECK(T, k) \in Nat /\ Used(T, CHECK(T, k))
        BY <1>1, <3>6 DEF Tree, IsChild, Used
      <3>8. CHECK(U, m) = new(CHECK(T, k)) /\ Byte(T, k) = c
        BY <1>2, <1>4, <3>5, <3>6, <3>7
      <3>9. CHECK(T, k) = n
        BY <1>2, <3>2, <3>3, <3>7, <3>8
      <3>10. Child(T, n, c) = k
        BY <1>1, <3>6, <3>8, <3>9, StepUp
      <3> QED
        BY <2>4, <3>7, <3>10
    <2> QED
      BY <2>1, <2>2, <2>3, <2>4
  <1>7. 0 \in I
    <2>1. Used(T, 1)
      BY DEF Used
    <2> QED
      BY <1>1, <1>5, <2>1
  <1>8. ASSUME NEW h \in Nat, h \in I PROVE h + 1 \in I
    <2>1. SUFFICES ASSUME h + 1 <= l
                   PROVE  /\ Q[h + 1] = new(P[h + 1]) /\ P[h + 1] \in Nat
                          /\ P[h + 1] = 0 \/ Used(T, P[h + 1])
      OBVIOUS
    <2>2. h + 1 \in 1 .. l /\ (h + 1) - 1 = h /\ h <= l /\ key[h + 1] \in Nat
      BY <1>1, <2>1
    <2>3. Q[h] = new(P[h]) /\ P[h] \in Nat /\ (P[h] = 0 \/ Used(T, P[h]))
      BY <1>8, <2>2
    <2>4. P[h + 1] = Child(T, P[h], key[h + 1]) /\ Q[h + 1] = Child(U, Q[h], key[h + 1])
      BY <1>5, <2>2
    <2> DEFINE x == P[h]
               c == key[h + 1]
    <2>5. x \in Nat /\ (x = 0 \/ Used(T, x)) /\ c \in Nat
      BY <2>2, <2>3
    <2>6. P[h + 1] = Child(T, x, c) /\ Q[h + 1] = Child(U, new(x), c)
      BY <2>3, <2>4
    <2> HIDE DEF x, c
    <2> QED
      BY <1>6, <2>5, <2>6
  <1> HIDE DEF I
  <1>9. \A h \in Nat : h \in I
    BY <1>7, <1>8, Induction
  <1>10. \A h \in 0 .. l : h \in Nat /\ h <= l
    BY <1>1
  <1> QED
    BY <1>9, <1>10 DEF I, P, Q, new

LEMMA RenamedSound ==
  ASSUME NEW T, NEW U, NEW s, NEW r, NEW D, NEW sh, Renaming(T, U, s, r, D, sh), Sound(T, 0)
  PROVE  /\ Sound(U, 0)
         /\ \A v \in Seq(Letters) : \A e : Has(U, 0, v, e) <=> Has(T, 0, v, e)
         /\ \A n \in Nat : Used(T, n) => \A b : \A v \in Seq(Letters) :
              Below(U, Ren(D, sh, n), b, v) <=> Below(T, n, b, v)
  <1> DEFINE new(n) == Ren(D, sh, n)
  <1>1. /\ Tree(T, 0) /\ Tails(T, 0) /\ Numbered(T, 0) /\ T \in Tries
    BY DEF Sound, Tree
  <1>2. /\ SameTail(T, U) /\ U.m_nPreCurrent_Detail_Pos = T.m_nPreCurrent_Detail_Pos
        /\ U \in Tries
    BY DEF Renaming, Beside, SameCounters
  <1>3. BASE(T, s) > 0 /\ r \in Nat \ {0} /\ new(0) = 0 /\ s \in Nat
    BY DEF Renaming
  <1>4. \A n \in Nat : Used(T, n) =>
          /\ new(n) \in Nat /\ new(n) # 0 /\ n # 0
          /\ \A m \in Nat : Used(T, m) /\ new(m) = new(n) => m = n
          /\ BASE(U, new(n)) = (IF n = s THEN r ELSE BASE(T, n))
          /\ DETAIL(U, new(n)) = DETAIL(T, n)
    BY DEF Renaming
  <1>5. \A m \in Nat : CHECK(U, m) # 0 => \E n \in Nat : CHECK(T, n) # 0 /\ m = new(n)
    BY DEF Renaming
  <1>6. \A n \in Nat : CHECK(T, n) # 0 => Byte(U, new(n)) = Byte(T, n)
    BY DEF Renaming
  <1>7. Tree(U, 0)
    BY RenamedTree
  <1>8. ASSUME NEW key \in Seq(Nat), NEW h \in 0 .. Len(key)
        PROVE  /\ Path(U, key)[h] = new(Path(T, key)[h])
               /\ Path(T, key)[h] \in Nat /\ (Path(T, key)[h] = 0 \/ Used(T, Path(T, key)[h]))
    BY <1>8, RenamedPath
  <1> HIDE DEF new
  <1>9. ASSUME NEW n \in Nat, Used(T, n)
        PROVE  /\ BASE(U, new(n)) < 0 <=> BASE(T, n) < 0
               /\ BASE(T, n) < 0 => BASE(U, new(n)) = BASE(T, n)
    <2>1. BASE(U, new(n)) = (IF n = s THEN r ELSE BASE(T, n))
      BY <1>4, <1>9
    <2>2. BASE(T, s) \in Int /\ r > 0 /\ r \in Int
      BY <1>1, <1>3, CellTypes
    <2>3. CASE n = s
      BY <1>3, <2>1, <2>2, <2>3
    <2>4. CASE n # s
      BY <2>1, <2>4
    <2> QED
      BY <2>3, <2>4
  <1>10. ASSUME NEW m \in Nat, CHECK(U, m) # 0, BASE(U, m) < 0
         PROVE  \E n \in Nat : /\ m = new(n) /\ CHECK(T, n) # 0 /\ BASE(T, n) < 0
                               /\ BASE(U, m) = BASE(T, n) /\ DETAIL(U, m) = DETAIL(T, n)
                               /\ Byte(U, m) = Byte(T, n) /\ Used(T, n)
    <2>1. PICK n \in Nat : CHECK(T, n) # 0 /\ m = new(n)
      BY <1>5, <1>10
    <2>2. Used(T, n)
      BY <2>1 DEF Used
    <2>3. BASE(T, n) < 0 /\ BASE(U, m) = BASE(T, n)
      BY <1>9, <1>10, <2>1, <2>2
    <2>4. DETAIL(U, m) = DETAIL(T, n) /\ Byte(U, m) = Byte(T, n)
      BY <1>4, <1>6, <2>1, <2>2
    <2> QED
      BY <2>1, <2>2, <2>3, <2>4
  <1>11. ASSUME NEW m, HasTail(U, 0, m)
         PROVE  \E n \in Nat : m = new(n) /\ HasTail(T, 0, n) /\ BASE(U, m) = BASE(T, n)
    <2>1. m \in Nat /\ CHECK(U, m) # 0 /\ BASE(U, m) < 0 /\ Byte(U, m) # POSTFIX_CHAR
      BY <1>11 DEF HasTail
    <2>2. PICK n \in Nat : /\ m = new(n) /\ CHECK(T, n) # 0 /\ BASE(T, n) < 0
                           /\ BASE(U, m) = BASE(T, n) /\ Byte(U, m) = Byte(T, n) /\ Used(T, n)
      BY <1>10, <2>1
    <2>3. n # 0
      BY <1>4, <2>2
    <2>4. HasTail(T, 0, n)
      BY <2>1, <2>2, <2>3 DEF HasTail
    <2> QED
      BY <2>2, <2>4
  <1>12. Tails(U, 0)
    <2>1. SUFFICES ASSUME NEW k \in Nat, HasTail(U, 0, k)
                   PROVE  /\ Tailed(U, -BASE(U, k))
                          /\ \A m \in Nat : HasTail(U, 0, m) /\ m # k => Apart(U, m, k)
      BY DEF Tails
    <2>2. PICK n \in Nat : k = new(n) /\ HasTail(T, 0, n) /\ BASE(U, k) = BASE(T, n)
      BY <1>11, <2>1
    <2>3. Tailed(T, -BASE(T, n))
      BY <1>1, <2>2 DEF Tails
    <2>4. Tailed(U, -BASE(U, k)) /\ TailEnd(U, -BASE(U, k)) = TailEnd(T, -BASE(T, n))
      BY <1>2, <2>2, <2>3, SameTailReads
    <2>5. ASSUME NEW m \in Nat, HasTail(U, 0, m), m # k PROVE Apart(U, m, k)
      <3>1. PICK l \in Nat : m = new(l) /\ HasTail(T, 0, l) /\ BASE(U, m) = BASE(T, l)
        BY <1>11, <2>5
      <3>2. l # n
        BY <2>2, <2>5, <3>1
      <3>3. Apart(T, l, n)
        BY <1>1, <2>2, <3>1, <3>2 DEF Tails
      <3> QED
        BY <2>2, <2>4, <3>1, <3>3 DEF Apart
    <2> QED
      BY <2>4, <2>5
  <1>13. Numbered(U, 0)
    <2>1. SUFFICES ASSUME NEW m \in Nat, m # 0, CHECK(U, m) # 0, BASE(U, m) < 0
                   PROVE  DETAIL(U, m) \in 1 .. U.m_nPreCurrent_Detail_Pos
      BY DEF Numbered
    <2>2. PICK n \in Nat : /\ m = new(n) /\ CHECK(T, n) # 0 /\ BASE(T, n) < 0
                           /\ DETAIL(U, m) = DETAIL(T, n) /\ Used(T, n)
      BY <1>10, <2>1
    <2>3. n # 0
      BY <1>4, <2>2
    <2>4. DETAIL(T, n) \in 1 .. T.m_nPreCurrent_Detail_Pos
      BY <1>1, <2>2, <2>3 DEF Numbered
    <2> QED
      BY <1>2, <2>2, <2>4
  <1>14. ASSUME NEW v \in Seq(Letters), NEW h \in 1 .. Len(v) + 1
         PROVE  /\ Spells(U, 0, Key(v), h) <=> Spells(T, 0, Key(v), h)
                /\ Spells(T, 0, Key(v), h) =>
                     DETAIL(U, Path(U, Key(v))[h]) = DETAIL(T, Path(T, Key(v))[h])
    <2> DEFINE n == Path(T, Key(v))[h]
               m == Path(U, Key(v))[h]
    <2>1. Key(v) \in Seq(Nat) /\ h \in 0 .. Len(Key(v))
      BY KeyIs
    <2>2. m = new(n) /\ n \in Nat /\ (n = 0 \/ Used(T, n))
      BY <1>8, <2>1
    <2>3. CASE n = 0
      BY <1>3, <2>2, <2>3 DEF Spells
    <2>4. CASE n # 0
      <3>1. Used(T, n) /\ m # 0 /\ DETAIL(U, m) = DETAIL(T, n)
        BY <1>4, <2>2, <2>4
      <3>2. (BASE(U, m) < 0 <=> BASE(T, n) < 0) /\ (BASE(T, n) < 0 => BASE(U, m) = BASE(T, n))
        BY <1>9, <2>2, <3>1
      <3>3. BASE(T, n) < 0 => RestOf(U, m) = RestOf(T, n)
        <4>1. SUFFICES ASSUME BASE(T, n) < 0 PROVE RestOf(U, m) = RestOf(T, n)
          OBVIOUS
        <4>2. BASE(U, m) = BASE(T, n)
          BY <3>2, <4>1
        <4>3. READ_TAIL(U, -BASE(T, n)) = READ_TAIL(T, -BASE(T, n))
          BY <1>2, SameTailReads
        <4> QED
          BY <4>2, <4>3 DEF RestOf
      <3> QED
        BY <2>4, <3>1, <3>2, <3>3 DEF Spells
    <2> QED
      BY <2>3, <2>4
  <1>15. ASSUME NEW v \in Seq(Letters), NEW e PROVE Has(U, 0, v, e) <=> Has(T, 0, v, e)
    BY <1>14 DEF Has
  <1>16. ASSUME NEW n \in Nat, Used(T, n), NEW b, NEW v \in Seq(Letters)
         PROVE  Below(U, new(n), b, v) <=> Below(T, n, b, v)
    <2>1. ASSUME NEW h \in 1 .. Len(v) + 1
          PROVE  Path(U, Key(v))[h - 1] = new(n) <=> Path(T, Key(v))[h - 1] = n
      <3>1. Key(v) \in Seq(Nat) /\ h - 1 \in 0 .. Len(Key(v))
        BY KeyIs
      <3> DEFINE m == Path(T, Key(v))[h - 1]
      <3>2. Path(U, Key(v))[h - 1] = new(m) /\ m \in Nat /\ (m = 0 \/ Used(T, m))
        BY <1>8, <3>1
      <3> QED
        BY <1>3, <1>4, <1>16, <3>2
    <2> QED
      BY <2>1 DEF Below
  <1> QED
    BY <1>7, <1>12, <1>13, <1>15, <1>16 DEF Sound, new

-----------------------------------------------------------------------------
(* BC_INSERT: where node s ends up there is room for its new child.        *)
Roomy(T, s, b, x) ==
  /\ Sound(x.trie, 0) /\ Beside(T, x.trie) /\ x.current \in Nat /\ (Busy(T, 0) => Busy(x.trie, 0))
  /\ Used(x.trie, x.current) /\ BASE(x.trie, x.current) > 0
  /\ CHECK(x.trie, BASE(x.trie, x.current) + b[1]) = 0
  /\ \A v \in Seq(Letters) : \A e : Has(x.trie, 0, v, e) <=> Has(T, 0, v, e)
  /\ \A v \in Seq(Letters) : Below(x.trie, x.current, b, v) <=> Below(T, s, b, v)

(* The node moves its own children.                                        *)
LEMMA RenamedBusy ==
  ASSUME NEW T, NEW U, NEW s, NEW r, NEW D, NEW sh, Renaming(T, U, s, r, D, sh), Busy(T, 0)
  PROVE  Busy(U, 0)
  <1> SUFFICES ASSUME NEW m \in Nat, Used(U, m), m # 0, BASE(U, m) > 0, m = 1 => Filled(U)
               PROVE  HasKids(U, m)
    BY DEF Busy
  <1>1. /\ Tree(T, 0) /\ s \in Nat /\ Used(T, s) /\ BASE(T, s) > 0
        /\ Ren(D, sh, 0) = 0 /\ Ren(D, sh, 1) = 1
        /\ \A n \in Nat : Used(T, n) =>
             /\ Ren(D, sh, n) \in Nat /\ n # 0
             /\ n >= 2 => Ren(D, sh, n) >= 2
             /\ BASE(U, Ren(D, sh, n)) = (IF n = s THEN r ELSE BASE(T, n))
             /\ CHECK(U, Ren(D, sh, n)) = Ren(D, sh, CHECK(T, n))
        /\ \A k \in Nat : CHECK(U, k) # 0 => \E n \in Nat : CHECK(T, n) # 0 /\ k = Ren(D, sh, n)
    BY DEF Renaming
  <1> HIDE DEF Ren
  <1>2. PICK n \in Nat : Used(T, n) /\ m = Ren(D, sh, n)
    <2>1. CASE m = 1
      BY <1>1, <2>1 DEF Used
    <2>2. CASE m # 1
      BY <1>1, <2>2 DEF Used
    <2> QED
      BY <2>1, <2>2
  <1>3. n # 0 /\ BASE(T, n) > 0
    BY <1>1, <1>2
  <1>4. n = 1 => Filled(T)
    BY <1>1, <1>2 DEF Filled
  <1>5. PICK k \in Nat : CHECK(T, k) = n
    BY <1>2, <1>3, <1>4 DEF Busy, HasKids
  <1>6. Used(T, k)
    BY <1>3, <1>5 DEF Used
  <1>7. Ren(D, sh, k) \in Nat /\ CHECK(U, Ren(D, sh, k)) = m
    BY <1>1, <1>2, <1>5, <1>6
  <1> QED
    BY <1>7 DEF HasKids

LEMMA ItselfMoves ==
  ASSUME NEW T, Sound(T, 0), NEW s \in Nat, Used(T, s), BASE(T, s) > 0, NEW b, Closed(b),
         CHECK(T, BASE(T, s) + b[1]) # s
  PROVE  Roomy(T, s, b, CHANGE_BC(T, s, s, Set_List(T, s), <<b[1]>>))
  <1> DEFINE list == Set_List(T, s)
             extra == <<b[1]>>
             x == CHANGE_BC(T, s, s, list, extra)
             r == X_CHECK(T, list \o extra)
             K == {n \in Nat : CHECK(T, n) = s}
             sh == Shift(T, s, r)
             U == x.trie
             m == r + b[1]
  <1>1. Tree(T, 0) /\ T \in Tries
    BY DEF Sound, Tree
  <1>2. b[1] \in Codes /\ extra \in Seq(Codes) /\ Len(extra) = 1 /\ extra[1] = b[1]
    BY DEF Closed
  <1>3. Lists(T, s, list, MAX_CODE - 2)
    BY SetListIs
  <1> HIDE DEF list, extra
  <1>4. /\ Kids(T, s, r, K) /\ Reached(T, s, r, s, K, x)
        /\ \A j \in 1 .. Len(extra) : CHECK(T, r + extra[j]) = 0
    BY <1>1, <1>2, <1>3, ChangeIs
  <1>5. CHECK(T, m) = 0
    BY <1>2, <1>4
  <1>6. s \notin K /\ 0 \notin K
    BY <1>4, KidsAre
  <1>7. \A n \in Nat : CHECK(T, n) = s => n \in K
    OBVIOUS
  <1>8. \A n : n \in K => CHECK(T, n) = s
    OBVIOUS
  <1> HIDE DEF K, x, r
  <1>9. x.trie \in Tries /\ x.current \in Nat /\ Moving(T, s, r, K, U) /\ x.current = Ren(K, sh, s)
    BY <1>4 DEF Reached
  <1>10. x.current = s
    BY <1>6, <1>9 DEF Ren
  <1>11. Renaming(T, U, s, r, K, sh)
    BY <1>4, <1>7, <1>9, RenamingIs
  <1>12. /\ Beside(T, U) /\ r \in Nat \ {0} /\ Used(U, Ren(K, sh, s))
         /\ BASE(U, Ren(K, sh, s)) = r
    BY <1>11 DEF Renaming
  <1> HIDE DEF U, sh
  <1>13. /\ Sound(U, 0)
         /\ \A v \in Seq(Letters) : \A e : Has(U, 0, v, e) <=> Has(T, 0, v, e)
         /\ \A n \in Nat : Used(T, n) => \A c : \A v \in Seq(Letters) :
              Below(U, Ren(K, sh, n), c, v) <=> Below(T, n, c, v)
    BY <1>11, RenamedSound
  <1>14. \A v \in Seq(Letters) : Below(U, s, b, v) <=> Below(T, s, b, v)
    BY <1>9, <1>10, <1>13
  <1>15. Used(U, s) /\ BASE(U, s) = r /\ r > 0
    BY <1>9, <1>10, <1>12
  <1>16. CHECK(U, m) = 0
    <2>1. BASE(T, s) \in Int /\ b[1] \in Nat /\ r \in Nat
      <3>1. BASE(T, s) \in Int
        BY <1>1, CellTypes
      <3>2. b[1] \in Nat
        BY <1>2 DEF Codes
      <3> QED
        BY <1>12, <3>1, <3>2
    <2>2. m - (r - BASE(T, s)) = BASE(T, s) + b[1] /\ m \in Nat
      BY <2>1
    <2>3. m - Shift(T, s, r) \notin K
      BY <1>8, <2>2 DEF Shift
    <2>4. CHECK(U, m) = IF m \in K THEN 0 ELSE IF m - Shift(T, s, r) \in K THEN s
                        ELSE Ren(K, Shift(T, s, r), CHECK(T, m))
      BY <1>9, <2>2 DEF Moving, U
    <2> QED
      BY <1>5, <1>6, <2>3, <2>4 DEF Ren
  <1>17. Busy(T, 0) => Busy(U, 0)
    BY <1>11, RenamedBusy
  <1>18. Roomy(T, s, b, x)
    BY <1>9, <1>10, <1>12, <1>13, <1>14, <1>15, <1>16, <1>17 DEF Roomy, U
  <1> QED
    BY <1>18 DEF x, list, extra

(* The parent of the node in the way moves its children.                   *)
LEMMA OtherMoves ==
  ASSUME NEW T, Sound(T, 0), NEW s \in Nat, Used(T, s), BASE(T, s) > 0, NEW b, Closed(b),
         CHECK(T, BASE(T, s) + b[1]) # s, CHECK(T, BASE(T, s) + b[1]) # 0
  PROVE  LET q == CHECK(T, BASE(T, s) + b[1])
         IN  Roomy(T, s, b, CHANGE_BC(T, s, q, Set_List(T, q), <<>>))
  <1> DEFINE t == BASE(T, s) + b[1]
             q == CHECK(T, t)
             list == Set_List(T, q)
             extra == <<>>
             x == CHANGE_BC(T, s, q, list, extra)
             r == X_CHECK(T, list \o extra)
             K == {n \in Nat : CHECK(T, n) = q}
             sh == Shift(T, q, r)
             U == x.trie
  <1>1. Tree(T, 0) /\ T \in Tries
    BY DEF Sound, Tree
  <1>2. b[1] \in Codes /\ extra \in Seq(Codes)
    BY DEF Closed
  <1>3. t \in Nat
    <2>1. BASE(T, s) \in Int
      BY <1>1, CellTypes
    <2>2. b[1] \in Nat
      BY <1>2 DEF Codes
    <2> QED
      BY <2>1, <2>2
  <1>4. q \in Nat /\ Used(T, q) /\ BASE(T, q) > 0 /\ q # s
    BY <1>1, <1>3 DEF Tree, IsChild, Used
  <1>5. Lists(T, q, list, MAX_CODE - 2)
    BY SetListIs
  <1> HIDE DEF list, extra
  <1>6. t \in K
    BY <1>3
  <1> HIDE DEF q
  <1>7. Kids(T, q, r, K) /\ Reached(T, q, r, s, K, x)
    BY <1>1, <1>2, <1>4, <1>5, ChangeIs
  <1>8. \A n \in Nat : CHECK(T, n) = q => n \in K
    OBVIOUS
  <1> HIDE DEF K, x, r, t
  <1>9. x.trie \in Tries /\ x.current \in Nat /\ Moving(T, q, r, K, U) /\ x.current = Ren(K, sh, s)
    BY <1>7 DEF Reached
  <1>10. Renaming(T, U, q, r, K, sh)
    BY <1>7, <1>8, <1>9, RenamingIs
  <1>11. /\ Beside(T, U) /\ Used(U, Ren(K, sh, s))
         /\ BASE(U, Ren(K, sh, s)) = (IF s = q THEN r ELSE BASE(T, s))
    BY <1>10 DEF Renaming
  <1>12. CHECK(U, t) = 0
    BY <1>3, <1>6, <1>9 DEF Moving
  <1> HIDE DEF U, sh
  <1>13. /\ Sound(U, 0)
         /\ \A v \in Seq(Letters) : \A e : Has(U, 0, v, e) <=> Has(T, 0, v, e)
         /\ \A n \in Nat : Used(T, n) => \A c : \A v \in Seq(Letters) :
              Below(U, Ren(K, sh, n), c, v) <=> Below(T, n, c, v)
    BY <1>10, RenamedSound
  <1>14. \A v \in Seq(Letters) : Below(U, x.current, b, v) <=> Below(T, s, b, v)
    BY <1>9, <1>13
  <1>15. Used(U, x.current) /\ BASE(U, x.current) = BASE(T, s)
    BY <1>4, <1>9, <1>11
  <1>16. CHECK(U, BASE(U, x.current) + b[1]) = 0
    BY <1>12, <1>15 DEF t
  <1>17. Busy(T, 0) => Busy(U, 0)
    BY <1>10, RenamedBusy
  <1>18. Roomy(T, s, b, x)
    BY <1>9, <1>11, <1>13, <1>14, <1>15, <1>16, <1>17 DEF Roomy, U
  <1> QED
    BY <1>18 DEF x, list, extra, q, t

LEMMA MadeRoomIs ==
  ASSUME NEW T, Sound(T, 0), NEW s \in Nat, Used(T, s), BASE(T, s) > 0, NEW b, Closed(b),
         CHECK(T, BASE(T, s) + b[1]) # s
  PROVE  Roomy(T, s, b, MadeRoom(T, s, b))
  <1> DEFINE t == BASE(T, s) + b[1]
  <1>1. CASE CHECK(T, t) = 0
    <2>1. Beside(T, T)
      BY DEF Sound, Tree, Beside, SameTail, SameCounters
    <2> DEFINE x == [trie |-> T, current |-> s]
    <2>2. x.trie = T /\ x.current = s
      OBVIOUS
    <2>3. MadeRoom(T, s, b) = x
      BY <1>1 DEF MadeRoom
    <2> HIDE DEF x
    <2>4. Roomy(T, s, b, x)
      BY <1>1, <2>1, <2>2 DEF Roomy
    <2> QED
      BY <2>3, <2>4
  <1>2. CASE CHECK(T, t) # 0
    <2>1. MadeRoom(T, s, b) \in {CHANGE_BC(T, s, s, Set_List(T, s), <<b[1]>>),
                                 CHANGE_BC(T, s, CHECK(T, t), Set_List(T, CHECK(T, t)), <<>>)}
      BY <1>2 DEF MadeRoom
    <2>2. Roomy(T, s, b, CHANGE_BC(T, s, s, Set_List(T, s), <<b[1]>>))
      BY ItselfMoves
    <2>3. Roomy(T, s, b, CHANGE_BC(T, s, CHECK(T, t), Set_List(T, CHECK(T, t)), <<>>))
      BY <1>2, OtherMoves
    <2> QED
      BY <2>1, <2>2, <2>3
  <1> QED
    BY <1>1, <1>2

LEMMA BCInsertIs ==
  ASSUME NEW T, Sound(T, 0), NEW s \in Nat, Used(T, s), BASE(T, s) > 0, NEW b, Closed(b),
         CHECK(T, BASE(T, s) + b[1]) # s, T.m_nPreCurrent_Detail_Pos # 0
  PROVE  LET U == BC_INSERT(T, s, b)
         IN  /\ Sound(U, 0) /\ SameCounters(T, U) /\ (Busy(T, 0) => Busy(U, 0))
             /\ \A v \in Seq(Letters) : \A e :
                  Has(U, 0, v, e) <=>
                    Has(T, 0, v, e) \/ (e = T.m_nPreCurrent_Detail_Pos /\ Below(T, s, b, v))
  <1> DEFINE x == MadeRoom(T, s, b)
             W == x.trie
             n == x.current
             p == T.m_nTAIL_POS
             d == T.m_nPreCurrent_Detail_Pos
             U == Separate(W, n, b, p, d)
  <1>1. Roomy(T, s, b, x)
    BY MadeRoomIs
  <1> HIDE DEF x
  <1>2. /\ Sound(W, 0) /\ Beside(T, W) /\ n \in Nat /\ Used(W, n) /\ BASE(W, n) > 0
        /\ CHECK(W, BASE(W, n) + b[1]) = 0 /\ (Busy(T, 0) => Busy(W, 0))
        /\ \A v \in Seq(Letters) : \A e : Has(W, 0, v, e) <=> Has(T, 0, v, e)
        /\ \A v \in Seq(Letters) : Below(W, n, b, v) <=> Below(T, s, b, v)
    BY <1>1 DEF Roomy
  <1> HIDE DEF W, n
  <1>3. SameCounters(T, W) /\ W.m_nTAIL_POS = p
    BY <1>2 DEF Beside, SameTail
  <1>4. d \in 1 .. W.m_nPreCurrent_Detail_Pos
    <2>1. T \in Tries
      BY DEF Sound, Tree
    <2>2. d \in Nat
      BY <2>1, TrieFields
    <2>3. W.m_nPreCurrent_Detail_Pos = d
      BY <1>3 DEF SameCounters
    <2> QED
      BY <2>2, <2>3
  <1>5. Len(b) - 1 \in Nat
    BY DEF Closed
  <1>6. HasRoom(W, p, Len(b) - 1)
    BY <1>2, <1>3, <1>5, RoomAtEnd
  <1> HIDE DEF d, p
  <1>7. /\ Sound(U, 0) /\ SameCounters(W, U) /\ Extends(W, U, 0)
        /\ LeafAt(W, U, n, BASE(W, n) + b[1], p, d)
        /\ \A v \in Seq(Letters) : \A e :
             Has(U, 0, v, e) <=> Has(W, 0, v, e) \/ (e = d /\ Below(W, n, b, v))
    BY <1>2, <1>4, <1>6, LeafHas
  <1>8. U = BC_INSERT(T, s, b)
    BY DEF BC_INSERT, W, n, x, p, d
  <1> HIDE DEF U
  <1>9. SameCounters(T, U)
    BY <1>3, <1>7 DEF SameCounters
  <1>10. \A v \in Seq(Letters) : \A e :
           Has(U, 0, v, e) <=> Has(T, 0, v, e) \/ (e = d /\ Below(T, s, b, v))
    BY <1>2, <1>7
  <1>11. ASSUME Busy(T, 0) PROVE Busy(U, 0)
    <2>1. Tree(W, 0) /\ W \in Tries /\ b[1] \in Codes
      BY <1>2 DEF Sound, Tree, Closed
    <2>2. Busy(W, n)
      BY <1>2, <1>11, <2>1, BusyOpen
    <2>3. p \in Nat
      BY <1>3, <2>1, TrieFields
    <2> QED
      BY <1>2, <1>7, <2>1, <2>2, <2>3, BusyLeaf
  <1> QED
    BY <1>7, <1>8, <1>9, <1>10, <1>11 DEF d

-----------------------------------------------------------------------------
(* Insertion.                                                              *)

(* A trie with other counters, but for the highest number, is the same.    *)
LEMMA Recounted ==
  ASSUME NEW T, Sound(T, 0), NEW U \in Tries, SameNodes(T, U), SameTail(T, U),
         T.m_nPreCurrent_Detail_Pos <= U.m_nPreCurrent_Detail_Pos
  PROVE  /\ Sound(U, 0) /\ (Busy(T, 0) => Busy(U, 0))
         /\ \A key \in Seq(Nat) : \A h \in 0 .. Len(key) : Path(U, key)[h] = Path(T, key)[h]
         /\ \A v \in Seq(Letters) : \A e : Has(U, 0, v, e) <=> Has(T, 0, v, e)
  <1>1. Tree(T, 0) /\ Tails(T, 0) /\ Numbered(T, 0) /\ T \in Tries
    BY DEF Sound, Tree
  <1>2. \A n : BASE(U, n) = BASE(T, n) /\ CHECK(U, n) = CHECK(T, n) /\ DETAIL(U, n) = DETAIL(T, n)
    BY SameCells
  <1>3. \A p : /\ Tailed(U, p) <=> Tailed(T, p)
               /\ TailEnd(U, p) = TailEnd(T, p) /\ READ_TAIL(U, p) = READ_TAIL(T, p)
    BY SameTailReads
  <1>4. \A n : Used(U, n) <=> Used(T, n)
    BY <1>2 DEF Used
  <1>5. \A n : /\ Byte(U, n) = Byte(T, n) /\ (IsChild(U, n) <=> IsChild(T, n))
               /\ (IsNode(U, n) <=> IsNode(T, n)) /\ RestOf(U, n) = RestOf(T, n)
    BY <1>2, <1>3, <1>4 DEF Byte, IsChild, IsNode, RestOf
  <1>6. Tree(U, 0)
    BY <1>1, <1>2, <1>5 DEF Tree
  <1>7. \A n : HasTail(U, 0, n) <=> HasTail(T, 0, n)
    BY <1>2, <1>5 DEF HasTail
  <1>8. \A m, n : Apart(U, m, n) <=> Apart(T, m, n)
    BY <1>2, <1>3 DEF Apart
  <1>9. Tails(U, 0)
    BY <1>1, <1>2, <1>3, <1>7, <1>8 DEF Tails
  <1>10. Numbered(U, 0)
    <2>1. SUFFICES ASSUME NEW n \in Nat, n # 0, CHECK(U, n) # 0, BASE(U, n) < 0
                   PROVE  DETAIL(U, n) \in 1 .. U.m_nPreCurrent_Detail_Pos
      BY DEF Numbered
    <2>2. DETAIL(U, n) \in 1 .. T.m_nPreCurrent_Detail_Pos
      BY <1>1, <1>2, <2>1 DEF Numbered
    <2>3. T.m_nPreCurrent_Detail_Pos \in Nat /\ U.m_nPreCurrent_Detail_Pos \in Nat
      BY <1>1, TrieFields
    <2> QED
      BY <2>2, <2>3
  <1>11. \A n, c : Child(U, n, c) = Child(T, n, c)
    BY <1>2 DEF Child
  <1>12. ASSUME NEW key \in Seq(Nat), NEW h \in 0 .. Len(key)
         PROVE  Path(U, key)[h] = Path(T, key)[h]
    <2> DEFINE P == Path(T, key)
               Q == Path(U, key)
               l == Len(key)
               I == {i \in Nat : i <= l => Q[i] = P[i]}
    <2>1. /\ P[0] = 1 /\ \A i \in 1 .. l : P[i] = Child(T, P[i - 1], key[i])
          /\ Q[0] = 1 /\ \A i \in 1 .. l : Q[i] = Child(U, Q[i - 1], key[i])
      BY <1>1, PathIs
    <2>2. l \in Nat
      OBVIOUS
    <2> HIDE DEF P, Q, l
    <2>3. 0 \in I
      BY <2>1
    <2>4. ASSUME NEW i \in Nat, i \in I PROVE i + 1 \in I
      <3>1. SUFFICES ASSUME i + 1 <= l PROVE Q[i + 1] = P[i + 1]
        OBVIOUS
      <3>2. i + 1 \in 1 .. l /\ (i + 1) - 1 = i /\ i <= l
        BY <2>2, <3>1
      <3>3. Q[i] = P[i]
        BY <2>4, <3>2
      <3> QED
        BY <1>11, <2>1, <3>2, <3>3
    <2> HIDE DEF I
    <2>5. \A i \in Nat : i \in I
      BY <2>3, <2>4, Induction
    <2>6. h \in Nat /\ h <= l
      BY <1>12 DEF l
    <2> QED
      BY <2>5, <2>6 DEF I, P, Q
  <1>13. ASSUME NEW v \in Seq(Letters), NEW h \in 1 .. Len(v) + 1
         PROVE  /\ Path(U, Key(v))[h] = Path(T, Key(v))[h]
                /\ Spells(U, 0, Key(v), h) <=> Spells(T, 0, Key(v), h)
    <2>1. Key(v) \in Seq(Nat) /\ h \in 0 .. Len(Key(v))
      BY KeyIs
    <2>2. Path(U, Key(v))[h] = Path(T, Key(v))[h]
      BY <1>12, <2>1
    <2> QED
      BY <1>2, <1>5, <2>2 DEF Spells
  <1>14. ASSUME NEW v \in Seq(Letters), NEW e PROVE Has(U, 0, v, e) <=> Has(T, 0, v, e)
    BY <1>2, <1>13 DEF Has
  <1>15. Busy(T, 0) => Busy(U, 0)
    <2>1. /\ \A n : HasKids(U, n) <=> HasKids(T, n)
          /\ Filled(U) <=> Filled(T)
      BY <1>2 DEF HasKids, Filled
    <2> QED
      BY <1>2, <1>4, <2>1 DEF Busy
  <1> QED
    BY <1>6, <1>9, <1>10, <1>12, <1>14, <1>15 DEF Sound

(* search() answers what the trie has.                                     *)
LEMMA SearchIs ==
  ASSUME NEW T, Sound(T, 0), NEW v \in Seq(Letters)
  PROVE  /\ search(T, v) = -1 \/ search(T, v) \in 1 .. T.m_nPreCurrent_Detail_Pos
         /\ \A e : Has(T, 0, v, e) <=> e = search(T, v) /\ e # -1
         /\ IsLeafOf(T, Key(v)) <=> search(T, v) # -1
  <1>1. Tree(T, 0) /\ Numbered(T, 0) /\ T \in Tries
    BY DEF Sound, Tree
  <1>2. ASSUME NEW e, Has(T, 0, v, e)
        PROVE  e \in 1 .. T.m_nPreCurrent_Detail_Pos /\ e = search(T, v) /\ e # -1
    <2>1. PICK h \in 1 .. Len(v) + 1 : Spells(T, 0, Key(v), h) /\ e = DETAIL(T, Path(T, Key(v))[h])
      BY <1>2 DEF Has
    <2>2. Key(v) \in Seq(Nat) /\ h \in 1 .. Len(Key(v)) /\ h \in 0 .. Len(Key(v))
      BY KeyIs
    <2> DEFINE n == Path(T, Key(v))[h]
    <2>3. n # 0 /\ BASE(T, n) < 0
      BY <2>1 DEF Spells
    <2>4. n \in Nat /\ CHECK(T, n) = Path(T, Key(v))[h - 1] /\ Path(T, Key(v))[h - 1] # 0
      BY <1>1, <2>2, <2>3, PathDown
    <2>5. e \in 1 .. T.m_nPreCurrent_Detail_Pos
      BY <1>1, <2>1, <2>3, <2>4 DEF Numbered
    <2>6. e # -1
      BY <2>5
    <2>7. e = search(T, v)
      BY <1>1, <1>2, SearchFinds
    <2> QED
      BY <2>5, <2>6, <2>7
  <1>3. CASE IsLeafOf(T, Key(v))
    <2>1. Has(T, 0, v, search(T, v))
      BY <1>1, <1>3, LeafIsFound
    <2> QED
      BY <1>2, <1>3, <2>1
  <1>4. CASE ~ IsLeafOf(T, Key(v))
    <2>1. search(T, v) = -1
      BY <1>4 DEF search
    <2> QED
      BY <1>2, <1>4, <2>1
  <1> QED
    BY <1>3, <1>4

LEMMA KeyClosed ==
  ASSUME NEW w \in Seq(Letters)
  PROVE  Closed(Key(w))
  <1>1. /\ Key(w) \in Seq(Codes) /\ Len(Key(w)) = Len(w) + 1 /\ Len(w) \in Nat
        /\ Key(w)[Len(w) + 1] = POSTFIX_CHAR
        /\ \A i \in 1 .. Len(w) : Key(w)[i] = w[i] /\ w[i] # POSTFIX_CHAR
    BY KeyIs
  <1>2. ASSUME NEW k \in 1 .. Len(w) + 1, k # Len(w) + 1 PROVE k \in 1 .. Len(w)
    BY <1>1, <1>2
  <1>3. Len(Key(w)) >= 1
    BY <1>1
  <1> QED
    BY <1>1, <1>2, <1>3 DEF Closed

(* The new word, and it only, is added; the others keep their numbers.     *)
LEMMA GrownIs ==
  ASSUME NEW T, Sound(T, 0), T.m_nPreCurrent_Detail_Pos # 0,
         NEW w \in Seq(Letters), ~ IsLeafOf(T, Key(w))
  PROVE  LET U == Grown(T, Key(w))
         IN  /\ Sound(U, 0) /\ SameCounters(T, U) /\ (Busy(T, 0) => Busy(U, 0))
             /\ \A v \in Seq(Letters) : \A e :
                  Has(U, 0, v, e) <=>
                    Has(T, 0, v, e) \/ (e = T.m_nPreCurrent_Detail_Pos /\ v = w)
  <1> DEFINE key == Key(w)
             h == Stop(T, key)
             t == Path(T, key)[h]
             s == Path(T, key)[h - 1]
             U == Grown(T, Key(w))
             d == T.m_nPreCurrent_Detail_Pos
  <1>1. Tree(T, 0) /\ T \in Tries
    BY DEF Sound, Tree
  <1>2. key \in Seq(Nat) /\ key \in Seq(Codes) /\ Len(key) = Len(w) + 1 /\ Ended(key) /\ Len(w) \in Nat
    BY KeyIs
  <1>3. Closed(key)
    BY KeyClosed
  <1>4. h \in 1 .. Len(key) /\ (t = 0 \/ BASE(T, t) < 0)
    BY <1>1, <1>2, StopIs
  <1>5. s # 0 /\ BASE(T, s) > 0 /\ Used(T, s)
    <2>1. h - 1 \in 0 .. h - 1
      BY <1>4
    <2> QED
      BY <1>1, <1>2, <2>1, StopIs
  <1>6. h \in 1 .. Len(w) + 1 /\ h \in Nat
    BY <1>2, <1>4
  <1>7. key[h] \in Codes /\ (key[h] = POSTFIX_CHAR <=> h = Len(w) + 1)
    BY <1>6, RestOfKey
  <1>8. U = IF t = 0 THEN BC_INSERT(T, s, SubSeq(key, h, Len(key)))
            ELSE TAIL_INSERT(T, t, RestOf(T, t), SubSeq(key, h + 1, Len(key)))
    BY DEF Grown
  <1>9. CASE t = 0
    <2> DEFINE b == SubSeq(key, h, Len(key))
    <2>1. h - 1 \in Nat /\ h - 1 < Len(key) /\ (h - 1) + 1 = h
      BY <1>2, <1>6
    <2>2. Closed(SubSeq(key, (h - 1) + 1, Len(key)))
      BY <1>3, <2>1, RestClosed
    <2>3. Closed(b)
      BY <2>1, <2>2
    <2>4. b[1] = key[h]
      BY <1>6, RestOfKey
    <2> HIDE DEF b
    <2>5. t = Child(T, s, key[h])
      BY <1>1, <1>2, <1>4, PathIs
    <2>6. s \in Nat
      BY <1>5 DEF Used
    <2>7. BASE(T, s) \in Int
      BY <1>1, <2>6, CellTypes
    <2>8. CHECK(T, BASE(T, s) + b[1]) # s
      <3>1. BASE(T, s) + key[h] # 0 /\ BASE(T, s) >= 0
        BY <1>5, <1>7, <2>7 DEF Codes
      <3> QED
        BY <1>5, <1>9, <2>4, <2>5, <3>1 DEF Child
    <2> HIDE DEF h, s, t
    <2>9. LET W == BC_INSERT(T, s, b)
          IN  /\ Sound(W, 0) /\ SameCounters(T, W) /\ (Busy(T, 0) => Busy(W, 0))
              /\ \A v \in Seq(Letters) : \A e :
                   Has(W, 0, v, e) <=> Has(T, 0, v, e) \/ (e = d /\ Below(T, s, b, v))
      BY <1>5, <2>3, <2>6, <2>8, BCInsertIs
    <2>10. ASSUME NEW v \in Seq(Letters) PROVE Below(T, s, b, v) <=> v = w
      BY <1>1, <1>5, <1>6, <2>10, BelowKey DEF s, b
    <2>11. U = BC_INSERT(T, s, b)
      BY <1>8, <1>9 DEF b
    <2> HIDE DEF U
    <2> QED
      BY <2>9, <2>10, <2>11 DEF U
  <1>10. CASE t # 0
    <2> DEFINE b == SubSeq(key, h + 1, Len(key))
               a == RestOf(T, t)
    <2>1. key[h] # POSTFIX_CHAR /\ a # b
      BY <1>10 DEF IsLeafOf
    <2>2. /\ t \in Nat /\ t >= 2 /\ CHECK(T, t) = s /\ Byte(T, t) = key[h]
      BY <1>1, <1>2, <1>4, <1>10, PathDown
    <2>3. HasTail(T, 0, t)
      BY <1>4, <1>5, <1>10, <2>1, <2>2 DEF HasTail
    <2>4. h < Len(key) /\ h + 1 \in 1 .. Len(w) + 1 /\ (h + 1) - 1 = h
      BY <1>2, <1>6, <1>7, <2>1, SMTT(20)
    <2>5. Closed(b)
      <3> HIDE DEF h
      <3>1. Closed(key) /\ h \in Nat
        BY <1>3, <1>6
      <3> QED
        BY <2>4, <3>1, RestClosed
    <2> HIDE DEF a, b, h, t
    <2>6. LET W == TAIL_INSERT(T, t, RestOf(T, t), b)
          IN  /\ Sound(W, 0) /\ SameCounters(T, W) /\ (Busy(T, 0) => Busy(W, 0))
              /\ \A v \in Seq(Letters) : \A e :
                   Has(W, 0, v, e) <=> Has(T, 0, v, e) \/ (e = d /\ Below(T, t, b, v))
      BY <2>1, <2>3, <2>5, TailInsertIs DEF a
    <2>7. ASSUME NEW v \in Seq(Letters) PROVE Below(T, t, b, v) <=> v = w
      <3>1. Path(T, key)[(h + 1) - 1] = t
        BY <2>4 DEF t
      <3> QED
        BY <1>1, <1>10, <2>4, <2>7, <3>1, BelowKey DEF b
    <2>8. U = TAIL_INSERT(T, t, RestOf(T, t), b)
      BY <1>8, <1>10 DEF b
    <2> HIDE DEF U
    <2> QED
      BY <2>6, <2>7, <2>8 DEF U
  <1> QED
    BY <1>9, <1>10

LEMMA InsertedIs ==
  ASSUME NEW T, Sound(T, 0), NEW w \in Seq(Letters)
  PROVE  LET U == Inserted(T, w)
         IN  /\ Sound(U, 0) /\ (Busy(T, 0) => Busy(U, 0))
             /\ search(T, w) # -1 => U = T
             /\ search(T, w) = -1 =>
                  /\ U.m_nPreCurrent_Detail_Pos = T.m_nPreCurrent_Detail_Pos + 1
                  /\ U.m_nDictWordCount = T.m_nDictWordCount + 1
                  /\ U.m_nMaxLenOfWord = IF Len(w) > T.m_nMaxLenOfWord THEN Len(w)
                                         ELSE T.m_nMaxLenOfWord
                  /\ \A v \in Seq(Letters) :
                       search(U, v) = IF v = w THEN T.m_nPreCurrent_Detail_Pos + 1 ELSE search(T, v)
  <1> DEFINE d == T.m_nPreCurrent_Detail_Pos + 1
             C == [T EXCEPT !.m_nPreCurrent_Detail_Pos = @ + 1]
             G == Grown(C, Key(w))
             U == Inserted(T, w)
  <1>1. T \in Tries
    BY DEF Sound, Tree
  <1>2. search(T, w) # -1 <=> IsLeafOf(T, Key(w))
    BY SearchIs
  <1>3. CASE search(T, w) # -1
    BY <1>2, <1>3 DEF Inserted
  <1>4. CASE search(T, w) = -1
    <2>1. U = [G EXCEPT !.m_nDictWordCount = @ + 1,
                        !.m_nMaxLenOfWord = IF Len(w) > @ THEN Len(w) ELSE @]
      BY <1>2, <1>4 DEF Inserted
    <2>2. /\ C \in Tries /\ SameNodes(T, C) /\ SameTail(T, C) /\ C.m_nPreCurrent_Detail_Pos = d
          /\ C.m_nDictWordCount = T.m_nDictWordCount /\ C.m_nMaxLenOfWord = T.m_nMaxLenOfWord
      <3>1. T \in TriesOf(T.m_nBC_POS, T.m_nTAIL_POS)
        BY <1>1, TrieOf
      <3>2. C \in TriesOf(T.m_nBC_POS, T.m_nTAIL_POS)
        BY <3>1 DEF TriesOf
      <3>3. T.m_nBC_POS \in Nat \ {0} /\ T.m_nTAIL_POS \in Nat \ {0}
        BY <1>1, TrieFields
      <3>4. C \in Tries
        BY <3>2, <3>3, TrieMade
      <3> QED
        BY <3>1, <3>4 DEF TriesOf, SameNodes, SameTail
    <2>3. T.m_nPreCurrent_Detail_Pos \in Nat
      BY <1>1, TrieFields
    <2> HIDE DEF C
    <2>4. T.m_nPreCurrent_Detail_Pos <= C.m_nPreCurrent_Detail_Pos /\ d # 0 /\ d \in Nat
      BY <2>2, <2>3
    <2>5. /\ Sound(C, 0) /\ (Busy(T, 0) => Busy(C, 0))
          /\ \A v \in Seq(Letters) : \A e : Has(C, 0, v, e) <=> Has(T, 0, v, e)
      BY <2>2, <2>4, Recounted
    <2>6. ASSUME NEW v \in Seq(Letters) PROVE search(C, v) = search(T, v)
      <3>1. \A e : Has(C, 0, v, e) <=> e = search(C, v) /\ e # -1
        BY <2>5, SearchIs
      <3>2. \A e : Has(T, 0, v, e) <=> e = search(T, v) /\ e # -1
        BY SearchIs
      <3>3. Has(C, 0, v, search(C, v)) <=> Has(T, 0, v, search(C, v))
        BY <2>5
      <3>4. Has(C, 0, v, search(T, v)) <=> Has(T, 0, v, search(T, v))
        BY <2>5
      <3> QED
        BY <3>1, <3>2, <3>3, <3>4
    <2>7. ~ IsLeafOf(C, Key(w))
      <3>1. search(C, w) = -1
        BY <1>4, <2>6
      <3> QED
        BY <2>5, <3>1, SearchIs
    <2>8. LET W == Grown(C, Key(w))
          IN  /\ Sound(W, 0) /\ SameCounters(C, W) /\ (Busy(C, 0) => Busy(W, 0))
              /\ \A v \in Seq(Letters) : \A e :
                   Has(W, 0, v, e) <=>
                     Has(C, 0, v, e) \/ (e = C.m_nPreCurrent_Detail_Pos /\ v = w)
      BY <2>2, <2>4, <2>5, <2>7, GrownIs
    <2>9. /\ Sound(G, 0) /\ SameCounters(C, G) /\ G \in Tries /\ (Busy(C, 0) => Busy(G, 0))
          /\ \A v \in Seq(Letters) : \A e :
               Has(G, 0, v, e) <=> Has(C, 0, v, e) \/ (e = d /\ v = w)
      BY <2>2, <2>8 DEF Sound, Tree
    <2> HIDE DEF G
    <2>10. /\ U \in Tries /\ SameNodes(G, U) /\ SameTail(G, U)
           /\ U.m_nPreCurrent_Detail_Pos = G.m_nPreCurrent_Detail_Pos
           /\ U.m_nDictWordCount = G.m_nDictWordCount + 1
           /\ U.m_nMaxLenOfWord = IF Len(w) > G.m_nMaxLenOfWord THEN Len(w) ELSE G.m_nMaxLenOfWord
      <3>1. G \in TriesOf(G.m_nBC_POS, G.m_nTAIL_POS)
        BY <2>9, TrieOf
      <3> DEFINE c == G.m_nDictWordCount + 1
                 k == IF Len(w) > G.m_nMaxLenOfWord THEN Len(w) ELSE G.m_nMaxLenOfWord
      <3>2. U = [G EXCEPT !.m_nDictWordCount = c, !.m_nMaxLenOfWord = k] /\ c \in Nat /\ k \in Nat
        <4>1. Len(w) \in Nat /\ G.m_nDictWordCount \in Nat /\ G.m_nMaxLenOfWord \in Nat
          BY <2>9, TrieFields
        <4>2. c \in Nat /\ k \in Nat
          BY <4>1
        <4> QED
          BY <2>1, <4>2
      <3> HIDE DEF c, k, U
      <3>3. U \in TriesOf(G.m_nBC_POS, G.m_nTAIL_POS)
        BY <3>1, <3>2 DEF TriesOf
      <3>4. G.m_nBC_POS \in Nat \ {0} /\ G.m_nTAIL_POS \in Nat \ {0}
        BY <2>9, TrieFields
      <3>5. U \in Tries
        BY <3>3, <3>4, TrieMade
      <3> QED
        BY <3>1, <3>2, <3>5 DEF TriesOf, SameNodes, SameTail, c, k
    <2> HIDE DEF U
    <2>11. /\ G.m_nPreCurrent_Detail_Pos = d /\ G.m_nDictWordCount = T.m_nDictWordCount
           /\ G.m_nMaxLenOfWord = T.m_nMaxLenOfWord
      BY <2>2, <2>9 DEF SameCounters
    <2>12. G.m_nPreCurrent_Detail_Pos <= U.m_nPreCurrent_Detail_Pos
      BY <2>4, <2>10, <2>11
    <2>13. /\ Sound(U, 0) /\ (Busy(G, 0) => Busy(U, 0))
           /\ \A v \in Seq(Letters) : \A e : Has(U, 0, v, e) <=> Has(G, 0, v, e)
      BY <2>9, <2>10, <2>12, Recounted
    <2>14. ASSUME NEW v \in Seq(Letters)
           PROVE  search(U, v) = IF v = w THEN d ELSE search(T, v)
      <3>1. \A e : Has(U, 0, v, e) <=> e = search(U, v) /\ e # -1
        BY <2>13, SearchIs
      <3>2. \A e : Has(T, 0, v, e) <=> e = search(T, v) /\ e # -1
        BY SearchIs
      <3>3. \A e : Has(U, 0, v, e) <=> Has(T, 0, v, e) \/ (e = d /\ v = w)
        BY <2>5, <2>9, <2>13
      <3>4. d # -1
        BY <2>3
      <3> HIDE DEF d
      <3>5. CASE v = w
        <4>1. Has(U, 0, v, d)
          BY <3>3, <3>5
        <4> QED
          BY <3>1, <3>5, <4>1
      <3>6. CASE v # w /\ search(T, v) # -1
        <4>1. Has(U, 0, v, search(T, v))
          BY <3>2, <3>3, <3>6
        <4> QED
          BY <3>1, <3>6, <4>1
      <3>7. CASE v # w /\ search(T, v) = -1
        <4>1. ~ Has(U, 0, v, search(U, v))
          BY <3>2, <3>3, <3>7
        <4> QED
          BY <3>1, <3>7, <4>1
      <3> QED
        BY <3>5, <3>6, <3>7
    <2>15. search(T, w) = -1
      BY <1>4
    <2>16. /\ U.m_nPreCurrent_Detail_Pos = d /\ U.m_nDictWordCount = T.m_nDictWordCount + 1
           /\ U.m_nMaxLenOfWord = IF Len(w) > T.m_nMaxLenOfWord THEN Len(w) ELSE T.m_nMaxLenOfWord
      BY <2>10, <2>11
    <2>17. Busy(T, 0) => Busy(U, 0)
      BY <2>5, <2>9, <2>13
    <2> QED
      BY <2>13, <2>14, <2>15, <2>16, <2>17 DEF U, d
  <1> QED
    BY <1>3, <1>4

-----------------------------------------------------------------------------
(***************************************************************************)
(* The inductive invariant: a sound trie whose inner nodes have children,  *)
(* that counts its words, has only words that were inserted and knows the  *)
(* length of the longest one.                                              *)
(***************************************************************************)
InTrie(T) == {v \in Words : search(T, v) # -1}
Good(T) ==
  /\ Sound(T, 0) /\ Busy(T, 0) /\ T.m_nPreCurrent_Detail_Pos = T.m_nDictWordCount
  /\ \A v \in Seq(Letters) : search(T, v) # -1 => v \in Words /\ Len(v) <= T.m_nMaxLenOfWord
  /\ IsFiniteSet(InTrie(T)) /\ Cardinality(InTrie(T)) = T.m_nPreCurrent_Detail_Pos

LEMMA AnswersAre ==
  ASSUME NEW T
  PROVE  /\ Answers(T) = [w \in InTrie(T) |-> search(T, w)]
         /\ DOMAIN Answers(T) = InTrie(T)
  BY DEF Answers, InTrie

LEMMA EmptyIsGood == Good(EmptyTrie) /\ Answers(EmptyTrie) = [w \in {} |-> 0]
  <1> DEFINE T == EmptyTrie
  <1>1. T \in Tries /\ T.m_nPreCurrent_Detail_Pos = 0 /\ T.m_nDictWordCount = 0 /\ T.m_nBC_POS = 1
    <2>1. T \in TriesOf(1, 1)
      <3>1. T.m_pnBC \in [0 .. 1 -> Cells] /\ T.m_pnBC = [n \in 0 .. 1 |-> [Free EXCEPT !.base = n]]
        BY DEF EmptyTrie, Free, Cells
      <3>2. T.m_psTAIL \in [0 .. 1 - 1 -> Codes]
        BY DictionaryTrieAssumption DEF EmptyTrie
      <3> QED
        BY <3>1, <3>2 DEF EmptyTrie, TriesOf
    <2>2. 1 \in Nat \ {0}
      OBVIOUS
    <2> QED
      BY <2>1, <2>2, TrieMade DEF EmptyTrie
  <1>2. ASSUME NEW n \in Nat
        PROVE  CHECK(T, n) = 0 /\ BASE(T, n) = IF n = 1 THEN 1 ELSE 0
    <2>1. CASE n > 1
      BY <1>1, <2>1 DEF CHECK, BASE, Cell, Free
    <2>2. CASE n \in 0 .. 1
      <3>1. Cell(T, n) = [Free EXCEPT !.base = n]
        BY <1>1, <2>2 DEF Cell, EmptyTrie
      <3> QED
        BY <2>2, <3>1 DEF CHECK, BASE, Free
    <2> QED
      BY <2>1, <2>2
  <1> HIDE DEF T
  <1>3. Tree(T, 0)
    BY <1>1, <1>2 DEF Tree
  <1>4. Tails(T, 0) /\ Numbered(T, 0)
    BY <1>2 DEF Tails, Numbered, HasTail
  <1>5. Sound(T, 0)
    BY <1>3, <1>4 DEF Sound
  <1>6. ASSUME NEW v \in Seq(Letters) PROVE search(T, v) = -1
    <2>1. search(T, v) = -1 \/ search(T, v) \in 1 .. 0
      BY <1>1, <1>5, SearchIs
    <2> QED
      BY <2>1
  <1>7. InTrie(T) = {}
    BY <1>6, DictionaryTrieAssumption DEF InTrie
  <1>8. IsFiniteSet(InTrie(T)) /\ Cardinality(InTrie(T)) = 0
    BY <1>7, FS_EmptySet
  <1>9. Busy(T, 0)
    <2>1. ~ Filled(T)
      BY <1>2 DEF Filled
    <2> QED
      BY <1>2, <2>1 DEF Busy
  <1>11. Good(T)
    BY <1>1, <1>5, <1>6, <1>8, <1>9 DEF Good
  <1>10. Answers(T) = [w \in {} |-> 0]
    BY <1>7, AnswersAre
  <1> QED
    BY <1>10, <1>11 DEF T

LEMMA RestoredIs ==
  ASSUME NEW T, Good(T)
  PROVE  Restored(T) = T
  <1>1. T \in TriesOf(T.m_nBC_POS, T.m_nTAIL_POS) /\ T.m_nPreCurrent_Detail_Pos = T.m_nDictWordCount
    BY TrieOf DEF Good, Sound, Tree
  <1> QED
    BY <1>1 DEF Restored, TriesOf

LEMMA InsertedIsGood ==
  ASSUME NEW T, Good(T), NEW w \in Words
  PROVE  LET U == Inserted(T, w)
         IN  /\ Good(U)
             /\ w \in InTrie(T) => U = T
             /\ w \notin InTrie(T) =>
                  Answers(U) = [v \in InTrie(T) \union {w} |->
                                  IF v = w THEN Cardinality(InTrie(T)) + 1 ELSE Answers(T)[v]]
  <1> DEFINE U == Inserted(T, w)
             D == InTrie(T)
             d == T.m_nPreCurrent_Detail_Pos + 1
  <1>1. w \in Seq(Letters) /\ Len(w) \in Nat
    BY DictionaryTrieAssumption
  <1>2. /\ Sound(T, 0) /\ Busy(T, 0) /\ T.m_nPreCurrent_Detail_Pos = T.m_nDictWordCount
        /\ \A v \in Seq(Letters) : search(T, v) # -1 => v \in Words /\ Len(v) <= T.m_nMaxLenOfWord
        /\ IsFiniteSet(D) /\ Cardinality(D) = T.m_nPreCurrent_Detail_Pos
    BY DEF Good
  <1>3. /\ T.m_nPreCurrent_Detail_Pos \in Nat /\ T.m_nDictWordCount \in Nat
        /\ T.m_nMaxLenOfWord \in Nat
    BY <1>2, TrieFields DEF Sound, Tree
  <1>4. /\ Sound(U, 0) /\ Busy(U, 0)
        /\ search(T, w) # -1 => U = T
        /\ search(T, w) = -1 =>
             /\ U.m_nPreCurrent_Detail_Pos = d
             /\ U.m_nDictWordCount = T.m_nDictWordCount + 1
             /\ U.m_nMaxLenOfWord = IF Len(w) > T.m_nMaxLenOfWord THEN Len(w) ELSE T.m_nMaxLenOfWord
             /\ \A v \in Seq(Letters) : search(U, v) = IF v = w THEN d ELSE search(T, v)
    BY <1>1, <1>2, InsertedIs
  <1>5. w \in D <=> search(T, w) # -1
    BY DEF InTrie
  <1> HIDE DEF U, D
  <1>6. CASE w \in D
    BY <1>4, <1>5, <1>6 DEF U, D
  <1>7. CASE w \notin D
    <2>1. /\ U.m_nPreCurrent_Detail_Pos = d
          /\ U.m_nDictWordCount = T.m_nDictWordCount + 1
          /\ U.m_nMaxLenOfWord = IF Len(w) > T.m_nMaxLenOfWord THEN Len(w) ELSE T.m_nMaxLenOfWord
          /\ \A v \in Seq(Letters) : search(U, v) = IF v = w THEN d ELSE search(T, v)
      BY <1>4, <1>5, <1>7
    <2>2. d # -1 /\ d = T.m_nDictWordCount + 1
      BY <1>2, <1>3
    <2>3. InTrie(U) = D \union {w}
      BY <1>1, <2>1, <2>2, DictionaryTrieAssumption DEF InTrie, D
    <2>4. IsFiniteSet(D \union {w}) /\ Cardinality(D \union {w}) = d
      BY <1>2, <1>7, FS_AddElement
    <2>5. ASSUME NEW v \in Seq(Letters), search(U, v) # -1
          PROVE  v \in Words /\ Len(v) <= U.m_nMaxLenOfWord
      <3>1. Len(v) \in Nat
        OBVIOUS
      <3>2. CASE v = w
        BY <1>1, <1>3, <2>1, <3>2
      <3>3. CASE v # w
        <4>1. search(T, v) # -1
          BY <2>1, <2>5, <3>3
        <4>2. v \in Words /\ Len(v) <= T.m_nMaxLenOfWord
          BY <1>2, <4>1
        <4> QED
          BY <1>1, <1>3, <2>1, <3>1, <4>2
      <3> QED
        BY <3>2, <3>3
    <2>6. Good(U)
      BY <1>4, <2>1, <2>2, <2>3, <2>4, <2>5 DEF Good
    <2>7. ASSUME NEW v \in D \union {w}
          PROVE  search(U, v) = IF v = w THEN Cardinality(D) + 1 ELSE Answers(T)[v]
      <3>1. v \in Seq(Letters)
        BY DictionaryTrieAssumption DEF D, InTrie
      <3>2. v # w => Answers(T)[v] = search(T, v)
        BY AnswersAre DEF D
      <3> QED
        BY <1>2, <2>1, <3>1, <3>2
    <2>8. Answers(U) = [v \in D \union {w} |-> search(U, v)]
      BY <2>3, AnswersAre
    <2>9. Answers(U) = [v \in D \union {w} |-> IF v = w THEN Cardinality(D) + 1 ELSE Answers(T)[v]]
      BY <2>7, <2>8
    <2> QED
      BY <1>7, <2>6, <2>9 DEF U, D
  <1> QED
    BY <1>6, <1>7

DictionaryInv ==
  /\ Good(trie) /\ Good(file.trie)
  /\ found = Answers(trie) /\ matched = Matches(trie) /\ file.found = Answers(file.trie)
  /\ file.there \in BOOLEAN

(***************************************************************************)
(* Every trie the program reaches, and every one it saves, is sound, and   *)
(* what search(), fmm() and bmm() answer is what that trie says.           *)
(***************************************************************************)
THEOREM TrieStaysSound == Spec => []DictionaryInv
  <1>1. Init => DictionaryInv
    BY EmptyIsGood DEF Init, DictionaryInv
  <1>2. DictionaryInv /\ [Next]_vars => DictionaryInv'
    <2> SUFFICES ASSUME DictionaryInv, [Next]_vars PROVE DictionaryInv'
      OBVIOUS
    <2>1. /\ Good(trie) /\ Good(file.trie)
          /\ found = Answers(trie) /\ matched = Matches(trie) /\ file.found = Answers(file.trie)
          /\ file.there \in BOOLEAN
      BY DEF DictionaryInv
    <2>2. ASSUME NEW w \in Words, insert(w) PROVE DictionaryInv'
      <3>1. Good(Inserted(trie, w))
        BY <2>1, InsertedIsGood
      <3> QED
        BY <2>1, <2>2, <3>1 DEF insert, Becomes, DictionaryInv
    <2>3. CASE update
      BY <2>1, <2>3 DEF update, DictionaryInv
    <2>4. CASE InitDict
      <3>1. Restored(file.trie) = file.trie
        BY <2>1, RestoredIs
      <3> QED
        BY <2>1, <2>4, <3>1 DEF InitDict, Becomes, DictionaryInv
    <2>5. CASE UNCHANGED vars
      BY <2>1, <2>5 DEF vars, DictionaryInv
    <2> QED
      BY <2>2, <2>3, <2>4, <2>5 DEF Next
  <1> QED
    BY <1>1, <1>2, PTL DEF Spec

(* Type correctness.                                                       *)
THEOREM DictionaryTypes == Spec => []TypeOK
  <1>1. DictionaryInv => TypeOK
    <2> SUFFICES ASSUME DictionaryInv PROVE TypeOK
      OBVIOUS
    <2> DEFINE T == trie
    <2>1. /\ Sound(T, 0) /\ T.m_nPreCurrent_Detail_Pos = T.m_nDictWordCount
          /\ file.there \in BOOLEAN
      BY DEF DictionaryInv, Good
    <2>2. Tree(T, 0) /\ Tails(T, 0) /\ Numbered(T, 0) /\ T \in Tries
      BY <2>1 DEF Sound, Tree
    <2>3. /\ T.m_nBC_POS \in Nat \ {0} /\ T.m_nTAIL_POS \in Nat \ {0}
          /\ DOMAIN T.m_pnBC = 0 .. T.m_nBC_POS
          /\ T.m_psTAIL \in [0 .. T.m_nTAIL_POS - 1 -> Codes]
      BY <2>2, TrieFields
    <2> HIDE DEF T
    <2>4. ASSUME NEW n \in 0 .. T.m_nBC_POS, CHECK(T, n) # 0
          PROVE  LET parent == CHECK(T, n)
                     c == n - BASE(T, parent)
                 IN  /\ parent \in 1 .. T.m_nBC_POS /\ BASE(T, parent) > 0 /\ c \in Codes
                     /\ BASE(T, n) # 0
                     /\ BASE(T, n) < 0 =>
                          /\ DETAIL(T, n) \in 1 .. T.m_nPreCurrent_Detail_Pos
                          /\ c = POSTFIX_CHAR \/ \E q \in -BASE(T, n) .. T.m_nTAIL_POS - 1 :
                                                   q > 0 /\ T.m_psTAIL[q] = POSTFIX_CHAR
      <3> DEFINE parent == CHECK(T, n)
                 c == n - BASE(T, parent)
      <3>1. n \in Nat
        BY <2>3
      <3>2. n # 0 /\ IsChild(T, n) /\ IsNode(T, n)
        BY <2>2, <2>4, <3>1 DEF Tree, IsChild
      <3>3. BASE(T, parent) > 0 /\ c \in Codes /\ Used(T, parent) /\ Byte(T, n) = c /\ BASE(T, n) # 0
        BY <3>2 DEF IsChild, IsNode, Byte
      <3>4. parent \in 1 .. T.m_nBC_POS
        <4>1. parent \in Nat /\ parent # 0
          BY <2>4, <3>3 DEF Used
        <4> HIDE DEF parent
        <4>2. CASE parent = 1
          BY <2>3, <4>2
        <4>3. CASE CHECK(T, parent) # 0
          <5>1. ~ (parent > T.m_nBC_POS)
            BY <2>2, <4>1, <4>3, CellTypes DEF CHECK, Free
          <5> QED
            BY <2>3, <4>1, <5>1
        <4> QED
          BY <3>3, <4>2, <4>3 DEF Used
      <3>5. ASSUME BASE(T, n) < 0 PROVE DETAIL(T, n) \in 1 .. T.m_nPreCurrent_Detail_Pos
        BY <2>2, <2>4, <3>1, <3>2, <3>5 DEF Numbered
      <3>6. ASSUME BASE(T, n) < 0, c # POSTFIX_CHAR
            PROVE  \E q \in -BASE(T, n) .. T.m_nTAIL_POS - 1 : q > 0 /\ T.m_psTAIL[q] = POSTFIX_CHAR
        <4>1. HasTail(T, 0, n)
          BY <2>4, <3>1, <3>2, <3>3, <3>6 DEF HasTail
        <4>2. Tailed(T, -BASE(T, n))
          BY <2>2, <3>1, <4>1 DEF Tails
        <4>3. -BASE(T, n) \in Nat /\ -BASE(T, n) >= 1
          BY <4>2 DEF Tailed
        <4>4. PICK e \in -BASE(T, n) .. T.m_nTAIL_POS - 1 : T.m_psTAIL[e] = POSTFIX_CHAR
          BY <4>2 DEF Tailed
        <4> QED
          BY <4>3, <4>4
      <3> QED
        BY <3>3, <3>4, <3>5, <3>6
    <2> QED
      BY <2>1, <2>3, <2>4 DEF TypeOK, T
  <1> QED
    BY <1>1, TrieStaysSound, PTL

LEMMA SameCardinality ==
  ASSUME NEW S
  PROVE  Promise!Cardinality(S) = Cardinality(S)
  BY Zenon DEF Promise!Cardinality, Cardinality

(***************************************************************************)
(* Refinement: the dictionary is the word table, in a file too.            *)
(***************************************************************************)
THEOREM DictionaryIsWordTable == Spec => ImplementsWordTable
  <1>1. Init => Promise!Init
    BY EmptyIsGood DEF Init, Promise!Init, Promise!Empty
  <1>2. DictionaryInv /\ [Next]_vars => [Promise!Next]_<<found, file.found>>
    <2> SUFFICES ASSUME DictionaryInv, [Next]_vars PROVE [Promise!Next]_<<found, file.found>>
      OBVIOUS
    <2>1. /\ Good(trie) /\ Good(file.trie)
          /\ found = Answers(trie) /\ file.found = Answers(file.trie)
      BY DEF DictionaryInv
    <2>2. ASSUME NEW w \in Words, insert(w) PROVE [Promise!Next]_<<found, file.found>>
      <3>1. found' = Answers(Inserted(trie, w)) /\ UNCHANGED file
        BY <2>2 DEF insert, Becomes
      <3>2. DOMAIN found = InTrie(trie)
        BY <2>1, AnswersAre
      <3>3. CASE w \in DOMAIN found
        <4>1. Inserted(trie, w) = trie
          BY <2>1, <3>2, <3>3, InsertedIsGood
        <4> QED
          BY <2>1, <3>1, <4>1
      <3>4. CASE w \notin DOMAIN found
        <4>1. Answers(Inserted(trie, w)) =
                [v \in InTrie(trie) \union {w} |->
                   IF v = w THEN Cardinality(InTrie(trie)) + 1 ELSE Answers(trie)[v]]
          BY <2>1, <3>2, <3>4, InsertedIsGood
        <4>2. Promise!Insert(w)
          <5>1. Promise!Cardinality(DOMAIN found) = Cardinality(InTrie(trie))
            BY <3>2, SameCardinality
          <5>2. found' = [v \in DOMAIN found \union {w} |->
                           IF v = w THEN Promise!Cardinality(DOMAIN found) + 1 ELSE found[v]]
            BY <2>1, <3>1, <3>2, <4>1, <5>1
          <5> QED
            BY <3>1, <3>4, <5>2 DEF Promise!Insert
        <4> QED
          BY <4>2 DEF Promise!Next
      <3> QED
        BY <3>3, <3>4
    <2>3. CASE update
      <3>1. Promise!Save
        BY <2>3 DEF update, Promise!Save
      <3> QED
        BY <3>1 DEF Promise!Next
    <2>4. CASE InitDict
      <3>1. Restored(file.trie) = file.trie
        BY <2>1, RestoredIs
      <3>2. Promise!Restart
        BY <2>1, <2>4, <3>1 DEF InitDict, Becomes, Promise!Restart
      <3> QED
        BY <3>2 DEF Promise!Next
    <2>5. CASE UNCHANGED vars
      BY <2>5 DEF vars
    <2> QED
      BY <2>2, <2>3, <2>4, <2>5 DEF Next
  <1> QED
    BY <1>1, <1>2, TrieStaysSound, PTL DEF Spec, ImplementsWordTable, Promise!Spec

-----------------------------------------------------------------------------
(***************************************************************************)
(* The loops of CHANGE_BC and X_CHECK do their body once before they look  *)
(* for the end of the list; for an empty list they would move a node that  *)
(* is nobody's child.  When the place for a new child is taken, the lists  *)
(* of both parents, one of which will be moved, have a byte.               *)
(***************************************************************************)
BothHaveChildren ==
  \A w \in Words :
    LET key == Key(w)
        h == Stop(trie, key)
        s == Path(trie, key)[h - 1]
        q == CHECK(trie, BASE(trie, s) + key[h])
    IN  Path(trie, key)[h] = 0 /\ q # 0 => Set_List(trie, s) # <<>> /\ Set_List(trie, q) # <<>>

LEMMA ListOfParent ==
  ASSUME NEW T, Tree(T, 0), NEW n \in Nat, HasKids(T, n), n # 0
  PROVE  Set_List(T, n) # <<>>
  <1> DEFINE list == Set_List(T, n)
  <1>1. PICK k \in Nat : CHECK(T, k) = n
    BY DEF HasKids
  <1>2. Byte(T, k) \in Codes /\ k = BASE(T, n) + Byte(T, k)
    BY <1>1, StepUp
  <1>3. Lists(T, n, list, MAX_CODE - 2)
    BY SetListIs
  <1> HIDE DEF list
  <1>4. \E i \in 1 .. Len(list) : list[i] = Byte(T, k)
    BY <1>1, <1>2, <1>3 DEF Lists, Codes
  <1>5. list # <<>>
    BY <1>4
  <1> QED
    BY <1>5 DEF list

THEOREM MovedListsAreNotEmpty == Spec => []BothHaveChildren
  <1>1. DictionaryInv => BothHaveChildren
    <2> SUFFICES ASSUME DictionaryInv, NEW w \in Words PROVE
          LET key == Key(w)
              h == Stop(trie, key)
              s == Path(trie, key)[h - 1]
              q == CHECK(trie, BASE(trie, s) + key[h])
          IN  Path(trie, key)[h] = 0 /\ q # 0 => Set_List(trie, s) # <<>> /\ Set_List(trie, q) # <<>>
      BY DEF BothHaveChildren
    <2> DEFINE T == trie
               key == Key(w)
               h == Stop(T, key)
               s == Path(T, key)[h - 1]
               t == BASE(T, s) + key[h]
               q == CHECK(T, t)
    <2>1. Tree(T, 0) /\ Busy(T, 0) /\ T \in Tries
      BY DEF DictionaryInv, Good, Sound, Tree
    <2>2. w \in Seq(Letters)
      BY DictionaryTrieAssumption
    <2>3. key \in Seq(Nat) /\ Ended(key)
      BY <2>2, KeyIs
    <2>4. h \in 1 .. Len(key)
      BY <2>1, <2>3, StopIs
    <2>5. s # 0 /\ BASE(T, s) > 0 /\ Used(T, s)
      <3>1. h - 1 \in 0 .. h - 1
        BY <2>4
      <3> QED
        BY <2>1, <2>3, <3>1, StopIs
    <2>6. s \in Nat /\ t \in Nat
      <3>1. s \in Nat
        BY <2>5 DEF Used
      <3>2. BASE(T, s) \in Int
        BY <2>1, <3>1, CellTypes
      <3>3. key[h] \in Nat
        BY <2>3, <2>4
      <3> QED
        BY <2>5, <3>1, <3>2, <3>3
    <2> HIDE DEF T, key, h, s, t
    <2>7. ASSUME q # 0 PROVE Set_List(T, s) # <<>> /\ Set_List(T, q) # <<>>
      <3>1. Filled(T)
        BY <2>6, <2>7 DEF Filled
      <3>2. HasKids(T, s)
        BY <2>1, <2>5, <2>6, <3>1 DEF Busy
      <3>3. q \in Nat
        BY <2>1, <2>6, <2>7, StepUp
      <3>4. HasKids(T, q)
        BY <2>6 DEF HasKids
      <3> QED
        BY <2>1, <2>5, <2>6, <2>7, <3>2, <3>3, <3>4, ListOfParent
    <2> QED
      BY <2>7 DEF T, key, h, s, t
  <1> QED
    BY <1>1, TrieStaysSound, PTL

-----------------------------------------------------------------------------
(* The longest match.                                                      *)

LEMMA PrefixIs ==
  ASSUME NEW text \in Seq(Letters), NEW n \in 1 .. Len(text)
  PROVE  LET w == SubSeq(text, 1, n)
         IN  w \in Seq(Letters) /\ Len(w) = n /\ \A i \in 1 .. n : w[i] = text[i]
  <1> DEFINE w == SubSeq(text, 1, n)
             L == Letters
  <1> HIDE DEF L
  <1>1. text \in Seq(L) /\ n \in Nat /\ n <= Len(text) /\ Len(text) \in Nat
    BY DEF L
  <1>2. w \in Seq(L) /\ Len(w) = n /\ \A i \in 1 .. n : w[i] = text[1 + i - 1]
    BY <1>1
  <1>3. \A i \in 1 .. n : 1 + i - 1 = i
    BY <1>1
  <1> QED
    BY <1>2, <1>3 DEF L

LEMMA CutIs ==
  ASSUME NEW T \in Tries, NEW text \in Seq(Letters)
  PROVE  LET key == CutText(T, text)
             M == T.m_nMaxLenOfWord
         IN  /\ M \in Nat /\ key \in Seq(Nat) /\ Len(key) = M + 1 /\ Ended(key)
             /\ key[M + 1] = POSTFIX_CHAR
             /\ \A k \in 1 .. M : key[k] = IF k <= Len(text) THEN text[k] ELSE 0
  <1> DEFINE M == T.m_nMaxLenOfWord
             cut == [k \in 1 .. M |-> IF k <= Len(text) THEN text[k] ELSE 0]
             key == Append(cut, POSTFIX_CHAR)
  <1>1. M \in Nat
    BY TrieFields
  <1>2. POSTFIX_CHAR \in Nat
    BY DictionaryTrieAssumption DEF Codes
  <1>3. ASSUME NEW k \in Nat, k >= 1, k <= Len(text) PROVE text[k] \in Nat
    <2>1. k \in 1 .. Len(text)
      BY <1>3
    <2>2. text[k] \in Letters
      BY <2>1
    <2> QED
      BY <2>2 DEF Letters, Codes
  <1>4. key = CutText(T, text)
    BY DEF CutText
  <1> HIDE DEF M
  <1>5. cut \in [1 .. M -> Nat]
    BY <1>1, <1>3
  <1>6. cut \in Seq(Nat) /\ Len(cut) = M /\ \A k \in 1 .. M : cut[k] = IF k <= Len(text) THEN text[k] ELSE 0
    BY <1>1, <1>5
  <1> HIDE DEF cut
  <1>7. /\ key \in Seq(Nat) /\ Len(key) = M + 1 /\ key[M + 1] = POSTFIX_CHAR
        /\ \A k \in 1 .. M : key[k] = cut[k]
    BY <1>1, <1>2, <1>6
  <1> HIDE DEF key
  <1>8. Ended(key)
    BY <1>1, <1>7 DEF Ended
  <1> QED
    BY <1>1, <1>4, <1>6, <1>7, <1>8 DEF M

(* The walk along the cut text is the one along the key of a beginning.    *)
LEMMA PrefixWalk ==
  ASSUME NEW T \in Tries, NEW text \in Seq(Letters), NEW n \in 1 .. Len(text),
         n <= T.m_nMaxLenOfWord
  PROVE  LET w == SubSeq(text, 1, n)
         IN  /\ w \in Seq(Letters) /\ Len(w) = n
             /\ \A i \in 1 .. n : Key(w)[i] = text[i] /\ CutText(T, text)[i] = text[i]
             /\ \A i \in 0 .. n : Path(T, Key(w))[i] = Path(T, CutText(T, text))[i]
             /\ Path(T, Key(w))[n + 1] = Child(T, Path(T, CutText(T, text))[n], POSTFIX_CHAR)
  <1> DEFINE w == SubSeq(text, 1, n)
             key == CutText(T, text)
             M == T.m_nMaxLenOfWord
  <1>1. w \in Seq(Letters) /\ Len(w) = n /\ \A i \in 1 .. n : w[i] = text[i]
    BY PrefixIs
  <1>2. /\ M \in Nat /\ key \in Seq(Nat) /\ Len(key) = M + 1
        /\ \A k \in 1 .. M : key[k] = IF k <= Len(text) THEN text[k] ELSE 0
    BY CutIs
  <1>3. n \in Nat /\ n <= M /\ n <= Len(text) /\ Len(text) \in Nat /\ n >= 1
    OBVIOUS
  <1> HIDE DEF w, key, M
  <1>4. /\ Key(w) \in Seq(Nat) /\ Len(Key(w)) = n + 1 /\ Key(w)[n + 1] = POSTFIX_CHAR
        /\ \A i \in 1 .. n : Key(w)[i] = w[i]
    BY <1>1, KeyIs
  <1>5. \A i \in 1 .. n : Key(w)[i] = text[i] /\ key[i] = text[i]
    BY <1>1, <1>2, <1>3, <1>4
  <1>6. n <= Len(key) /\ n <= Len(Key(w))
    BY <1>2, <1>3, <1>4
  <1>7. \A i \in 0 .. n : Path(T, Key(w))[i] = Path(T, key)[i]
    <2>1. \A i \in 1 .. n : Key(w)[i] = key[i]
      BY <1>5
    <2> DEFINE a == Key(w)
    <2>2. a \in Seq(Nat) /\ n \in Nat /\ n <= Len(a) /\ \A i \in 1 .. n : a[i] = key[i]
      BY <1>3, <1>4, <1>6, <2>1
    <2> HIDE DEF a
    <2>3. \A i \in 0 .. n : Path(T, a)[i] = Path(T, key)[i]
      BY <1>2, <1>6, <2>2, PathPrefix
    <2> QED
      BY <2>3 DEF a
  <1>8. Path(T, Key(w))[n + 1] = Child(T, Path(T, Key(w))[n], POSTFIX_CHAR)
    <2>1. n + 1 \in 1 .. Len(Key(w)) /\ (n + 1) - 1 = n
      BY <1>3, <1>4
    <2>2. Path(T, Key(w))[n + 1] = Child(T, Path(T, Key(w))[(n + 1) - 1], Key(w)[n + 1])
      BY <1>4, <2>1, PathIs
    <2> QED
      BY <1>4, <2>1, <2>2
  <1>9. Path(T, Key(w))[n] = Path(T, key)[n]
    BY <1>3, <1>7
  <1> QED
    BY <1>1, <1>5, <1>7, <1>8, <1>9 DEF w, key

(* A word ends at a node that has a leaf for POSTFIX_CHAR.                 *)
LEMMA EndsThere ==
  ASSUME NEW T, Tree(T, 0), NEW n \in Nat, n # 0, BASE(T, n) > 0
  PROVE  /\ EndsAt(T, n) => /\ Child(T, n, POSTFIX_CHAR) # 0
                            /\ BASE(T, Child(T, n, POSTFIX_CHAR)) < 0
         /\ Child(T, n, POSTFIX_CHAR) # 0 /\ BASE(T, Child(T, n, POSTFIX_CHAR)) < 0 => EndsAt(T, n)
  <1> DEFINE c == BASE(T, n) + POSTFIX_CHAR
  <1>1. BASE(T, n) \in Int /\ POSTFIX_CHAR \in Nat
    BY CellTypes, DictionaryTrieAssumption DEF Tree, Codes
  <1>2. c # 0 /\ BASE(T, n) >= 0
    BY <1>1
  <1>3. Child(T, n, POSTFIX_CHAR) = IF CHECK(T, c) = n THEN c ELSE 0
    BY <1>2 DEF Child
  <1>4. EndsAt(T, n) <=> BASE(T, c) < 0 /\ CHECK(T, c) = n
    BY DEF EndsAt
  <1> QED
    BY <1>2, <1>3, <1>4

LEMMA FmmFinds ==
  ASSUME NEW T, Sound(T, 0), NEW text \in Seq(Letters),
         \A n \in 1 .. Len(text) : search(T, SubSeq(text, 1, n)) # -1 => n <= T.m_nMaxLenOfWord
  PROVE  fmm(T, text) = Max({n \in 1 .. Len(text) : search(T, SubSeq(text, 1, n)) # -1} \union {0})
  <1> DEFINE key == CutText(T, text)
             N == Path(T, key)
             stop == Stop(T, key)
             ended == {h \in 0 .. stop - 1 : EndsAt(T, N[h])}
             rest == RestOf(T, N[stop])
             val == stop + Len(rest) - 1
             whole == /\ N[stop] # 0 /\ key[stop] # POSTFIX_CHAR
                      /\ val < Len(key) /\ \A k \in 1 .. Len(rest) - 1 : rest[k] = key[stop + k]
             M == T.m_nMaxLenOfWord
             l == Len(text)
             w(n) == SubSeq(text, 1, n)
             W == {n \in 1 .. l : search(T, w(n)) # -1}
  <1>1. Tree(T, 0) /\ Tails(T, 0) /\ T \in Tries /\ l \in Nat
    BY DEF Sound, Tree
  <1>2. /\ M \in Nat /\ key \in Seq(Nat) /\ Len(key) = M + 1 /\ Ended(key)
        /\ key[M + 1] = POSTFIX_CHAR
        /\ \A k \in 1 .. M : key[k] = IF k <= l THEN text[k] ELSE 0
    BY <1>1, CutIs
  <1>3. /\ stop \in 1 .. Len(key) /\ (N[stop] = 0 \/ BASE(T, N[stop]) < 0)
        /\ \A i \in 0 .. stop - 1 : N[i] # 0 /\ BASE(T, N[i]) > 0 /\ Used(T, N[i])
        /\ \A i \in stop + 1 .. Len(key) : N[i] = 0
    BY <1>1, <1>2, StopIs
  <1>4. fmm(T, text) = IF whole THEN val ELSE Max(ended \union {0})
    BY DEF fmm
  <1>5. ASSUME NEW n \in 1 .. l, n <= M
        PROVE  /\ w(n) \in Seq(Letters) /\ Len(w(n)) = n
               /\ \A i \in 1 .. n : Key(w(n))[i] = text[i] /\ key[i] = text[i]
               /\ \A i \in 0 .. n : Path(T, Key(w(n)))[i] = N[i]
               /\ Path(T, Key(w(n)))[n + 1] = Child(T, N[n], POSTFIX_CHAR)
    BY <1>1, <1>5, PrefixWalk
  <1>6. ASSUME NEW n \in 1 .. l PROVE w(n) \in Seq(Letters)
    BY <1>6, PrefixIs
  <1>7. \A i \in W : i <= M /\ i \in 1 .. l
    OBVIOUS
  <1> HIDE DEF key, N, stop, rest, M, l, w
  <1>8. ASSUME NEW i \in 1 .. M, key[i] \in Codes PROVE i <= l
    BY <1>2, <1>8 DEF Codes
  <1>9. ASSUME NEW i \in 1 .. stop, N[i] # 0 PROVE key[i] \in Codes
    <2>1. i \in 1 .. Len(key)
      BY <1>2, <1>3
    <2> QED
      BY <1>1, <1>2, <1>9, <2>1, PathDown DEF N
  <1>10. ASSUME NEW n \in W PROVE n \in ended \/ (whole /\ n = val)
    <2> DEFINE v == w(n)
    <2>1. n \in 1 .. l /\ n <= M /\ n \in Nat /\ n >= 1 /\ search(T, v) # -1
      BY <1>7
    <2>2. /\ v \in Seq(Letters) /\ Len(v) = n
          /\ \A i \in 1 .. n : Key(v)[i] = text[i] /\ key[i] = text[i]
          /\ \A i \in 0 .. n : Path(T, Key(v))[i] = N[i]
          /\ Path(T, Key(v))[n + 1] = Child(T, N[n], POSTFIX_CHAR)
      BY <1>5, <2>1
    <2> HIDE DEF v
    <2>3. Has(T, 0, v, search(T, v))
      BY <2>1, <2>2, SearchIs
    <2>4. PICK g \in 1 .. n + 1 : Spells(T, 0, Key(v), g)
      BY <2>2, <2>3 DEF Has
    <2>5. /\ Key(v)[n + 1] = POSTFIX_CHAR /\ Len(Key(v)) = n + 1 /\ Key(v) \in Seq(Nat)
          /\ \A i \in 1 .. n : Key(v)[i] # POSTFIX_CHAR
      <3>1. v \in Seq(Letters) /\ Len(v) = n
        BY <2>2
      <3>2. /\ Key(v) \in Seq(Nat) /\ Len(Key(v)) = Len(v) + 1 /\ Key(v)[Len(v) + 1] = POSTFIX_CHAR
            /\ \A i \in 1 .. Len(v) : Key(v)[i] # POSTFIX_CHAR
        BY <3>1, KeyIs
      <3> QED
        BY <3>1, <3>2
    <2>6. CASE g = n + 1
      <3>1. Child(T, N[n], POSTFIX_CHAR) # 0 /\ BASE(T, Child(T, N[n], POSTFIX_CHAR)) < 0
        <4>1. Path(T, Key(v))[g] # 0 /\ BASE(T, Path(T, Key(v))[g]) < 0
          BY <2>4 DEF Spells
        <4>2. Path(T, Key(v))[g] = Child(T, N[n], POSTFIX_CHAR)
          BY <2>2, <2>6
        <4> QED
          BY <4>1, <4>2
      <3>2. N[n] # 0 /\ N[n] \in Nat /\ BASE(T, N[n]) > 0
        <4>1. n + 1 \in 1 .. Len(Key(v)) /\ (n + 1) - 1 = n /\ n \in 0 .. n
          BY <2>1, <2>5
        <4>2. /\ Path(T, Key(v))[(n + 1) - 1] \in Nat /\ Path(T, Key(v))[(n + 1) - 1] # 0
              /\ BASE(T, Path(T, Key(v))[(n + 1) - 1]) > 0
          BY <1>1, <2>2, <2>5, <3>1, <4>1, PathDown
        <4> QED
          BY <2>2, <4>1, <4>2
      <3>3. EndsAt(T, N[n])
        BY <1>1, <3>1, <3>2, EndsThere
      <3>4. n \in 0 .. stop - 1
        <4>1. BASE(T, N[n]) \in Int
          BY <1>1, <3>2, CellTypes
        <4>2. n # stop
          BY <1>3, <3>2, <4>1
        <4>3. n \notin stop + 1 .. Len(key)
          BY <1>3, <3>2
        <4> QED
          BY <1>2, <1>3, <2>1, <4>2, <4>3
      <3> QED
        BY <3>3, <3>4
    <2>7. CASE g \in 1 .. n
      <3>1. N[g] # 0 /\ BASE(T, N[g]) < 0 /\ Key(v)[g] # POSTFIX_CHAR
        BY <2>1, <2>2, <2>4, <2>5, <2>7 DEF Spells
      <3>2. RestOf(T, N[g]) = SubSeq(Key(v), g + 1, n + 1)
        BY <2>1, <2>2, <2>4, <2>5, <2>7, <3>1 DEF Spells
      <3>3. g \in 1 .. Len(key)
        BY <1>2, <2>1, <2>7
      <3>4. g = stop
        BY <1>1, <1>2, <3>1, <3>3, LeafStops DEF stop, N
      <3>5. g \in 1 .. Len(v) + 1 /\ Len(v) + 1 - g = n + 1 - g
        BY <2>1, <2>2, <2>7
      <3>6. LET a == SubSeq(Key(v), g + 1, Len(Key(v)))
            IN  Len(a) = Len(v) + 1 - g /\ \A k \in 1 .. Len(a) : a[k] = Key(v)[g + k]
        BY <2>2, <3>5, RestOfKey
      <3>7. Len(rest) = n + 1 - g /\ \A k \in 1 .. Len(rest) : rest[k] = Key(v)[g + k]
        BY <2>5, <3>2, <3>4, <3>5, <3>6 DEF rest
      <3>8. val = n
        BY <2>1, <2>7, <3>4, <3>7
      <3>9. N[stop] # 0 /\ key[stop] # POSTFIX_CHAR
        BY <2>2, <2>7, <3>1, <3>4
      <3>10. ASSUME NEW k \in 1 .. Len(rest) - 1 PROVE rest[k] = key[stop + k]
        <4>1. k \in 1 .. Len(rest) /\ g + k \in 1 .. n
          BY <2>1, <2>7, <3>7
        <4> QED
          BY <2>2, <3>4, <3>7, <4>1
      <3> QED
        BY <1>2, <2>1, <3>8, <3>9, <3>10
    <2>8. g = n + 1 \/ g \in 1 .. n
      BY <2>1
    <2> QED
      BY <2>6, <2>7, <2>8
  <1>11. ASSUME NEW n \in ended, n # 0 PROVE n \in W
    <2> DEFINE v == w(n)
    <2>1. n \in 0 .. stop - 1 /\ EndsAt(T, N[n]) /\ n \in Nat /\ n >= 1 /\ n \in 1 .. stop
      BY <1>3, <1>11
    <2>2. N[n] # 0 /\ BASE(T, N[n]) > 0 /\ N[n] \in Nat
      BY <1>3, <2>1 DEF Used
    <2>3. n \in 1 .. M /\ n <= M
      BY <1>2, <1>3, <2>1
    <2>4. n \in 1 .. l
      <3>1. key[n] \in Codes
        BY <1>9, <2>1, <2>2
      <3>2. n <= l
        BY <1>8, <2>3, <3>1
      <3> QED
        BY <1>1, <2>1, <3>2
    <2>5. /\ v \in Seq(Letters) /\ Len(v) = n
          /\ Path(T, Key(v))[n + 1] = Child(T, N[n], POSTFIX_CHAR)
      BY <1>5, <2>3, <2>4
    <2> HIDE DEF v
    <2>6. Child(T, N[n], POSTFIX_CHAR) # 0 /\ BASE(T, Child(T, N[n], POSTFIX_CHAR)) < 0
      BY <1>1, <2>1, <2>2, EndsThere
    <2>7. Key(v)[n + 1] = POSTFIX_CHAR /\ n + 1 \in 1 .. Len(v) + 1
      BY <2>1, <2>5, KeyIs
    <2>8. Spells(T, 0, Key(v), n + 1)
      BY <2>5, <2>6, <2>7 DEF Spells
    <2>9. \E e : Has(T, 0, v, e)
      BY <2>7, <2>8 DEF Has
    <2>10. search(T, v) # -1
      BY <2>5, <2>9, SearchIs
    <2> QED
      BY <2>4, <2>10 DEF v
  <1>12. ASSUME whole PROVE val \in W /\ val >= stop /\ val \in Nat
    <2> DEFINE t == N[stop]
               v == w(val)
    <2>1. t # 0 /\ BASE(T, t) < 0 /\ key[stop] # POSTFIX_CHAR
      BY <1>3, <1>12
    <2>2. /\ t \in Nat /\ CHECK(T, t) = N[stop - 1] /\ N[stop - 1] # 0 /\ Byte(T, t) = key[stop]
          /\ key[stop] \in Codes
      BY <1>1, <1>2, <1>3, <2>1, PathDown DEF N
    <2>3. HasTail(T, 0, t)
      BY <2>1, <2>2 DEF HasTail
    <2>4. Tailed(T, -BASE(T, t))
      BY <1>1, <2>3 DEF Tails, HasTail
    <2>5. /\ rest \in Seq(Codes) /\ Len(rest) >= 1
          /\ \A k \in 1 .. Len(rest) : rest[k] = POSTFIX_CHAR <=> k = Len(rest)
      BY <1>1, <2>4, ReadTail DEF rest, RestOf
    <2>6. stop \in Nat /\ stop >= 1 /\ Len(rest) \in Nat /\ Len(rest) >= 1 /\ val \in Nat /\ val >= stop /\ val <= M
      BY <1>2, <1>3, <1>12, <2>5
    <2>7. key[val] \in Codes
      <3>1. CASE Len(rest) = 1
        BY <2>2, <2>6, <3>1
      <3>2. CASE Len(rest) # 1
        <4> DEFINE k == Len(rest) - 1
        <4>1. k \in 1 .. Len(rest) - 1 /\ k \in 1 .. Len(rest) /\ stop + k = val
          <5> DEFINE m == Len(rest)
          <5>1. m \in Nat /\ m >= 1 /\ m # 1 /\ stop \in Nat
            BY <2>6, <3>2
          <5> HIDE DEF m
          <5>2. m - 1 \in 1 .. m - 1 /\ m - 1 \in 1 .. m /\ stop + (m - 1) = stop + m - 1
            BY <5>1
          <5> QED
            BY <5>2 DEF m
        <4>2. rest[k] = key[stop + k] /\ rest[k] \in Codes
          BY <1>12, <2>5, <4>1
        <4> QED
          BY <4>1, <4>2
      <3> QED
        BY <3>1, <3>2
    <2>8. val \in 1 .. M /\ val \in 1 .. l
      <3>1. val \in 1 .. M
        BY <2>6
      <3>2. val <= l
        BY <1>8, <2>7, <3>1
      <3> QED
        BY <1>1, <2>6, <3>1, <3>2
    <2>9. /\ v \in Seq(Letters) /\ Len(v) = val
          /\ \A i \in 1 .. val : Key(v)[i] = text[i] /\ key[i] = text[i]
          /\ \A i \in 0 .. val : Path(T, Key(v))[i] = N[i]
      BY <1>5, <2>6, <2>8
    <2>10. Path(T, Key(v))[stop] = t /\ stop \in 1 .. Len(v) + 1 /\ Len(v) + 1 - stop = Len(rest)
      BY <2>6, <2>9
    <2> HIDE DEF v, t
    <2>11. LET a == SubSeq(Key(v), stop + 1, Len(Key(v)))
           IN  /\ a \in Seq(Codes) /\ Len(a) = Len(v) + 1 - stop
               /\ \A k \in 1 .. Len(a) : a[k] = Key(v)[stop + k]
               /\ \A k \in 1 .. Len(a) : a[k] = POSTFIX_CHAR <=> k = Len(a)
      BY <2>9, <2>10, RestOfKey
    <2> DEFINE a == SubSeq(Key(v), stop + 1, Len(Key(v)))
    <2>12. /\ a \in Seq(Codes) /\ Len(a) = Len(rest) /\ \A k \in 1 .. Len(a) : a[k] = Key(v)[stop + k]
           /\ \A k \in 1 .. Len(a) : a[k] = POSTFIX_CHAR <=> k = Len(a)
      BY <2>10, <2>11
    <2> HIDE DEF a
    <2>13. ASSUME NEW k \in 1 .. Len(rest) PROVE rest[k] = a[k]
      <3>1. CASE k = Len(rest)
        BY <2>5, <2>12, <2>13, <3>1
      <3>2. CASE k # Len(rest)
        <4>1. k \in 1 .. Len(rest) - 1 /\ stop + k \in 1 .. val
          BY <2>6, <2>13, <3>2
        <4>2. rest[k] = key[stop + k]
          BY <1>12, <4>1
        <4> QED
          BY <2>9, <2>12, <2>13, <4>1, <4>2
      <3> QED
        BY <3>1, <3>2
    <2>14. rest = a
      BY <2>5, <2>12, <2>13, SameSeq
    <2>15. Spells(T, 0, Key(v), stop)
      BY <2>1, <2>10, <2>14 DEF Spells, rest, a, t
    <2>16. \E e : Has(T, 0, v, e)
      BY <2>10, <2>15 DEF Has
    <2>17. search(T, v) # -1
      BY <2>9, <2>16, SearchIs
    <2> QED
      BY <2>6, <2>8, <2>17 DEF v
  <1>13. W \union {0} \subseteq 0 .. l /\ W \union {0} # {}
    BY <1>1, <1>7
  <1> HIDE DEF W
  <1>14. Max(W \union {0}) \in W \union {0} /\ \A x \in W \union {0} : Max(W \union {0}) >= x
    BY <1>1, <1>13, MaxIs
  <1>15. CASE whole
    <2>1. val \in W /\ val \in Nat /\ val >= stop
      BY <1>12, <1>15
    <2>2. Max(W \union {0}) \in 0 .. l /\ Max(W \union {0}) >= val
      BY <1>13, <1>14, <2>1
    <2>3. CASE Max(W \union {0}) = 0
      BY <1>3, <2>1, <2>2, <2>3
    <2>4. CASE Max(W \union {0}) \in W
      <3>1. Max(W \union {0}) \in ended \/ Max(W \union {0}) = val
        BY <1>10, <2>4
      <3>2. stop \in Nat /\ \A x \in ended : x <= stop - 1
        BY <1>3
      <3> QED
        BY <1>4, <1>15, <2>1, <2>2, <3>1, <3>2 DEF W, w, l
    <2>5. Max(W \union {0}) = val
      BY <1>3, <1>10, <1>14, <2>1, <2>2, <2>3, <2>4
    <2> QED
      BY <1>4, <1>15, <2>5 DEF W, w, l
  <1>16. CASE ~ whole
    <2>1. W \union {0} = ended \union {0}
      BY <1>10, <1>11, <1>16
    <2> QED
      BY <1>4, <1>16, <2>1 DEF W, w, l
  <1> QED
    BY <1>15, <1>16

LEMMA BmmFinds ==
  ASSUME NEW T, Sound(T, 0), NEW text \in Seq(Letters),
         \A v \in Seq(Letters) : search(T, v) # -1 => Len(v) <= T.m_nMaxLenOfWord
  PROVE  LET S == {p \in 0 .. Len(text) - 1 : search(T, SubSeq(text, p + 1, Len(text))) # -1}
         IN  bmm(T, text) = IF S = {} THEN -1 ELSE Min(S)
  <1> DEFINE l == Len(text)
             M == T.m_nMaxLenOfWord
             from == IF l > M THEN l - M ELSE 0
             v(p) == SubSeq(text, p + 1, l)
             starts == {p \in from .. l - 1 : search(T, v(p)) > 0}
             S == {p \in 0 .. l - 1 : search(T, v(p)) # -1}
  <1>1. T \in Tries
    BY DEF Sound, Tree
  <1>2. M \in Nat /\ l \in Nat /\ from \in Nat
    BY <1>1, TrieFields
  <1>3. bmm(T, text) = IF starts = {} THEN -1 ELSE Min(starts)
    BY DEF bmm
  <1>4. ASSUME NEW p \in 0 .. l - 1
        PROVE  /\ search(T, v(p)) > 0 <=> search(T, v(p)) # -1
               /\ search(T, v(p)) # -1 => p >= from
    <2> DEFINE L == Letters
    <2>1. v(p) \in Seq(Letters) /\ Len(v(p)) = l - p
      <3> HIDE DEF L
      <3>1. text \in Seq(L) /\ p + 1 \in 1 .. Len(text) /\ Len(text) \in Nat
        BY <1>2 DEF L
      <3>2. SubSeq(text, p + 1, Len(text)) \in Seq(L)
        BY <3>1
      <3>3. Len(SubSeq(text, p + 1, Len(text))) = Len(text) - p
        BY <3>1
      <3> QED
        BY <3>2, <3>3 DEF L
    <2>2. search(T, v(p)) = -1 \/ search(T, v(p)) \in 1 .. T.m_nPreCurrent_Detail_Pos
      BY <2>1, SearchIs
    <2>3. search(T, v(p)) # -1 => l - p <= M
      BY <2>1
    <2> HIDE DEF v, l, M
    <2>4. search(T, v(p)) # -1 => p >= (IF l > M THEN l - M ELSE 0)
      BY <1>2, <2>3
    <2> QED
      BY <2>2, <2>4
  <1> HIDE DEF v, l, M
  <1>5. starts = S
    BY <1>2, <1>4
  <1> QED
    BY <1>3, <1>5 DEF v, l

(***************************************************************************)
(* fmm() and bmm() answer with the longest word inserted that the text     *)
(* starts, or ends, with.                                                  *)
(***************************************************************************)
THEOREM LongestWordsMatched == Spec => []LongestMatched
  <1>1. DictionaryInv => LongestMatched
    <2> SUFFICES ASSUME DictionaryInv, NEW text \in Texts
                 PROVE  /\ matched[text].fmm = Max(WordPrefixes(text) \union {0})
                        /\ matched[text].bmm = IF WordSuffixes(text) = {} THEN -1
                                               ELSE Min(WordSuffixes(text))
      BY DEF LongestMatched
    <2> DEFINE l == Len(text)
    <2>1. Good(trie) /\ found = Answers(trie) /\ matched = Matches(trie)
      BY DEF DictionaryInv
    <2>2. text \in Seq(Letters)
      BY DictionaryTrieAssumption
    <2>3. /\ Sound(trie, 0)
          /\ \A v \in Seq(Letters) : search(trie, v) # -1 => v \in Words /\ Len(v) <= trie.m_nMaxLenOfWord
      BY <2>1 DEF Good
    <2>4. \A v \in Seq(Letters) : v \in DOMAIN found <=> search(trie, v) # -1
      BY <2>1, <2>3, AnswersAre DEF InTrie
    <2>5. ASSUME NEW n \in 1 .. l
          PROVE  SubSeq(text, 1, n) \in Seq(Letters) /\ Len(SubSeq(text, 1, n)) = n
      BY <2>2, PrefixIs
    <2>6. ASSUME NEW p \in 0 .. l - 1 PROVE SubSeq(text, p + 1, l) \in Seq(Letters)
      BY <2>2
    <2>7. matched[text].fmm = fmm(trie, text) /\ matched[text].bmm = bmm(trie, text)
      BY <2>1 DEF Matches
    <2>8. {n \in 1 .. l : search(trie, SubSeq(text, 1, n)) # -1} = WordPrefixes(text)
      BY <2>4, <2>5 DEF WordPrefixes
    <2>9. \A n \in 1 .. l : search(trie, SubSeq(text, 1, n)) # -1 => n <= trie.m_nMaxLenOfWord
      BY <2>3, <2>5
    <2>10. matched[text].fmm = Max(WordPrefixes(text) \union {0})
      BY <2>2, <2>3, <2>7, <2>8, <2>9, FmmFinds
    <2>11. {p \in 0 .. l - 1 : search(trie, SubSeq(text, p + 1, l)) # -1} = WordSuffixes(text)
      BY <2>4, <2>6 DEF WordSuffixes
    <2>12. matched[text].bmm = IF WordSuffixes(text) = {} THEN -1 ELSE Min(WordSuffixes(text))
      BY <2>2, <2>3, <2>7, <2>11, BmmFinds
    <2> QED
      BY <2>10, <2>12
  <1> QED
    BY <1>1, TrieStaysSound, PTL
=============================================================================
