---------------------------- MODULE SegmentProofs ----------------------------
(***************************************************************************)
(* Theorems about KShortPath and SegmentAll, for every word net and every  *)
(* number of slots, and about AllPaths and GreedySegment, for every text.  *)
(*                                                                         *)
(* The first part is about the slots.  Its heart is Frontier: ways are     *)
(* settled in order of length, so no way is more than one edge longer than *)
(* one that is still open, and an insertion finds only empty slots behind  *)
(* it.                                                                     *)
(*                                                                         *)
(* The second part is about the results: ShortPath returns the K shortest  *)
(* paths, word_sect_all the segmentations they stand for.  OutputInv says  *)
(* what the slots leave out; an induction along the text then shows that   *)
(* every path of the word net is in a slot, or lost against a full row     *)
(* that is no longer, or still to come behind an open slot (Reached); when *)
(* the search has stopped nothing is still to come.                        *)
(*                                                                         *)
(* The third part is about AllPaths: what is on the two stacks together    *)
(* stands for the segmentations still to be printed, each once.  The last  *)
(* parts are about GreedySegment, which moves from character to character, *)
(* and PinYin, which reads a word of characters in all ways.               *)
(***************************************************************************)
EXTENDS SegmentAll, SetInduction, FiniteSetTheorems, TLAPS

(* Vertex 0 is settled from the start.                                     *)
ZeroSettled == \A s \in Slots : label[0][s] /\ slot[0][s] = Way(0, -1, -1)

(* A way to vertex v has at most v edges.                                  *)
Bounded ==
  \A v \in Vertices \ {0}, s \in Slots : slot[v][s] # Empty => slot[v][s].value < v

Frontier ==
  \A u, v \in Vertices, t, s \in Slots :
    slot[u][t] # Empty /\ Open(v, s) => slot[u][t].value <= slot[v][s].value + 1

(* What is settled has been offered: it or a better way fills the slot.    *)
Offered ==
  \A v \in Vertices \ {0}, k \in Vertices, s \in Slots :
    <<v, k>> \in edges /\ label[v][s] => slot[k][s] # Empty

IInv ==
  /\ TypeOK /\ RowsSorted /\ LinksSettled
  /\ ZeroSettled /\ Bounded /\ Frontier /\ Offered

-----------------------------------------------------------------------------
LEMMA Constants ==
  /\ NumVertex \in Nat /\ NumVertex > 1 /\ MaxSegmentNum \in Nat \ {0}
  /\ MAX \in Nat /\ MAX > NumVertex
  /\ 0 \in Vertices /\ 0 \in Slots
  BY KShortPathAssumption DEF Vertices, Slots

LEMMA EdgesGoForward ==
  ASSUME TypeOK, NEW v, NEW k, <<v, k>> \in edges
  PROVE  v \in Vertices /\ k \in Vertices /\ v < k /\ k # 0
  BY DEF TypeOK, WordNets, Vertices

(* A slot is empty or short of MAX.                                        *)
LEMMA EmptyIsMax ==
  ASSUME IInv, NEW v \in Vertices, NEW s \in Slots
  PROVE  /\ slot[v][s] \in Ways
         /\ slot[v][s] = Empty => slot[v][s].value = MAX
         /\ slot[v][s] # Empty => slot[v][s].value < MAX
  <1>1. slot[v][s] \in Ways
    BY DEF IInv, TypeOK
  <1>2. slot[v][s] = Empty => slot[v][s].value = MAX
    BY DEF Empty, Way
  <1>3. ASSUME slot[v][s] # Empty PROVE slot[v][s].value < MAX
    <2>1. CASE v = 0
      BY <2>1, Constants DEF IInv, ZeroSettled, Way
    <2>2. CASE v # 0
      BY <1>1, <1>3, <2>2, Constants DEF IInv, Bounded, Vertices, Ways
    <2> QED
      BY <2>1, <2>2
  <1> QED
    BY <1>1, <1>2, <1>3

(***************************************************************************)
(* Inserting a way that is not shorter than those in the row fills the     *)
(* first empty slot, and nothing else moves.                               *)
(***************************************************************************)
LEMMA InsertedFillsEmpty ==
  ASSUME NEW row \in [Slots -> Ways], NEW s \in Slots, NEW way \in Ways,
         way.value < MAX,
         \A q \in Slots : row[q] = Empty \/ row[q].value <= way.value,
         \A q, r \in Slots : q <= r => row[q].value <= row[r].value,
         \A r \in Slots : r < s => row[r] # Empty
  PROVE  /\ \A q \in Slots :
              Inserted(row, s, way)[q] = IF Enters(row, s, way, q) THEN way ELSE row[q]
         /\ \A q \in Slots : Enters(row, s, way, q) => row[q] = Empty
         /\ \A q, r \in Slots : q <= r =>
              Inserted(row, s, way)[q].value <= Inserted(row, s, way)[r].value
         /\ Inserted(row, s, way)[s] # Empty
         /\ \A q \in Slots : Inserted(row, s, way)[q] \in Ways
  <1> DEFINE new == Inserted(row, s, way)
  <1>1. /\ Empty.value = MAX /\ MAX \in Nat /\ way.value \in Nat
        /\ \A q \in Slots : row[q].value \in Nat /\ row[q] \in Ways
    BY Constants DEF Empty, Way, Ways
  <1>2. \A q \in Slots : Enters(row, s, way, q) => row[q] = Empty
    BY <1>1 DEF Enters
  <1>3. \A q \in Slots : new[q] = IF Enters(row, s, way, q) THEN way ELSE row[q]
    <2> TAKE q \in Slots
    <2>1. CASE \E p \in s .. q - 1 : Enters(row, s, way, p)
      <3>1. PICK p \in s .. q - 1 : Enters(row, s, way, p)
        BY <2>1
      <3>2. p \in Slots /\ q - 1 \in Slots /\ p <= q - 1 /\ p <= q /\ p >= s
        BY <3>1, Constants DEF Slots
      <3>3. row[p].value = MAX
        BY <1>1, <1>2, <3>1, <3>2
      <3>4. row[q - 1] = Empty /\ row[q] = Empty
        BY <1>1, <3>2, <3>3
      <3>5. ~Enters(row, s, way, q)
        BY <1>1, <3>1, <3>2, <3>3 DEF Enters
      <3> QED
        BY <2>1, <3>4, <3>5 DEF Inserted
    <2>2. CASE ~\E p \in s .. q - 1 : Enters(row, s, way, p)
      BY <2>2 DEF Inserted
    <2> QED
      BY <2>1, <2>2
  <1>4. \A q, r \in Slots : q <= r => new[q].value <= new[r].value
    <2> SUFFICES ASSUME NEW q \in Slots, NEW r \in Slots, q <= r
                 PROVE  new[q].value <= new[r].value
      OBVIOUS
    <2> HIDE DEF new
    <2>1. CASE Enters(row, s, way, q)
      <3>1. CASE q = r
        BY <1>1, <1>3, <2>1, <3>1
      <3>2. CASE q # r
        <4>1. row[q].value = MAX /\ row[q].value <= row[r].value
          BY <1>1, <1>2, <2>1
        <4>2. row[r].value >= MAX
          BY <1>1, <4>1
        <4> QED
          BY <1>1, <1>3, <2>1, <4>2
      <3> QED
        BY <3>1, <3>2
    <2>2. CASE ~Enters(row, s, way, q) /\ Enters(row, s, way, r)
      <3>1. row[q].value <= way.value
        <4>1. CASE q < s
          BY <1>1, <4>1
        <4>2. CASE q >= s
          <5>1. q \in s .. r - 1
            BY <2>2, <4>2 DEF Slots
          <5> QED
            BY <2>2, <5>1 DEF Enters
        <4> QED
          BY <4>1, <4>2 DEF Slots
      <3> QED
        BY <1>3, <2>2, <3>1
    <2>3. CASE ~Enters(row, s, way, q) /\ ~Enters(row, s, way, r)
      BY <1>3, <2>3
    <2> QED
      BY <2>1, <2>2, <2>3
  <1>5. new[s] # Empty
    <2>1. CASE row[s].value > way.value
      <3>1. Enters(row, s, way, s)
        BY <2>1 DEF Enters, Slots
      <3> QED
        BY <1>1, <1>3, <3>1
    <2>2. CASE ~(row[s].value > way.value)
      <3>1. ~Enters(row, s, way, s)
        BY <2>2 DEF Enters
      <3> QED
        BY <1>1, <1>3, <2>2, <3>1
    <2> QED
      BY <2>1, <2>2
  <1>6. \A q \in Slots : new[q] \in Ways
    BY <1>1, <1>3
  <1> QED
    BY <1>2, <1>3, <1>4, <1>5, <1>6

-----------------------------------------------------------------------------
(* The slot that GetsPath settles.                                         *)
LEMMA MinFacts ==
  ASSUME IInv, NEW v \in Vertices, NEW s \in Slots, Settle(v, s)
  PROVE  /\ v # 0 /\ ~label[v][s]
         /\ slot[v][s] # Empty /\ slot[v][s].value \in Nat /\ slot[v][s].value < v
         /\ \A u \in Vertices, t \in Slots :
              slot[u][t] = Empty \/ slot[u][t].value <= slot[v][s].value + 1
         /\ \A u \in Vertices, t \in Slots :
              Open(u, t) => slot[v][s].value <= slot[u][t].value
         /\ \A r \in Slots : r < s => label[v][r]
  <1>1. Open(v, s) /\ \A u \in Vertices, t \in Slots : Open(u, t) => Comes(v, s, u, t)
    BY DEF Settle, IsMin
  <1>2. v # 0 /\ ~label[v][s]
    BY <1>1 DEF Open, IInv, ZeroSettled
  <1>3. slot[v][s] # Empty /\ slot[v][s].value \in Nat /\ slot[v][s].value < v
    <2>1. slot[v][s] \in Ways /\ slot[v][s] # Empty
      BY <1>1, EmptyIsMax, Constants DEF Open
    <2> QED
      BY <1>2, <2>1 DEF IInv, Bounded, Ways
  <1>4. \A u \in Vertices, t \in Slots :
          slot[u][t] = Empty \/ slot[u][t].value <= slot[v][s].value + 1
    BY <1>1 DEF IInv, Frontier
  <1>5. \A u \in Vertices, t \in Slots :
          Open(u, t) => slot[v][s].value <= slot[u][t].value
    <2> SUFFICES ASSUME NEW u \in Vertices, NEW t \in Slots, Open(u, t)
                 PROVE  slot[v][s].value <= slot[u][t].value
      OBVIOUS
    <2>1. slot[u][t] \in Ways
      BY EmptyIsMax
    <2> QED
      BY <1>1, <1>3, <2>1 DEF Comes, Ways
  <1>6. ASSUME NEW r \in Slots, r < s, ~label[v][r] PROVE FALSE
    <2>1. slot[v][r].value <= slot[v][s].value /\ slot[v][r] \in Ways
      BY <1>6, EmptyIsMax DEF IInv, RowsSorted, Slots
    <2>2. Open(v, r)
      BY <1>1, <1>6, <1>3, <2>1, Constants DEF Open, Ways
    <2>3. Comes(v, s, v, r)
      BY <1>1, <2>2
    <2> QED
      BY <1>3, <1>6, <2>1, <2>3 DEF Comes, Ways, Vertices, Slots
  <1> QED
    BY <1>2, <1>3, <1>4, <1>5, <1>6

(* What one GetsPath does to the slots: it fills an empty one, at most, of *)
(* every vertex an edge leads to.                                          *)
LEMMA SettleFills ==
  ASSUME IInv, NEW v \in Vertices, NEW s \in Slots, Settle(v, s)
  PROVE  /\ slot' \in [Vertices -> [Slots -> Ways]]
         /\ \A k \in Vertices, q \in Slots :
              \/ slot'[k][q] = slot[k][q]
              \/ /\ slot[k][q] = Empty /\ <<v, k>> \in edges
                 /\ slot'[k][q] = Way(slot[v][s].value + 1, v, s)
         /\ \A k \in Vertices : <<v, k>> \in edges => slot'[k][s] # Empty
         /\ RowsSorted'
  <1> DEFINE way == Way(slot[v][s].value + 1, v, s)
  <1>1. /\ way \in Ways /\ way.value = slot[v][s].value + 1
        /\ way.value < MAX
    BY MinFacts, Constants DEF Way, Ways, Vertices
  <1>2. \A k \in Vertices : slot'[k] = IF <<v, k>> \in edges
                                       THEN Inserted(slot[k], s, way) ELSE slot[k]
    BY DEF Settle
  <1> HIDE DEF way
  <1>3. ASSUME NEW k \in Vertices, <<v, k>> \in edges
        PROVE  /\ \A q \in Slots :
                    slot'[k][q] = IF Enters(slot[k], s, way, q) THEN way ELSE slot[k][q]
               /\ \A q \in Slots : Enters(slot[k], s, way, q) => slot[k][q] = Empty
               /\ \A q, r \in Slots : q <= r => slot'[k][q].value <= slot'[k][r].value
               /\ slot'[k][s] # Empty
               /\ \A q \in Slots : slot'[k][q] \in Ways
    <2>1. slot[k] \in [Slots -> Ways]
      BY DEF IInv, TypeOK
    <2>2. \A q \in Slots : slot[k][q] = Empty \/ slot[k][q].value <= way.value
      BY <1>1, MinFacts
    <2>3. \A q, r \in Slots : q <= r => slot[k][q].value <= slot[k][r].value
      BY DEF IInv, RowsSorted
    <2>4. \A r \in Slots : r < s => slot[k][r] # Empty
      BY <1>3, MinFacts DEF IInv, Offered
    <2>5. slot'[k] = Inserted(slot[k], s, way)
      BY <1>2, <1>3
    <2> QED
      BY <1>1, <2>1, <2>2, <2>3, <2>4, <2>5, InsertedFillsEmpty
  <1>4. slot' \in [Vertices -> [Slots -> Ways]]
    <2>1. \A k \in Vertices : <<v, k>> \in edges => slot'[k] \in [Slots -> Ways]
      <3> SUFFICES ASSUME NEW k \in Vertices, <<v, k>> \in edges
                   PROVE  slot'[k] \in [Slots -> Ways]
        OBVIOUS
      <3>1. slot'[k] = Inserted(slot[k], s, way)
        BY <1>2
      <3> QED
        BY <1>3, <3>1 DEF Inserted
    <2>2. \A k \in Vertices : <<v, k>> \notin edges => slot'[k] \in [Slots -> Ways]
      BY <1>2 DEF IInv, TypeOK
    <2> QED
      BY <2>1, <2>2 DEF Settle
  <1>5. RowsSorted'
    BY <1>2, <1>3 DEF IInv, RowsSorted
  <1>6. \A k \in Vertices, q \in Slots :
          \/ slot'[k][q] = slot[k][q]
          \/ slot[k][q] = Empty /\ <<v, k>> \in edges /\ slot'[k][q] = way
    BY <1>2, <1>3
  <1> QED
    BY <1>3, <1>4, <1>5, <1>6 DEF way

LEMMA InitEstablishesIInv ==
  ASSUME Init
  PROVE  IInv
  <1> USE Constants
  <1>1. TypeOK
    BY DEF Init, TypeOK, Ways, Way, Empty
  <1> DEFINE zero == Way(0, -1, -1)
             first == Way(0, 0, 0)
  <1>2. \A v \in Vertices, s \in Slots : label[v][s] <=> v = 0
    BY DEF Init
  <1>3. \A v \in Vertices, s \in Slots :
          /\ v = 0 => slot[v][s] = zero
          /\ v # 0 =>
               \/ slot[v][s] = Empty
               \/ s = 0 /\ <<0, v>> \in edges /\ slot[v][s] = first
    BY DEF Init
  <1>4. \A v \in Vertices, s \in Slots : v # 0 /\ s # 0 => slot[v][s] = Empty
    BY <1>3
  <1>5. /\ zero.value = 0 /\ first.value = 0 /\ Empty.value = MAX
        /\ first.pre = 0 /\ first.ks = 0 /\ zero # Empty /\ first # Empty
    BY DEF Way, Empty
  <1> HIDE DEF zero, first
  <1>6. \A v \in Vertices, s \in Slots : slot[v][s].value \in {0, MAX}
    BY <1>3, <1>5
  <1>7. RowsSorted
    <2> SUFFICES ASSUME NEW v \in Vertices, NEW s \in Slots, NEW t \in Slots, s <= t
                 PROVE  slot[v][s].value <= slot[v][t].value
      BY DEF RowsSorted
    <2>1. CASE v = 0
      <3>1. slot[v][s] = zero /\ slot[v][t] = zero
        BY <1>3, <2>1
      <3>2. slot[v][s].value = 0 /\ slot[v][t].value = 0
        BY <1>5, <3>1
      <3> QED
        BY <3>2
    <2>2. CASE v # 0 /\ t = 0
      <3>1. s = 0
        BY <2>2 DEF Slots
      <3> QED
        BY <1>6, <2>2, <3>1
    <2>3. CASE v # 0 /\ t # 0
      <3>1. slot[v][t].value = MAX
        BY <1>4, <1>5, <2>3
      <3> QED
        BY <1>6, <3>1
    <2> QED
      BY <2>1, <2>2, <2>3
  <1>8. LinksSettled
    <2> SUFFICES ASSUME NEW v \in Vertices \ {0}, NEW s \in Slots,
                        ~(slot[v][s] = Empty /\ ~label[v][s])
                 PROVE  LET w == slot[v][s]
                        IN  /\ w.pre \in Vertices /\ w.ks \in Slots
                            /\ <<w.pre, v>> \in edges
                            /\ label[w.pre][w.ks]
                            /\ w.value = IF w.pre = 0 THEN 0
                                         ELSE slot[w.pre][w.ks].value + 1
      BY DEF LinksSettled
    <2>1. slot[v][s] = first /\ <<0, v>> \in edges
      BY <1>2, <1>3
    <2>2. label[0][0]
      BY <1>2
    <2> QED
      BY <1>5, <2>1, <2>2
  <1>9. ZeroSettled
    BY <1>2, <1>3 DEF ZeroSettled, zero
  <1>10. Bounded
    <2> SUFFICES ASSUME NEW v \in Vertices \ {0}, NEW s \in Slots, slot[v][s] # Empty
                 PROVE  slot[v][s].value < v
      BY DEF Bounded
    <2>1. slot[v][s].value = 0
      BY <1>3, <1>5
    <2> QED
      BY <2>1 DEF Vertices
  <1>11. Frontier
    <2> SUFFICES ASSUME NEW u \in Vertices, NEW v \in Vertices,
                        NEW t \in Slots, NEW s \in Slots, slot[u][t] # Empty
                 PROVE  slot[u][t].value <= slot[v][s].value + 1
      BY DEF Frontier
    <2>1. slot[u][t].value = 0
      BY <1>3, <1>5
    <2> QED
      BY <1>6, <2>1
  <1>12. Offered
    BY <1>2 DEF Offered
  <1> QED
    BY <1>1, <1>7, <1>8, <1>9, <1>10, <1>11, <1>12 DEF IInv

(* LinksSettled, slot by slot.                                             *)
LEMMA LinkFacts ==
  ASSUME IInv, NEW v \in Vertices \ {0}, NEW s \in Slots
  PROVE  /\ label[v][s] => slot[v][s] # Empty
         /\ slot[v][s] # Empty =>
              LET w == slot[v][s]
              IN  /\ w.pre \in Vertices /\ w.ks \in Slots /\ <<w.pre, v>> \in edges
                  /\ label[w.pre][w.ks]
                  /\ w.value = IF w.pre = 0 THEN 0 ELSE slot[w.pre][w.ks].value + 1
  <1> DEFINE w == slot[v][s]
             Linked == /\ w.pre \in Vertices /\ w.ks \in Slots
                       /\ <<w.pre, v>> \in edges
                       /\ label[w.pre][w.ks]
                       /\ w.value = IF w.pre = 0 THEN 0 ELSE slot[w.pre][w.ks].value + 1
  <1>1. (w = Empty /\ ~label[v][s]) \/ Linked
    BY DEF IInv, LinksSettled
  <1>2. w.pre \in Vertices => w # Empty
    BY DEF Empty, Way, Vertices
  <1> QED
    BY <1>1, <1>2

LEMMA SettlePreservesIInv ==
  ASSUME IInv, NEW v \in Vertices, NEW s \in Slots, Settle(v, s)
  PROVE  IInv'
  <1> USE Constants
  <1> DEFINE m == slot[v][s].value
             way == Way(m + 1, v, s)
  <1>1. /\ v # 0 /\ ~label[v][s] /\ slot[v][s] # Empty /\ m \in Nat /\ m < v
        /\ \A u \in Vertices, t \in Slots : slot[u][t] = Empty \/ slot[u][t].value <= m + 1
        /\ \A u \in Vertices, t \in Slots : Open(u, t) => m <= slot[u][t].value
    BY MinFacts
  <1>2. /\ slot' \in [Vertices -> [Slots -> Ways]] /\ RowsSorted'
        /\ \A k \in Vertices, q \in Slots :
              \/ slot'[k][q] = slot[k][q]
              \/ slot[k][q] = Empty /\ <<v, k>> \in edges /\ slot'[k][q] = way
        /\ \A k \in Vertices : <<v, k>> \in edges => slot'[k][s] # Empty
    BY SettleFills
  <1>3. way.value = m + 1 /\ way.pre = v /\ way.ks = s /\ Empty.value = MAX
    BY DEF Way, Empty
  <1>4. /\ edges' = edges /\ pc' = pc
        /\ label' = [label EXCEPT ![v][s] = TRUE]
        /\ label' \in [Vertices -> [Slots -> BOOLEAN]]
    BY DEF Settle, IInv, TypeOK
  <1>5. /\ \A u \in Vertices, t \in Slots : label[u][t] => label'[u][t]
        /\ \A u \in Vertices, t \in Slots : label'[u][t] => label[u][t] \/ (u = v /\ t = s)
        /\ label'[v][s]
    BY <1>4 DEF IInv, TypeOK
  <1>6. m + 1 < MAX /\ way # Empty
    BY <1>1, <1>3 DEF Vertices
  <1>7. \A u \in Vertices, t \in Slots : slot[u][t] # Empty => slot'[u][t] = slot[u][t]
    BY <1>2
  <1> HIDE DEF m, way
  <1>8. TypeOK'
    BY <1>2, <1>4 DEF IInv, TypeOK
  <1>9. LinksSettled'
    <2> SUFFICES ASSUME NEW u \in Vertices \ {0}, NEW t \in Slots
                 PROVE  LET w == slot'[u][t]
                        IN  \/ w = Empty /\ ~label'[u][t]
                            \/ /\ w.pre \in Vertices /\ w.ks \in Slots
                               /\ <<w.pre, u>> \in edges
                               /\ label'[w.pre][w.ks]
                               /\ w.value = IF w.pre = 0 THEN 0
                                            ELSE slot'[w.pre][w.ks].value + 1
      BY <1>4 DEF LinksSettled
    <2>1. CASE slot[u][t] # Empty
      <3> DEFINE w == slot[u][t]
      <3>1. /\ w.pre \in Vertices /\ w.ks \in Slots /\ <<w.pre, u>> \in edges
            /\ label[w.pre][w.ks]
            /\ w.value = IF w.pre = 0 THEN 0 ELSE slot[w.pre][w.ks].value + 1
        BY <2>1, LinkFacts
      <3>2. slot'[u][t] = w
        BY <1>7, <2>1
      <3>3. w.pre # 0 => slot[w.pre][w.ks] # Empty
        BY <3>1, LinkFacts
      <3>4. w.pre # 0 => slot'[w.pre][w.ks] = slot[w.pre][w.ks]
        BY <1>7, <3>1, <3>3
      <3> HIDE DEF w
      <3> QED
        BY <1>5, <3>1, <3>2, <3>4
    <2>2. CASE slot[u][t] = Empty /\ slot'[u][t] = Empty
      <3>1. ~label[u][t]
        BY <2>2, LinkFacts
      <3>2. ~(u = v /\ t = s)
        BY <1>1, <2>2
      <3> QED
        BY <1>5, <2>2, <3>1, <3>2
    <2>3. CASE slot[u][t] = Empty /\ slot'[u][t] = way /\ <<v, u>> \in edges
      <3>1. slot'[v][s] = slot[v][s] /\ slot[v][s].value = m
        BY <1>1, <1>7 DEF m
      <3> QED
        BY <1>1, <1>3, <1>5, <2>3, <3>1
    <2> QED
      BY <1>2, <2>1, <2>2, <2>3
  <1>10. ZeroSettled'
    <2>1. \A t \in Slots : slot[0][t] # Empty
      BY DEF IInv, ZeroSettled, Way, Empty
    <2> QED
      BY <1>5, <1>7, <2>1 DEF IInv, ZeroSettled
  <1>11. Bounded'
    <2> SUFFICES ASSUME NEW u \in Vertices \ {0}, NEW t \in Slots, slot'[u][t] # Empty
                 PROVE  slot'[u][t].value < u
      BY DEF Bounded
    <2>1. CASE slot'[u][t] = slot[u][t]
      BY <2>1 DEF IInv, Bounded
    <2>2. CASE <<v, u>> \in edges /\ slot'[u][t] = way
      <3>1. v < u
        BY <2>2, EdgesGoForward DEF IInv
      <3> QED
        BY <1>1, <1>3, <2>2, <3>1 DEF Vertices
    <2> QED
      BY <1>2, <2>1, <2>2
  <1>12. Frontier'
    <2> SUFFICES ASSUME NEW u \in Vertices, NEW t \in Slots,
                        NEW k \in Vertices, NEW q \in Slots,
                        slot'[u][t] # Empty, Open(k, q)'
                 PROVE  slot'[u][t].value <= slot'[k][q].value + 1
      BY DEF Frontier
    <2>1. slot'[u][t].value \in Nat /\ slot'[k][q].value \in Nat
      BY <1>2 DEF Ways
    <2>2. slot'[u][t].value <= m + 1
      <3>1. CASE slot'[u][t] = slot[u][t]
        BY <1>1, <3>1
      <3>2. CASE slot'[u][t] = way
        BY <1>3, <3>2, <2>1
      <3> QED
        BY <1>2, <3>1, <3>2
    <2>3. m <= slot'[k][q].value
      <3>1. CASE slot'[k][q] = slot[k][q]
        <4>1. Open(k, q)
          BY <1>5, <3>1 DEF Open
        <4> QED
          BY <1>1, <3>1, <4>1
      <3>2. CASE slot'[k][q] = way
        BY <1>1, <1>3, <3>2
      <3> QED
        BY <1>2, <3>1, <3>2
    <2> QED
      BY <1>1, <2>1, <2>2, <2>3
  <1>13. Offered'
    <2> SUFFICES ASSUME NEW u \in Vertices \ {0}, NEW k \in Vertices, NEW t \in Slots,
                        <<u, k>> \in edges, label'[u][t]
                 PROVE  slot'[k][t] # Empty
      BY <1>4 DEF Offered
    <2>1. CASE label[u][t]
      BY <1>7, <2>1 DEF IInv, Offered
    <2>2. CASE u = v /\ t = s
      BY <1>2, <2>2
    <2> QED
      BY <1>5, <2>1, <2>2
  <1> QED
    BY <1>2, <1>8, <1>9, <1>10, <1>11, <1>12, <1>13 DEF IInv

LEMMA NextPreservesIInv ==
  ASSUME IInv, [Next]_vars
  PROVE  IInv'
  <1>1. CASE \E v \in Vertices, s \in Slots : Settle(v, s)
    BY <1>1, SettlePreservesIInv
  <1>2. CASE Stop \/ UNCHANGED vars
    <2>1. UNCHANGED <<edges, slot, label>> /\ pc' \in {"run", "done"}
      BY <1>2 DEF Stop, vars, IInv, TypeOK
    <2>2. TypeOK'
      BY <2>1 DEF IInv, TypeOK
    <2>3. RowsSorted' /\ LinksSettled' /\ ZeroSettled'
      BY <2>1 DEF IInv, RowsSorted, LinksSettled, ZeroSettled
    <2>4. Bounded' /\ Frontier' /\ Offered'
      BY <2>1 DEF IInv, Bounded, Frontier, Offered, Open
    <2> QED
      BY <2>2, <2>3, <2>4 DEF IInv
  <1> QED
    BY <1>1, <1>2 DEF Next

-----------------------------------------------------------------------------
(***************************************************************************)
(* Every slot refers to a vertex and one of its slots, or is empty: the    *)
(* arrays of GetsPath are indexed within bounds for every text.            *)
(***************************************************************************)
THEOREM TypeCorrect == Spec => []TypeOK
  <1>1. IInv => TypeOK
    BY DEF IInv
  <1> QED
    BY <1>1, InitEstablishesIInv, NextPreservesIInv, PTL DEF Spec

(***************************************************************************)
(* The slots of every vertex are in order of length at every step, so the  *)
(* segmentations come out shortest first.                                  *)
(***************************************************************************)
THEOREM RowsStaySorted == Spec => []RowsSorted
  <1>1. IInv => RowsSorted
    BY DEF IInv
  <1> QED
    BY <1>1, InitEstablishesIInv, NextPreservesIInv, PTL DEF Spec

(***************************************************************************)
(* Every way extends a settled way by a word of the text and is one word   *)
(* longer: what Output follows back is a segmentation.                     *)
(***************************************************************************)
THEOREM WaysAreLinked == Spec => []LinksSettled
  <1>1. IInv => LinksSettled
    BY DEF IInv
  <1> QED
    BY <1>1, InitEstablishesIInv, NextPreservesIInv, PTL DEF Spec

(***************************************************************************)
(* A way once found is never moved: the shift of lines 109-113 moves only  *)
(* empty slots, whatever the text and the dictionary.                      *)
(***************************************************************************)
THEOREM WaysAreFinal == Spec => FilledIsFinal
  <1>1. ASSUME IInv, [Next]_vars
        PROVE  [\A v \in Vertices, s \in Slots :
                  /\ label[v][s] => label'[v][s]
                  /\ slot[v][s] # Empty => slot'[v][s] = slot[v][s]]_vars
    <2>1. CASE \E v \in Vertices, s \in Slots : Settle(v, s)
      <3>1. PICK v \in Vertices, s \in Slots : Settle(v, s)
        BY <2>1
      <3>2. label' = [label EXCEPT ![v][s] = TRUE]
        BY <3>1 DEF Settle
      <3>3. \A u \in Vertices, t \in Slots : label[u][t] => label'[u][t]
        BY <1>1, <3>2 DEF IInv, TypeOK
      <3> QED
        BY <1>1, <3>1, <3>3, SettleFills
    <2>2. CASE Stop \/ UNCHANGED vars
      BY <2>2 DEF Stop, vars
    <2> QED
      BY <1>1, <2>1, <2>2 DEF Next
  <1> QED
    BY <1>1, InitEstablishesIInv, NextPreservesIInv, PTL DEF Spec, FilledIsFinal

-----------------------------------------------------------------------------

(* One step back from a slot, and the paths of one step more.              *)
TraceBody(v, h) ==
  [s \in Slots |->
     IF v = 0 THEN <<0>>
     ELSE IF slot[v][s] = Empty THEN <<>>
     ELSE Append(h[slot[v][s].pre][slot[v][s].ks], v)]
PathsBody(v, h) ==
  IF v = 0 THEN {<<0>>}
  ELSE UNION {{Append(p, v) : p \in h[e[1]]} : e \in {e \in edges : e[2] = v}}

(* The last vertex is not the first.                                       *)
LEMMA VertexRange == NumVertex - 1 \in Nat /\ Vertices = 0 .. NumVertex - 1 /\ Last \in Vertices /\ Last # 0
  BY Constants DEF Vertices, Last

(* The way back from a slot goes down, so Trace is well defined.           *)
LEMMA TraceEquation ==
  ASSUME IInv
  PROVE  Trace = [v \in Vertices |-> TraceBody(v, Trace)]
  <1> DEFINE N == NumVertex - 1
             V == [Slots -> Seq(Vertices)]
             F == [0 .. N -> V]
             B == [v \in 0 .. N |-> [h \in F |-> TraceBody(v, h)]]
  <1>0. N \in Nat /\ Vertices = 0 .. N
    BY VertexRange
  <1>1. ASSUME NEW v \in Vertices, NEW s \in Slots, v # 0, slot[v][s] # Empty
        PROVE  /\ slot[v][s].pre \in Vertices /\ slot[v][s].pre < v /\ slot[v][s].ks \in Slots
    <2>1. slot[v][s].pre \in Vertices /\ slot[v][s].ks \in Slots /\ <<slot[v][s].pre, v>> \in edges
      BY <1>1, LinkFacts
    <2> QED
      BY <2>1, EdgesGoForward DEF IInv
  <1>2. ASSUME NEW v \in 0 .. N, NEW h \in F
        PROVE  TraceBody(v, h) \in V
    <2> SUFFICES ASSUME NEW s \in Slots
                 PROVE  (IF v = 0 THEN <<0>>
                         ELSE IF slot[v][s] = Empty THEN <<>>
                         ELSE Append(h[slot[v][s].pre][slot[v][s].ks], v)) \in Seq(Vertices)
      BY DEF TraceBody
    <2>1. <<0>> \in Seq(Vertices) /\ <<>> \in Seq(Vertices) /\ v \in Vertices
      BY <1>0, Constants
    <2>2. ASSUME v # 0, slot[v][s] # Empty
          PROVE  Append(h[slot[v][s].pre][slot[v][s].ks], v) \in Seq(Vertices)
      <3>1. slot[v][s].pre \in 0 .. N /\ slot[v][s].ks \in Slots
        BY <1>0, <1>1, <2>1, <2>2
      <3>2. h[slot[v][s].pre][slot[v][s].ks] \in Seq(Vertices)
        BY <3>1
      <3> QED
        BY <2>1, <3>2
    <2> QED
      BY <2>1, <2>2
  <1>3. V # {} /\ B \in [0 .. N -> [F -> V]]
    <2>1. [s \in Slots |-> <<>>] \in V
      OBVIOUS
    <2> QED
      BY <1>2, <2>1
  <1>4. ASSUME NEW n \in 0 .. N, NEW g \in F, NEW h \in F,
               \A m \in 0 .. N : m < n => g[m] = h[m]
        PROVE  B[n][g] = B[n][h]
    <2>1. \A s \in Slots : n # 0 /\ slot[n][s] # Empty => g[slot[n][s].pre] = h[slot[n][s].pre]
      BY <1>0, <1>1, <1>4
    <2>2. TraceBody(n, g) = TraceBody(n, h)
      BY <2>1 DEF TraceBody
    <2> QED
      BY <2>2
  <1>5. \E f \in F : \A n \in 0 .. N : f[n] = B[n][f]
    <2> HIDE DEF B, V, N
    <2>1. LookDown(N, V, B)
      BY <1>4 DEF LookDown
    <2>2. N \in Nat /\ V # {} /\ B \in Steps(N, V)
      BY <1>0, <1>3 DEF Steps
    <2>3. \E f \in [0 .. N -> V] : Solution(N, B, f)
      BY <2>1, <2>2, Levels, Zenon
    <2> QED
      BY <2>3 DEF Solution
  <1>6. PICK f \in F : \A n \in 0 .. N : f[n] = B[n][f]
    BY <1>5
  <1>7. f = [v \in Vertices |-> TraceBody(v, f)]
    <2>1. \A n \in 0 .. N : f[n] = TraceBody(n, f)
      BY <1>6
    <2>2. f = [v \in Vertices |-> f[v]]
      BY <1>0
    <2> QED
      BY <1>0, <2>1, <2>2
  <1>8. \E g : g = [v \in Vertices |-> TraceBody(v, g)]
    BY <1>7
  <1>9. Trace = CHOOSE g : g = [v \in Vertices |-> TraceBody(v, g)]
    BY DEF Trace, TraceBody
  <1> QED
    BY <1>8, <1>9, Zenon

(* So is PathsTo: edges go forward.                                        *)
LEMMA PathsEquation ==
  ASSUME TypeOK
  PROVE  PathsTo = [v \in Vertices |-> PathsBody(v, PathsTo)]
  <1> DEFINE N == NumVertex - 1
             V == SUBSET Seq(Vertices)
             F == [0 .. N -> V]
             B == [v \in 0 .. N |-> [h \in F |-> PathsBody(v, h)]]
  <1>0. N \in Nat /\ Vertices = 0 .. N
    BY VertexRange
  <1>1. \A e \in edges : e = <<e[1], e[2]>> /\ e[1] \in Vertices /\ e[2] \in Vertices /\ e[1] < e[2]
    BY DEF TypeOK, WordNets
  <1>2. ASSUME NEW v \in 0 .. N, NEW h \in F
        PROVE  PathsBody(v, h) \in V
    <2>1. CASE v = 0
      BY <2>1, Constants DEF PathsBody
    <2>2. CASE v # 0
      <3>1. ASSUME NEW e \in edges, e[2] = v, NEW p \in h[e[1]]
            PROVE  Append(p, v) \in Seq(Vertices)
        <4>1. h[e[1]] \in V
          BY <1>0, <1>1, <3>1
        <4>2. p \in Seq(Vertices) /\ v \in Vertices
          BY <1>0, <4>1
        <4> QED
          BY <4>2
      <3>2. ASSUME NEW x \in PathsBody(v, h)
            PROVE  \E e \in edges : e[2] = v /\ \E p \in h[e[1]] : x = Append(p, v)
        BY <2>2 DEF PathsBody
      <3>3. PathsBody(v, h) \subseteq Seq(Vertices)
        BY <3>1, <3>2
      <3> QED
        BY <3>3
    <2> QED
      BY <2>1, <2>2
  <1>3. V # {} /\ B \in [0 .. N -> [F -> V]]
    BY <1>2
  <1>4. ASSUME NEW n \in 0 .. N, NEW g \in F, NEW h \in F,
               \A m \in 0 .. N : m < n => g[m] = h[m]
        PROVE  B[n][g] = B[n][h]
    <2>1. \A e \in edges : e[2] = n => g[e[1]] = h[e[1]]
      BY <1>0, <1>1, <1>4
    <2>2. PathsBody(n, g) = PathsBody(n, h)
      <3> DEFINE E == {e \in edges : e[2] = n}
      <3>1. \A e \in E : {Append(p, n) : p \in g[e[1]]} = {Append(p, n) : p \in h[e[1]]}
        BY <2>1
      <3>2. {{Append(p, n) : p \in g[e[1]]} : e \in E} = {{Append(p, n) : p \in h[e[1]]} : e \in E}
        BY <3>1
      <3> QED
        BY <3>2 DEF PathsBody
    <2> QED
      BY <2>2
  <1>5. \E f \in F : \A n \in 0 .. N : f[n] = B[n][f]
    <2> HIDE DEF B, V, N
    <2>1. LookDown(N, V, B)
      BY <1>4 DEF LookDown
    <2>2. N \in Nat /\ V # {} /\ B \in Steps(N, V)
      BY <1>0, <1>3 DEF Steps
    <2>3. \E f \in [0 .. N -> V] : Solution(N, B, f)
      BY <2>1, <2>2, Levels, Zenon
    <2> QED
      BY <2>3 DEF Solution
  <1>6. PICK f \in F : \A n \in 0 .. N : f[n] = B[n][f]
    BY <1>5
  <1>7. f = [v \in Vertices |-> PathsBody(v, f)]
    <2>1. \A n \in 0 .. N : f[n] = PathsBody(n, f)
      BY <1>6
    <2>2. f = [v \in Vertices |-> f[v]]
      BY <1>0
    <2> QED
      BY <1>0, <2>1, <2>2
  <1>8. \E g : g = [v \in Vertices |-> PathsBody(v, g)]
    BY <1>7
  <1>9. PathsTo = CHOOSE g : g = [v \in Vertices |-> PathsBody(v, g)]
    BY DEF PathsTo, PathsBody
  <1> QED
    BY <1>8, <1>9, Zenon

(* A path is the vertex 0, or a shorter path with an edge behind it.       *)
LEMMA PathSteps ==
  ASSUME TypeOK
  PROVE  /\ PathsTo[0] = {<<0>>}
         /\ \A v \in Vertices \ {0} : \A p :
              p \in PathsTo[v] <=>
                \E u \in Vertices : <<u, v>> \in edges /\ \E q \in PathsTo[u] : p = Append(q, v)
  <1>1. \A v \in Vertices : PathsTo[v] = PathsBody(v, PathsTo)
    BY PathsEquation
  <1>2. PathsTo[0] = {<<0>>}
    BY <1>1, Constants DEF PathsBody
  <1>3. \A e \in edges : e = <<e[1], e[2]>> /\ e[1] \in Vertices /\ e[2] \in Vertices
    BY DEF TypeOK, WordNets
  <1>4. ASSUME NEW v \in Vertices \ {0}, NEW p
        PROVE  p \in PathsTo[v] <=>
                 \E u \in Vertices : <<u, v>> \in edges /\ \E q \in PathsTo[u] : p = Append(q, v)
    <2>1. PathsTo[v] = UNION {{Append(q, v) : q \in PathsTo[e[1]]} : e \in {e \in edges : e[2] = v}}
      BY <1>1 DEF PathsBody
    <2>2. ASSUME p \in PathsTo[v]
          PROVE  \E u \in Vertices : <<u, v>> \in edges /\ \E q \in PathsTo[u] : p = Append(q, v)
      <3>1. PICK e \in edges : e[2] = v /\ \E q \in PathsTo[e[1]] : p = Append(q, v)
        BY <2>1, <2>2
      <3>2. e[1] \in Vertices /\ <<e[1], v>> \in edges
        BY <1>3, <3>1
      <3> QED
        BY <3>1, <3>2
    <2>3. ASSUME NEW u \in Vertices, <<u, v>> \in edges, NEW q \in PathsTo[u], p = Append(q, v)
          PROVE  p \in PathsTo[v]
      <3> DEFINE e == <<u, v>>
      <3>1. e \in {d \in edges : d[2] = v} /\ e[1] = u
        BY <2>3
      <3> HIDE DEF e
      <3> QED
        BY <2>1, <2>3, <3>1
    <2> QED
      BY <2>2, <2>3
  <1> QED
    BY <1>2, <1>4

(***************************************************************************)
(* What a way that is not empty stands for: a path to its vertex, as long  *)
(* as its value says.                                                      *)
(***************************************************************************)
Traced(v) ==
  \A s \in Slots : slot[v][s] # Empty =>
    /\ Trace[v][s] \in PathsTo[v] /\ Trace[v][s] \in Seq(Vertices)
    /\ Len(Trace[v][s]) = IF v = 0 THEN 1 ELSE slot[v][s].value + 2

(* The slots of vertex 0 hold the empty way, settled.                      *)
LEMMA ZeroFilled ==
  ASSUME IInv
  PROVE  \A t \in Slots : slot[0][t] # Empty /\ label[0][t]
  <1>1. \A t \in Slots : slot[0][t].value = 0 /\ Empty.value = MAX /\ label[0][t]
    BY DEF IInv, ZeroSettled, Way, Empty
  <1> QED
    BY <1>1, Constants

(* Tracing a way back spells the path it stands for.                       *)
LEMMA TracesArePaths ==
  ASSUME IInv
  PROVE  \A v \in Vertices : Traced(v)
  <1> DEFINE S == {v \in Nat : \A u \in Vertices : u <= v => Traced(u)}
  <1>0. TypeOK /\ \A v \in Vertices : v \in Nat
    BY Constants DEF IInv, Vertices
  <1>1. \A v \in Vertices : Trace[v] = TraceBody(v, Trace)
    BY TraceEquation
  <1>2. Traced(0)
    <2>1. \A s \in Slots : Trace[0][s] = <<0>>
      BY <1>1, Constants DEF TraceBody
    <2>2. <<0>> \in Seq(Vertices) /\ Len(<<0>>) = 1
      BY Constants
    <2> QED
      BY <2>1, <2>2, <1>0, PathSteps DEF Traced
  <1>3. 0 \in S
    BY <1>0, <1>2
  <1>4. ASSUME NEW n \in Nat, n \in S PROVE n + 1 \in S
    <2> SUFFICES ASSUME NEW v \in Vertices, v = n + 1 PROVE Traced(v)
      BY <1>0, <1>4
    <2>1. v # 0 /\ v \in Nat
      BY <1>0
    <2> SUFFICES ASSUME NEW s \in Slots, slot[v][s] # Empty
                 PROVE  /\ Trace[v][s] \in PathsTo[v] /\ Trace[v][s] \in Seq(Vertices)
                        /\ Len(Trace[v][s]) = slot[v][s].value + 2
      BY <2>1 DEF Traced
    <2> DEFINE u == slot[v][s].pre
               t == slot[v][s].ks
    <2>2. /\ u \in Vertices /\ t \in Slots /\ <<u, v>> \in edges /\ label[u][t]
          /\ slot[v][s].value = IF u = 0 THEN 0 ELSE slot[u][t].value + 1
      BY <2>1, LinkFacts
    <2>3. Trace[v][s] = Append(Trace[u][t], v)
      BY <1>1, <2>1 DEF TraceBody
    <2>4. u < v /\ u \in Nat
      BY <2>2, <1>0, EdgesGoForward
    <2>5. slot[u][t] # Empty
      <3>1. CASE u = 0
        BY <3>1, <2>2, ZeroFilled
      <3>2. CASE u # 0
        BY <3>2, <2>2, LinkFacts
      <3> QED
        BY <3>1, <3>2
    <2> HIDE DEF u, t
    <2>6. Traced(u)
      BY <2>2, <2>4, <1>4
    <2>7. /\ Trace[u][t] \in PathsTo[u] /\ Trace[u][t] \in Seq(Vertices)
          /\ Len(Trace[u][t]) = IF u = 0 THEN 1 ELSE slot[u][t].value + 2
      BY <2>2, <2>5, <2>6 DEF Traced
    <2>8. Trace[v][s] \in PathsTo[v]
      BY <2>1, <2>2, <2>3, <2>7, <1>0, PathSteps
    <2>9. Trace[v][s] \in Seq(Vertices) /\ Len(Trace[v][s]) = Len(Trace[u][t]) + 1
      BY <2>3, <2>7
    <2>10. slot[u][t].value \in Nat
      BY <2>2, EmptyIsMax DEF Ways
    <2>11. Len(Trace[v][s]) = slot[v][s].value + 2
      BY <2>2, <2>7, <2>9, <2>10
    <2> QED
      BY <2>8, <2>9, <2>11
  <1> HIDE DEF S
  <1>5. \A n \in Nat : n \in S
    BY <1>3, <1>4, Induction
  <1> QED
    BY <1>0, <1>5 DEF S

-----------------------------------------------------------------------------
(* Two ways to a vertex extend different ways.                             *)
LinksDiffer ==
  \A v \in Vertices \ {0}, s, t \in Slots :
    s # t /\ slot[v][s] # Empty /\ slot[v][t] # Empty
      => slot[v][s].pre # slot[v][t].pre \/ slot[v][s].ks # slot[v][t].ks

(* A way that is settled goes on by every edge, unless the next vertex has *)
(* no slot left for it, and no way that is longer.                         *)
Cost(u, t) == IF u = 0 THEN 0 ELSE slot[u][t].value + 1
Full(k, value) == \A q \in Slots : slot[k][q] # Empty /\ slot[k][q].value <= value
GoesOn(u, t, k) == \E q \in Slots : slot[k][q] # Empty /\ slot[k][q].pre = u /\ slot[k][q].ks = t
Continued ==
  \A u, k \in Vertices, t \in Slots :
    <<u, k>> \in edges /\ label[u][t] /\ (u = 0 => t = 0) =>
      GoesOn(u, t, k) \/ Full(k, Cost(u, t))

(* Ways are settled in order of length.                                    *)
SettledFirst ==
  \A u, v \in Vertices, t, s \in Slots :
    u # 0 /\ label[u][t] /\ Open(v, s) => slot[u][t].value <= slot[v][s].value
SettledInOrder ==
  \A v \in Vertices, s, t \in Slots : s < t /\ label[v][t] => label[v][s]

(* The slot of the same number is filled in time, further on.              *)
OfferedInTime ==
  \A u \in Vertices \ {0}, k \in Vertices, t \in Slots :
    <<u, k>> \in edges /\ label[u][t]
      => slot[k][t] # Empty /\ slot[k][t].value <= slot[u][t].value + 1

(* The first edge of a way leaves slot 0 of vertex 0.                      *)
FromZero ==
  \A v \in Vertices \ {0}, s \in Slots :
    slot[v][s] # Empty /\ slot[v][s].pre = 0 => slot[v][s].ks = 0

Halted == pc = "done" => Terminated \/ \A v \in Vertices, s \in Slots : ~Open(v, s)

OutputInv ==
  /\ LinksDiffer /\ Continued /\ OfferedInTime
  /\ SettledFirst /\ SettledInOrder /\ FromZero /\ Halted

(* The way offered takes one slot, or the row is full of shorter ones.     *)
LEMMA SettleEnters ==
  ASSUME IInv, NEW v \in Vertices, NEW s \in Slots, Settle(v, s),
         NEW k \in Vertices, <<v, k>> \in edges
  PROVE  LET way == Way(slot[v][s].value + 1, v, s)
         IN  /\ \/ \E q \in Slots : slot'[k][q] = way
                \/ \A q \in Slots : slot[k][q] # Empty /\ slot[k][q].value <= way.value
             /\ \A q, r \in Slots :
                  slot[k][q] = Empty /\ slot[k][r] = Empty
                  /\ slot'[k][q] # Empty /\ slot'[k][r] # Empty => q = r
  <1> DEFINE way == Way(slot[v][s].value + 1, v, s)
             row == slot[k]
  <1>1. /\ way \in Ways /\ way.value = slot[v][s].value + 1 /\ way.value \in Nat
        /\ way.value < MAX
    BY MinFacts, Constants DEF Way, Ways, Vertices
  <1>2. slot'[k] = Inserted(row, s, way)
    BY DEF Settle
  <1>3. row \in [Slots -> Ways] /\ s \in Nat
    BY DEF IInv, TypeOK, Slots
  <1>4. /\ \A q \in Slots : row[q] = Empty \/ row[q].value <= way.value
        /\ \A q, r \in Slots : q <= r => row[q].value <= row[r].value
        /\ \A r \in Slots : r < s => row[r] # Empty
    BY <1>1, MinFacts DEF IInv, RowsSorted, Offered
  <1>5. /\ Empty.value = MAX /\ MAX \in Nat /\ \A q \in Slots : row[q].value \in Nat /\ q \in Nat
    BY <1>3, Constants DEF Empty, Way, Ways, Slots
  <1> HIDE DEF way, row
  <1>6. \A q \in Slots : slot'[k][q] = IF Enters(row, s, way, q) THEN way ELSE row[q]
    BY <1>1, <1>2, <1>3, <1>4, InsertedFillsEmpty
  <1>7. ASSUME \A q \in Slots : ~Enters(row, s, way, q)
        PROVE  \A q \in Slots : row[q] # Empty /\ row[q].value <= way.value
    <2> DEFINE Q == {q \in Slots : q >= s /\ row[q].value > way.value}
    <2>1. Q = {}
      <3> SUFFICES ASSUME Q # {} PROVE FALSE
        OBVIOUS
      <3>1. Q \subseteq Nat
        BY <1>5
      <3> HIDE DEF Q
      <3>2. PICK q \in Q : \A r \in Q : q <= r
        BY <3>1, Least
      <3>3. q \in Slots /\ q >= s /\ row[q].value > way.value
        BY <3>2 DEF Q
      <3>4. ASSUME NEW r \in s .. q - 1 PROVE row[r].value <= way.value
        <4>1. r \in Slots /\ r \in Nat /\ r >= s /\ r < q
          BY <1>3, <1>5, <3>3, Constants DEF Slots
        <4>2. r \notin Q
          BY <3>2, <3>3, <4>1, <1>5
        <4> QED
          BY <4>1, <4>2, <1>1, <1>5 DEF Q
      <3>5. Enters(row, s, way, q)
        BY <3>3, <3>4 DEF Enters
      <3> QED
        BY <1>7, <3>3, <3>5
    <2>2. ASSUME NEW q \in Slots PROVE row[q].value <= way.value
      <3>1. row[s].value <= way.value
        BY <2>1, <1>1, <1>3, <1>5
      <3>2. CASE q >= s
        BY <3>2, <2>1, <1>1, <1>5
      <3>3. CASE ~(q >= s)
        BY <3>1, <3>3, <1>1, <1>3, <1>4, <1>5
      <3> QED
        BY <3>2, <3>3
    <2> QED
      BY <2>2, <1>1, <1>5
  <1>8. ASSUME NEW q \in Slots, NEW r \in Slots,
               row[q] = Empty, row[r] = Empty, slot'[k][q] # Empty, slot'[k][r] # Empty
        PROVE  q = r
    <2>1. Enters(row, s, way, q) /\ Enters(row, s, way, r)
      BY <1>6, <1>8
    <2>2. q \in Nat /\ r \in Nat /\ q >= s /\ r >= s
      BY <2>1, <1>5 DEF Enters
    <2>3. row[q].value > way.value /\ row[r].value > way.value
      BY <2>1 DEF Enters
    <2>4. ~(q \in s .. r - 1) /\ ~(r \in s .. q - 1)
      BY <2>1, <2>3, <1>1, <1>5 DEF Enters
    <2> QED
      BY <2>2, <2>4, <1>3
  <1> QED
    BY <1>6, <1>7, <1>8 DEF way, row

(* What settling a slot changes.                                           *)
LEMMA SettleChanges ==
  ASSUME IInv, NEW v \in Vertices, NEW s \in Slots, Settle(v, s)
  PROVE  /\ edges' = edges /\ pc' = pc /\ pc = "run"
         /\ \A u \in Vertices, t \in Slots : label[u][t] => label'[u][t]
         /\ \A u \in Vertices, t \in Slots : label'[u][t] => label[u][t] \/ (u = v /\ t = s)
         /\ \A u \in Vertices, t \in Slots : slot[u][t] # Empty => slot'[u][t] = slot[u][t]
         /\ \A k \in Vertices, q \in Slots :
              \/ slot'[k][q] = slot[k][q]
              \/ /\ slot[k][q] = Empty /\ <<v, k>> \in edges
                 /\ slot'[k][q] = Way(slot[v][s].value + 1, v, s)
         /\ \A u \in Vertices, t \in Slots : slot[u][t].value \in Nat
         /\ \A u \in Vertices, t \in Slots : label[u][t] => slot[u][t] # Empty
  <1>1. label' = [label EXCEPT ![v][s] = TRUE] /\ edges' = edges /\ pc' = pc /\ pc = "run"
    BY DEF Settle
  <1>2. label \in [Vertices -> [Slots -> BOOLEAN]]
    BY DEF IInv, TypeOK
  <1>3. \A u \in Vertices, t \in Slots : slot[u][t].value \in Nat
    BY EmptyIsMax DEF Ways
  <1>4. ASSUME NEW u \in Vertices, NEW t \in Slots, label[u][t]
        PROVE  slot[u][t] # Empty
    <2>1. CASE u = 0
      BY <2>1, ZeroFilled
    <2>2. CASE u # 0
      BY <2>2, <1>4, LinkFacts
    <2> QED
      BY <2>1, <2>2
  <1> QED
    BY <1>1, <1>2, <1>3, <1>4, SettleFills

(* GetsPath keeps the invariant.                                           *)
LEMMA SettlePreservesOutputInv ==
  ASSUME IInv, OutputInv, NEW v \in Vertices, NEW s \in Slots, Settle(v, s)
  PROVE  OutputInv'
  <1> DEFINE m == slot[v][s].value
             way == Way(m + 1, v, s)
  <1>1. /\ edges' = edges /\ pc' = pc /\ pc = "run"
        /\ \A u \in Vertices, t \in Slots : label[u][t] => label'[u][t]
        /\ \A u \in Vertices, t \in Slots : label'[u][t] => label[u][t] \/ (u = v /\ t = s)
        /\ \A u \in Vertices, t \in Slots : slot[u][t] # Empty => slot'[u][t] = slot[u][t]
        /\ \A k \in Vertices, q \in Slots :
              \/ slot'[k][q] = slot[k][q]
              \/ slot[k][q] = Empty /\ <<v, k>> \in edges /\ slot'[k][q] = way
        /\ \A u \in Vertices, t \in Slots : slot[u][t].value \in Nat
        /\ \A u \in Vertices, t \in Slots : label[u][t] => slot[u][t] # Empty
    BY SettleChanges
  <1>2. /\ v # 0 /\ ~label[v][s] /\ slot[v][s] # Empty /\ m \in Nat
        /\ \A u \in Vertices, t \in Slots : Open(u, t) => m <= slot[u][t].value
        /\ \A r \in Slots : r < s => label[v][r]
    BY MinFacts
  <1>3. Open(v, s)
    BY DEF Settle, IsMin
  <1>4. /\ way.value = m + 1 /\ way.pre = v /\ way.ks = s
        /\ Empty.value = MAX /\ way # Empty
    <2>1. Empty.pre = -1 /\ way.pre = v /\ v >= 0
      BY DEF Way, Empty, Vertices
    <2> QED
      BY <2>1 DEF Way, Empty
  <1>5. \A k \in Vertices : <<v, k>> \in edges =>
          /\ \/ \E q \in Slots : slot'[k][q] = way
             \/ \A q \in Slots : slot[k][q] # Empty /\ slot[k][q].value <= way.value
          /\ \A q, r \in Slots :
               slot[k][q] = Empty /\ slot[k][r] = Empty
               /\ slot'[k][q] # Empty /\ slot'[k][r] # Empty => q = r
    BY SettleEnters
  <1> HIDE DEF m, way
  <1>6. LinksDiffer'
    <2> SUFFICES ASSUME NEW k \in Vertices \ {0}, NEW q \in Slots, NEW r \in Slots, q # r,
                        slot'[k][q] # Empty, slot'[k][r] # Empty,
                        slot'[k][q].pre = slot'[k][r].pre, slot'[k][q].ks = slot'[k][r].ks
                 PROVE  FALSE
      BY DEF LinksDiffer
    <2>1. ASSUME NEW a \in Slots, slot[k][a] # Empty, slot[k][a].pre = v, slot[k][a].ks = s
          PROVE  FALSE
      BY <2>1, <1>2, LinkFacts
    <2>2. CASE slot[k][q] # Empty /\ slot[k][r] # Empty
      BY <2>2, <1>1 DEF OutputInv, LinksDiffer
    <2>3. CASE slot[k][q] = Empty /\ slot[k][r] # Empty
      <3>1. slot'[k][q] = way /\ slot'[k][r] = slot[k][r]
        BY <2>3, <1>1
      <3> QED
        BY <3>1, <2>1, <2>3, <1>4
    <2>4. CASE slot[k][q] # Empty /\ slot[k][r] = Empty
      <3>1. slot'[k][r] = way /\ slot'[k][q] = slot[k][q]
        BY <2>4, <1>1
      <3> QED
        BY <3>1, <2>1, <2>4, <1>4
    <2>5. CASE slot[k][q] = Empty /\ slot[k][r] = Empty
      <3>1. <<v, k>> \in edges
        BY <2>5, <1>1
      <3> QED
        BY <3>1, <2>5, <1>5
    <2> QED
      BY <2>2, <2>3, <2>4, <2>5
  <1>7. Continued'
    <2> SUFFICES ASSUME NEW u \in Vertices, NEW k \in Vertices, NEW t \in Slots,
                        <<u, k>> \in edges, label'[u][t], u = 0 => t = 0
                 PROVE  (GoesOn(u, t, k) \/ Full(k, Cost(u, t)))'
      BY <1>1 DEF Continued
    <2>1. CASE label[u][t]
      <3>1. slot[u][t] # Empty /\ slot'[u][t] = slot[u][t]
        BY <2>1, <1>1
      <3>2. CASE GoesOn(u, t, k)
        BY <3>2, <1>1 DEF GoesOn
      <3>3. CASE Full(k, Cost(u, t))
        BY <3>1, <3>3, <1>1 DEF Full, Cost
      <3> QED
        BY <3>2, <3>3, <2>1 DEF OutputInv, Continued
    <2>2. CASE u = v /\ t = s
      <3>1. CASE \E q \in Slots : slot'[k][q] = way
        BY <3>1, <2>2, <1>4 DEF GoesOn
      <3>2. CASE \A q \in Slots : slot[k][q] # Empty /\ slot[k][q].value <= way.value
        <4>1. Cost(u, t)' = way.value
          BY <2>2, <1>1, <1>2, <1>4 DEF Cost, m
        <4> QED
          BY <3>2, <4>1, <1>1 DEF Full
      <3> QED
        BY <3>1, <3>2, <2>2, <1>5
    <2> QED
      BY <2>1, <2>2, <1>1
  <1>8. SettledFirst'
    <2> SUFFICES ASSUME NEW u \in Vertices, NEW k \in Vertices, NEW t \in Slots, NEW q \in Slots,
                        u # 0, label'[u][t], Open(k, q)'
                 PROVE  slot'[u][t].value <= slot'[k][q].value
      BY DEF SettledFirst
    <2>1. slot'[u][t].value <= m /\ slot'[u][t].value \in Nat
      <3>1. CASE label[u][t]
        BY <3>1, <1>1, <1>3 DEF OutputInv, SettledFirst, m
      <3>2. CASE u = v /\ t = s
        BY <3>2, <1>1, <1>2 DEF m
      <3> QED
        BY <3>1, <3>2, <1>1
    <2>2. m <= slot'[k][q].value /\ slot'[k][q].value \in Nat
      <3>1. CASE slot'[k][q] = slot[k][q]
        <4>1. Open(k, q)
          BY <3>1, <1>1 DEF Open
        <4> QED
          BY <4>1, <3>1, <1>1, <1>2
      <3>2. CASE slot'[k][q] = way
        BY <3>2, <1>2, <1>4
      <3> QED
        BY <3>1, <3>2, <1>1
    <2> QED
      BY <2>1, <2>2, <1>2
  <1>9. SettledInOrder'
    <2> SUFFICES ASSUME NEW u \in Vertices, NEW r \in Slots, NEW t \in Slots, r < t, label'[u][t]
                 PROVE  label'[u][r]
      BY DEF SettledInOrder
    <2>1. label[u][t] \/ (u = v /\ t = s)
      BY <1>1
    <2>2. label[u][r]
      BY <2>1, <1>2 DEF OutputInv, SettledInOrder
    <2> QED
      BY <2>2, <1>1
  <1>10. Halted'
    BY <1>1 DEF Halted
  <1>11. OfferedInTime'
    <2> SUFFICES ASSUME NEW u \in Vertices \ {0}, NEW k \in Vertices, NEW t \in Slots,
                        <<u, k>> \in edges, label'[u][t]
                 PROVE  slot'[k][t] # Empty /\ slot'[k][t].value <= slot'[u][t].value + 1
      BY <1>1 DEF OfferedInTime
    <2>1. CASE label[u][t]
      <3>1. slot[k][t] # Empty /\ slot[k][t].value <= slot[u][t].value + 1
        BY <2>1 DEF OutputInv, OfferedInTime
      <3> QED
        BY <2>1, <3>1, <1>1
    <2>2. CASE u = v /\ t = s
      <3>1. slot'[k][s] # Empty /\ slot'[v][s] = slot[v][s]
        BY <2>2, <1>1, <1>2, SettleFills
      <3>2. CASE slot'[k][s] = slot[k][s]
        <4>1. slot[k][s].value <= m + 1
          BY <3>1, <3>2, MinFacts DEF m
        <4> QED
          BY <4>1, <3>1, <3>2, <2>2 DEF m
      <3>3. CASE slot'[k][s] = way
        BY <3>1, <3>3, <2>2, <1>2, <1>4 DEF m
      <3>4. slot'[k][s] = slot[k][s] \/ slot'[k][s] = way
        BY <1>1
      <3> QED
        BY <3>2, <3>3, <3>4
    <2> QED
      BY <2>1, <2>2, <1>1
  <1>12. FromZero'
    <2> SUFFICES ASSUME NEW k \in Vertices \ {0}, NEW q \in Slots,
                        slot'[k][q] # Empty, slot'[k][q].pre = 0
                 PROVE  slot'[k][q].ks = 0
      BY DEF FromZero
    <2>1. slot'[k][q] = slot[k][q]
      <3>1. slot'[k][q] # way
        BY <1>2, <1>4
      <3> QED
        BY <3>1, <1>1
    <2> QED
      BY <2>1 DEF OutputInv, FromZero
  <1> QED
    BY <1>6, <1>7, <1>8, <1>9, <1>10, <1>11, <1>12 DEF OutputInv

(* Steps 1 to 3 of ShortPath establish it.                                 *)
LEMMA InitEstablishesOutputInv ==
  ASSUME Init
  PROVE  OutputInv
  <1>1. /\ \A v \in Vertices, s \in Slots : label[v][s] = (v = 0)
        /\ \A v \in Vertices, s \in Slots :
             slot[v][s] = IF v = 0 THEN Way(0, -1, -1)
                          ELSE IF s = 0 /\ <<0, v>> \in edges THEN Way(0, 0, 0)
                          ELSE Empty
        /\ pc = "run"
    BY DEF Init
  <1>2. /\ Way(0, 0, 0).value = 0 /\ Way(0, 0, 0).pre = 0 /\ Way(0, 0, 0).ks = 0
        /\ Empty.value = MAX /\ Way(0, 0, 0) # Empty /\ MAX \in Nat
    <2>1. Way(0, 0, 0).value = 0 /\ Empty.value = MAX /\ MAX # 0 /\ MAX \in Nat
      BY Constants DEF Way, Empty
    <2> QED
      BY <2>1 DEF Way
  <1>3. LinksDiffer
    <2>1. \A v \in Vertices \ {0}, s \in Slots : s # 0 => slot[v][s] = Empty
      BY <1>1
    <2> QED
      BY <2>1 DEF LinksDiffer
  <1>4. Continued
    <2> SUFFICES ASSUME NEW u \in Vertices, NEW k \in Vertices, NEW t \in Slots,
                        <<u, k>> \in edges, label[u][t], u = 0 => t = 0
                 PROVE  GoesOn(u, t, k)
      BY DEF Continued
    <2>1. u = 0 /\ t = 0
      BY <1>1
    <2>2. k # 0
      <3>1. edges \in WordNets
        BY DEF Init
      <3> QED
        BY <2>1, <3>1 DEF WordNets
    <2>3. slot[k][0] = Way(0, 0, 0) /\ 0 \in Slots
      BY <1>1, <2>1, <2>2, Constants
    <2> QED
      BY <2>1, <2>3, <1>2 DEF GoesOn
  <1>5. SettledFirst /\ Halted /\ OfferedInTime
    BY <1>1 DEF SettledFirst, Halted, OfferedInTime
  <1>6. SettledInOrder
    BY <1>1 DEF SettledInOrder
  <1>7. FromZero
    <2> SUFFICES ASSUME NEW v \in Vertices, NEW s \in Slots, v # 0, slot[v][s] # Empty
                 PROVE  slot[v][s].ks = 0
      BY DEF FromZero
    <2>1. slot[v][s] = Way(0, 0, 0)
      BY <1>1
    <2> QED
      BY <1>2, <2>1
  <1> QED
    BY <1>3, <1>4, <1>5, <1>6, <1>7 DEF OutputInv

(* Every step keeps it.                                                    *)
LEMMA NextPreservesOutputInv ==
  ASSUME IInv, OutputInv, [Next]_vars
  PROVE  OutputInv'
  <1>1. CASE \E v \in Vertices, s \in Slots : Settle(v, s)
    BY <1>1, SettlePreservesOutputInv
  <1>2. CASE Stop
    <2>1. UNCHANGED <<edges, label, slot>> /\ (Terminated \/ \A v \in Vertices, s \in Slots : ~Open(v, s))
      BY <1>2 DEF Stop
    <2>2. Halted'
      BY <2>1 DEF Halted, Terminated, Open
    <2> QED
      BY <2>1, <2>2 DEF OutputInv, LinksDiffer, Continued, GoesOn, Full, Cost, SettledFirst,
                        SettledInOrder, OfferedInTime, FromZero, Open
  <1>3. CASE UNCHANGED vars
    BY <1>3 DEF vars, OutputInv, LinksDiffer, Continued, GoesOn, Full, Cost, SettledFirst,
                SettledInOrder, OfferedInTime, FromZero, Open, Halted, Terminated
  <1> QED
    BY <1>1, <1>2, <1>3 DEF Next

(* It holds throughout a call.                                             *)
LEMMA OutputInvariance == Spec => [](IInv /\ OutputInv)
  <1>1. Init => IInv /\ OutputInv
    BY InitEstablishesIInv, InitEstablishesOutputInv
  <1>2. IInv /\ OutputInv /\ [Next]_vars => (IInv /\ OutputInv)'
    BY NextPreservesIInv, NextPreservesOutputInv
  <1> QED
    BY <1>1, <1>2, PTL DEF Spec

-----------------------------------------------------------------------------
(***************************************************************************)
(* Every path of the word net is found, or lost against a full row of ways *)
(* no longer, or still to come behind a way that is open and no longer.    *)
(***************************************************************************)
IsFound(v, p) == \E s \in Slots : slot[v][s] # Empty /\ Trace[v][s] = p
IsBeaten(v, p) == \A s \in Slots : slot[v][s] # Empty /\ slot[v][s].value + 2 <= Len(p)
IsComing(p) == \E u \in Vertices, t \in Slots : Open(u, t) /\ slot[u][t].value + 2 <= Len(p)
Reached(v) ==
  \A p \in PathsTo[v] : IsFound(v, p) \/ (v # 0 /\ IsBeaten(v, p)) \/ IsComing(p)

(* One edge more.                                                          *)
LEMMA ReachedByEdge ==
  ASSUME IInv, OutputInv, NEW u \in Vertices, NEW v \in Vertices \ {0}, <<u, v>> \in edges,
         Reached(u), NEW q \in PathsTo[u], NEW p, p = Append(q, v),
         q \in Seq(Vertices)
  PROVE  IsFound(v, p) \/ IsBeaten(v, p) \/ IsComing(p)
  <1>1. Len(q) \in Nat /\ Len(p) = Len(q) + 1
    OBVIOUS
  <1>2. \A k \in Vertices, t \in Slots :
          slot[k][t].value \in Nat /\ (slot[k][t] # Empty => slot[k][t].value < MAX)
    BY EmptyIsMax DEF Ways
  <1>3. ASSUME NEW k \in Vertices, NEW t \in Slots, ~label[k][t], slot[k][t] # Empty,
               slot[k][t].value + 2 <= Len(p)
        PROVE  IsComing(p)
    BY <1>2, <1>3 DEF IsComing, Open
  <1>4. CASE IsComing(q)
    BY <1>1, <1>2, <1>4 DEF IsComing
  <1>5. CASE IsFound(u, q)
    <2>1. PICK t \in Slots : slot[u][t] # Empty /\ Trace[u][t] = q /\ (u = 0 => t = 0)
      <3>1. CASE u = 0
        <4>1. PathsTo[0] = {<<0>>} /\ Trace[0][0] = <<0>>
          <5>1. Trace[0] = TraceBody(0, Trace) /\ 0 \in Slots
            BY TraceEquation, Constants
          <5>2. Trace[0][0] = <<0>>
            BY <5>1 DEF TraceBody
          <5> QED
            BY <5>2, PathSteps DEF IInv
        <4> QED
          BY <3>1, <4>1, ZeroFilled, Constants
      <3>2. CASE u # 0
        BY <1>5, <3>2 DEF IsFound
      <3> QED
        BY <3>1, <3>2
    <2>2. Traced(u)
      BY TracesArePaths
    <2>3. Len(q) = IF u = 0 THEN 1 ELSE slot[u][t].value + 2
      BY <2>1, <2>2 DEF Traced
    <2>4. CASE ~label[u][t]
      <3>1. u # 0
        BY <2>4, ZeroFilled
      <3> QED
        BY <2>1, <2>3, <2>4, <3>1, <1>1, <1>2, <1>3
    <2>5. CASE label[u][t]
      <3>1. Cost(u, t) + 2 = Len(p) /\ Cost(u, t) \in Nat
        <4>1. slot[u][t].value \in Nat
          BY <1>2
        <4>2. CASE u = 0
          BY <4>2, <2>3, <1>1 DEF Cost
        <4>3. CASE u # 0
          <5> DEFINE w == slot[u][t].value
          <5>1. Cost(u, t) = w + 1
            BY <4>3 DEF Cost
          <5>2. Len(q) = w + 2 /\ w \in Nat
            BY <2>3, <4>1, <4>3
          <5> HIDE DEF w
          <5> QED
            BY <5>1, <5>2, <1>1
        <4> QED
          BY <4>2, <4>3
      <3>2. CASE GoesOn(u, t, v)
        <4>1. PICK s \in Slots : slot[v][s] # Empty /\ slot[v][s].pre = u /\ slot[v][s].ks = t
          BY <3>2 DEF GoesOn
        <4>2. Trace[v][s] = Append(Trace[u][t], v)
          <5>1. Trace[v] = TraceBody(v, Trace)
            BY TraceEquation
          <5> QED
            BY <4>1, <5>1 DEF TraceBody
        <4> QED
          BY <4>1, <4>2, <2>1 DEF IsFound
      <3>3. CASE Full(v, Cost(u, t))
        BY <3>1, <3>3, <1>2 DEF Full, IsBeaten
      <3> QED
        BY <3>2, <3>3, <2>1, <2>5 DEF OutputInv, Continued
    <2> QED
      BY <2>4, <2>5
  <1>6. CASE u # 0 /\ IsBeaten(u, q)
    <2>1. \A t \in Slots : slot[u][t] # Empty /\ slot[u][t].value + 2 <= Len(q)
      BY <1>6 DEF IsBeaten
    <2>2. CASE \E t \in Slots : ~label[u][t]
      <3>1. PICK t \in Slots : ~label[u][t]
        BY <2>2
      <3>2. slot[u][t] # Empty /\ slot[u][t].value + 2 <= Len(q) /\ slot[u][t].value \in Nat
        BY <2>1, <1>2
      <3>3. slot[u][t].value + 2 <= Len(p)
        BY <3>2, <1>1
      <3> QED
        BY <3>1, <3>2, <3>3, <1>3
    <2>3. CASE \A t \in Slots : label[u][t]
      <3>1. \A t \in Slots : slot[v][t] # Empty /\ slot[v][t].value <= slot[u][t].value + 1
        BY <2>3, <1>6 DEF OutputInv, OfferedInTime
      <3>2. ASSUME NEW t \in Slots
            PROVE  slot[v][t] # Empty /\ slot[v][t].value + 2 <= Len(p)
        <4>1. slot[v][t] # Empty /\ slot[v][t].value <= slot[u][t].value + 1
          BY <3>1
        <4>2. slot[u][t].value + 2 <= Len(q)
          BY <2>1
        <4>3. slot[v][t].value \in Nat /\ slot[u][t].value \in Nat
          BY <1>2
        <4> DEFINE a == slot[v][t].value
                   b == slot[u][t].value
        <4>4. slot[v][t] # Empty /\ a <= b + 1 /\ b + 2 <= Len(q) /\ a \in Nat /\ b \in Nat
          BY <4>1, <4>2, <4>3
        <4> HIDE DEF a, b
        <4>5. a + 2 <= Len(p)
          BY <4>4, <1>1
        <4> QED
          BY <4>4, <4>5 DEF a
      <3> QED
        BY <3>2 DEF IsBeaten
    <2> QED
      BY <2>2, <2>3
  <1> QED
    BY <1>4, <1>5, <1>6 DEF Reached

(* A path to a vertex ends in it.                                          *)
LEMMA PathsEndThere ==
  ASSUME TypeOK
  PROVE  \A v \in Vertices : \A p \in PathsTo[v] : p \in Seq(Vertices) /\ Len(p) > 0 /\ p[Len(p)] = v
  <1> DEFINE Good(u) == \A p \in PathsTo[u] : p \in Seq(Vertices) /\ Len(p) > 0 /\ p[Len(p)] = u
             S == {v \in Nat : \A u \in Vertices : u <= v => Good(u)}
  <1>0. \A v \in Vertices : v \in Nat
    BY Constants DEF Vertices
  <1>1. Good(0)
    <2>1. PathsTo[0] = {<<0>>}
      BY PathSteps
    <2>2. <<0>> \in Seq(Vertices) /\ Len(<<0>>) > 0 /\ <<0>>[Len(<<0>>)] = 0
      BY Constants
    <2> SUFFICES ASSUME NEW p \in PathsTo[0]
                 PROVE  p \in Seq(Vertices) /\ Len(p) > 0 /\ p[Len(p)] = 0
      OBVIOUS
    <2>3. p = <<0>>
      BY <2>1
    <2> HIDE DEF Good, S
    <2> QED
      BY <2>2, <2>3, Zenon
  <1>2. 0 \in S
    BY <1>0, <1>1
  <1>3. ASSUME NEW n \in Nat, n \in S PROVE n + 1 \in S
    <2> SUFFICES ASSUME NEW v \in Vertices, v = n + 1, NEW p \in PathsTo[v]
                 PROVE  p \in Seq(Vertices) /\ Len(p) > 0 /\ p[Len(p)] = v
      BY <1>0, <1>3
    <2>1. v # 0
      BY <1>0
    <2>2. PICK u \in Vertices : <<u, v>> \in edges /\ \E q \in PathsTo[u] : p = Append(q, v)
      BY <2>1, PathSteps
    <2>3. PICK q \in PathsTo[u] : p = Append(q, v)
      BY <2>2
    <2>4. u <= n
      BY <2>2, <1>0, EdgesGoForward
    <2>5. q \in Seq(Vertices)
      BY <2>4, <1>3
    <2> QED
      BY <2>3, <2>5
  <1> HIDE DEF S
  <1>4. \A n \in Nat : n \in S
    BY <1>2, <1>3, Induction
  <1> QED
    BY <1>0, <1>4 DEF S

(* By induction along the text.                                            *)
LEMMA AllReached ==
  ASSUME IInv, OutputInv
  PROVE  \A v \in Vertices : Reached(v)
  <1> DEFINE S == {v \in Nat : \A u \in Vertices : u <= v => Reached(u)}
  <1>0. TypeOK /\ \A v \in Vertices : v \in Nat
    BY Constants DEF Vertices, IInv
  <1>1. Reached(0)
    <2>1. PathsTo[0] = {<<0>>}
      BY <1>0, PathSteps
    <2>2. Trace[0] = TraceBody(0, Trace) /\ 0 \in Slots
      BY TraceEquation, Constants
    <2>3. Trace[0][0] = <<0>>
      BY <2>2 DEF TraceBody
    <2>4. IsFound(0, <<0>>)
      BY <2>2, <2>3, ZeroFilled DEF IsFound
    <2> QED
      BY <2>1, <2>4 DEF Reached
  <1>2. 0 \in S
    BY <1>0, <1>1
  <1>3. ASSUME NEW n \in Nat, n \in S PROVE n + 1 \in S
    <2> SUFFICES ASSUME NEW v \in Vertices, v = n + 1 PROVE Reached(v)
      BY <1>0, <1>3
    <2> SUFFICES ASSUME NEW p \in PathsTo[v]
                 PROVE  IsFound(v, p) \/ IsBeaten(v, p) \/ IsComing(p)
      BY <1>0 DEF Reached
    <2>1. v \in Vertices \ {0}
      BY <1>0
    <2>2. PICK u \in Vertices : <<u, v>> \in edges /\ \E q \in PathsTo[u] : p = Append(q, v)
      BY <1>0, <2>1, PathSteps
    <2>3. PICK q \in PathsTo[u] : p = Append(q, v)
      BY <2>2
    <2>4. Reached(u)
      <3>1. u <= n
        BY <2>2, <1>0, EdgesGoForward
      <3> QED
        BY <3>1, <1>3
    <2>5. q \in Seq(Vertices)
      BY <1>0, PathsEndThere
    <2> QED
      BY <2>1, <2>2, <2>3, <2>4, <2>5, ReachedByEdge
  <1> HIDE DEF S
  <1>4. \A n \in Nat : n \in S
    BY <1>2, <1>3, Induction
  <1> QED
    BY <1>0, <1>4 DEF S

(* Different slots of a vertex hold different paths.                       *)
TracesDiffer(v) ==
  \A s, t \in Slots : s # t /\ slot[v][s] # Empty /\ slot[v][t] # Empty => Trace[v][s] # Trace[v][t]

(* By induction along the text: what they extend differs, or its vertex.   *)
LEMMA TracesAreDifferent ==
  ASSUME IInv, OutputInv
  PROVE  \A v \in Vertices \ {0} : TracesDiffer(v)
  <1> DEFINE S == {v \in Nat : \A u \in Vertices \ {0} : u <= v => TracesDiffer(u)}
  <1>0. TypeOK /\ \A v \in Vertices : v \in Nat
    BY Constants DEF Vertices, IInv
  <1>1. 0 \in S
    BY <1>0
  <1>2. ASSUME NEW n \in Nat, n \in S PROVE n + 1 \in S
    <2> SUFFICES ASSUME NEW v \in Vertices \ {0}, v = n + 1,
                        NEW s \in Slots, NEW t \in Slots, s # t,
                        slot[v][s] # Empty, slot[v][t] # Empty, Trace[v][s] = Trace[v][t]
                 PROVE  FALSE
      BY <1>0, <1>2 DEF TracesDiffer
    <2>1. ASSUME NEW q \in Slots, slot[v][q] # Empty
          PROVE  LET u == slot[v][q].pre
                     k == slot[v][q].ks
                 IN  /\ u \in Vertices /\ k \in Slots /\ u <= n /\ slot[u][k] # Empty
                     /\ Trace[v][q] = Append(Trace[u][k], v)
                     /\ Trace[u][k] \in Seq(Vertices) /\ Trace[u][k][Len(Trace[u][k])] = u
                     /\ u = 0 => k = 0
      <3> DEFINE u == slot[v][q].pre
                 k == slot[v][q].ks
      <3>1. u \in Vertices /\ k \in Slots /\ <<u, v>> \in edges /\ label[u][k]
        BY <2>1, LinkFacts
      <3>2. u <= n
        BY <3>1, <1>0, EdgesGoForward
      <3>3. slot[u][k] # Empty
        <4>1. CASE u = 0
          BY <4>1, <3>1, ZeroFilled
        <4>2. CASE u # 0
          BY <4>2, <3>1, LinkFacts
        <4> QED
          BY <4>1, <4>2
      <3>4. Trace[v][q] = Append(Trace[u][k], v)
        <4>1. Trace[v] = TraceBody(v, Trace) /\ v # 0
          BY TraceEquation
        <4> QED
          BY <4>1, <2>1 DEF TraceBody
      <3>5. u = 0 => k = 0
        BY <2>1 DEF OutputInv, FromZero
      <3> HIDE DEF u, k
      <3>6. Trace[u][k] \in PathsTo[u]
        BY <3>1, <3>3, TracesArePaths DEF Traced
      <3>7. Trace[u][k] \in Seq(Vertices) /\ Trace[u][k][Len(Trace[u][k])] = u
        BY <3>1, <3>6, <1>0, PathsEndThere
      <3> QED
        BY <3>1, <3>2, <3>3, <3>4, <3>5, <3>7 DEF u, k
    <2> DEFINE u == slot[v][s].pre
               k == slot[v][s].ks
               w == slot[v][t].pre
               l == slot[v][t].ks
    <2>2. /\ u \in Vertices /\ k \in Slots /\ u <= n /\ slot[u][k] # Empty
          /\ Trace[v][s] = Append(Trace[u][k], v)
          /\ Trace[u][k] \in Seq(Vertices) /\ Trace[u][k][Len(Trace[u][k])] = u
          /\ u = 0 => k = 0
      BY <2>1
    <2>3. /\ w \in Vertices /\ l \in Slots /\ w <= n /\ slot[w][l] # Empty
          /\ Trace[v][t] = Append(Trace[w][l], v)
          /\ Trace[w][l] \in Seq(Vertices) /\ Trace[w][l][Len(Trace[w][l])] = w
          /\ w = 0 => l = 0
      BY <2>1
    <2>4. u # w \/ k # l
      BY DEF OutputInv, LinksDiffer
    <2> HIDE DEF u, k, w, l
    <2>5. Trace[u][k] = Trace[w][l]
      <3> DEFINE p == Trace[u][k]
                 q == Trace[w][l]
      <3>1. p \in Seq(Vertices) /\ q \in Seq(Vertices) /\ Append(p, v) = Append(q, v)
        BY <2>2, <2>3
      <3> HIDE DEF p, q
      <3>2. p = q
        BY <3>1
      <3> QED
        BY <3>2 DEF p, q
    <2>6. u = w /\ u # 0 /\ k # l
      BY <2>2, <2>3, <2>4, <2>5
    <2>7. TracesDiffer(u)
      BY <2>2, <2>6, <1>2
    <2> QED
      BY <2>2, <2>3, <2>5, <2>6, <2>7 DEF TracesDiffer
  <1> HIDE DEF S
  <1>3. \A n \in Nat : n \in S
    BY <1>1, <1>2, Induction
  <1> QED
    BY <1>0, <1>3 DEF S

-----------------------------------------------------------------------------
(* The settled slots of the last vertex are the first ones.                *)
LEMMA PathCountFacts ==
  ASSUME IInv, OutputInv
  PROVE  /\ PathCount \in 0 .. MaxSegmentNum
         /\ \A s \in Slots : s < PathCount <=> label[Last][s]
  <1> DEFINE U == {s \in Slots : ~label[Last][s]}
  <1>0. MaxSegmentNum \in Nat /\ Last \in Vertices /\ Slots = 0 .. MaxSegmentNum - 1
    BY Constants, VertexRange DEF Slots
  <1>1. \E n \in 0 .. MaxSegmentNum : IsPathCount(n)
    <2>1. CASE U = {}
      <3>1. MaxSegmentNum \in 0 .. MaxSegmentNum /\ IsPathCount(MaxSegmentNum)
        BY <2>1, <1>0 DEF IsPathCount
      <3> QED
        BY <3>1
    <2>2. CASE U # {}
      <3>1. U \subseteq Nat
        BY <1>0
      <3> HIDE DEF U
      <3>2. PICK n \in U : \A m \in U : n <= m
        BY <2>2, <3>1, Least
      <3>3. n \in 0 .. MaxSegmentNum /\ ~label[Last][n]
        BY <3>2, <1>0 DEF U
      <3>4. \A s \in Slots : s < n => label[Last][s]
        BY <3>2, <3>3, <1>0 DEF U
      <3> QED
        BY <3>3, <3>4 DEF IsPathCount
    <2> QED
      BY <2>1, <2>2
  <1>2. PathCount \in 0 .. MaxSegmentNum /\ IsPathCount(PathCount)
    BY <1>1 DEF PathCount
  <1>3. ASSUME NEW s \in Slots, label[Last][s], ~(s < PathCount) PROVE FALSE
    <2>1. PathCount \in Slots /\ ~label[Last][PathCount]
      BY <1>0, <1>2, <1>3 DEF IsPathCount
    <2>2. s # PathCount
      BY <2>1, <1>3
    <2>3. PathCount < s
      BY <1>0, <1>2, <1>3, <2>2
    <2> QED
      BY <1>0, <1>3, <2>1, <2>3 DEF OutputInv, SettledInOrder
  <1> QED
    BY <1>2, <1>3 DEF IsPathCount

(* What Output returns, at any time.                                       *)
LEMMA OutputFacts ==
  ASSUME IInv, OutputInv
  PROVE  /\ DOMAIN Output = 1 .. PathCount /\ Len(Output) = PathCount
         /\ \A k \in 1 .. PathCount :
              /\ k - 1 \in Slots /\ label[Last][k - 1] /\ slot[Last][k - 1] # Empty
              /\ Output[k] = Trace[Last][k - 1] /\ Output[k] \in PathsTo[Last]
              /\ Len(Output[k]) = slot[Last][k - 1].value + 2
         /\ \A s \in Slots : label[Last][s] => s + 1 \in 1 .. PathCount /\ Output[s + 1] = Trace[Last][s]
  <1>0. MaxSegmentNum \in Nat /\ Last \in Vertices \ {0} /\ Slots = 0 .. MaxSegmentNum - 1
    BY Constants, VertexRange DEF Slots
  <1>1. PathCount \in 0 .. MaxSegmentNum /\ \A s \in Slots : s < PathCount <=> label[Last][s]
    BY PathCountFacts
  <1> DEFINE P == PathCount
             T == Trace[Last]
  <1>2. Output = [k \in 1 .. P |-> T[k - 1]]
    BY DEF Output
  <1> HIDE DEF P, T
  <1>3. P \in Nat
    BY <1>1 DEF P
  <1>4. DOMAIN Output = 1 .. P /\ Len(Output) = P /\ \A k \in 1 .. P : Output[k] = T[k - 1]
    BY <1>2, <1>3
  <1>5. ASSUME NEW k \in 1 .. P
        PROVE  /\ k - 1 \in Slots /\ label[Last][k - 1] /\ slot[Last][k - 1] # Empty
               /\ Output[k] \in PathsTo[Last]
               /\ Len(Output[k]) = slot[Last][k - 1].value + 2
    <2>1. k - 1 \in Slots /\ k - 1 < P
      BY <1>0, <1>1 DEF P
    <2>2. label[Last][k - 1]
      BY <2>1, <1>1 DEF P
    <2>3. slot[Last][k - 1] # Empty
      BY <2>1, <2>2, <1>0, LinkFacts
    <2>4. Traced(Last)
      BY <1>0, TracesArePaths
    <2> QED
      BY <2>1, <2>2, <2>3, <2>4, <1>0, <1>4 DEF Traced, T
  <1>6. ASSUME NEW s \in Slots, label[Last][s]
        PROVE  s + 1 \in 1 .. P /\ Output[s + 1] = T[s]
    <2>1. s < P
      BY <1>1, <1>6 DEF P
    <2>2. s + 1 \in 1 .. P /\ (s + 1) - 1 = s
      BY <1>0, <1>3, <2>1
    <2> QED
      BY <1>4, <2>2
  <1> QED
    BY <1>4, <1>5, <1>6 DEF P, T

(* Routes come from different slots, so they differ.                       *)
LEMMA RoutesDiffer ==
  ASSUME IInv, OutputInv, NEW k \in 1 .. PathCount, NEW l \in 1 .. PathCount, Output[k] = Output[l]
  PROVE  k = l
  <1>1. /\ k - 1 \in Slots /\ slot[Last][k - 1] # Empty /\ Output[k] = Trace[Last][k - 1]
        /\ l - 1 \in Slots /\ slot[Last][l - 1] # Empty /\ Output[l] = Trace[Last][l - 1]
    BY OutputFacts
  <1>2. TracesDiffer(Last)
    BY VertexRange, TracesAreDifferent
  <1>3. k - 1 = l - 1
    BY <1>1, <1>2 DEF TracesDiffer
  <1> QED
    BY <1>3, PathCountFacts

(* No segmentation is returned twice.                                      *)
LEMMA OutputHasNoTwins ==
  ASSUME IInv, OutputInv
  PROVE  Cardinality({Output[k] : k \in DOMAIN Output}) = Len(Output)
  <1> DEFINE n == PathCount
             D == 1 .. n
             found == {Output[k] : k \in DOMAIN Output}
  <1>0. n \in Nat /\ D = 1 .. n /\ \A k \in D : k \in Int
    BY PathCountFacts
  <1>1. DOMAIN Output = D /\ Len(Output) = n
    BY OutputFacts
  <1>2. ASSUME NEW k \in D, NEW l \in D, Output[k] = Output[l] PROVE k = l
    BY <1>2, RoutesDiffer
  <1> HIDE DEF n, D
  <1>3. found = {Output[k] : k \in D}
    BY <1>1
  <1>4. ExistsBijection(D, found)
    <2> DEFINE f == [k \in D |-> Output[k]]
    <2>1. f \in [D -> found] /\ \A k \in D : f[k] = Output[k]
      BY <1>3
    <2>2. \A y \in found : \E k \in D : f[k] = y
      BY <1>3, <2>1
    <2>3. \A k, l \in D : f[k] = f[l] => k = l
      BY <1>2, <2>1
    <2> HIDE DEF f, found
    <2>4. f \in Bijection(D, found)
      BY <2>1, <2>2, <2>3 DEF Bijection, Injection, Surjection, IsInjective
    <2> QED
      BY <2>4 DEF ExistsBijection
  <1>5. IsFiniteSet(D) /\ Cardinality(D) = n
    BY <1>0, FS_Interval
  <1> HIDE DEF found
  <1>6. Cardinality(found) = n
    BY <1>4, <1>5, FS_Bijection
  <1> QED
    BY <1>1, <1>6 DEF found

(* The invariants make the result right when the call is over.             *)
LEMMA OutputInvIsEnough ==
  ASSUME IInv, OutputInv
  PROVE  OutputIsShortest
  <1> SUFFICES ASSUME pc = "done" PROVE OutputIsShortest
    BY DEF OutputIsShortest
  <1> DEFINE found == {Output[k] : k \in DOMAIN Output}
             paths == PathsTo[Last]
             n == PathCount
  <1>0. /\ Last \in Vertices \ {0} /\ n \in 0 .. MaxSegmentNum /\ MaxSegmentNum \in Nat
        /\ Slots = 0 .. MaxSegmentNum - 1 /\ \A s \in Slots : s \in Nat
    BY Constants, VertexRange, PathCountFacts DEF Slots
  <1>1. DOMAIN Output = 1 .. n /\ Len(Output) = n
    BY OutputFacts
  <1>2. \A k \in 1 .. n :
          /\ k - 1 \in Slots /\ label[Last][k - 1] /\ slot[Last][k - 1] # Empty
          /\ Output[k] = Trace[Last][k - 1] /\ Output[k] \in paths
          /\ Len(Output[k]) = slot[Last][k - 1].value + 2
    BY OutputFacts
  <1>3. \A s \in Slots : label[Last][s] => s + 1 \in 1 .. n /\ Output[s + 1] = Trace[Last][s]
    BY OutputFacts
  <1>4. /\ \A v \in Vertices, s \in Slots : slot[v][s].value \in Nat
        /\ \A s \in Slots : slot[Last][s].value \in Nat
    BY <1>0, EmptyIsMax DEF Ways
  <1>5. \A p \in paths : IsFound(Last, p) \/ IsBeaten(Last, p) \/ IsComing(p)
    BY AllReached, <1>0 DEF Reached
  <1>6. \A s \in Slots : s < n <=> label[Last][s]
    BY PathCountFacts
  <1>7. \A p \in paths : Len(p) \in Nat
    <2>1. \A p \in paths : p \in Seq(Vertices)
      BY <1>0, PathsEndThere DEF IInv
    <2> QED
      BY <2>1
  <1> HIDE DEF n, paths
  <1>8. found \subseteq paths
    BY <1>1, <1>2
  <1>9. Cardinality(found) = Len(Output)
    BY OutputHasNoTwins
  <1>10. \A k, l \in DOMAIN Output : k < l => Len(Output[k]) <= Len(Output[l])
    <2> SUFFICES ASSUME NEW k \in 1 .. n, NEW l \in 1 .. n, k < l
                 PROVE  Len(Output[k]) <= Len(Output[l])
      BY <1>1
    <2>1. k - 1 \in Slots /\ l - 1 \in Slots /\ k - 1 <= l - 1
      BY <1>0, <1>2
    <2>2. slot[Last][k - 1].value <= slot[Last][l - 1].value
      BY <2>1, <1>0 DEF IInv, RowsSorted
    <2>3. slot[Last][k - 1].value + 2 <= slot[Last][l - 1].value + 2
      <3>1. slot[Last][k - 1].value \in Nat /\ slot[Last][l - 1].value \in Nat
        BY <2>1, <1>4
      <3> QED
        BY <2>2, <3>1
    <2> QED
      BY <2>3, <1>2
  (* A path of a slot of the last vertex that is settled is found.         *)
  <1>11. ASSUME NEW p \in paths, NEW s \in Slots, label[Last][s], Trace[Last][s] = p
         PROVE  p \in found
    BY <1>1, <1>3, <1>11
  <1>12. ASSUME n < MaxSegmentNum PROVE found = paths
    <2>1. n \in Slots /\ ~label[Last][n]
      BY <1>0, <1>6, <1>12
    <2>2. \A v \in Vertices, s \in Slots : ~Open(v, s)
      BY <2>1 DEF OutputInv, Halted, Terminated
    <2>3. \A s \in Slots : slot[Last][s] # Empty => label[Last][s]
      BY <2>2, <1>0, EmptyIsMax DEF Open
    <2> SUFFICES ASSUME NEW p \in paths PROVE p \in found
      BY <1>8
    <2>4. IsFound(Last, p)
      BY <1>5, <2>1, <2>2, <2>3 DEF IsBeaten, IsComing
    <2> HIDE DEF found
    <2> QED
      BY <2>3, <2>4, <1>11 DEF IsFound
  <1>13. ASSUME NEW p \in found, NEW q \in paths, q \notin found
         PROVE  Len(p) <= Len(q)
    <2>1. PICK s \in Slots : label[Last][s] /\ slot[Last][s] # Empty
                             /\ Len(p) = slot[Last][s].value + 2
      BY <1>1, <1>2
    <2> HIDE DEF found
    <2>2. CASE IsFound(Last, q)
      <3>1. PICK t \in Slots : slot[Last][t] # Empty /\ Trace[Last][t] = q
        BY <2>2 DEF IsFound
      <3>2. ~label[Last][t]
        BY <3>1, <1>11, <1>13
      <3>3. s < n /\ ~(t < n)
        BY <2>1, <3>2, <1>6
      <3>4. s <= t
        BY <3>3, <1>0
      <3>5. slot[Last][s].value <= slot[Last][t].value
        BY <3>4, <1>0 DEF IInv, RowsSorted
      <3>6. Len(q) = slot[Last][t].value + 2
        BY <3>1, <1>0, TracesArePaths DEF Traced
      <3>7. slot[Last][s].value + 2 <= slot[Last][t].value + 2
        <4>1. slot[Last][s].value \in Nat /\ slot[Last][t].value \in Nat
          BY <1>4
        <4> QED
          BY <3>5, <4>1
      <3> QED
        BY <2>1, <3>6, <3>7
    <2>3. CASE IsBeaten(Last, q)
      BY <2>1, <2>3 DEF IsBeaten
    <2>4. CASE IsComing(q)
      <3>1. PICK u \in Vertices, t \in Slots : Open(u, t) /\ slot[u][t].value + 2 <= Len(q)
        BY <2>4 DEF IsComing
      <3>2. slot[Last][s].value <= slot[u][t].value
        BY <2>1, <3>1, <1>0 DEF OutputInv, SettledFirst
      <3> QED
        <4>1. slot[Last][s].value \in Nat /\ slot[u][t].value \in Nat
          BY <1>4
        <4>2. slot[Last][s].value + 2 <= Len(q)
          BY <3>1, <3>2, <4>1, <1>7
        <4> QED
          BY <2>1, <4>2
    <2> QED
      BY <2>2, <2>3, <2>4, <1>5
  <1> QED
    BY <1>8, <1>9, <1>10, <1>1, <1>12, <1>13 DEF OutputIsShortest, paths

(***************************************************************************)
(* What a call of ShortPath and GetPaths returns: kshortpath.cpp 33 to     *)
(* 181, for every word net, number of positions and number of slots.       *)
(***************************************************************************)
THEOREM ShortestAreReturned == Spec => []OutputIsShortest
  <1>1. IInv /\ OutputInv => OutputIsShortest
    BY OutputInvIsEnough
  <1> QED
    BY <1>1, OutputInvariance, PTL

-----------------------------------------------------------------------------
(* A path goes from 0 to its vertex, by edges.                             *)
IsPath(p, v) ==
  /\ p \in Seq(Vertices) /\ Len(p) \in 1 .. v + 1 /\ (v # 0 => Len(p) > 1)
  /\ p[1] = 0 /\ p[Len(p)] = v
  /\ \A i \in 1 .. Len(p) - 1 : <<p[i], p[i + 1]>> \in edges

(* By induction along the text.                                            *)
LEMMA PathsGoByEdges ==
  ASSUME TypeOK
  PROVE  \A v \in Vertices : \A p \in PathsTo[v] : IsPath(p, v)
  <1> DEFINE S == {v \in Nat : \A u \in Vertices : u <= v => \A p \in PathsTo[u] : IsPath(p, u)}
  <1>0. \A v \in Vertices : v \in Nat
    BY Constants DEF Vertices
  <1>1. 0 \in S
    <2>1. PathsTo[0] = {<<0>>}
      BY PathSteps
    <2>2. <<0>> \in Seq(Vertices) /\ Len(<<0>>) = 1 /\ <<0>>[1] = 0
      BY Constants
    <2>3. IsPath(<<0>>, 0)
      BY <2>2 DEF IsPath
    <2>4. \A u \in Vertices : u <= 0 => u = 0
      BY <1>0
    <2> QED
      BY <2>1, <2>3, <2>4
  <1>2. ASSUME NEW n \in Nat, n \in S PROVE n + 1 \in S
    <2> SUFFICES ASSUME NEW v \in Vertices, v = n + 1, NEW p \in PathsTo[v]
                 PROVE  IsPath(p, v)
      BY <1>0, <1>2
    <2>1. v # 0 /\ v \in Nat
      BY <1>0
    <2>2. PICK u \in Vertices : <<u, v>> \in edges /\ \E q \in PathsTo[u] : p = Append(q, v)
      BY <2>1, PathSteps
    <2>3. PICK q \in PathsTo[u] : p = Append(q, v)
      BY <2>2
    <2>4. u < v /\ u \in Nat
      BY <2>2, <1>0, EdgesGoForward
    <2>5. IsPath(q, u)
      BY <2>4, <1>2
    <2> HIDE DEF S
    <2>6. /\ q \in Seq(Vertices) /\ Len(q) \in 1 .. u + 1 /\ q[1] = 0 /\ q[Len(q)] = u
          /\ \A i \in 1 .. Len(q) - 1 : <<q[i], q[i + 1]>> \in edges
      BY <2>5 DEF IsPath
    <2>7. /\ p \in Seq(Vertices) /\ Len(p) = Len(q) + 1 /\ p[Len(p)] = v /\ p[Len(q)] = u
          /\ \A i \in 1 .. Len(q) : p[i] = q[i]
      BY <2>3, <2>6
    <2>8. Len(q) \in Nat /\ Len(q) >= 1 /\ Len(q) <= u + 1
      BY <2>6
    <2>9. ASSUME NEW i \in 1 .. Len(p) - 1 PROVE <<p[i], p[i + 1]>> \in edges
      <3>1. CASE i = Len(q)
        BY <3>1, <2>2, <2>7
      <3>2. CASE i # Len(q)
        <4>1. i \in 1 .. Len(q) - 1 /\ i \in 1 .. Len(q) /\ i + 1 \in 1 .. Len(q)
          BY <3>2, <2>7, <2>8
        <4>2. p[i] = q[i] /\ p[i + 1] = q[i + 1]
          BY <4>1, <2>7
        <4> QED
          BY <4>1, <4>2, <2>6
      <3> QED
        BY <3>1, <3>2
    <2>10. Len(p) \in 1 .. v + 1 /\ Len(p) > 1
      BY <2>1, <2>4, <2>7, <2>8
    <2>11. p[1] = 0
      BY <2>6, <2>7, <2>8
    <2> QED
      BY <2>7, <2>9, <2>10, <2>11 DEF IsPath
  <1> HIDE DEF S
  <1>3. \A n \in Nat : n \in S
    BY <1>1, <1>2, Induction
  <1> QED
    BY <1>0, <1>3 DEF S

(* What is cut out of row k: the edges of its route.                       *)
LEMMA RowIsRoute ==
  ASSUME IInv, OutputInv, NEW k \in 1 .. MaxSegmentNum
  PROVE  /\ k > Len(Output) => Words(nSegRoute(k)) = <<>>
         /\ k <= Len(Output) =>
              /\ Output[k] \in PathsTo[Last] /\ IsPath(Output[k], Last)
              /\ Words(nSegRoute(k)) = [c \in 1 .. Len(Output[k]) - 1 |-> <<Output[k][c], Output[k][c + 1]>>]
  <1> DEFINE row == nSegRoute(k)
             p == Output[k]
  <1>0. /\ Cells \in Nat /\ Cells >= NumVertex /\ NumVertex \in Nat /\ NumVertex > 1
        /\ Last = NumVertex - 1 /\ Last \in Vertices \ {0}
        /\ Len(Output) \in Nat /\ k \in Nat /\ k >= 1
    BY SegmentAllAssumption, Constants, VertexRange, PathCountFacts, OutputFacts DEF Last
  <1>1. CASE k > Len(Output)
    <2>1. \A c \in 0 .. Cells - 1 : row[c] = -1
      BY <1>0, <1>1 DEF nSegRoute
    <2>2. CellsRead(row) = {}
      <3> HIDE DEF row
      <3>1. ASSUME NEW c \in 1 .. Cells - 1, \A d \in 1 .. c : row[d] # -1
            PROVE  FALSE
        <4>1. c \in 1 .. c /\ c \in 0 .. Cells - 1
          BY <1>0
        <4> QED
          BY <4>1, <2>1, <3>1
      <3> QED
        BY <3>1 DEF CellsRead
    <2> HIDE DEF row
    <2>3. Words(row) = <<>>
      BY <2>2 DEF Words
    <2> QED
      BY <1>0, <1>1, <2>3 DEF row
  <1>2. CASE k <= Len(Output)
    <2>1. k \in 1 .. PathCount /\ p \in PathsTo[Last]
      BY <1>0, <1>2, OutputFacts
    <2>2. IsPath(p, Last)
      BY <1>0, <2>1, PathsGoByEdges DEF IInv
    <2>3. \A c \in 0 .. Cells - 1 : row[c] = IF c < Len(p) THEN p[c + 1] ELSE -1
      BY <1>2 DEF nSegRoute
    <2> HIDE DEF row, p
    <2>4. /\ p \in Seq(Vertices) /\ Len(p) \in Nat /\ Len(p) > 1 /\ Len(p) <= NumVertex /\ p[1] = 0
      BY <2>2, <1>0 DEF IsPath
    <2>5. \A i \in 1 .. Len(p) : p[i] \in Vertices /\ p[i] # -1
      <3>1. \A v \in Vertices : v # -1
        BY <1>0 DEF Vertices
      <3> QED
        BY <2>4, <3>1
    <2>6. \A c \in 0 .. Cells - 1 : row[c] # -1 <=> c < Len(p)
      <3> SUFFICES ASSUME NEW c \in 0 .. Cells - 1 PROVE row[c] # -1 <=> c < Len(p)
        OBVIOUS
      <3>1. c < Len(p) => c + 1 \in 1 .. Len(p)
        BY <2>4, <1>0
      <3> QED
        BY <3>1, <2>3, <2>5
    <2>7. CellsRead(row) = 1 .. Len(p) - 1
      <3>1. ASSUME NEW c \in 1 .. Cells - 1, \A d \in 1 .. c : row[d] # -1
            PROVE  c \in 1 .. Len(p) - 1
        <4>1. c \in 1 .. c /\ c \in 0 .. Cells - 1
          BY <1>0
        <4>2. c < Len(p)
          BY <4>1, <3>1, <2>6
        <4> QED
          BY <4>2, <2>4
      <3>2. ASSUME NEW c \in 1 .. Len(p) - 1
            PROVE  c \in 1 .. Cells - 1 /\ \A d \in 1 .. c : row[d] # -1
        BY <1>0, <2>4, <2>6
      <3> QED
        BY <3>1, <3>2 DEF CellsRead
    <2>8. ASSUME NEW c \in 1 .. Len(p) - 1 PROVE WordAt(row, c) = <<p[c], p[c + 1]>>
      <3>1. c \in 0 .. Cells - 1 /\ c < Len(p) /\ c - 1 \in 0 .. Cells - 1 /\ c - 1 < Len(p)
        BY <1>0, <2>4
      <3>2. row[c] = p[c + 1] /\ row[c - 1] = p[c]
        <4>1. row[c] = p[c + 1] /\ row[c - 1] = p[(c - 1) + 1]
          BY <3>1, <2>3
        <4> QED
          BY <4>1
      <3> QED
        BY <3>2, <2>4 DEF WordAt
    <2>9. Words(row) = [c \in 1 .. Len(p) - 1 |-> <<p[c], p[c + 1]>>]
      BY <2>7, <2>8 DEF Words
    <2> QED
      BY <1>0, <1>2, <2>1, <2>2, <2>9 DEF row, p
  <1> QED
    BY <1>0, <1>1, <1>2

-----------------------------------------------------------------------------
(* What is in py after a row, from what was in it before.                  *)
PushedBody(k, h) ==
  IF k = 0 THEN <<>>
  ELSE LET words == Words(nSegRoute(k))
       IN  IF words = <<>> THEN h[k - 1] ELSE Append(h[k - 1], words)

(* It goes from row to row, so Pushed is well defined.                     *)
LEMMA PushedEquation ==
  Pushed = [k \in 0 .. MaxSegmentNum |-> PushedBody(k, Pushed)]
  <1> DEFINE N == MaxSegmentNum
             W == {Words(nSegRoute(k)) : k \in 1 .. N}
             V == Seq(W)
             F == [0 .. N -> V]
             B == [k \in 0 .. N |-> [h \in F |-> PushedBody(k, h)]]
  <1>0. N \in Nat
    BY Constants
  <1>1. ASSUME NEW k \in 0 .. N, NEW h \in F
        PROVE  PushedBody(k, h) \in V
    <2>1. CASE k = 0
      <3>1. <<>> \in Seq(W)
        OBVIOUS
      <3> QED
        BY <2>1, <3>1 DEF PushedBody
    <2>2. CASE k # 0
      <3> DEFINE words == Words(nSegRoute(k))
      <3>1. k - 1 \in 0 .. N /\ k \in 1 .. N
        BY <1>0, <2>2
      <3>2. words \in W
        BY <3>1
      <3> HIDE DEF words, W
      <3>3. h[k - 1] \in Seq(W)
        BY <3>1
      <3>4. Append(h[k - 1], words) \in Seq(W)
        BY <3>2, <3>3
      <3> QED
        BY <2>2, <3>3, <3>4 DEF PushedBody, words
    <2> QED
      BY <2>1, <2>2
  <1>2. V # {} /\ B \in [0 .. N -> [F -> V]]
    <2>1. <<>> \in V
      OBVIOUS
    <2> HIDE DEF V
    <2> QED
      BY <1>1, <2>1
  <1>3. ASSUME NEW n \in 0 .. N, NEW g \in F, NEW h \in F,
               \A m \in 0 .. N : m < n => g[m] = h[m]
        PROVE  B[n][g] = B[n][h]
    <2>1. n # 0 => g[n - 1] = h[n - 1]
      BY <1>0, <1>3
    <2> HIDE DEF F
    <2>2. PushedBody(n, g) = PushedBody(n, h)
      BY <2>1 DEF PushedBody
    <2> QED
      BY <2>2
  <1>4. \E f \in F : \A n \in 0 .. N : f[n] = B[n][f]
    <2> HIDE DEF B, V, N
    <2>1. LookDown(N, V, B)
      BY <1>3 DEF LookDown
    <2>2. N \in Nat /\ V # {} /\ B \in Steps(N, V)
      BY <1>0, <1>2 DEF Steps
    <2>3. \E f \in [0 .. N -> V] : Solution(N, B, f)
      BY <2>1, <2>2, Levels, Zenon
    <2> QED
      BY <2>3 DEF Solution
  <1>5. PICK f \in F : \A n \in 0 .. N : f[n] = B[n][f]
    BY <1>4
  <1>6. f = [k \in 0 .. N |-> PushedBody(k, f)]
    <2>1. \A n \in 0 .. N : f[n] = PushedBody(n, f)
      BY <1>5
    <2>2. f = [n \in 0 .. N |-> f[n]]
      OBVIOUS
    <2> QED
      BY <2>1, <2>2
  <1>7. \E g : g = [k \in 0 .. MaxSegmentNum |-> PushedBody(k, g)]
    BY <1>6
  <1>8. Pushed = CHOOSE g : g = [k \in 0 .. MaxSegmentNum |-> PushedBody(k, g)]
    BY DEF Pushed, PushedBody
  <1> QED
    BY <1>7, <1>8, Zenon

(* The rows of py are the routes, one for one.                             *)
LEMMA SectionsAreRoutes ==
  ASSUME IInv, OutputInv
  PROVE  /\ DOMAIN Sections = 1 .. Len(Output) /\ Len(Sections) = Len(Output)
         /\ Len(Sections) = 0 => Sections = <<>>
         /\ \A k \in 1 .. Len(Output) : Sections[k] = Words(nSegRoute(k))
  <1> DEFINE n == Len(Output)
             N == MaxSegmentNum
             Row(k) == Words(nSegRoute(k))
             W == {Row(k) : k \in 1 .. N}
             Done(k) == IF k <= n THEN k ELSE n
             Good(k) == /\ Pushed[k] \in Seq(W) /\ Len(Pushed[k]) = Done(k)
                        /\ \A j \in 1 .. Done(k) : Pushed[k][j] = Row(j)
             S == {k \in Nat : k <= N => Good(k)}
  <1>0. n \in 0 .. N /\ N \in Nat
    BY PathCountFacts, OutputFacts, Constants
  <1>1. \A k \in 0 .. N : Pushed[k] = PushedBody(k, Pushed)
    BY PushedEquation
  <1>2. \A k \in 1 .. N : k > n => Row(k) = <<>>
    BY RowIsRoute
  <1>3. ASSUME NEW k \in 1 .. N, k <= n PROVE Row(k) # <<>>
    <2>1. /\ IsPath(Output[k], Last)
          /\ Row(k) = [c \in 1 .. Len(Output[k]) - 1 |-> <<Output[k][c], Output[k][c + 1]>>]
      BY <1>3, RowIsRoute
    <2>2. Len(Output[k]) > 1 /\ Len(Output[k]) \in Nat
      BY <2>1, VertexRange, Constants DEF IsPath, Last
    <2>3. 1 \in DOMAIN Row(k)
      BY <2>1, <2>2
    <2> HIDE DEF Row
    <2> QED
      BY <2>3
  <1>4. Good(0)
    <2>1. Pushed[0] = <<>> /\ Done(0) = 0
      BY <1>0, <1>1 DEF PushedBody
    <2> HIDE DEF W
    <2> QED
      BY <2>1
  <1>5. ASSUME NEW k \in Nat, k \in S PROVE k + 1 \in S
    <2> SUFFICES ASSUME k + 1 <= N PROVE Good(k + 1)
      OBVIOUS
    <2>1. /\ Good(k) /\ k + 1 \in 0 .. N /\ k + 1 \in 1 .. N /\ k + 1 # 0
          /\ (k + 1) - 1 = k
      BY <1>0, <1>5
    <2>2. Pushed[k + 1] = IF Row(k + 1) = <<>> THEN Pushed[k] ELSE Append(Pushed[k], Row(k + 1))
      BY <1>1, <2>1 DEF PushedBody
    <2>3. Row(k + 1) \in W
      BY <2>1
    <2> DEFINE R == Row(k + 1)
               s == Pushed[k]
    <2>4. CASE k + 1 <= n
      <3>1. Done(k) = k /\ Done(k + 1) = k + 1
        BY <1>0, <2>4
      <3>2. Pushed[k + 1] = Append(s, R)
        BY <1>3, <2>1, <2>2, <2>4
      <3>3. s \in Seq(W) /\ R \in W /\ Len(s) = k /\ \A j \in 1 .. k : s[j] = Row(j)
        BY <2>1, <2>3, <3>1
      <3> HIDE DEF W, s, R, Done
      <3>4. /\ Append(s, R) \in Seq(W) /\ Len(Append(s, R)) = k + 1
            /\ \A j \in 1 .. k : Append(s, R)[j] = s[j]
            /\ Append(s, R)[k + 1] = R
        BY <3>3
      <3> HIDE DEF Row
      <3>5. \A j \in 1 .. k + 1 : Append(s, R)[j] = Row(j)
        BY <3>3, <3>4 DEF R
      <3> QED
        BY <3>1, <3>2, <3>4, <3>5
    <2>5. CASE ~(k + 1 <= n)
      <3>1. Done(k) = n /\ Done(k + 1) = n
        BY <1>0, <2>5
      <3>2. Pushed[k + 1] = Pushed[k]
        BY <1>0, <1>2, <2>1, <2>2, <2>5
      <3> HIDE DEF Done, W, Row
      <3> QED
        BY <2>1, <3>1, <3>2
    <2> QED
      BY <2>4, <2>5
  <1> HIDE DEF S
  <1>6. 0 \in S
    BY <1>4 DEF S
  <1>7. \A k \in Nat : k \in S
    BY <1>5, <1>6, Induction
  <1>8. Good(N) /\ Done(N) = n
    <2>1. N \in S
      BY <1>0, <1>7
    <2>2. Done(N) = n
      BY <1>0
    <2> HIDE DEF Good, Done
    <2>3. Good(N)
      BY <2>1, <1>0 DEF S
    <2> QED
      BY <2>2, <2>3
  <1>9. Sections = Pushed[N]
    BY DEF Sections
  <1> HIDE DEF N, W, Done, Row
  <1>10. Sections \in Seq(W) /\ Len(Sections) = n /\ \A j \in 1 .. n : Sections[j] = Row(j)
    BY <1>8, <1>9
  <1>11. DOMAIN Sections = 1 .. n
    BY <1>10
  <1>12. n = 0 => Sections = <<>>
    BY <1>10
  <1> QED
    BY <1>10, <1>11, <1>12 DEF Row

-----------------------------------------------------------------------------
(* What word_sect_all promises of its rows.                                 *)
Segmented(rows) ==
  /\ \A k \in DOMAIN rows : IsSegmentation(rows[k]) /\ Len(rows[1]) <= Len(rows[k])
  /\ \A k, l \in DOMAIN rows : rows[k] = rows[l] => k = l
  /\ (rows # <<>>) = (PathsTo[Last] # {})

(* It keeps it.                                                            *)
LEMMA SectionsAreRight ==
  ASSUME IInv, OutputInv, pc = "done"
  PROVE  Segmented(Sections) /\ Len(Sections) \in Nat /\ (Sections # <<>> <=> Len(Sections) > 0)
  <1> DEFINE n == PathCount
             Words1(p) == [c \in 1 .. Len(p) - 1 |-> <<p[c], p[c + 1]>>]
             sections == Sections
  <1>0. /\ n \in Nat /\ n \in 0 .. MaxSegmentNum /\ MaxSegmentNum \in Nat /\ MaxSegmentNum > 0
        /\ Len(Output) = n /\ DOMAIN Output = 1 .. n
    BY PathCountFacts, OutputFacts, Constants
  <1>1. /\ DOMAIN Sections = 1 .. n /\ Len(Sections) = n
        /\ \A k \in 1 .. n : Sections[k] = Words1(Output[k]) /\ IsPath(Output[k], Last)
    BY <1>0, SectionsAreRoutes, RowIsRoute
  <1>2. Last \in Nat /\ Last # 0
    BY VertexRange, Constants DEF Last
  <1> HIDE DEF n
  <1>3. ASSUME NEW p, IsPath(p, Last)
        PROVE  IsSegmentation(Words1(p)) /\ Len(Words1(p)) = Len(p) - 1
    <2> DEFINE w == Words1(p)
    <2>1. /\ Len(p) \in Nat /\ Len(p) > 1 /\ p[1] = 0 /\ p[Len(p)] = Last
          /\ \A i \in 1 .. Len(p) - 1 : <<p[i], p[i + 1]>> \in edges
      BY <1>2, <1>3 DEF IsPath
    <2>2. /\ DOMAIN w = 1 .. Len(p) - 1
          /\ \A c \in 1 .. Len(p) - 1 : w[c] = <<p[c], p[c + 1]>>
      OBVIOUS
    <2>3. Len(w) = Len(p) - 1
      BY <2>1
    <2> HIDE DEF w
    <2>4. 1 \in DOMAIN w /\ Len(w) \in DOMAIN w /\ Len(w) + 1 = Len(p)
      BY <2>1, <2>2, <2>3
    <2>5. w # <<>>
      BY <2>4
    <2>6. w[1][1] = 0 /\ w[Len(w)][2] = Last
      BY <2>1, <2>2, <2>4
    <2>7. \A c \in DOMAIN w : w[c] \in edges
      BY <2>1, <2>2
    <2>8. \A c \in 1 .. Len(w) - 1 : w[c][2] = w[c + 1][1]
      <3> SUFFICES ASSUME NEW c \in 1 .. Len(w) - 1 PROVE w[c][2] = w[c + 1][1]
        OBVIOUS
      <3>1. c \in 1 .. Len(p) - 1 /\ c + 1 \in 1 .. Len(p) - 1
        BY <2>1, <2>3
      <3> QED
        BY <2>2, <3>1
    <2> QED
      BY <2>3, <2>5, <2>6, <2>7, <2>8 DEF IsSegmentation, w
  <1>4. ASSUME NEW p, NEW q, IsPath(p, Last), IsPath(q, Last), Words1(p) = Words1(q)
        PROVE  p = q
    <2>1. /\ p \in Seq(Vertices) /\ q \in Seq(Vertices)
          /\ Len(p) > 1 /\ Len(q) > 1 /\ p[1] = 0 /\ q[1] = 0
      BY <1>2, <1>4 DEF IsPath
    <2>2. Len(p) = Len(q)
      <3>1. Len(Words1(p)) = Len(p) - 1 /\ Len(Words1(q)) = Len(q) - 1
        BY <1>3, <1>4
      <3> HIDE DEF Words1
      <3> QED
        BY <1>4, <2>1, <3>1
    <2>3. ASSUME NEW i \in 1 .. Len(p) PROVE p[i] = q[i]
      <3>1. CASE i = 1
        BY <2>1, <3>1
      <3>2. CASE i # 1
        <4>1. i - 1 \in 1 .. Len(p) - 1 /\ i - 1 \in 1 .. Len(q) - 1 /\ (i - 1) + 1 = i
          BY <2>1, <2>2, <3>2
        <4>2. Words1(p)[i - 1] = <<p[i - 1], p[i]>> /\ Words1(q)[i - 1] = <<q[i - 1], q[i]>>
          BY <4>1
        <4> HIDE DEF Words1
        <4>3. <<p[i - 1], p[i]>> = <<q[i - 1], q[i]>>
          BY <4>2, <1>4
        <4> QED
          BY <4>3
      <3> QED
        BY <3>1, <3>2
    <2> QED
      BY <2>1, <2>2, <2>3
  <1> HIDE DEF Words1
  <1>5. \A k \in DOMAIN sections : IsSegmentation(sections[k])
    BY <1>1, <1>3
  <1>6. ASSUME NEW k \in DOMAIN sections PROVE Len(sections[1]) <= Len(sections[k])
    <2>1. k \in 1 .. n /\ 1 \in 1 .. n
      BY <1>0, <1>1
    <2>2. /\ sections[1] = Words1(Output[1]) /\ sections[k] = Words1(Output[k])
          /\ IsPath(Output[1], Last) /\ IsPath(Output[k], Last)
      BY <1>1, <2>1
    <2>3. Len(sections[1]) = Len(Output[1]) - 1 /\ Len(sections[k]) = Len(Output[k]) - 1
      BY <1>3, <2>2
    <2>4. Len(Output[1]) \in Nat /\ Len(Output[k]) \in Nat
      BY <1>2, <2>2 DEF IsPath
    <2>5. Len(Output[1]) <= Len(Output[k])
      <3>1. CASE k = 1
        BY <2>4, <3>1
      <3>2. CASE k # 1
        <4>1. 1 < k
          BY <1>0, <2>1, <3>2
        <4> QED
          BY <4>1, <2>1, <1>0, OutputInvIsEnough DEF OutputIsShortest
      <3> QED
        BY <3>1, <3>2
    <2> QED
      BY <2>3, <2>4, <2>5
  <1>7. ASSUME NEW k \in DOMAIN sections, NEW l \in DOMAIN sections, sections[k] = sections[l]
        PROVE  k = l
    <2>1. k \in 1 .. n /\ l \in 1 .. n
      BY <1>1
    <2>2. Words1(Output[k]) = Words1(Output[l]) /\ IsPath(Output[k], Last) /\ IsPath(Output[l], Last)
      BY <1>1, <1>7, <2>1
    <2>3. Output[k] = Output[l]
      BY <1>4, <2>2
    <2> QED
      BY <2>1, <2>3, RoutesDiffer DEF n
  <1>8. sections # <<>> <=> n > 0
    <2>1. CASE n = 0
      <3>1. sections = <<>>
        BY <1>1, <2>1, SectionsAreRoutes
      <3> QED
        BY <3>1, <2>1
    <2>2. CASE n # 0
      <3>1. 1 \in DOMAIN sections
        BY <1>0, <1>1, <2>2
      <3> QED
        BY <3>1, <2>2, <1>0
    <2> QED
      BY <2>1, <2>2
  <1>9. n > 0 <=> PathsTo[Last] # {}
    <2> DEFINE found == {Output[k] : k \in DOMAIN Output}
    <2>1. found \subseteq PathsTo[Last] /\ (n < MaxSegmentNum => found = PathsTo[Last])
      BY <1>0, OutputInvIsEnough DEF OutputIsShortest
    <2>2. n = 0 <=> found = {}
      <3>1. CASE n = 0
        BY <1>0, <3>1
      <3>2. CASE n # 0
        <4>1. 1 \in DOMAIN Output
          BY <1>0, <3>2
        <4>2. Output[1] \in found
          BY <4>1
        <4> QED
          BY <3>2, <4>2
      <3> QED
        BY <3>1, <3>2
    <2> HIDE DEF found
    <2> QED
      BY <2>1, <2>2, <1>0
  <1> HIDE DEF sections
  <1>10. Segmented(sections)
    BY <1>5, <1>6, <1>7, <1>8, <1>9 DEF Segmented
  <1> QED
    BY <1>0, <1>1, <1>8, <1>10 DEF sections

-----------------------------------------------------------------------------
(* The word net stays, and so do its paths.                                *)
LEMMA PathStepsNext ==
  TypeOK' =>
    (/\ PathsTo[0] = {<<0>>}
     /\ \A v \in Vertices \ {0} : \A p :
          p \in PathsTo[v] <=>
            \E u \in Vertices : <<u, v>> \in edges /\ \E q \in PathsTo[u] : p = Append(q, v))'
  BY PathSteps, PTL

(* By induction along the text.                                            *)
LEMMA PathsStay ==
  ASSUME TypeOK, TypeOK', edges' = edges
  PROVE  \A v \in Vertices : PathsTo'[v] = PathsTo[v]
  <1> DEFINE S == {v \in Nat : \A u \in Vertices : u <= v => PathsTo'[u] = PathsTo[u]}
  <1>0. \A v \in Vertices : v \in Nat
    BY Constants DEF Vertices
  <1>1. 0 \in S
    <2>1. PathsTo[0] = {<<0>>} /\ PathsTo'[0] = {<<0>>}
      BY PathSteps, PathStepsNext
    <2>2. \A u \in Vertices : u <= 0 => u = 0
      BY <1>0
    <2> QED
      BY <2>1, <2>2
  <1>2. ASSUME NEW n \in Nat, n \in S PROVE n + 1 \in S
    <2> SUFFICES ASSUME NEW v \in Vertices, v = n + 1 PROVE PathsTo'[v] = PathsTo[v]
      BY <1>0, <1>2
    <2>1. v # 0
      BY <1>0
    <2>2. ASSUME NEW u \in Vertices, <<u, v>> \in edges PROVE PathsTo'[u] = PathsTo[u]
      <3>1. u <= n
        BY <2>2, <1>0, EdgesGoForward
      <3> QED
        BY <3>1, <1>2
    <2> HIDE DEF S
    <2>3. \A p : p \in PathsTo[v] <=>
                   \E u \in Vertices : <<u, v>> \in edges /\ \E q \in PathsTo[u] : p = Append(q, v)
      BY <2>1, PathSteps
    <2>4. \A p : p \in PathsTo'[v] <=>
                   \E u \in Vertices : <<u, v>> \in edges /\ \E q \in PathsTo'[u] : p = Append(q, v)
      BY <2>1, PathStepsNext
    <2>5. ASSUME NEW p, p \in PathsTo'[v] PROVE p \in PathsTo[v]
      <3>1. PICK u \in Vertices : <<u, v>> \in edges /\ \E q \in PathsTo'[u] : p = Append(q, v)
        BY <2>4, <2>5
      <3>2. PathsTo'[u] = PathsTo[u]
        BY <2>2, <3>1
      <3> QED
        BY <2>3, <3>1, <3>2
    <2>6. ASSUME NEW p, p \in PathsTo[v] PROVE p \in PathsTo'[v]
      <3>1. PICK u \in Vertices : <<u, v>> \in edges /\ \E q \in PathsTo[u] : p = Append(q, v)
        BY <2>3, <2>6
      <3>2. PathsTo'[u] = PathsTo[u]
        BY <2>2, <3>1
      <3> QED
        BY <2>4, <3>1, <3>2
    <2> QED
      BY <2>5, <2>6
  <1> HIDE DEF S
  <1>3. \A n \in Nat : n \in S
    BY <1>1, <1>2, Induction
  <1> QED
    BY <1>0, <1>3 DEF S

(* word_sect_all cuts after ShortPath has returned, once.                  *)
CutInv == SectionsCoverText /\ (returned # "no" => pc = "done")

(* Every step of a call keeps it.                                          *)
LEMMA AllNextPreservesCutInv ==
  ASSUME IInv, OutputInv, IInv', CutInv, [AllNext]_allVars
  PROVE  CutInv'
  <1>0. Last \in Vertices /\ TypeOK /\ TypeOK'
    BY VertexRange DEF IInv
  <1>1. CASE Next /\ UNCHANGED <<py, fpy, returned>>
    <2>1. pc = "run"
      BY <1>1 DEF Next, Settle, Stop
    <2>2. returned = "no"
      BY <2>1 DEF CutInv
    <2> QED
      BY <1>1, <2>2 DEF CutInv, SectionsCoverText
  <1>2. CASE Cut
    <2>1. /\ pc = "done" /\ py' = Sections /\ edges' = edges /\ pc' = pc
          /\ returned' = IF Len(py') > 0 THEN "true" ELSE "false"
      BY <1>2 DEF Cut, vars
    <2>2. Segmented(Sections) /\ (Sections # <<>> <=> Len(Sections) > 0)
      BY <2>1, SectionsAreRight
    <2>3. (returned' = "true") = (py' # <<>>)
      BY <2>1, <2>2
    <2>4. PathsTo'[Last] = PathsTo[Last]
      BY <1>0, <2>1, PathsStay
    <2>5. \A k \in DOMAIN py' : /\ py'[k] # <<>>
                                /\ py'[k][1][1] = 0 /\ py'[k][Len(py'[k])][2] = Last
                                /\ \A c \in DOMAIN py'[k] : py'[k][c] \in edges'
                                /\ \A c \in 1 .. Len(py'[k]) - 1 : py'[k][c][2] = py'[k][c + 1][1]
      BY <2>1, <2>2 DEF Segmented, IsSegmentation
    <2>6. \A k \in DOMAIN py' : Len(py'[1]) <= Len(py'[k])
      BY <2>1, <2>2 DEF Segmented
    <2>7. \A k, l \in DOMAIN py' : py'[k] = py'[l] => k = l
      BY <2>1, <2>2 DEF Segmented
    <2>8. (py' # <<>>) = (PathsTo'[Last] # {})
      BY <2>1, <2>2, <2>4 DEF Segmented
    <2>9. (returned' = "true") = (PathsTo'[Last] # {})
      BY <2>3, <2>8
    <2>10. (\A k \in DOMAIN py : IsSegmentation(py[k]) /\ Len(py[1]) <= Len(py[k]))'
      BY <2>5, <2>6 DEF IsSegmentation
    <2>11. SectionsCoverText'
      BY <2>3, <2>7, <2>9, <2>10, Zenon DEF SectionsCoverText
    <2> QED
      BY <2>1, <2>11 DEF CutInv
  <1>3. CASE UNCHANGED allVars
    <2>1. edges' = edges /\ pc' = pc /\ py' = py /\ returned' = returned
      BY <1>3 DEF allVars, vars
    <2>2. PathsTo'[Last] = PathsTo[Last]
      BY <1>0, <2>1, PathsStay
    <2>3. ASSUME NEW w, IsSegmentation(w) PROVE IsSegmentation(w)'
      BY <2>1, <2>3 DEF IsSegmentation
    <2> QED
      BY <2>1, <2>2, <2>3 DEF CutInv, SectionsCoverText
  <1> QED
    BY <1>1, <1>2, <1>3 DEF AllNext

(* A call of word_sect_all is one of ShortPath, and Cut.                   *)
LEMMA AllSpecImpliesSpec == AllSpec => Spec
  <1>1. AllInit => Init
    BY DEF AllInit
  <1>2. [AllNext]_allVars => [Next]_vars
    BY DEF AllNext, Cut, allVars
  <1> QED
    BY <1>1, <1>2, PTL DEF AllSpec, Spec

(***************************************************************************)
(* What word_sect_all returns, word_segment.cpp 235 to 309: segmentations  *)
(* of the whole text into words of the dictionary, all different, the      *)
(* shortest first, and true exactly if there is one; for every text and    *)
(* dictionary, while the rows hold every route.                            *)
(***************************************************************************)
THEOREM SegmentationsCoverText == AllSpec => []SectionsCoverText
  <1>1. AllInit => CutInv
    BY DEF AllInit, CutInv, SectionsCoverText
  <1>2. AllSpec => [](IInv /\ OutputInv)
    BY AllSpecImpliesSpec, OutputInvariance, PTL
  <1>3. IInv /\ OutputInv /\ (IInv /\ OutputInv)' /\ CutInv /\ [AllNext]_allVars => CutInv'
    BY AllNextPreservesCutInv
  <1>4. CutInv => SectionsCoverText
    BY DEF CutInv
  <1> QED
    BY <1>1, <1>2, <1>3, <1>4, PTL DEF AllSpec

-----------------------------------------------------------------------------
(***************************************************************************)
(* AllPaths: the walk with two stacks.  What is on the buffer stands for   *)
(* routes not yet walked: the place, behind what the path keeps under it.  *)
(* No two of them begin the same segmentation, and each segmentation is    *)
(* either printed or begins with one of them.                              *)
(***************************************************************************)
CONSTANT TextLen
VARIABLES node, stack_buffer, stack_path, str_all
All == INSTANCE AllPaths

(* Places of N that follow each other from 0 on.                           *)

Joins(N, c) ==
  /\ N \subseteq All!Places /\ c \in Seq(N)
  /\ c # <<>> => c[1][1] = 0
  /\ All!Joined(c)
(* What p on the buffer stands for.                                        *)
Held(path, p) == Append(All!Kept(path, p), p)
Begins(q, c) == Len(q) <= Len(c) /\ \A k \in 1 .. Len(q) : c[k] = q[k]
(* A segmentation of the text.                                             *)
IsWhole(N, c) == Joins(N, c) /\ c # <<>> /\ c[Len(c)][2] = TextLen
Listed(s, c) == \E i \in 1 .. Len(s) : s[i] = c

LEMMA PlacesAre ==
  ASSUME All!AllPathsAssumption, NEW N, N \subseteq All!Places, NEW p \in N
  PROVE  /\ p[1] \in Nat /\ p[2] \in Nat /\ p[1] < p[2] /\ p[2] <= TextLen /\ p = <<p[1], p[2]>>
         /\ TextLen \in Nat
  BY DEF All!AllPathsAssumption, All!Places

LEMMA JoinsUp ==
  ASSUME All!AllPathsAssumption, NEW N, NEW c, Joins(N, c),
         NEW i \in 1 .. Len(c), NEW j \in 1 .. Len(c), i < j
  PROVE  c[i][2] <= c[j][1] /\ c[i][2] < c[j][2]
  <1> DEFINE I == {n \in Nat : i + 1 + n <= Len(c) => c[i][2] <= c[i + 1 + n][1]}
  <1>1. c \in Seq(N) /\ N \subseteq All!Places /\ Len(c) \in Nat
    BY DEF Joins
  <1>2. 0 \in I
    <2>1. SUFFICES ASSUME i + 1 <= Len(c) PROVE c[i][2] <= c[i + 1][1]
      OBVIOUS
    <2>2. i \in 1 .. Len(c) - 1 /\ i \in 1 .. Len(c)
      BY <1>1, <2>1
    <2>3. c[i][2] = c[i + 1][1]
      BY <2>2 DEF Joins, All!Joined
    <2>4. c[i] \in N
      BY <1>1, <2>2
    <2>5. c[i][2] \in Nat
      BY <1>1, <2>4, PlacesAre
    <2> QED
      BY <2>3, <2>5
  <1>3. ASSUME NEW n \in Nat, n \in I PROVE n + 1 \in I
    <2>1. SUFFICES ASSUME i + 1 + (n + 1) <= Len(c) PROVE c[i][2] <= c[i + 1 + (n + 1)][1]
      OBVIOUS
    <2> DEFINE k == i + 1 + n
    <2>2. k \in 1 .. Len(c) - 1 /\ k \in 1 .. Len(c) /\ i + 1 + (n + 1) = k + 1
      BY <1>1, <2>1
    <2>3. c[i][2] <= c[k][1]
      BY <1>3, <2>2
    <2>4. c[k][2] = c[k + 1][1]
      BY <2>2 DEF Joins, All!Joined
    <2>5. c[k] \in N /\ c[i] \in N
      BY <1>1, <2>2
    <2>6. c[k][1] \in Nat /\ c[k][2] \in Nat /\ c[k][1] < c[k][2] /\ c[i][2] \in Nat
      BY <1>1, <2>5, PlacesAre
    <2> QED
      BY <2>2, <2>3, <2>4, <2>6
  <1> HIDE DEF I
  <1>4. \A n \in Nat : n \in I
    BY <1>2, <1>3, Induction
  <1>5. j - i - 1 \in Nat /\ i + 1 + (j - i - 1) = j
    BY <1>1
  <1>6. c[i][2] <= c[j][1]
    <2> DEFINE n == j - i - 1
    <2>1. n \in Nat /\ i + 1 + n = j /\ j <= Len(c)
      BY <1>1, <1>5
    <2>2. i + 1 + n <= Len(c) => c[i][2] <= c[i + 1 + n][1]
      BY <1>4, <2>1 DEF I
    <2> HIDE DEF n
    <2> QED
      BY <2>1, <2>2
  <1>7. c[i] \in N /\ c[j] \in N
    BY <1>1
  <1>8. c[i][2] \in Nat /\ c[j][1] \in Nat /\ c[j][2] \in Nat /\ c[j][1] < c[j][2]
    BY <1>1, <1>7, PlacesAre
  <1> QED
    BY <1>6, <1>8

(* What Kept keeps: the first n words, when those end before the place     *)
(* and the others do not.                                                  *)
LEMMA KeptIs ==
  ASSUME NEW path, NEW M, path \in Seq(M), NEW p, NEW n \in 0 .. Len(path),
         \A k \in 1 .. n : path[k][2] < p[2],
         \A k \in n + 1 .. Len(path) : ~(path[k][2] < p[2])
  PROVE  All!Kept(path, p) = SubSeq(path, 1, n)
  <1> DEFINE S == {k \in 1 .. Len(path) : path[k][2] < p[2]}
  <1>1. n \in S \union {0} /\ \A k \in S \union {0} : k <= n
    <2>1. Len(path) \in Nat
      OBVIOUS
    <2>2. n = 0 \/ n \in 1 .. n
      OBVIOUS
    <2> QED
      BY <2>1, <2>2
  <1>2. S \union {0} \subseteq Nat
    OBVIOUS
  <1> DEFINE Z == S \union {0}
  <1>3. All!Kept(path, p) = SubSeq(path, 1, All!Max(Z))
    BY DEF All!Kept, All!UpToLast
  <1> HIDE DEF S, Z
  <1>4. All!Max(Z) = n
    <2>1. \A x \in Z : n >= x
      BY <1>1, <1>2 DEF Z
    <2>2. n \in Z
      BY <1>1 DEF Z
    <2>3. All!Max(Z) \in Z /\ \A x \in Z : All!Max(Z) >= x
      BY <2>1, <2>2 DEF All!Max
    <2>4. All!Max(Z) >= n /\ n >= All!Max(Z) /\ All!Max(Z) \in Nat
      BY <1>2, <2>1, <2>2, <2>3 DEF Z
    <2> QED
      BY <2>4
  <1> QED
    BY <1>3, <1>4

LEMMA KeptOf ==
  ASSUME All!AllPathsAssumption, NEW N, NEW path, Joins(N, path), NEW p \in All!Places
  PROVE  \E n \in 0 .. Len(path) :
           /\ All!Kept(path, p) = SubSeq(path, 1, n)
           /\ \A k \in 1 .. n : path[k][2] < p[2]
           /\ \A k \in n + 1 .. Len(path) : ~(path[k][2] < p[2])
  <1> DEFINE R == {m \in 0 .. Len(path) : \A k \in m + 1 .. Len(path) : ~(path[k][2] < p[2])}
  <1>1. path \in Seq(N) /\ N \subseteq All!Places /\ Len(path) \in Nat
    BY DEF Joins
  <1>2. R \subseteq Nat /\ R # {} /\ \A m \in R : m \in 0 .. Len(path)
    <2>1. Len(path) \in R
      BY <1>1
    <2> QED
      BY <2>1
  <1>3. PICK n \in R : \A m \in R : n <= m
    <2> HIDE DEF R
    <2> QED
      BY <1>2, Least
  <1>4. ASSUME NEW k \in 1 .. n PROVE path[k][2] < p[2]
    <2>1. n \in 1 .. Len(path) /\ k \in 1 .. Len(path) /\ n - 1 \in 0 .. Len(path)
      BY <1>1, <1>3
    <2>2. n - 1 \notin R
      BY <1>3, <2>1
    <2>3. PICK i \in n .. Len(path) : path[i][2] < p[2]
      BY <2>1, <2>2
    <2>4. i = n
      <3>1. i \notin n + 1 .. Len(path)
        BY <1>3, <2>3
      <3> QED
        BY <1>1, <2>1, <2>3, <3>1
    <2>5. path[k][2] <= path[n][2]
      <3>1. CASE k = n
        <4>1. path[n] \in N
          BY <1>1, <2>1
        <4>2. path[n][2] \in Nat
          BY <1>1, <4>1, PlacesAre
        <4> QED
          BY <3>1, <4>2
      <3>2. CASE k # n
        <4>1. k < n
          BY <2>1, <3>2
        <4>2. path[k][2] < path[n][2]
          BY <2>1, <4>1, JoinsUp
        <4>3. path[k] \in N /\ path[n] \in N
          BY <1>1, <2>1
        <4>4. path[k][2] \in Nat /\ path[n][2] \in Nat
          BY <1>1, <4>3, PlacesAre
        <4> QED
          BY <4>2, <4>4
      <3> QED
        BY <3>1, <3>2
    <2>6. path[k] \in N /\ path[n] \in N
      BY <1>1, <2>1
    <2>7. path[k][2] \in Nat /\ path[n][2] \in Nat /\ p[2] \in Nat
      BY <1>1, <2>6, PlacesAre
    <2> QED
      BY <2>3, <2>4, <2>5, <2>7
  <1>5. \A k \in n + 1 .. Len(path) : ~(path[k][2] < p[2])
    BY <1>3
  <1>6. n \in 0 .. Len(path)
    BY <1>3
  <1> HIDE DEF R
  <1>7. All!Kept(path, p) = SubSeq(path, 1, n)
    BY <1>1, <1>4, <1>5, <1>6, KeptIs
  <1> QED
    BY <1>4, <1>5, <1>6, <1>7

LEMMA FrontPart ==
  ASSUME NEW M, NEW c \in Seq(M), NEW n \in 0 .. Len(c)
  PROVE  /\ SubSeq(c, 1, n) \in Seq(M) /\ Len(SubSeq(c, 1, n)) = n
         /\ \A k \in 1 .. n : SubSeq(c, 1, n)[k] = c[k]
  OBVIOUS

LEMMA FrontJoins ==
  ASSUME NEW N, NEW c, Joins(N, c), NEW n \in 0 .. Len(c)
  PROVE  Joins(N, SubSeq(c, 1, n))
  <1> DEFINE d == SubSeq(c, 1, n)
  <1>1. c \in Seq(N) /\ Len(c) \in Nat
    BY DEF Joins
  <1>2. d \in Seq(N) /\ Len(d) = n /\ \A k \in 1 .. n : d[k] = c[k]
    BY <1>1, FrontPart
  <1> HIDE DEF d
  <1>3. d # <<>> => d[1][1] = 0
    <2>1. SUFFICES ASSUME d # <<>> PROVE d[1][1] = 0
      OBVIOUS
    <2>2. 1 \in 1 .. n /\ c # <<>>
      BY <1>1, <1>2, <2>1
    <2> QED
      BY <1>2, <2>2 DEF Joins
  <1>4. All!Joined(d)
    <2>1. SUFFICES ASSUME NEW k \in 1 .. Len(d) - 1 PROVE d[k][2] = d[k + 1][1]
      BY DEF All!Joined
    <2>2. k \in 1 .. n /\ k + 1 \in 1 .. n /\ k \in 1 .. Len(c) - 1
      BY <1>1, <1>2
    <2> QED
      BY <1>2, <2>2 DEF Joins, All!Joined
  <1> QED
    BY <1>2, <1>3, <1>4 DEF Joins, d

LEMMA BackJoins ==
  ASSUME NEW N, NEW c, Joins(N, c), NEW p \in N,
         p[1] = IF c = <<>> THEN 0 ELSE c[Len(c)][2]
  PROVE  Joins(N, Append(c, p))
  <1> DEFINE d == Append(c, p)
  <1>1. c \in Seq(N) /\ Len(c) \in Nat
    BY DEF Joins
  <1>2. /\ d \in Seq(N) /\ Len(d) = Len(c) + 1 /\ d[Len(c) + 1] = p
        /\ \A k \in 1 .. Len(c) : d[k] = c[k]
    BY <1>1
  <1> HIDE DEF d
  <1>3. d[1][1] = 0
    <2>1. CASE c = <<>>
      BY <1>2, <2>1
    <2>2. CASE c # <<>>
      <3>1. 1 \in 1 .. Len(c)
        BY <1>1, <2>2
      <3> QED
        BY <1>2, <2>2, <3>1 DEF Joins
    <2> QED
      BY <2>1, <2>2
  <1>4. All!Joined(d)
    <2>1. SUFFICES ASSUME NEW k \in 1 .. Len(d) - 1 PROVE d[k][2] = d[k + 1][1]
      BY DEF All!Joined
    <2>2. k \in 1 .. Len(c)
      BY <1>1, <1>2
    <2>3. CASE k = Len(c)
      <3>1. c # <<>>
        BY <1>1, <2>2
      <3> QED
        BY <1>2, <2>2, <2>3, <3>1
    <2>4. CASE k # Len(c)
      <3>1. k \in 1 .. Len(c) - 1 /\ k + 1 \in 1 .. Len(c)
        BY <1>1, <2>2, <2>4
      <3>2. c[k][2] = c[k + 1][1]
        BY <3>1 DEF Joins, All!Joined
      <3> QED
        BY <1>2, <2>2, <3>1, <3>2
    <2> QED
      BY <2>3, <2>4
  <1> QED
    BY <1>2, <1>3, <1>4 DEF Joins, d

(* What p stands for: the first n words of the path, and p.                *)
IsHeld(N, path, p, n) ==
  /\ All!Kept(path, p) = SubSeq(path, 1, n)
  /\ Held(path, p) \in Seq(N) /\ Len(Held(path, p)) = n + 1 /\ Held(path, p)[n + 1] = p
  /\ \A k \in 1 .. n : Held(path, p)[k] = path[k] /\ path[k][2] < p[2]
  /\ \A k \in n + 1 .. Len(path) : ~(path[k][2] < p[2])

LEMMA HeldOf ==
  ASSUME All!AllPathsAssumption, NEW N, NEW path, Joins(N, path), NEW p \in N
  PROVE  \E n \in 0 .. Len(path) : IsHeld(N, path, p, n)
  <1>1. path \in Seq(N) /\ N \subseteq All!Places /\ Len(path) \in Nat
    BY DEF Joins
  <1>2. PICK n \in 0 .. Len(path) :
           /\ All!Kept(path, p) = SubSeq(path, 1, n)
           /\ \A k \in 1 .. n : path[k][2] < p[2]
           /\ \A k \in n + 1 .. Len(path) : ~(path[k][2] < p[2])
    BY <1>1, KeptOf
  <1> DEFINE d == SubSeq(path, 1, n)
  <1>3. d \in Seq(N) /\ Len(d) = n /\ \A k \in 1 .. n : d[k] = path[k]
    BY <1>1, FrontPart
  <1>4. Held(path, p) = Append(d, p)
    BY <1>2 DEF Held
  <1> HIDE DEF d
  <1>5. /\ Append(d, p) \in Seq(N) /\ Len(Append(d, p)) = n + 1 /\ Append(d, p)[n + 1] = p
        /\ \A k \in 1 .. n : Append(d, p)[k] = d[k]
    BY <1>3
  <1>6. IsHeld(N, path, p, n)
    BY <1>2, <1>3, <1>4, <1>5 DEF IsHeld
  <1> QED
    BY <1>6

(* A place that ends before p keeps the same words, whether p stays on the *)
(* path or not.                                                            *)
LEMMA HeldSame ==
  ASSUME All!AllPathsAssumption, NEW N, NEW path, Joins(N, path), NEW p \in N, NEW u \in N, u[2] < p[2],
         NEW after \in {Held(path, p), All!Kept(path, p)}
  PROVE  Held(after, u) = Held(path, u)
  <1>1. path \in Seq(N) /\ N \subseteq All!Places /\ Len(path) \in Nat
    BY DEF Joins
  <1>2a. PICK n \in 0 .. Len(path) : IsHeld(N, path, p, n)
    BY HeldOf
  <1>2. /\ All!Kept(path, p) = SubSeq(path, 1, n)
        /\ Held(path, p) \in Seq(N) /\ Len(Held(path, p)) = n + 1 /\ Held(path, p)[n + 1] = p
        /\ \A k \in 1 .. n : Held(path, p)[k] = path[k] /\ path[k][2] < p[2]
        /\ \A k \in n + 1 .. Len(path) : ~(path[k][2] < p[2])
    BY <1>2a DEF IsHeld
  <1>3. PICK m \in 0 .. Len(path) :
           /\ All!Kept(path, u) = SubSeq(path, 1, m)
           /\ \A k \in 1 .. m : path[k][2] < u[2]
           /\ \A k \in m + 1 .. Len(path) : ~(path[k][2] < u[2])
    BY <1>1, KeptOf
  <1>4. \A k \in 1 .. Len(path) : path[k][2] \in Nat
    <2>1. \A k \in 1 .. Len(path) : path[k] \in N
      BY <1>1
    <2> QED
      BY <1>1, <2>1, PlacesAre
  <1>5. u[2] \in Nat /\ p[2] \in Nat
    BY <1>1, PlacesAre
  <1>6. m <= n
    <2>1. SUFFICES ASSUME n < m PROVE FALSE
      BY <1>1
    <2>2. m \in 1 .. m /\ m \in n + 1 .. Len(path) /\ m \in 1 .. Len(path)
      BY <1>1, <2>1
    <2>3. path[m][2] < u[2] /\ ~(path[m][2] < p[2]) /\ path[m][2] \in Nat
      BY <1>2, <1>3, <1>4, <2>2
    <2> QED
      BY <1>5, <2>3
  <1>7. /\ after \in Seq(N) /\ Len(after) \in n .. n + 1
        /\ \A k \in 1 .. n : after[k] = path[k]
        /\ n + 1 <= Len(after) => after[n + 1] = p
    <2>1. /\ SubSeq(path, 1, n) \in Seq(N) /\ Len(SubSeq(path, 1, n)) = n
          /\ \A k \in 1 .. n : SubSeq(path, 1, n)[k] = path[k]
      BY <1>1, FrontPart
    <2>2. CASE after = Held(path, p)
      BY <1>2, <2>2
    <2>3. CASE after = All!Kept(path, p)
      BY <1>2, <2>1, <2>3
    <2> QED
      BY <2>2, <2>3
  <1>8. m \in 0 .. Len(after)
    BY <1>6, <1>7
  <1>9. \A k \in 1 .. m : after[k][2] < u[2]
    <2>1. \A k \in 1 .. m : k \in 1 .. n
      BY <1>6
    <2> QED
      BY <1>3, <1>7, <2>1
  <1>10. ASSUME NEW k \in m + 1 .. Len(after) PROVE ~(after[k][2] < u[2])
    <2>1. CASE k <= n
      <3>1. k \in 1 .. n /\ k \in m + 1 .. Len(path)
        BY <1>1, <2>1
      <3> QED
        BY <1>3, <1>7, <3>1
    <2>2. CASE ~(k <= n)
      <3>1. k = n + 1 /\ n + 1 <= Len(after)
        BY <1>7, <2>2
      <3>2. after[k] = p
        BY <1>7, <3>1
      <3> QED
        BY <1>5, <3>2
    <2> QED
      BY <2>1, <2>2
  <1>11. All!Kept(after, u) = SubSeq(after, 1, m)
    BY <1>7, <1>8, <1>9, <1>10, KeptIs
  <1>12. SubSeq(after, 1, m) = SubSeq(path, 1, m)
    <2>1. \A k \in 1 .. m : after[k] = path[k]
      <3>1. \A k \in 1 .. m : k \in 1 .. n
        BY <1>6
      <3> QED
        BY <1>7, <3>1
    <2> DEFINE x == SubSeq(after, 1, m)
               y == SubSeq(path, 1, m)
    <2>2. x \in Seq(N) /\ Len(x) = m /\ \A k \in 1 .. m : x[k] = after[k]
      BY <1>7, <1>8, FrontPart
    <2>3. y \in Seq(N) /\ Len(y) = m /\ \A k \in 1 .. m : y[k] = path[k]
      BY <1>1, FrontPart
    <2> HIDE DEF x, y
    <2>4. x = y
      BY <2>1, <2>2, <2>3
    <2> QED
      BY <2>4 DEF x, y
  <1> QED
    BY <1>3, <1>11, <1>12 DEF Held

(* A place that begins where the path ends keeps all of it.                *)
LEMMA HeldNext ==
  ASSUME All!AllPathsAssumption, NEW N, NEW c, Joins(N, c), c # <<>>, NEW p \in N, p[1] = c[Len(c)][2]
  PROVE  /\ Held(c, p) = Append(c, p) /\ Joins(N, Append(c, p))
         /\ \A k \in 1 .. Len(c) : c[k][2] < p[2]
  <1>1. c \in Seq(N) /\ N \subseteq All!Places /\ Len(c) \in Nat /\ Len(c) # 0
    BY DEF Joins
  <1>2. ASSUME NEW k \in 1 .. Len(c) PROVE c[k][2] < p[2]
    <2>1. Len(c) \in 1 .. Len(c)
      BY <1>1
    <2>2. c[k] \in N /\ c[Len(c)] \in N
      BY <1>1, <2>1
    <2>3. c[k][2] \in Nat /\ c[Len(c)][2] \in Nat /\ p[1] \in Nat /\ p[2] \in Nat /\ p[1] < p[2]
      BY <1>1, <2>2, PlacesAre
    <2>4. k = Len(c) \/ c[k][2] < c[Len(c)][2]
      <3>1. k = Len(c) \/ k < Len(c)
        BY <1>1
      <3> QED
        BY <2>1, <3>1, JoinsUp
    <2> QED
      BY <2>3, <2>4
  <1>3. All!Kept(c, p) = SubSeq(c, 1, Len(c))
    <2>1. Len(c) \in 0 .. Len(c) /\ \A k \in Len(c) + 1 .. Len(c) : ~(c[k][2] < p[2])
      BY <1>1
    <2> QED
      BY <1>1, <1>2, <2>1, KeptIs
  <1>4. SubSeq(c, 1, Len(c)) = c
    <2> DEFINE d == SubSeq(c, 1, Len(c))
    <2>1. d \in Seq(N) /\ Len(d) = Len(c) /\ \A k \in 1 .. Len(c) : d[k] = c[k]
      <3>1. Len(c) \in 0 .. Len(c)
        BY <1>1
      <3> QED
        BY <1>1, <3>1, FrontPart
    <2> HIDE DEF d
    <2>2. d = c
      BY <1>1, <2>1
    <2> QED
      BY <2>2 DEF d
  <1>5. Joins(N, Append(c, p))
    BY BackJoins
  <1> QED
    BY <1>2, <1>3, <1>4, <1>5 DEF Held


(***************************************************************************)
(* The walk: N the places, B the buffer, P the path, S what is printed.    *)
(***************************************************************************)
Raised(B) == \A i, j \in 1 .. Len(B) : i < j => B[i][2] < B[j][2]
Untried(P, B) == \A j \in 1 .. Len(B), k \in 1 .. Len(P) : P[k] # B[j]
Awaited(P, B, c) == \E j \in 1 .. Len(B) : Begins(Held(P, B[j]), c)
Stacks(N, B, P) ==
  /\ N \subseteq All!Places /\ B \in Seq(N) /\ Joins(N, P)
  /\ Raised(B) /\ Untried(P, B)
  /\ \A j \in 1 .. Len(B) : Joins(N, Held(P, B[j]))
Walk(N, B, P, S) ==
  /\ Stacks(N, B, P) /\ S \in Seq(Seq(N))
  /\ \A i \in 1 .. Len(S) : IsWhole(N, S[i])
  /\ \A i, j \in 1 .. Len(S) : S[i] = S[j] => i = j
  /\ \A c : IsWhole(N, c) => (Listed(S, c) <=> ~ Awaited(P, B, c))

(* The places from b, as they are pushed.                                  *)
Follow(N, b, f) == f \in Seq(N) /\ Raised(f) /\ \A i \in 1 .. Len(f) : f[i][1] = b
IsFrom(N, b, f) ==
  /\ Follow(N, b, f)
  /\ \A p \in N : p[1] = b => \E i \in 1 .. Len(f) : f[i] = p

(* No segmentation begins with what two places on the buffer stand for.    *)
LEMMA OneBegins ==
  ASSUME All!AllPathsAssumption, NEW N, NEW B, NEW P, Stacks(N, B, P),
         NEW i \in 1 .. Len(B), NEW j \in 1 .. Len(B), i < j, NEW c, Joins(N, c),
         Begins(Held(P, B[i]), c), Begins(Held(P, B[j]), c)
  PROVE  FALSE
  <1>1. /\ N \subseteq All!Places /\ B \in Seq(N) /\ Joins(N, P) /\ P \in Seq(N) /\ c \in Seq(N)
        /\ Len(c) \in Nat /\ Len(P) \in Nat
    BY DEF Stacks, Joins
  <1> DEFINE x == B[i]
             y == B[j]
  <1>2. x \in N /\ y \in N /\ x[2] < y[2] /\ \A k \in 1 .. Len(P) : P[k] # x
    BY <1>1 DEF Stacks, Raised, Untried
  <1>3. Begins(Held(P, x), c) /\ Begins(Held(P, y), c)
    OBVIOUS
  <1> HIDE DEF x, y
  <1>4. PICK m \in 0 .. Len(P) : IsHeld(N, P, x, m)
    BY <1>1, <1>2, HeldOf
  <1>5. PICK n \in 0 .. Len(P) : IsHeld(N, P, y, n)
    BY <1>1, <1>2, HeldOf
  <1>6. m + 1 <= Len(c) /\ c[m + 1] = x
    <2>1. m + 1 \in 1 .. m + 1
      OBVIOUS
    <2> QED
      BY <1>3, <1>4, <2>1 DEF Begins, IsHeld
  <1>7. n + 1 <= Len(c) /\ c[n + 1] = y /\ \A k \in 1 .. n : c[k] = P[k]
    <2>1. n + 1 \in 1 .. n + 1 /\ \A k \in 1 .. n : k \in 1 .. n + 1
      OBVIOUS
    <2> QED
      BY <1>3, <1>5, <2>1 DEF Begins, IsHeld
  <1>8. x[2] \in Nat /\ y[2] \in Nat
    BY <1>1, <1>2, PlacesAre
  <1>9. m + 1 \in 1 .. Len(c) /\ n + 1 \in 1 .. Len(c)
    BY <1>1, <1>6, <1>7
  <1>10. ~(n < m)
    <2>1. SUFFICES ASSUME n < m PROVE FALSE
      OBVIOUS
    <2>2. n + 1 < m + 1
      BY <2>1
    <2>3. c[n + 1][2] < c[m + 1][2]
      BY <1>9, <2>2, JoinsUp
    <2> QED
      BY <1>2, <1>6, <1>7, <1>8, <2>3
  <1>11. n # m
    BY <1>2, <1>6, <1>7, <1>8
  <1>12. m + 1 \in 1 .. n /\ m + 1 \in 1 .. Len(P)
    BY <1>1, <1>10, <1>11
  <1> QED
    BY <1>2, <1>6, <1>7, <1>12

(* The path when p was tried, and what follows it, f, was put on the       *)
(* buffer.                                                                 *)
Left(P, p, f) == IF f # <<>> THEN Held(P, p) ELSE All!Kept(P, p)

(***************************************************************************)
(* The place val on top is tried: it comes off, the places behind it come  *)
(* on, and val stays on the path if there are any.                         *)
(***************************************************************************)
LEMMA TryIs ==
  ASSUME All!AllPathsAssumption, NEW N, NEW B, NEW P, Stacks(N, B, P), B # <<>>,
         NEW f, Follow(N, B[Len(B)][2], f)
  PROVE  /\ Stacks(N, SubSeq(B, 1, Len(B) - 1) \o f, Left(P, B[Len(B)], f))
         /\ \A c : Awaited(Left(P, B[Len(B)], f), SubSeq(B, 1, Len(B) - 1) \o f, c) <=>
              \/ \E j \in 1 .. Len(B) - 1 : Begins(Held(P, B[j]), c)
              \/ \E i \in 1 .. Len(f) : Begins(Append(Held(P, B[Len(B)]), f[i]), c)
  <1> DEFINE val == B[Len(B)]
             K == Held(P, val)
             h == Len(B) - 1
             F == SubSeq(B, 1, h)
             C == F \o f
             Q == Left(P, val, f)
  <1>1. /\ N \subseteq All!Places /\ B \in Seq(N) /\ Joins(N, P) /\ P \in Seq(N)
        /\ Len(B) \in Nat /\ Len(P) \in Nat /\ Len(B) \in 1 .. Len(B) /\ h \in Nat
    BY DEF Stacks, Joins
  <1>2. val \in N /\ Joins(N, K) /\ \A j \in 1 .. h : B[j] \in N /\ B[j][2] < val[2]
    <2>1. val \in N /\ Joins(N, K)
      BY <1>1 DEF Stacks
    <2>2. ASSUME NEW j \in 1 .. h PROVE B[j] \in N /\ B[j][2] < val[2]
      <3>1. j \in 1 .. Len(B) /\ j < Len(B)
        BY <1>1
      <3> QED
        BY <1>1, <3>1 DEF Stacks, Raised
    <2> QED
      BY <2>1, <2>2
  <1>3. f \in Seq(N) /\ Raised(f) /\ \A i \in 1 .. Len(f) : f[i] \in N /\ f[i][1] = val[2]
    BY DEF Follow
  <1>4. F \in Seq(N) /\ Len(F) = h /\ \A j \in 1 .. h : F[j] = B[j]
    <2>1. h \in 0 .. Len(B)
      BY <1>1
    <2> QED
      BY <1>1, <2>1, FrontPart
  <1>5. /\ C \in Seq(N) /\ Len(C) = h + Len(f) /\ Len(f) \in Nat
        /\ \A j \in 1 .. h : C[j] = B[j] /\ j \in 1 .. Len(C)
    BY <1>1, <1>3, <1>4
  <1>5a. ASSUME NEW i \in 1 .. Len(f) PROVE \E j \in 1 .. Len(C) : j = h + i /\ C[j] = f[i]
    <2> DEFINE j == h + i
    <2>1. j \in 1 .. Len(C)
      BY <1>1, <1>5
    <2>2. C[j] = f[i]
      <3>1. j \in 1 .. Len(F) + Len(f) /\ j > Len(F) /\ j - Len(F) = i
        BY <1>1, <1>4, <1>5
      <3> HIDE DEF F, h, j
      <3> QED
        BY <1>3, <1>4, <3>1
    <2> QED
      BY <2>1, <2>2
  <1>6. ASSUME NEW j \in 1 .. Len(C)
        PROVE  j \in 1 .. h \/ \E i \in 1 .. Len(f) : j = h + i /\ C[j] = f[i]
    <2>1. SUFFICES ASSUME j \notin 1 .. h
                   PROVE  \E i \in 1 .. Len(f) : j = h + i /\ C[j] = f[i]
      OBVIOUS
    <2> DEFINE i == j - h
    <2>2. i \in 1 .. Len(f) /\ j = h + i
      BY <1>1, <1>5, <2>1
    <2>3. C[j] = f[i]
      BY <1>1, <1>3, <1>4, <1>5, <2>1, <2>2
    <2> HIDE DEF i
    <2> QED
      BY <2>2, <2>3
  <1>7. K \in Seq(N) /\ Q \in {K, All!Kept(P, val)} /\ (f # <<>> => Q = K)
    BY <1>2 DEF Joins, Left
  <1>8a. PICK n \in 0 .. Len(P) : IsHeld(N, P, val, n)
    <2> HIDE DEF val, K, h, C, F, Q
    <2> QED
      BY <1>1, <1>2, HeldOf
  <1>8. /\ All!Kept(P, val) = SubSeq(P, 1, n)
        /\ Len(K) = n + 1 /\ K[n + 1] = val
        /\ \A k \in 1 .. n : K[k] = P[k] /\ P[k][2] < val[2]
    BY <1>8a DEF IsHeld
  <1> HIDE DEF val, K, h, C, F, Q
  <1>9. Joins(N, Q)
    <2>1. Joins(N, SubSeq(P, 1, n))
      BY <1>1, FrontJoins
    <2> QED
      BY <1>2, <1>7, <1>8, <2>1
  <1>10. \A j \in 1 .. h : Held(Q, B[j]) = Held(P, B[j])
    BY <1>1, <1>2, <1>7, HeldSame DEF K
  <1>11. ASSUME NEW i \in 1 .. Len(f)
         PROVE  /\ Held(Q, f[i]) = Append(K, f[i]) /\ Joins(N, Append(K, f[i])) /\ Q = K
                /\ \A k \in 1 .. Len(K) : K[k][2] < f[i][2]
    <2>1. Q = K
      <3>1. f # <<>>
        BY <1>5
      <3> QED
        BY <1>7, <3>1
    <2>2. K # <<>> /\ f[i] \in N /\ f[i][1] = K[Len(K)][2]
      <3>1. K # <<>>
        BY <1>8
      <3> QED
        BY <1>3, <1>8, <3>1
    <2> QED
      BY <1>2, <2>1, <2>2, HeldNext
  <1>12. \A x \in N : x[2] \in Nat
    BY <1>1, PlacesAre
  <1>13. Raised(C)
    <2>1. SUFFICES ASSUME NEW i \in 1 .. Len(C), NEW j \in 1 .. Len(C), i < j
                   PROVE  C[i][2] < C[j][2]
      BY DEF Raised
    <2>2. CASE j \in 1 .. h
      <3>1. i \in 1 .. h /\ i \in 1 .. Len(B) /\ j \in 1 .. Len(B)
        BY <1>1, <1>5, <2>1, <2>2 DEF h
      <3>2. B[i][2] < B[j][2]
        BY <2>1, <3>1 DEF Stacks, Raised
      <3> QED
        BY <1>5, <2>2, <3>1, <3>2
    <2>3. CASE \E l \in 1 .. Len(f) : j = h + l /\ C[j] = f[l]
      <3>1. PICK l \in 1 .. Len(f) : j = h + l /\ C[j] = f[l]
        BY <2>3
      <3>2. C[j] = f[l] /\ f[l] \in N
        BY <1>3, <1>5, <3>1
      <3>3. CASE i \in 1 .. h
        <4>1. C[i] = B[i] /\ B[i] \in N /\ B[i][2] < val[2]
          BY <1>2, <1>5, <3>3
        <4>2. f[l][1] = val[2] /\ f[l][1] < f[l][2] /\ f[l][1] \in Nat /\ f[l][2] \in Nat
          BY <1>1, <1>3, <3>2, PlacesAre
        <4>3. B[i][2] \in Nat /\ val[2] \in Nat
          BY <1>2, <1>12, <4>1
        <4>4. B[i][2] < f[l][2]
          <5>1. \A a, b, c \in Nat : a < b /\ b < c => a < c
            OBVIOUS
          <5>2. B[i][2] < val[2] /\ val[2] < f[l][2] /\ f[l][2] \in Nat
            BY <4>1, <4>2
          <5> QED
            BY <4>3, <5>1, <5>2
        <4> QED
          BY <3>2, <4>1, <4>4
      <3>4. CASE \E k \in 1 .. Len(f) : i = h + k /\ C[i] = f[k]
        <4>1. PICK k \in 1 .. Len(f) : i = h + k /\ C[i] = f[k]
          BY <3>4
        <4>2. k < l
          BY <1>1, <1>5, <2>1, <3>1, <4>1
        <4> QED
          BY <1>3, <1>5, <3>2, <4>1, <4>2 DEF Raised
      <3> QED
        BY <1>6, <3>3, <3>4
    <2> QED
      BY <1>6, <2>2, <2>3
  <1>14. Untried(Q, C)
    <2>1. SUFFICES ASSUME NEW j \in 1 .. Len(C), NEW k \in 1 .. Len(Q), Q[k] = C[j] PROVE FALSE
      BY DEF Untried
    <2>2. (k \in 1 .. n /\ Q[k] = P[k]) \/ (k = n + 1 /\ Q[k] = val)
      <3>1. CASE Q = K
        <4>1. k \in 1 .. n \/ k = n + 1
          BY <1>8, <3>1
        <4> QED
          BY <1>8, <3>1, <4>1
      <3>2. CASE Q = All!Kept(P, val)
        <4>1. Len(SubSeq(P, 1, n)) = n /\ \A l \in 1 .. n : SubSeq(P, 1, n)[l] = P[l]
          BY <1>1, FrontPart
        <4> QED
          BY <1>8, <3>2, <4>1
      <3> QED
        BY <1>7, <3>1, <3>2
    <2>3. CASE j \in 1 .. h
      <3>1. C[j] = B[j] /\ B[j] \in N /\ B[j][2] < val[2] /\ B[j][2] \in Nat /\ val[2] \in Nat
        BY <1>2, <1>5, <1>12, <2>3
      <3>2. Q[k] # val
        BY <2>1, <3>1
      <3>3. k \in 1 .. Len(P) /\ Q[k] = P[k] /\ j \in 1 .. Len(B)
        BY <1>1, <2>2, <2>3, <3>2 DEF h
      <3> QED
        BY <2>1, <3>1, <3>3 DEF Stacks, Untried
    <2>4. CASE \E i \in 1 .. Len(f) : j = h + i /\ C[j] = f[i]
      <3>1. PICK i \in 1 .. Len(f) : j = h + i /\ C[j] = f[i]
        BY <2>4
      <3>2. Q = K /\ K[k][2] < f[i][2] /\ f[i] \in N /\ C[j] = f[i]
        BY <1>3, <1>5, <1>11, <2>1, <3>1
      <3> QED
        BY <1>12, <2>1, <3>2
    <2> QED
      BY <1>6, <2>3, <2>4
  <1>15. \A j \in 1 .. Len(C) : Joins(N, Held(Q, C[j]))
    <2>1. SUFFICES ASSUME NEW j \in 1 .. Len(C) PROVE Joins(N, Held(Q, C[j]))
      OBVIOUS
    <2>2. CASE j \in 1 .. h
      <3>1. j \in 1 .. Len(B)
        BY <1>1, <2>2 DEF h
      <3> QED
        BY <1>5, <1>10, <2>2, <3>1 DEF Stacks
    <2>3. CASE \E i \in 1 .. Len(f) : j = h + i /\ C[j] = f[i]
      BY <1>5, <1>11, <2>3
    <2> QED
      BY <1>6, <2>2, <2>3
  <1>16. ASSUME NEW c
         PROVE  Awaited(Q, C, c) <=> \/ \E j \in 1 .. h : Begins(Held(P, B[j]), c)
                                   \/ \E i \in 1 .. Len(f) : Begins(Append(K, f[i]), c)
    <2>1. ASSUME NEW j \in 1 .. Len(C), Begins(Held(Q, C[j]), c)
          PROVE  \/ \E i \in 1 .. h : Begins(Held(P, B[i]), c)
                 \/ \E i \in 1 .. Len(f) : Begins(Append(K, f[i]), c)
      <3>1. CASE j \in 1 .. h
        BY <1>5, <1>10, <2>1, <3>1
      <3>2. CASE \E i \in 1 .. Len(f) : j = h + i /\ C[j] = f[i]
        BY <1>5, <1>11, <2>1, <3>2
      <3> QED
        BY <1>6, <3>1, <3>2
    <2>2. ASSUME NEW j \in 1 .. h, Begins(Held(P, B[j]), c) PROVE Awaited(Q, C, c)
      <3>1. j \in 1 .. Len(C)
        BY <1>1, <1>5
      <3> QED
        BY <1>5, <1>10, <2>2, <3>1 DEF Awaited
    <2>3. ASSUME NEW i \in 1 .. Len(f), Begins(Append(K, f[i]), c) PROVE Awaited(Q, C, c)
      <3>1. PICK j \in 1 .. Len(C) : C[j] = f[i]
        BY <1>5a
      <3> QED
        BY <1>11, <2>3, <3>1 DEF Awaited
    <2> QED
      BY <2>1, <2>2, <2>3 DEF Awaited
  <1> QED
    BY <1>1, <1>5, <1>9, <1>13, <1>14, <1>15, <1>16 DEF Stacks, C, h, K, val, F, Q


(* Begins, one word further.                                               *)
LEMMA BeginsNext ==
  ASSUME NEW N, NEW q \in Seq(N), NEW c \in Seq(N), NEW p \in N
  PROVE  Begins(Append(q, p), c) <=> Begins(q, c) /\ Len(q) < Len(c) /\ c[Len(q) + 1] = p
  <1> DEFINE d == Append(q, p)
  <1>1. /\ Len(q) \in Nat /\ Len(c) \in Nat /\ Len(d) = Len(q) + 1 /\ d[Len(q) + 1] = p
        /\ \A k \in 1 .. Len(q) : d[k] = q[k]
    OBVIOUS
  <1> HIDE DEF d
  <1>2. ASSUME Begins(d, c) PROVE Begins(q, c) /\ Len(q) < Len(c) /\ c[Len(q) + 1] = p
    <2>1. Len(q) + 1 <= Len(c) /\ \A k \in 1 .. Len(q) + 1 : c[k] = d[k]
      BY <1>1, <1>2 DEF Begins
    <2>2. Len(q) + 1 \in 1 .. Len(q) + 1 /\ \A k \in 1 .. Len(q) : k \in 1 .. Len(q) + 1
      BY <1>1
    <2> QED
      BY <1>1, <2>1, <2>2 DEF Begins
  <1>3. ASSUME Begins(q, c), Len(q) < Len(c), c[Len(q) + 1] = p PROVE Begins(d, c)
    <2>1. \A k \in 1 .. Len(q) + 1 : k \in 1 .. Len(q) \/ k = Len(q) + 1
      BY <1>1
    <2> QED
      BY <1>1, <1>3, <2>1 DEF Begins
  <1> QED
    BY <1>2, <1>3 DEF d

LEMMA BeginsSelf ==
  ASSUME NEW N, NEW q \in Seq(N)
  PROVE  Begins(q, q)
  BY DEF Begins

LEMMA BeginsSame ==
  ASSUME NEW N, NEW q \in Seq(N), NEW c \in Seq(N), Begins(q, c), Len(q) = Len(c)
  PROVE  q = c
  BY DEF Begins

(* A segmentation that begins with K, up to the end of the text, is K.     *)
LEMMA EndsWhole ==
  ASSUME All!AllPathsAssumption, NEW N, NEW K, IsWhole(N, K), NEW c, IsWhole(N, c), Begins(K, c)
  PROVE  c = K
  <1>1. K \in Seq(N) /\ c \in Seq(N) /\ Joins(N, c) /\ Len(K) \in Nat /\ Len(c) \in Nat
        /\ Len(K) # 0 /\ N \subseteq All!Places
    BY DEF IsWhole, Joins
  <1>2. Len(K) \in 1 .. Len(K) /\ Len(K) <= Len(c)
    BY <1>1 DEF Begins
  <1>3. c[Len(K)] = K[Len(K)] /\ K[Len(K)][2] = TextLen /\ c[Len(c)][2] = TextLen
    BY <1>2 DEF Begins, IsWhole
  <1>4. ~(Len(K) < Len(c))
    <2>1. SUFFICES ASSUME Len(K) < Len(c) PROVE FALSE
      OBVIOUS
    <2>2. Len(K) \in 1 .. Len(c) /\ Len(c) \in 1 .. Len(c)
      BY <1>1, <1>2
    <2>3. c[Len(K)][2] < c[Len(c)][2]
      BY <1>1, <2>1, <2>2, JoinsUp
    <2> QED
      BY <1>3, <2>3 DEF All!AllPathsAssumption
  <1>5. Len(K) = Len(c)
    BY <1>1, <1>2, <1>4
  <1> QED
    BY <1>1, <1>5, BeginsSame

(* The place on top ends the text: what it stands for is printed.          *)
LEMMA EndStep ==
  ASSUME All!AllPathsAssumption, NEW N, NEW B, NEW P, NEW S, Walk(N, B, P, S), B # <<>>,
         B[Len(B)][2] = TextLen
  PROVE  Walk(N, SubSeq(B, 1, Len(B) - 1), All!Kept(P, B[Len(B)]), Append(S, Held(P, B[Len(B)])))
  <1> DEFINE val == B[Len(B)]
             K == Held(P, val)
             C == SubSeq(B, 1, Len(B) - 1)
             Q == All!Kept(P, val)
             R == Append(S, K)
             L == Len(B)
  <1>1. Stacks(N, B, P) /\ B \in Seq(N) /\ L \in Nat /\ L \in 1 .. L /\ Len(S) \in Nat
    BY DEF Walk, Stacks
  <1>2. val \in N /\ Joins(N, K) /\ Joins(N, P) /\ val[2] = TextLen
    BY <1>1 DEF Stacks
  <1>3. Stacks(N, C, Q) /\ \A c : Awaited(Q, C, c) <=> \E j \in 1 .. L - 1 : Begins(Held(P, B[j]), c)
    <2> DEFINE f == <<>>
    <2>1. Follow(N, val[2], f)
      BY DEF Follow, Raised
    <2>2. C \o f = C /\ Left(P, val, f) = Q /\ Len(f) = 0
      <3>1. L - 1 \in 0 .. Len(B)
        BY <1>1
      <3>2. C \in Seq(N)
        BY <1>1, <3>1, FrontPart
      <3> HIDE DEF C, Q
      <3> QED
        BY <3>2 DEF Left, Q
    <2> HIDE DEF f
    <2>3. /\ Stacks(N, C \o f, Left(P, val, f))
          /\ \A c : Awaited(Left(P, val, f), C \o f, c) <=>
               \/ \E j \in 1 .. L - 1 : Begins(Held(P, B[j]), c)
               \/ \E i \in 1 .. Len(f) : Begins(Append(K, f[i]), c)
      <3>1. val[2] = B[Len(B)][2]
        OBVIOUS
      <3> QED
        BY <1>1, <2>1, <3>1, TryIs
    <2>4. \A i \in 1 .. Len(f) : FALSE
      BY <2>2
    <2> HIDE DEF C, Q, K, val, L
    <2> QED
      BY <2>2, <2>3, <2>4
  <1>4. IsWhole(N, K) /\ K \in Seq(N)
    <2> HIDE DEF val
    <2>1. PICK n \in 0 .. Len(P) : IsHeld(N, P, val, n)
      BY <1>1, <1>2, HeldOf
    <2>2. K # <<>> /\ K[Len(K)] = val
      BY <1>2, <2>1 DEF IsHeld, Joins
    <2> QED
      BY <1>2, <2>2 DEF IsWhole, Joins
  <1> HIDE DEF val, K, C, Q
  <1>5. ASSUME NEW j \in 1 .. L - 1 PROVE ~Begins(Held(P, B[j]), K)
    <2>1. j \in 1 .. Len(B) /\ j < L
      BY <1>1
    <2>2. Begins(Held(P, B[L]), K)
      BY <1>4, BeginsSelf DEF K, val
    <2> HIDE DEF L
    <2> QED
      BY <1>1, <1>2, <2>1, <2>2, OneBegins DEF L
  <1>6. ~Listed(S, K)
    <2>1. Begins(Held(P, B[L]), K)
      BY <1>4, BeginsSelf DEF K, val
    <2> QED
      BY <1>1, <1>4, <2>1 DEF Walk, Awaited
  <1>7. /\ R \in Seq(Seq(N)) /\ Len(R) = Len(S) + 1 /\ R[Len(S) + 1] = K
        /\ \A i \in 1 .. Len(S) : R[i] = S[i]
    BY <1>4 DEF Walk
  <1> HIDE DEF R
  <1>8. \A i \in 1 .. Len(R) : i \in 1 .. Len(S) \/ i = Len(S) + 1
    BY <1>1, <1>7
  <1>9. \A i \in 1 .. Len(R) : IsWhole(N, R[i])
    BY <1>4, <1>7, <1>8 DEF Walk
  <1>10. ASSUME NEW i \in 1 .. Len(R), NEW j \in 1 .. Len(R), R[i] = R[j] PROVE i = j
    <2>1. CASE i \in 1 .. Len(S) /\ j \in 1 .. Len(S)
      BY <1>7, <1>10, <2>1 DEF Walk
    <2>2. CASE i = Len(S) + 1 /\ j \in 1 .. Len(S)
      BY <1>6, <1>7, <1>10, <2>2 DEF Listed
    <2>3. CASE i \in 1 .. Len(S) /\ j = Len(S) + 1
      BY <1>6, <1>7, <1>10, <2>3 DEF Listed
    <2> QED
      BY <1>8, <2>1, <2>2, <2>3
  <1>11. \A c : Listed(R, c) <=> Listed(S, c) \/ c = K
    <2>1. \A i \in 1 .. Len(S) : i \in 1 .. Len(R)
      BY <1>1, <1>7
    <2>2. Len(S) + 1 \in 1 .. Len(R)
      BY <1>1, <1>7
    <2> QED
      BY <1>7, <1>8, <2>1, <2>2 DEF Listed
  <1>12. ASSUME NEW c, IsWhole(N, c) PROVE Listed(R, c) <=> ~Awaited(Q, C, c)
    <2>1. CASE c = K
      BY <1>3, <1>5, <1>11, <2>1
    <2>2. CASE c # K
      <3>1. ~Begins(K, c)
        BY <1>4, <1>12, <2>2, EndsWhole
      <3>2. Awaited(P, B, c) <=> \E j \in 1 .. L - 1 : Begins(Held(P, B[j]), c)
        <4>1. \A j \in 1 .. Len(B) : j \in 1 .. L - 1 \/ j = L
          BY <1>1
        <4>2. \A j \in 1 .. L - 1 : j \in 1 .. Len(B)
          BY <1>1
        <4> QED
          BY <3>1, <4>1, <4>2 DEF Awaited, K, val
      <3> QED
        BY <1>3, <1>11, <1>12, <2>2, <3>2 DEF Walk
    <2> QED
      BY <2>1, <2>2
  <1> QED
    BY <1>3, <1>7, <1>9, <1>10, <1>12 DEF Walk, C, Q, K, R, val


(* A segmentation that begins with K, which does not reach the end, goes   *)
(* on with one of the places behind K.                                     *)
LEMMA WholeGoesOn ==
  ASSUME All!AllPathsAssumption, NEW N, NEW K, Joins(N, K), K # <<>>, K[Len(K)][2] # TextLen,
         NEW f, IsFrom(N, K[Len(K)][2], f), NEW c, IsWhole(N, c)
  PROVE  Begins(K, c) <=> \E i \in 1 .. Len(f) : Begins(Append(K, f[i]), c)
  <1>1. K \in Seq(N) /\ c \in Seq(N) /\ Joins(N, c) /\ Len(K) \in Nat /\ Len(c) \in Nat /\ Len(K) # 0
    BY DEF IsWhole, Joins
  <1>2. Len(K) \in 1 .. Len(K)
    BY <1>1
  <1>3. \A i \in 1 .. Len(f) : f[i] \in N
    BY DEF IsFrom, Follow
  <1>4. ASSUME NEW i \in 1 .. Len(f), Begins(Append(K, f[i]), c) PROVE Begins(K, c)
    BY <1>1, <1>3, <1>4, BeginsNext
  <1>5. ASSUME Begins(K, c) PROVE \E i \in 1 .. Len(f) : Begins(Append(K, f[i]), c)
    <2>1. c[Len(K)] = K[Len(K)] /\ Len(K) <= Len(c)
      BY <1>2, <1>5 DEF Begins
    <2>2. Len(K) # Len(c)
      BY <2>1 DEF IsWhole
    <2>3. Len(K) \in 1 .. Len(c) - 1 /\ Len(K) + 1 \in 1 .. Len(c) /\ Len(K) < Len(c)
      BY <1>1, <2>1, <2>2
    <2>4. c[Len(K)][2] = c[Len(K) + 1][1] /\ c[Len(K) + 1] \in N
      BY <1>1, <2>3 DEF Joins, All!Joined
    <2>5. PICK i \in 1 .. Len(f) : f[i] = c[Len(K) + 1]
      BY <2>1, <2>4 DEF IsFrom
    <2>6. Begins(Append(K, f[i]), c)
      BY <1>1, <1>3, <1>5, <2>3, <2>5, BeginsNext
    <2> QED
      BY <2>6
  <1> QED
    BY <1>4, <1>5

(* The place on top does not end the text: those behind it come instead.   *)
LEMMA GoStep ==
  ASSUME All!AllPathsAssumption, NEW N, NEW B, NEW P, NEW S, Walk(N, B, P, S), B # <<>>,
         B[Len(B)][2] # TextLen, NEW f, IsFrom(N, B[Len(B)][2], f)
  PROVE  Walk(N, SubSeq(B, 1, Len(B) - 1) \o f, Left(P, B[Len(B)], f), S)
  <1> DEFINE val == B[Len(B)]
             K == Held(P, val)
             C == SubSeq(B, 1, Len(B) - 1) \o f
             Q == Left(P, val, f)
             L == Len(B)
  <1>1. Stacks(N, B, P) /\ B \in Seq(N) /\ L \in Nat /\ L \in 1 .. L
    BY DEF Walk, Stacks
  <1>2. val \in N /\ Joins(N, K) /\ Joins(N, P)
    BY <1>1 DEF Stacks
  <1>3. /\ Stacks(N, C, Q)
        /\ \A c : Awaited(Q, C, c) <=> \/ \E j \in 1 .. L - 1 : Begins(Held(P, B[j]), c)
                                     \/ \E i \in 1 .. Len(f) : Begins(Append(K, f[i]), c)
    <2>1. Follow(N, B[Len(B)][2], f)
      BY DEF IsFrom
    <2> QED
      BY <1>1, <2>1, TryIs
  <1>4. K # <<>> /\ K[Len(K)] = val
    <2> HIDE DEF val
    <2>1. PICK n \in 0 .. Len(P) : IsHeld(N, P, val, n)
      BY <1>1, <1>2, HeldOf
    <2> QED
      BY <1>2, <2>1 DEF IsHeld, Joins
  <1>5. IsFrom(N, val[2], f) /\ val[2] # TextLen
    OBVIOUS
  <1> HIDE DEF val, K, C, Q
  <1>6. ASSUME NEW c, IsWhole(N, c) PROVE Awaited(Q, C, c) <=> Awaited(P, B, c)
    <2>1. Begins(K, c) <=> \E i \in 1 .. Len(f) : Begins(Append(K, f[i]), c)
      BY <1>2, <1>4, <1>5, <1>6, WholeGoesOn
    <2>2. Awaited(P, B, c) <=> (\E j \in 1 .. L - 1 : Begins(Held(P, B[j]), c)) \/ Begins(K, c)
      <3>1. \A j \in 1 .. Len(B) : j \in 1 .. L - 1 \/ j = L
        BY <1>1
      <3>2. \A j \in 1 .. L - 1 : j \in 1 .. Len(B)
        BY <1>1
      <3> QED
        BY <1>1, <3>1, <3>2 DEF Awaited, K, val
    <2> QED
      BY <1>3, <2>1, <2>2
  <1> QED
    BY <1>3, <1>6 DEF Walk, C, Q, val

(* From lists the places, by the recursion over their ends.                *)
ListedTo(N, b, q, e) ==
  /\ Follow(N, b, q) /\ \A i \in 1 .. Len(q) : q[i][2] <= e
  /\ \A p \in N : p[1] = b /\ p[2] <= e => \E i \in 1 .. Len(q) : q[i] = p
NextListed(N, b, q, e) == IF <<b, e>> \in N THEN Append(q, <<b, e>>) ELSE q

LEMMA ListedNext ==
  ASSUME All!AllPathsAssumption, NEW N, N \subseteq All!Places, NEW b \in Nat, NEW e \in Nat,
         NEW q, ListedTo(N, b, q, e)
  PROVE  ListedTo(N, b, NextListed(N, b, q, e + 1), e + 1)
  <1> DEFINE new == <<b, e + 1>>
             r == Append(q, new)
  <1>1. /\ q \in Seq(N) /\ Len(q) \in Nat /\ Raised(q)
        /\ \A i \in 1 .. Len(q) : q[i] \in N /\ q[i][1] = b /\ q[i][2] <= e
        /\ \A p \in N : p[1] = b /\ p[2] <= e => \E i \in 1 .. Len(q) : q[i] = p
    BY DEF ListedTo, Follow
  <1>2. \A p \in N : p[2] \in Nat /\ p[1] \in Nat /\ p = <<p[1], p[2]>>
    BY PlacesAre
  <1>3. new[1] = b /\ new[2] = e + 1
    OBVIOUS
  <1>4. \A p \in N : p[1] = b /\ p[2] <= e + 1 => p[2] <= e \/ p = new
    BY <1>2
  <1>5. \A i \in 1 .. Len(q) : q[i][2] <= e + 1 /\ q[i][2] < e + 1
    BY <1>1, <1>2
  <1>6. CASE new \notin N
    <2>1. NextListed(N, b, q, e + 1) = q
      BY <1>6 DEF NextListed
    <2> HIDE DEF new
    <2>2. \A p \in N : p[1] = b /\ p[2] <= e + 1 => \E i \in 1 .. Len(q) : q[i] = p
      BY <1>1, <1>4, <1>6
    <2> QED
      BY <1>1, <1>5, <2>1, <2>2 DEF ListedTo, Follow
  <1>7. CASE new \in N
    <2>1. NextListed(N, b, q, e + 1) = r
      BY <1>7 DEF NextListed
    <2> HIDE DEF new
    <2>2. /\ r \in Seq(N) /\ Len(r) = Len(q) + 1 /\ r[Len(q) + 1] = new
          /\ \A i \in 1 .. Len(q) : r[i] = q[i]
      BY <1>1, <1>7
    <2> HIDE DEF r
    <2>3. /\ \A i \in 1 .. Len(r) : i \in 1 .. Len(q) \/ i = Len(q) + 1
          /\ \A i \in 1 .. Len(q) : i \in 1 .. Len(r)
          /\ Len(q) + 1 \in 1 .. Len(r)
      BY <1>1, <2>2
    <2>4. \A i \in 1 .. Len(r) : r[i][1] = b /\ r[i][2] <= e + 1
      <3>1. e + 1 <= e + 1
        OBVIOUS
      <3> QED
        BY <1>1, <1>3, <1>5, <2>2, <2>3, <3>1
    <2>5. Raised(r)
      <3>1. SUFFICES ASSUME NEW i \in 1 .. Len(r), NEW j \in 1 .. Len(r), i < j
                     PROVE  r[i][2] < r[j][2]
        BY DEF Raised
      <3>2. i \in 1 .. Len(q)
        BY <1>1, <2>2, <3>1
      <3>3. CASE j \in 1 .. Len(q)
        BY <1>1, <2>2, <3>1, <3>2, <3>3 DEF Raised
      <3>4. CASE j = Len(q) + 1
        BY <1>3, <1>5, <2>2, <3>2, <3>4
      <3> QED
        BY <2>3, <3>3, <3>4
    <2>6. \A p \in N : p[1] = b /\ p[2] <= e + 1 => \E i \in 1 .. Len(r) : r[i] = p
      <3>1. SUFFICES ASSUME NEW p \in N, p[1] = b, p[2] <= e + 1 PROVE \E i \in 1 .. Len(r) : r[i] = p
        OBVIOUS
      <3>2. CASE p = new
        BY <2>2, <2>3, <3>2
      <3>3. CASE p[2] <= e
        <4>1. PICK i \in 1 .. Len(q) : q[i] = p
          BY <1>1, <3>1, <3>3
        <4> QED
          BY <2>2, <2>3, <4>1
      <3> QED
        BY <1>4, <3>1, <3>2, <3>3
    <2> QED
      BY <2>1, <2>2, <2>4, <2>5, <2>6 DEF ListedTo, Follow
  <1> QED
    BY <1>6, <1>7

LEMMA FromIs ==
  ASSUME All!AllPathsAssumption, node \subseteq All!Places, NEW b \in Nat
  PROVE  IsFrom(node, b, All!From(b))
  <1> DEFINE N == node
             V == Seq(N)
             v0 == <<>>
             S == [e \in 1 .. TextLen |-> [q \in V |-> NextListed(N, b, q, e)]]
             body(e, g) == IF e = 0 THEN v0
                           ELSE IF <<b, e>> \in N THEN Append(g[e - 1], <<b, e>>) ELSE g[e - 1]
  <1>1. TextLen \in Nat /\ N \subseteq All!Places
    BY DEF All!AllPathsAssumption
  <1>2. v0 \in V
    OBVIOUS
  <1>3. S \in [1 .. TextLen -> [V -> V]]
    BY DEF NextListed
  <1> HIDE DEF V, v0
  <1>4. PICK f \in [0 .. TextLen -> V] : Iterates(TextLen, v0, S, f)
    <2> HIDE DEF S
    <2> QED
      BY <1>1, <1>2, <1>3, Iteration
  <1>5. \A e \in 0 .. TextLen : f[e] = body(e, f)
    <2>1. ASSUME NEW e \in 0 .. TextLen, e # 0 PROVE f[e] = NextListed(N, b, f[e - 1], e)
      <3>1. e \in 1 .. TextLen /\ e - 1 \in 0 .. TextLen
        BY <1>1, <2>1
      <3>2. f[e - 1] \in V
        BY <3>1
      <3>3. f[e] = S[e][f[e - 1]]
        BY <1>4, <3>1 DEF Iterates
      <3> QED
        BY <3>1, <3>2, <3>3
    <2>2. f[0] = v0
      BY <1>4 DEF Iterates
    <2> QED
      BY <2>1, <2>2 DEF NextListed
  <1> HIDE DEF body
  <1>6. f = [e \in 0 .. TextLen |-> body(e, f)]
    BY <1>5
  <1>7. \E g : g = [e \in 0 .. TextLen |-> body(e, g)]
    BY <1>6
  <1> DEFINE U == CHOOSE g : g = [e \in 0 .. TextLen |-> body(e, g)]
  <1>8. All!From(b) = U[TextLen]
    BY DEF All!From, body, v0
  <1>9. U = [e \in 0 .. TextLen |-> body(e, U)]
    BY <1>7, Zenon
  <1> HIDE DEF U
  <1>10. \A e \in 0 .. TextLen : U[e] = IF e = 0 THEN v0 ELSE NextListed(N, b, U[e - 1], e)
    BY <1>9 DEF body, NextListed
  <1> DEFINE I == {e \in Nat : e <= TextLen => ListedTo(N, b, U[e], e)}
  <1>11. 0 \in I
    <2>1. U[0] = v0
      BY <1>1, <1>10
    <2>2. v0 \in Seq(N) /\ Len(v0) = 0
      BY DEF v0
    <2>3. \A p \in N : ~(p[2] <= 0)
      BY <1>1, PlacesAre
    <2> HIDE DEF N
    <2>4. ListedTo(N, b, v0, 0)
      BY <2>2, <2>3 DEF ListedTo, Follow, Raised
    <2> QED
      BY <2>1, <2>4
  <1>12. ASSUME NEW e \in Nat, e \in I PROVE e + 1 \in I
    <2>1. SUFFICES ASSUME e + 1 <= TextLen PROVE ListedTo(N, b, U[e + 1], e + 1)
      OBVIOUS
    <2>2. e + 1 \in 0 .. TextLen /\ e + 1 # 0 /\ (e + 1) - 1 = e /\ e <= TextLen
      BY <1>1, <2>1
    <2>3. U[e + 1] = NextListed(N, b, U[e], e + 1)
      BY <1>10, <2>2
    <2>4. ListedTo(N, b, U[e], e)
      BY <1>12, <2>2
    <2> HIDE DEF N
    <2> QED
      BY <1>1, <2>3, <2>4, ListedNext
  <1> HIDE DEF I
  <1>13. \A e \in Nat : e \in I
    BY <1>11, <1>12, Induction
  <1>14. ListedTo(N, b, U[TextLen], TextLen)
    <2>1. TextLen <= TextLen
      BY <1>1
    <2> QED
      BY <1>1, <1>13, <2>1 DEF I
  <1>15. \A p \in N : p[2] <= TextLen
    BY <1>1, PlacesAre
  <1> HIDE DEF N
  <1>16. IsFrom(N, b, U[TextLen])
    BY <1>14, <1>15 DEF ListedTo, IsFrom
  <1> QED
    BY <1>8, <1>16 DEF N


-----------------------------------------------------------------------------
(* PathsTo, the reference, is made of what joins from 0 up to its end.     *)
RoutesTo(N, e) == {c \in Seq(N) : Joins(N, c) /\ e = IF c = <<>> THEN 0 ELSE c[Len(c)][2]}
RoutesFrom(N, e, g) ==
  IF e = 0 THEN {<<>>}
  ELSE UNION {{Append(path, p) : path \in g[p[1]]} : p \in {p \in N : p[2] = e}}

LEMMA PathsToEquation ==
  ASSUME All!AllPathsAssumption, node \subseteq All!Places
  PROVE  \A e \in 0 .. TextLen : All!PathsTo[e] = RoutesFrom(node, e, All!PathsTo)
  <1> DEFINE N == node
             V == SUBSET Seq(N)
             F == [0 .. TextLen -> V]
             B == [e \in 0 .. TextLen |-> [g \in F |-> RoutesFrom(N, e, g)]]
  <1>1. TextLen \in Nat /\ \A p \in N : p[1] \in 0 .. TextLen /\ p[1] < p[2]
    <2>1. ASSUME NEW p \in N PROVE p[1] \in 0 .. TextLen /\ p[1] < p[2]
      <3>1. p[1] \in Nat /\ p[2] \in Nat /\ p[1] < p[2] /\ p[2] <= TextLen /\ TextLen \in Nat
        BY <2>1, PlacesAre
      <3> QED
        BY <3>1
    <2> QED
      BY <2>1 DEF All!AllPathsAssumption
  <1>2. ASSUME NEW e \in 0 .. TextLen, NEW g \in F PROVE RoutesFrom(N, e, g) \in V
    <2>1. SUFFICES ASSUME NEW c \in RoutesFrom(N, e, g) PROVE c \in Seq(N)
      OBVIOUS
    <2>2. CASE e = 0
      BY <2>1, <2>2 DEF RoutesFrom
    <2>3. CASE e # 0
      <3>1. PICK p \in N : c \in {Append(path, p) : path \in g[p[1]]}
        BY <2>1, <2>3 DEF RoutesFrom
      <3>2. PICK path \in g[p[1]] : c = Append(path, p)
        BY <3>1
      <3>3. g[p[1]] \in V
        BY <1>1
      <3>4. path \in Seq(N)
        BY <3>2, <3>3
      <3> QED
        BY <3>2, <3>4
    <2> QED
      BY <2>2, <2>3
  <1>3. V # {} /\ B \in [0 .. TextLen -> [F -> V]]
    BY <1>2
  <1>4. ASSUME NEW e \in 0 .. TextLen, NEW g \in F, NEW h \in F,
               \A m \in 0 .. TextLen : m < e => g[m] = h[m]
        PROVE  B[e][g] = B[e][h]
    <2>1. \A p \in {p \in N : p[2] = e} : g[p[1]] = h[p[1]]
      BY <1>1, <1>4
    <2>2. RoutesFrom(N, e, g) = RoutesFrom(N, e, h)
      <3> HIDE DEF N, F, B
      <3> DEFINE X == {p \in N : p[2] = e}
                 x(p) == {Append(path, p) : path \in g[p[1]]}
                 y(p) == {Append(path, p) : path \in h[p[1]]}
      <3>1. \A p \in X : x(p) = y(p)
        BY <2>1
      <3>2. RoutesFrom(N, e, g) = (IF e = 0 THEN {<<>>} ELSE UNION {x(p) : p \in X})
        BY DEF RoutesFrom
      <3>3. RoutesFrom(N, e, h) = (IF e = 0 THEN {<<>>} ELSE UNION {y(p) : p \in X})
        BY DEF RoutesFrom
      <3> HIDE DEF X, x, y
      <3>4. {x(p) : p \in X} = {y(p) : p \in X}
        BY <3>1
      <3> QED
        BY <3>2, <3>3, <3>4
    <2> QED
      BY <2>2
  <1>5. \E f \in F : \A n \in 0 .. TextLen : f[n] = B[n][f]
    <2> HIDE DEF B, V
    <2>1. LookDown(TextLen, V, B)
      BY <1>4 DEF LookDown
    <2>2. TextLen \in Nat /\ V # {} /\ B \in Steps(TextLen, V)
      BY <1>1, <1>3 DEF Steps
    <2>3. \E f \in [0 .. TextLen -> V] : Solution(TextLen, B, f)
      BY <2>1, <2>2, Levels, Zenon
    <2> QED
      BY <2>3 DEF Solution
  <1>6. PICK f \in F : \A n \in 0 .. TextLen : f[n] = B[n][f]
    BY <1>5
  <1>7. f = [e \in 0 .. TextLen |-> RoutesFrom(N, e, f)]
    BY <1>6
  <1>8. \E g : g = [e \in 0 .. TextLen |-> RoutesFrom(N, e, g)]
    BY <1>7
  <1>9. All!PathsTo = CHOOSE g : g = [e \in 0 .. TextLen |-> RoutesFrom(N, e, g)]
    BY DEF All!PathsTo, RoutesFrom
  <1>10. All!PathsTo = [e \in 0 .. TextLen |-> RoutesFrom(N, e, All!PathsTo)]
    BY <1>8, <1>9, Zenon
  <1> QED
    BY <1>10

LEMMA RoutesEquation ==
  ASSUME All!AllPathsAssumption, NEW N, N \subseteq All!Places, NEW e \in 0 .. TextLen,
         NEW g, \A m \in 0 .. TextLen : m < e => g[m] = RoutesTo(N, m)
  PROVE  RoutesFrom(N, e, g) = RoutesTo(N, e)
  <1>1. /\ TextLen \in Nat
        /\ \A p \in N : p[1] \in 0 .. TextLen /\ p[1] < p[2] /\ p[2] \in Nat /\ p[2] # 0
    <2>1. ASSUME NEW p \in N
          PROVE  p[1] \in 0 .. TextLen /\ p[1] < p[2] /\ p[2] \in Nat /\ p[2] # 0
      <3>1. p[1] \in Nat /\ p[2] \in Nat /\ p[1] < p[2] /\ p[2] <= TextLen /\ TextLen \in Nat
        BY <2>1, PlacesAre
      <3> QED
        BY <3>1
    <2> QED
      BY <2>1 DEF All!AllPathsAssumption
  <1>2. ASSUME NEW c \in Seq(N), c # <<>> PROVE c[Len(c)] \in N /\ Len(c) \in 1 .. Len(c)
    BY <1>2
  <1>3. CASE e = 0
    <2>1. <<>> \in RoutesTo(N, 0)
      BY DEF RoutesTo, Joins, All!Joined
    <2>2. ASSUME NEW c \in RoutesTo(N, 0) PROVE c = <<>>
      <3>1. c \in Seq(N) /\ (c # <<>> => c[Len(c)][2] = 0)
        BY <2>2 DEF RoutesTo
      <3> QED
        BY <1>1, <1>2, <3>1
    <2>3. RoutesFrom(N, 0, g) = {<<>>}
      BY DEF RoutesFrom
    <2> QED
      BY <1>3, <2>1, <2>2, <2>3
  <1>4. CASE e # 0
    <2>1. ASSUME NEW c \in RoutesFrom(N, e, g) PROVE c \in RoutesTo(N, e)
      <3>1. PICK p \in N : p[2] = e /\ c \in {Append(path, p) : path \in g[p[1]]}
        BY <1>4, <2>1 DEF RoutesFrom
      <3>2. PICK path \in g[p[1]] : c = Append(path, p)
        BY <3>1
      <3>3. g[p[1]] = RoutesTo(N, p[1])
        BY <1>1, <3>1
      <3>4. path \in Seq(N) /\ Joins(N, path) /\ p[1] = IF path = <<>> THEN 0 ELSE path[Len(path)][2]
        BY <3>2, <3>3 DEF RoutesTo
      <3>5. Joins(N, c)
        BY <3>2, <3>4, BackJoins
      <3>6. c \in Seq(N) /\ c # <<>> /\ c[Len(c)] = p
        BY <3>2, <3>4
      <3> QED
        BY <3>1, <3>5, <3>6 DEF RoutesTo
    <2>2. ASSUME NEW c \in RoutesTo(N, e) PROVE c \in RoutesFrom(N, e, g)
      <3>1. c \in Seq(N) /\ Joins(N, c) /\ c # <<>> /\ c[Len(c)][2] = e
        BY <1>4, <2>2 DEF RoutesTo
      <3> DEFINE n == Len(c) - 1
                 path == SubSeq(c, 1, n)
                 p == c[Len(c)]
      <3>2. p \in N /\ n \in 0 .. Len(c) /\ Len(c) = n + 1 /\ n \in Nat
        BY <1>2, <3>1
      <3>3. path \in Seq(N) /\ Len(path) = n /\ \A k \in 1 .. n : path[k] = c[k]
        <4> HIDE DEF n
        <4> QED
          BY <3>1, <3>2, FrontPart
      <3>4. Joins(N, path)
        <4> HIDE DEF n
        <4> QED
          BY <3>1, <3>2, FrontJoins
      <3> HIDE DEF n, path, p
      <3>5. p[1] = IF path = <<>> THEN 0 ELSE path[Len(path)][2]
        <4>1. CASE path = <<>>
          <5>1. Len(c) = 1
            BY <3>2, <3>3, <4>1
          <5> QED
            BY <3>1, <4>1, <5>1 DEF Joins, p
        <4>2. CASE path # <<>>
          <5>1. n \in 1 .. n /\ n \in 1 .. Len(c) - 1
            BY <3>2, <3>3, <4>2
          <5>2. c[n][2] = c[n + 1][1]
            BY <3>1, <5>1 DEF Joins, All!Joined
          <5> QED
            BY <3>2, <3>3, <4>2, <5>1, <5>2 DEF p
        <4> QED
          BY <4>1, <4>2
      <3>6. path \in RoutesTo(N, p[1])
        BY <3>3, <3>4, <3>5 DEF RoutesTo
      <3>7. p[2] = e /\ p[1] \in 0 .. TextLen /\ p[1] < e
        BY <1>1, <3>1, <3>2 DEF p
      <3>8. path \in g[p[1]]
        BY <3>6, <3>7
      <3>9. c = Append(path, p)
        <4>1. /\ Append(path, p) \in Seq(N) /\ Len(Append(path, p)) = n + 1
              /\ Append(path, p)[n + 1] = p /\ \A k \in 1 .. n : Append(path, p)[k] = path[k]
          BY <3>2, <3>3
        <4>2. \A k \in 1 .. n + 1 : k \in 1 .. n \/ k = n + 1
          BY <3>2
        <4>3. c[n + 1] = p
          BY <3>2 DEF p
        <4> DEFINE d == Append(path, p)
        <4>4. /\ d \in Seq(N) /\ Len(d) = Len(c)
              /\ \A k \in 1 .. Len(c) : d[k] = c[k]
          BY <3>2, <3>3, <4>1, <4>2, <4>3
        <4> HIDE DEF d
        <4>5. d = c
          BY <3>1, <4>4
        <4> QED
          BY <4>5 DEF d
      <3> QED
        BY <1>4, <3>2, <3>7, <3>8, <3>9 DEF RoutesFrom
    <2> QED
      BY <2>1, <2>2
  <1> QED
    BY <1>3, <1>4

LEMMA PathsToIs ==
  ASSUME All!AllPathsAssumption, node \subseteq All!Places
  PROVE  \A e \in 0 .. TextLen : All!PathsTo[e] = RoutesTo(node, e)
  <1> DEFINE N == node
             G == All!PathsTo
             I == {n \in Nat : \A e \in 0 .. TextLen : e < n => G[e] = RoutesTo(N, e)}
  <1>1. \A e \in 0 .. TextLen : G[e] = RoutesFrom(N, e, G)
    BY PathsToEquation
  <1>2. TextLen \in Nat /\ N \subseteq All!Places
    BY DEF All!AllPathsAssumption
  <1> HIDE DEF N, G
  <1>3. 0 \in I
    OBVIOUS
  <1>4. ASSUME NEW n \in Nat, n \in I PROVE n + 1 \in I
    <2>1. SUFFICES ASSUME NEW e \in 0 .. TextLen, e < n + 1 PROVE G[e] = RoutesTo(N, e)
      OBVIOUS
    <2>2. \A m \in 0 .. TextLen : m < e => G[m] = RoutesTo(N, m)
      <3>1. \A m \in 0 .. TextLen : m < e => m < n
        BY <2>1
      <3> QED
        BY <1>4, <3>1
    <2>3. RoutesFrom(N, e, G) = RoutesTo(N, e)
      BY <1>2, <2>2, RoutesEquation
    <2> QED
      BY <1>1, <2>3
  <1> HIDE DEF I
  <1>5. \A n \in Nat : n \in I
    BY <1>3, <1>4, Induction
  <1>6. TextLen + 1 \in I /\ \A e \in 0 .. TextLen : e < TextLen + 1
    BY <1>2, <1>5
  <1> QED
    BY <1>6 DEF I, N, G


-----------------------------------------------------------------------------
(* The inductive invariant.                                                *)
WalkInv == Walk(node, stack_buffer, stack_path, str_all)

LEMMA StartIs ==
  ASSUME All!AllPathsAssumption, NEW N, N \subseteq All!Places, NEW f, IsFrom(N, 0, f)
  PROVE  Walk(N, f, <<>>, <<>>)
  <1> DEFINE P == <<>>
  <1>1. f \in Seq(N) /\ Raised(f) /\ \A i \in 1 .. Len(f) : f[i] \in N /\ f[i][1] = 0
    BY DEF IsFrom, Follow
  <1>2. P \in Seq(N) /\ Len(P) = 0 /\ \A p : Append(P, p) = <<p>>
    OBVIOUS
  <1>3. Joins(N, P)
    BY DEF Joins, All!Joined
  <1>4. ASSUME NEW i \in 1 .. Len(f) PROVE Held(P, f[i]) = <<f[i]>> /\ Joins(N, <<f[i]>>)
    <2>1. All!Kept(P, f[i]) = SubSeq(P, 1, 0)
      <3>1. \A k \in 1 .. 0 : P[k][2] < f[i][2]
        OBVIOUS
      <3>2. \A k \in 0 + 1 .. Len(P) : ~(P[k][2] < f[i][2])
        BY <1>2
      <3>3. 0 \in 0 .. Len(P)
        BY <1>2
      <3> HIDE DEF P
      <3> QED
        BY <1>2, <3>1, <3>2, <3>3, KeptIs
    <2>2. SubSeq(P, 1, 0) = P
      OBVIOUS
    <2>3. Joins(N, Append(P, f[i]))
      BY <1>1, <1>3, BackJoins
    <2> QED
      BY <1>2, <2>1, <2>2, <2>3 DEF Held
  <1>5. Untried(P, f)
    BY <1>2 DEF Untried
  <1>6. Stacks(N, f, P)
    BY <1>1, <1>3, <1>4, <1>5 DEF Stacks
  <1>7. ASSUME NEW c, IsWhole(N, c) PROVE Awaited(P, f, c)
    <2>1. c \in Seq(N) /\ c # <<>> /\ c[1][1] = 0 /\ Len(c) >= 1 /\ c[1] \in N
      BY <1>7 DEF IsWhole, Joins
    <2>2. PICK i \in 1 .. Len(f) : f[i] = c[1]
      BY <2>1 DEF IsFrom
    <2>3. Begins(<<f[i]>>, c)
      <3>1. Len(<<f[i]>>) = 1 /\ <<f[i]>>[1] = f[i]
        OBVIOUS
      <3>2. \A k \in 1 .. 1 : k = 1
        OBVIOUS
      <3> QED
        BY <2>1, <2>2, <3>1, <3>2 DEF Begins
    <2> QED
      BY <1>4, <2>3 DEF Awaited
  <1>8. \A c : ~Listed(P, c)
    BY <1>2 DEF Listed
  <1>9. P \in Seq(Seq(N))
    OBVIOUS
  <1> HIDE DEF P
  <1>10. Walk(N, f, P, P)
    BY <1>2, <1>6, <1>7, <1>8, <1>9 DEF Walk
  <1> QED
    BY <1>10 DEF P

LEMMA TryKeepsWalk ==
  ASSUME All!AllPathsAssumption, WalkInv, All!Try
  PROVE  WalkInv'
  <1> DEFINE B == stack_buffer
             val == B[Len(B)]
             f == All!From(val[2])
             K == Held(stack_path, val)
             F == SubSeq(B, 1, Len(B) - 1)
  <1>1. /\ Walk(node, B, stack_path, str_all) /\ node' = node
        /\ node \subseteq All!Places /\ B \in Seq(node) /\ B # <<>> /\ Len(B) \in Nat
    BY DEF WalkInv, Walk, Stacks, All!Try
  <1>2. val \in node /\ val[2] \in Nat
    <2>1. Len(B) \in 1 .. Len(B)
      BY <1>1
    <2>2. val \in node
      BY <1>1, <2>1
    <2> QED
      BY <1>1, <2>2, PlacesAre
  <1>3. F \in Seq(node) /\ F \o <<>> = F
    <2>1. Len(B) - 1 \in 0 .. Len(B)
      BY <1>1
    <2>2. F \in Seq(node)
      BY <1>1, <2>1, FrontPart
    <2> HIDE DEF F
    <2> QED
      BY <2>2
  <1>4. SubSeq(K, 1, Len(K) - 1) = All!Kept(stack_path, val)
    <2> DEFINE d == All!Kept(stack_path, val)
    <2> HIDE DEF val, d
    <2>1. Joins(node, stack_path) /\ stack_path \in Seq(node)
      BY <1>1 DEF Walk, Stacks, Joins
    <2>2. PICK n \in 0 .. Len(stack_path) : IsHeld(node, stack_path, val, n)
      BY <1>2, <2>1, HeldOf
    <2>3. d \in Seq(node) /\ K = Append(d, val)
      BY <2>1, <2>2, FrontPart DEF IsHeld, Held, d
    <2> HIDE DEF K
    <2>4. SubSeq(K, 1, Len(K) - 1) = d
      BY <1>2, <2>3
    <2> QED
      BY <2>4 DEF d
  <1>5. LET ends == val[2] = TextLen
            hasmore == ~ends /\ f # <<>>
        IN  /\ stack_buffer' = F \o (IF hasmore THEN f ELSE <<>>)
            /\ stack_path' = IF hasmore THEN K ELSE SubSeq(K, 1, Len(K) - 1)
            /\ str_all' = IF ends THEN Append(str_all, K) ELSE str_all
    BY DEF All!Try, All!Last, All!Front, Held
  <1>6. CASE val[2] = TextLen
    <2>1. Walk(node, F, All!Kept(stack_path, val), Append(str_all, K))
      BY <1>1, <1>6, EndStep
    <2>2. /\ stack_buffer' = F /\ stack_path' = All!Kept(stack_path, val)
          /\ str_all' = Append(str_all, K)
      BY <1>3, <1>4, <1>5, <1>6
    <2> QED
      BY <1>1, <2>1, <2>2 DEF WalkInv
  <1>7. CASE val[2] # TextLen
    <2>1. IsFrom(node, val[2], f)
      BY <1>1, <1>2, FromIs
    <2>2. Walk(node, F \o f, Left(stack_path, val, f), str_all)
      <3> HIDE DEF f
      <3> QED
        BY <1>1, <1>7, <2>1, GoStep
    <2>3. /\ stack_buffer' = F \o f /\ stack_path' = Left(stack_path, val, f)
          /\ str_all' = str_all
      <3> HIDE DEF f, F
      <3> QED
        BY <1>4, <1>5, <1>7 DEF Left
    <2> QED
      BY <1>1, <2>2, <2>3 DEF WalkInv
  <1> QED
    BY <1>6, <1>7

LEMMA FinishKeepsWalk ==
  ASSUME WalkInv, All!Finish
  PROVE  WalkInv'
  <1> DEFINE P == <<>>
  <1>1. /\ Walk(node, stack_buffer, stack_path, str_all) /\ stack_buffer = P /\ Len(P) = 0
        /\ stack_path' = P /\ node' = node /\ stack_buffer' = stack_buffer /\ str_all' = str_all
    BY DEF WalkInv, All!Finish
  <1>2. P \in Seq(node) /\ Joins(node, P)
    BY <1>1 DEF Walk, Stacks, Joins, All!Joined
  <1> HIDE DEF P
  <1>3. Stacks(node, P, P)
    BY <1>1, <1>2 DEF Walk, Stacks, Untried
  <1>4. \A c : ~Awaited(P, P, c) /\ ~Awaited(stack_path, P, c)
    BY <1>1 DEF Awaited
  <1>5. Walk(node, P, P, str_all)
    BY <1>1, <1>3, <1>4 DEF Walk
  <1> QED
    BY <1>1, <1>5 DEF WalkInv

(* The stacks of _getPath fit together in every state.                     *)
THEOREM WalkStaysTogether == All!AllPathsAssumption => (All!Spec => []WalkInv)
  <1> SUFFICES ASSUME All!AllPathsAssumption PROVE All!Spec => []WalkInv
    OBVIOUS
  <1>1. All!Init => WalkInv
    <2> SUFFICES ASSUME All!Init PROVE WalkInv
      OBVIOUS
    <2>1. node \subseteq All!Places
      BY DEF All!Init, All!Nodes
    <2>2. IsFrom(node, 0, stack_buffer)
      BY <2>1, FromIs DEF All!Init
    <2> QED
      BY <2>1, <2>2, StartIs DEF All!Init, WalkInv
  <1>2. WalkInv /\ [All!Next]_All!vars => WalkInv'
    <2> SUFFICES ASSUME WalkInv, [All!Next]_All!vars PROVE WalkInv'
      OBVIOUS
    <2>1. CASE All!Try
      BY <2>1, TryKeepsWalk
    <2>2. CASE All!Finish
      BY <2>2, FinishKeepsWalk
    <2>3. CASE UNCHANGED All!vars
      BY <2>3 DEF WalkInv, All!vars
    <2> QED
      BY <2>1, <2>2, <2>3 DEF All!Next
  <1> QED
    BY <1>1, <1>2, PTL DEF All!Spec

THEOREM AllPathsTypes == All!AllPathsAssumption => (All!Spec => []All!TypeOK)
  <1>1. WalkInv => All!TypeOK
    BY DEF WalkInv, Walk, Stacks, Joins, All!TypeOK, All!Nodes
  <1> QED
    BY <1>1, WalkStaysTogether, PTL

(* Whatever is tried next continues what has been taken.                   *)
THEOREM BufferAlwaysFits == All!AllPathsAssumption => (All!Spec => []All!BufferFitsPath)
  <1> SUFFICES ASSUME All!AllPathsAssumption PROVE All!Spec => []All!BufferFitsPath
    OBVIOUS
  <1>1. WalkInv => All!BufferFitsPath
    <2> SUFFICES ASSUME WalkInv, stack_buffer # <<>>
                 PROVE  LET path == Held(stack_path, stack_buffer[Len(stack_buffer)])
                        IN  path[1][1] = 0 /\ All!Joined(path)
      BY DEF All!BufferFitsPath, All!Last, Held
    <2> DEFINE val == stack_buffer[Len(stack_buffer)]
    <2>1. stack_buffer \in Seq(node) /\ Joins(node, stack_path) /\ Len(stack_buffer) \in 1 .. Len(stack_buffer)
      BY DEF WalkInv, Walk, Stacks
    <2>2. val \in node /\ Joins(node, Held(stack_path, val))
      BY <2>1 DEF WalkInv, Walk, Stacks
    <2> HIDE DEF val
    <2>3. PICK n \in 0 .. Len(stack_path) : IsHeld(node, stack_path, val, n)
      BY <2>1, <2>2, HeldOf
    <2>4. Held(stack_path, val) # <<>>
      BY <2>3 DEF IsHeld
    <2>5. Held(stack_path, val)[1][1] = 0 /\ All!Joined(Held(stack_path, val))
      BY <2>2, <2>4 DEF Joins
    <2> QED
      BY <2>5 DEF val
  <1> QED
    BY <1>1, WalkStaysTogether, PTL

(* When _getPath returns it has printed every segmentation, each once.     *)
THEOREM EverySegmentationPrinted == All!AllPathsAssumption => (All!Spec => []All!EverySegmentationOnce)
  <1> SUFFICES ASSUME All!AllPathsAssumption PROVE All!Spec => []All!EverySegmentationOnce
    OBVIOUS
  <1>1. WalkInv => All!EverySegmentationOnce
    <2> SUFFICES ASSUME WalkInv, stack_buffer = <<>>
                 PROVE  IF TextLen = 0 THEN str_all = <<>>
                        ELSE All!IsInjective(str_all) /\ All!Range(str_all) = All!PathsTo[TextLen]
      BY DEF All!EverySegmentationOnce
    <2>1. /\ node \subseteq All!Places /\ str_all \in Seq(Seq(node)) /\ TextLen \in Nat
          /\ \A i \in 1 .. Len(str_all) : IsWhole(node, str_all[i])
          /\ \A i, j \in 1 .. Len(str_all) : str_all[i] = str_all[j] => i = j
          /\ DOMAIN str_all = 1 .. Len(str_all) /\ Len(str_all) \in Nat
      BY DEF WalkInv, Walk, Stacks, All!AllPathsAssumption
    <2>2. \A c : IsWhole(node, c) => Listed(str_all, c)
      <3>1. \A c : ~Awaited(stack_path, stack_buffer, c)
        BY DEF Awaited
      <3> QED
        BY <3>1 DEF WalkInv, Walk
    <2>3. ASSUME NEW c, IsWhole(node, c) PROVE TextLen # 0
      <3>1. c \in Seq(node) /\ c # <<>> /\ c[Len(c)][2] = TextLen
        BY <2>3 DEF IsWhole, Joins
      <3>2. c[Len(c)] \in node
        BY <3>1
      <3>3. c[Len(c)][1] \in Nat /\ c[Len(c)][1] < c[Len(c)][2]
        BY <2>1, <3>2, PlacesAre
      <3> QED
        BY <3>1, <3>3
    <2>4. CASE TextLen = 0
      <3>1. ~(1 \in 1 .. Len(str_all))
        BY <2>1, <2>3, <2>4
      <3>2. str_all = <<>>
        BY <2>1, <3>1
      <3> QED
        BY <2>4, <3>2
    <2>5. CASE TextLen # 0
      <3>1. All!IsInjective(str_all)
        BY <2>1 DEF All!IsInjective
      <3>2. All!PathsTo[TextLen] = RoutesTo(node, TextLen)
        <4>1. TextLen \in 0 .. TextLen
          BY <2>1
        <4> QED
          BY <2>1, <4>1, PathsToIs
      <3>3. \A c : c \in RoutesTo(node, TextLen) <=> IsWhole(node, c)
        BY <2>5 DEF RoutesTo, IsWhole, Joins
      <3>4. \A c : c \in All!Range(str_all) <=> Listed(str_all, c)
        BY <2>1 DEF All!Range, Listed
      <3>5. \A c : Listed(str_all, c) => IsWhole(node, c)
        BY <2>1 DEF Listed
      <3>6. \A c : c \in All!Range(str_all) <=> c \in RoutesTo(node, TextLen)
        BY <2>2, <3>3, <3>4, <3>5
      <3> HIDE DEF All!Range
      <3>7. All!Range(str_all) = RoutesTo(node, TextLen)
        BY <3>6
      <3> QED
        BY <2>5, <3>1, <3>2, <3>7
    <2> QED
      BY <2>4, <2>5
  <1> QED
    BY <1>1, WalkStaysTogether, PTL

-----------------------------------------------------------------------------
(***************************************************************************)
(* GreedySegment: the forward pass moves from character to character.      *)
(***************************************************************************)
VARIABLES pText, dictionary, pos, buffer, greedyPc
Greedy == INSTANCE GreedySegment WITH text <- pText, words <- dictionary, pc <- greedyPc

(* The places where the characters from b to e begin, and e.               *)
Starts(t, b, e, S) ==
  /\ S \subseteq b .. e /\ b \in S /\ e \in S
  /\ \A p \in S : p # e => p + Greedy!WidthAt(t, p) \in S

LEMMA WholeIs ==
  ASSUME NEW t, NEW b \in Nat, NEW e \in Nat
  PROVE  Greedy!Whole(t, b, e) <=> \E S : Starts(t, b, e, S)
  <1>1. ASSUME Greedy!Whole(t, b, e) PROVE \E S : Starts(t, b, e, S)
    BY <1>1 DEF Greedy!Whole, Starts
  <1>2. ASSUME NEW S, Starts(t, b, e, S) PROVE Greedy!Whole(t, b, e)
    BY <1>2 DEF Greedy!Whole, Starts
  <1> QED
    BY <1>1, <1>2

LEMMA Greatest ==
  ASSUME NEW n \in Nat, NEW S, S \subseteq 0 .. n, S # {}
  PROVE  \E m \in S : \A k \in S : k <= m
  <1> DEFINE R == {n - k : k \in S}
  <1>1. R \subseteq Nat /\ R # {}
    <2>1. ASSUME NEW k \in S PROVE n - k \in Nat
      <3>1. k \in 0 .. n
        OBVIOUS
      <3> QED
        BY <3>1
    <2>2. R \subseteq Nat
      BY <2>1
    <2>3. R # {}
      OBVIOUS
    <2> QED
      BY <2>2, <2>3
  <1>2. PICK r \in R : \A q \in R : r <= q
    BY <1>1, Least, Zenon
  <1>3. PICK m \in S : r = n - m
    OBVIOUS
  <1>4. ASSUME NEW k \in S PROVE k <= m
    <2>1. r <= n - k
      BY <1>2
    <2> QED
      BY <1>3, <2>1
  <1> QED
    BY <1>4

(* Characters behind characters are characters.                            *)
LEMMA WholeOn ==
  ASSUME NEW t, NEW b \in Nat, NEW m \in Nat, NEW e \in Nat,
         Greedy!Whole(t, b, m), Greedy!Whole(t, m, e)
  PROVE  Greedy!Whole(t, b, e)
  <1>1. PICK S : Starts(t, b, m, S)
    BY WholeIs
  <1>2. PICK T : Starts(t, m, e, T)
    BY WholeIs
  <1>3. b <= m /\ m <= e
    BY <1>1, <1>2 DEF Starts
  <1>4. S \union T \subseteq b .. e
    BY <1>1, <1>2, <1>3 DEF Starts
  <1>5. ASSUME NEW p \in S \union T, p # e PROVE p + Greedy!WidthAt(t, p) \in S \union T
    BY <1>1, <1>2, <1>5 DEF Starts
  <1>6. Starts(t, b, e, S \union T)
    BY <1>1, <1>2, <1>4, <1>5 DEF Starts
  <1> QED
    BY <1>6, WholeIs

(* What ends at a character leaves characters behind it.                   *)
LEMMA WholeRest ==
  ASSUME NEW t, NEW b \in Nat, NEW m \in Nat, NEW e \in Nat, m <= e,
         Greedy!Whole(t, b, m), Greedy!Whole(t, b, e)
  PROVE  Greedy!Whole(t, m, e)
  <1>1. PICK S : Starts(t, b, m, S)
    BY WholeIs
  <1>2. PICK T : Starts(t, b, e, T)
    BY WholeIs
  <1>3. \A p \in Nat : Greedy!WidthAt(t, p) \in 1 .. 2
    BY DEF Greedy!WidthAt
  <1>4. PICK g \in S \intersect T : \A k \in S \intersect T : k <= g
    <2>1. S \intersect T \subseteq 0 .. m /\ S \intersect T # {}
      BY <1>1, <1>2 DEF Starts
    <2> QED
      BY <2>1, Greatest
  <1>5. g = m
    <2>1. SUFFICES ASSUME g # m PROVE FALSE
      OBVIOUS
    <2> DEFINE h == g + Greedy!WidthAt(t, g)
    <2>2. g \in Nat /\ g < m
      BY <1>1, <2>1 DEF Starts
    <2>3. h \in S
      BY <1>1, <2>1 DEF Starts
    <2>4. h \in T
      BY <1>2, <2>2 DEF Starts
    <2>5. h <= g
      BY <1>4, <2>3, <2>4
    <2>6. Greedy!WidthAt(t, g) \in 1 .. 2
      BY <1>3, <2>2
    <2> QED
      BY <2>2, <2>5, <2>6
  <1>6. m \in T
    BY <1>4, <1>5
  <1> DEFINE U == {p \in T : m <= p}
  <1>7. U \subseteq m .. e /\ m \in U /\ e \in U
    <2>1. ASSUME NEW p \in U PROVE p \in m .. e
      <3>1. p \in b .. e /\ m <= p
        BY <1>2 DEF Starts
      <3> QED
        BY <3>1
    <2>2. m \in U /\ e \in U
      BY <1>2, <1>6 DEF Starts
    <2> QED
      BY <2>1, <2>2
  <1>8. ASSUME NEW p \in U, p # e PROVE p + Greedy!WidthAt(t, p) \in U
    <2>1. p \in Nat /\ m <= p /\ p + Greedy!WidthAt(t, p) \in T
      BY <1>2, <1>8 DEF Starts
    <2>2. Greedy!WidthAt(t, p) \in 1 .. 2
      BY <1>3, <2>1
    <2> QED
      BY <2>1, <2>2
  <1> HIDE DEF U
  <1>9. Starts(t, m, e, U)
    BY <1>7, <1>8 DEF Starts
  <1> QED
    BY <1>9, WholeIs

(* A character that begins before the end ends at or before it.            *)
LEMMA WholeNext ==
  ASSUME NEW t, NEW b \in Nat, NEW e \in Nat, b < e, Greedy!Whole(t, b, e)
  PROVE  b + Greedy!WidthAt(t, b) <= e /\ Greedy!Whole(t, b, b + Greedy!WidthAt(t, b))
  <1> DEFINE n == b + Greedy!WidthAt(t, b)
  <1>1. Greedy!WidthAt(t, b) \in 1 .. 2
    BY DEF Greedy!WidthAt
  <1>2. n \in Nat /\ b < n
    BY <1>1
  <1>3. n <= e
    <2>1. PICK S : Starts(t, b, e, S)
      BY WholeIs
    <2>2. b \in S /\ b # e
      BY <2>1 DEF Starts
    <2>3. n \in S
      BY <2>1, <2>2 DEF Starts
    <2>4. n \in b .. e
      BY <2>1, <2>3 DEF Starts
    <2> QED
      BY <2>4
  <1>4. {b, n} \subseteq b .. n
    BY <1>2
  <1>5. \A p \in {b, n} : p # n => p + Greedy!WidthAt(t, p) \in {b, n}
    OBVIOUS
  <1> HIDE DEF n
  <1>6. Starts(t, b, n, {b, n})
    BY <1>4, <1>5 DEF Starts
  <1>7. Greedy!Whole(t, b, n)
    BY <1>2, <1>6, WholeIs
  <1> QED
    BY <1>3, <1>7 DEF n

(* fmm gives the length of a word, or 0; bmm the beginning of one, or -1.  *)
LEMMA GreedyFmm ==
  ASSUME TextLen \in Nat, NEW p \in 0 .. TextLen, dictionary \subseteq Greedy!WordsOf(pText)
  PROVE  \/ Greedy!fmm(p) = 0
         \/ \E e \in 0 .. TextLen : /\ p < e /\ Greedy!fmm(p) = e - p
                                    /\ Greedy!Whole(pText, p, e)
  <1> DEFINE E == {e \in 0 .. TextLen : <<p, e>> \in dictionary}
             S == {0} \union {e - p : e \in E}
  <1>1. ASSUME NEW e \in E PROVE p < e /\ Greedy!Whole(pText, p, e)
    BY <1>1 DEF Greedy!WordsOf
  <1>2. S \subseteq 0 .. TextLen /\ S # {}
    <2>1. ASSUME NEW s \in S PROVE s \in 0 .. TextLen
      <3>1. CASE s = 0
        BY <3>1
      <3>2. CASE \E e \in E : s = e - p
        <4>1. PICK e \in E : s = e - p
          BY <3>2
        <4>2. p < e /\ e \in 0 .. TextLen
          BY <1>1
        <4> QED
          BY <4>1, <4>2
      <3> QED
        BY <3>1, <3>2
    <2> QED
      BY <2>1
  <1>3. PICK m \in S : \A k \in S : k <= m
    BY <1>2, Greatest
  <1>4. \E n \in S : \A k \in S : n >= k
    BY <1>2, <1>3
  <1>5. Greedy!Longest(S) \in S
    BY <1>4 DEF Greedy!Longest
  <1>6. Greedy!fmm(p) = Greedy!Longest(S)
    BY DEF Greedy!fmm
  <1> QED
    BY <1>1, <1>5, <1>6

LEMMA GreedyBmm ==
  ASSUME TextLen \in Nat, NEW p \in 0 .. TextLen, dictionary \subseteq Greedy!WordsOf(pText)
  PROVE  Greedy!bmm(p) = -1 \/ (Greedy!bmm(p) \in 0 .. TextLen)
  <1> DEFINE S == {b \in 0 .. TextLen : <<b, p>> \in dictionary}
  <1>1. CASE S = {}
    BY <1>1 DEF Greedy!bmm
  <1>2. CASE S # {}
    <2>1. PICK m \in S : \A k \in S : m <= k
      <3>1. S \subseteq Nat
        OBVIOUS
      <3> QED
        BY <1>2, <3>1, Least
    <2>2. Greedy!Smallest(S) \in S
      BY <2>1 DEF Greedy!Smallest
    <2>3. Greedy!bmm(p) = Greedy!Smallest(S)
      BY <1>2 DEF Greedy!bmm
    <2> QED
      BY <2>2, <2>3
  <1> QED
    BY <1>1, <1>2

LEMMA LastIn ==
  ASSUME NEW D, NEW s \in Seq(D), s # <<>>
  PROVE  Len(s) \in Nat /\ Len(s) \in DOMAIN s /\ s[Len(s)] \in D
  OBVIOUS

(* Type correctness and the property, which together are inductive.        *)
GreedyInv ==
  /\ pText \in Greedy!Texts /\ dictionary \subseteq Greedy!WordsOf(pText)
  /\ pos \in Seq(0 .. TextLen) /\ pos # <<>> /\ Greedy!ForwardOnCharacters
  /\ buffer \in Seq(0 .. TextLen) /\ buffer # <<>>
  /\ greedyPc \in {"forward", "backward", "done"}

LEMMA GreedyInit ==
  ASSUME Greedy!GreedySegmentAssumption, Greedy!Init
  PROVE  GreedyInv
  <1>1. TextLen \in Nat
    BY DEF Greedy!GreedySegmentAssumption
  <1>2. pText \in Greedy!Texts /\ dictionary \subseteq Greedy!WordsOf(pText) /\ greedyPc = "forward"
    BY DEF Greedy!Init
  <1>3. pos = <<0>> /\ buffer = <<TextLen>>
    BY DEF Greedy!Init
  <1>4. Greedy!Whole(pText, 0, 0)
    <2>1. Starts(pText, 0, 0, {0})
      BY DEF Starts
    <2> QED
      BY <2>1, WholeIs
  <1>5. Greedy!ForwardOnCharacters
    BY <1>1, <1>3, <1>4 DEF Greedy!ForwardOnCharacters
  <1> QED
    BY <1>1, <1>2, <1>3, <1>5 DEF GreedyInv

LEMMA GreedyForward ==
  ASSUME Greedy!GreedySegmentAssumption, GreedyInv, Greedy!Forward
  PROVE  GreedyInv'
  <1>1. TextLen \in Nat
    BY DEF Greedy!GreedySegmentAssumption
  <1>2. pText' = pText /\ dictionary' = dictionary /\ buffer' = buffer
    BY DEF Greedy!Forward
  <1> DEFINE p == pos[Len(pos)]
  <1>3. pos \in Seq(0 .. TextLen) /\ Len(pos) \in Nat /\ Len(pos) \in DOMAIN pos
    BY DEF GreedyInv
  <1>4. p \in 0 .. TextLen /\ Greedy!Whole(pText, 0, p)
    <2>1. p \in 0 .. TextLen
      BY LastIn, Zenon DEF GreedyInv
    <2>2. Greedy!Whole(pText, 0, p)
      BY <1>3 DEF GreedyInv, Greedy!ForwardOnCharacters
    <2> QED
      BY <2>1, <2>2
  <1>5. CASE p < TextLen
    <2>1. pos' = Append(pos, p + Greedy!Length(p)) /\ greedyPc' = greedyPc
      BY <1>5 DEF Greedy!Forward
    <2>2. Greedy!Whole(pText, p, TextLen)
      <3>1. Greedy!Whole(pText, 0, TextLen)
        BY DEF GreedyInv, Greedy!Texts
      <3> QED
        BY <1>1, <1>4, <3>1, WholeRest
    <2>3. PICK n \in 0 .. TextLen : n = p + Greedy!Length(p) /\ Greedy!Whole(pText, p, n)
      <3>1. CASE Greedy!fmm(p) = 0
        <4>1. Greedy!Length(p) = Greedy!WidthAt(pText, p)
          BY <3>1 DEF Greedy!Length
        <4>2. /\ p + Greedy!WidthAt(pText, p) <= TextLen
              /\ Greedy!Whole(pText, p, p + Greedy!WidthAt(pText, p))
          BY <1>1, <1>4, <1>5, <2>2, WholeNext
        <4>3. Greedy!WidthAt(pText, p) \in 1 .. 2
          BY DEF Greedy!WidthAt
        <4> QED
          BY <1>1, <1>4, <4>1, <4>2, <4>3
      <3>2. CASE Greedy!fmm(p) # 0
        <4>1. PICK e \in 0 .. TextLen : /\ p < e /\ Greedy!fmm(p) = e - p
                                        /\ Greedy!Whole(pText, p, e)
          <5>1. dictionary \subseteq Greedy!WordsOf(pText)
            BY DEF GreedyInv
          <5> QED
            BY <1>1, <1>4, <3>2, <5>1, GreedyFmm
        <4>2. Greedy!Length(p) = Greedy!fmm(p)
          BY <3>2 DEF Greedy!Length
        <4>3. e = p + Greedy!Length(p)
          BY <1>1, <1>4, <4>1, <4>2
        <4> QED
          BY <4>1, <4>3
      <3> QED
        BY <3>1, <3>2
    <2>4. Greedy!Whole(pText, 0, n)
      BY <1>1, <1>4, <2>3, WholeOn
    <2>5. pos' \in Seq(0 .. TextLen) /\ pos' # <<>>
      BY <1>3, <2>1, <2>3
    <2>6. Greedy!ForwardOnCharacters'
      <3>1. SUFFICES ASSUME NEW k \in DOMAIN pos'
                     PROVE  pos'[k] <= TextLen /\ Greedy!Whole(pText, 0, pos'[k])
        BY <1>2 DEF Greedy!ForwardOnCharacters, Greedy!Whole, Greedy!WidthAt
      <3>2. k \in DOMAIN pos \/ (k = Len(pos) + 1 /\ pos'[k] = n)
        BY <1>3, <2>1, <2>3
      <3>3. CASE k \in DOMAIN pos
        <4>1. pos'[k] = pos[k]
          BY <1>3, <2>1, <3>3
        <4> QED
          BY <3>3, <4>1 DEF GreedyInv, Greedy!ForwardOnCharacters
      <3> QED
        BY <1>1, <2>3, <2>4, <3>2, <3>3
    <2> QED
      BY <1>2, <2>1, <2>5, <2>6 DEF GreedyInv, Greedy!Texts, Greedy!WordsOf, Greedy!Whole, Greedy!WidthAt
  <1>6. CASE ~(p < TextLen)
    <2>1. pos' = pos /\ greedyPc' = "backward"
      BY <1>6 DEF Greedy!Forward
    <2> QED
      BY <1>2, <2>1 DEF GreedyInv, Greedy!ForwardOnCharacters, Greedy!Texts, Greedy!WordsOf, Greedy!Whole, Greedy!WidthAt
  <1> QED
    BY <1>5, <1>6

LEMMA GreedyBackward ==
  ASSUME Greedy!GreedySegmentAssumption, GreedyInv, Greedy!Backward
  PROVE  GreedyInv'
  <1>1. TextLen \in Nat
    BY DEF Greedy!GreedySegmentAssumption
  <1>2. pText' = pText /\ dictionary' = dictionary /\ pos' = pos
    BY DEF Greedy!Backward
  <1> DEFINE p == buffer[Len(buffer)]
  <1>3. buffer \in Seq(0 .. TextLen) /\ Len(buffer) \in Nat /\ Len(buffer) \in DOMAIN buffer
    BY DEF GreedyInv
  <1>4. p \in 0 .. TextLen
    BY LastIn, Zenon DEF GreedyInv
  <1>5. buffer' \in Seq(0 .. TextLen) /\ buffer' # <<>> /\ greedyPc' \in {"forward", "backward", "done"}
    <2>1. CASE p > 0
      <3>1. buffer' = Append(buffer, Greedy!Start(p)) /\ greedyPc' = greedyPc
        BY <2>1 DEF Greedy!Backward
      <3>2. Greedy!Start(p) \in 0 .. TextLen
        <4>1. Greedy!bmm(p) = -1 \/ (Greedy!bmm(p) \in 0 .. TextLen)
          BY <1>1, <1>4, GreedyBmm DEF GreedyInv
        <4> QED
          BY <1>1, <1>4, <2>1, <4>1 DEF Greedy!Start
      <3> QED
        BY <1>3, <3>1, <3>2 DEF GreedyInv
    <2>2. CASE ~(p > 0)
      BY <1>3, <2>2 DEF Greedy!Backward, GreedyInv
    <2> QED
      BY <2>1, <2>2
  <1> QED
    BY <1>2, <1>5 DEF GreedyInv, Greedy!ForwardOnCharacters, Greedy!Texts, Greedy!WordsOf, Greedy!Whole, Greedy!WidthAt

LEMMA GreedyInductive ==
  ASSUME Greedy!GreedySegmentAssumption
  PROVE  Greedy!Spec => []GreedyInv
  <1>1. Greedy!Init => GreedyInv
    BY GreedyInit
  <1>2. GreedyInv /\ [Greedy!Next]_Greedy!vars => GreedyInv'
    <2>1. SUFFICES ASSUME GreedyInv, [Greedy!Next]_Greedy!vars PROVE GreedyInv'
      OBVIOUS
    <2>2. CASE UNCHANGED Greedy!vars
      BY <2>1, <2>2 DEF GreedyInv, Greedy!vars, Greedy!ForwardOnCharacters, Greedy!Texts,
                        Greedy!WordsOf, Greedy!Whole, Greedy!WidthAt
    <2> QED
      BY <2>1, <2>2, GreedyForward, GreedyBackward DEF Greedy!Next
  <1> QED
    BY <1>1, <1>2, PTL DEF Greedy!Spec

(* Forward and backward, the longest words cut the text inside its bounds: *)
(* no position lies behind the end or before the beginning (word_sect and  *)
(* _word_sect with matching from the front and from the back).             *)
THEOREM GreedyStaysInText ==
  ASSUME Greedy!GreedySegmentAssumption
  PROVE  Greedy!Spec => []Greedy!TypeOK
  <1>1. GreedyInv => Greedy!TypeOK
    <2>1. SUFFICES ASSUME GreedyInv PROVE pos \in Seq(0 .. TextLen + 1)
      BY DEF GreedyInv, Greedy!TypeOK
    <2>2. TextLen \in Nat
      BY DEF Greedy!GreedySegmentAssumption
    <2>3. pos \in Seq(0 .. TextLen)
      BY <2>1 DEF GreedyInv
    <2> QED
      BY <2>2, <2>3
  <1> QED
    BY <1>1, GreedyInductive, PTL

(* The forward pass never steps into a character or over the end of the    *)
(* text, for texts of any length and any dictionary of whole characters:   *)
(* word_sect, which reads until it meets the final zero.                   *)
THEOREM GreedyKeepsCharacters ==
  ASSUME Greedy!GreedySegmentAssumption
  PROVE  Greedy!Spec => []Greedy!ForwardOnCharacters
  <1>1. GreedyInv => Greedy!ForwardOnCharacters
    BY DEF GreedyInv
  <1> QED
    BY <1>1, GreedyInductive, PTL

-----------------------------------------------------------------------------
(***************************************************************************)
(* PinYin: the iterators of the calls in progress stand for the choices of *)
(* readings that are already in the results: those before them in the      *)
(* order of the first character on which they differ.                      *)
(***************************************************************************)
CONSTANTS Characters, Tables, MaxChars
VARIABLES chword, chword_pinyin, sIt, whole_pinyin, first_pinyin, readingsPc
Readings == INSTANCE PinYin WITH pc <- readingsPc

(* A choice of a reading for every character of w, by its place in table T,*)
(* and what it reads.                                                      *)
Picks(w, T) ==
  {t \in [1 .. Len(w) -> Nat \ {0}] : \A k \in 1 .. Len(w) : t[k] <= Len(T[w[k]])}
Reads(w, T, t) == [k \in 1 .. Len(w) |-> T[w[k]][t[k]]]

(* The choices the calls have left behind when their iterators are s.      *)
Before(t, s) ==
  \E m \in 1 .. Len(s) : t[m] < s[m] /\ \A k \in 1 .. m - 1 : t[k] = s[k]
Behind(w, T, s) == {t \in Picks(w, T) : Before(t, s)}

(* The results are what the choices of C read, each once.                  *)
ReadBy(w, T, C, results) ==
  /\ \A t \in C : \E j \in 1 .. Len(results) : results[j] = Reads(w, T, t)
  /\ \A j \in 1 .. Len(results) : \E t \in C : results[j] = Reads(w, T, t)
  /\ \A j, l \in 1 .. Len(results) : results[j] = results[l] => j = l

(* Until there is a result all iterators are at the first syllable.        *)
FirstOf(w, T, results, s) ==
  IF results = <<>> THEN \A k \in 1 .. Len(s) : s[k] = 1
  ELSE results[1] = [k \in 1 .. Len(w) |-> T[w[k]][1]]

HasReadings(w, T) == \A k \in 1 .. Len(w) : T[w[k]] # <<>>

(* Iterators inside the lists.                                             *)
Inside(w, T, s) ==
  /\ s \in Seq(Nat \ {0}) /\ Len(s) <= Len(w)
  /\ \A k \in 1 .. Len(s) : s[k] <= Len(T[w[k]])

CallInv ==
  /\ Readings!TypeOK
  /\ Inside(chword, chword_pinyin, sIt)
  /\ readingsPc = "down" =>
       ReadBy(chword, chword_pinyin, Behind(chword, chword_pinyin, sIt), whole_pinyin)
  /\ readingsPc = "true" =>
       /\ HasReadings(chword, chword_pinyin)
       /\ ReadBy(chword, chword_pinyin, Picks(chword, chword_pinyin), whole_pinyin)
       /\ whole_pinyin # <<>>
  /\ readingsPc # "false" => FirstOf(chword, chword_pinyin, whole_pinyin, sIt)
  /\ readingsPc = "false" =>
       /\ ~HasReadings(chword, chword_pinyin)
       /\ whole_pinyin = <<>> /\ first_pinyin = <<>>

-----------------------------------------------------------------------------
(* Words and tables.                                                       *)
IsReadWord(w) == w \in [1 .. Len(w) -> Characters] /\ Len(w) \in Nat
IsReadingTable(T) ==
  /\ T \in [Characters -> Seq(Readings!Syllables)]
  /\ \A c \in Characters : \A a, b \in 1 .. Len(T[c]) : T[c][a] = T[c][b] => a = b

LEMMA AreReadWords ==
  ASSUME Readings!PinYinAssumption, NEW w \in Readings!Words
  PROVE  IsReadWord(w)
  <1>1. PICK n \in 0 .. MaxChars : w \in [1 .. n -> Characters]
    BY DEF Readings!Words
  <1>2. n \in Nat
    BY DEF Readings!PinYinAssumption
  <1>3. w \in Seq(Characters) /\ Len(w) = n
    BY <1>1, <1>2
  <1> QED
    BY <1>1, <1>2, <1>3 DEF IsReadWord

LEMMA AreReadingTables ==
  ASSUME Readings!PinYinAssumption, NEW T \in Tables
  PROVE  IsReadingTable(T)
  <1>1. T \in [Characters -> Seq(Readings!Syllables)]
    BY DEF Readings!PinYinAssumption
  <1>2. ASSUME NEW c \in Characters, NEW a \in 1 .. Len(T[c]), NEW b \in 1 .. Len(T[c]),
               T[c][a] = T[c][b]
        PROVE  a = b
    <2>1. Readings!IsInjective(T[c])
      BY DEF Readings!PinYinAssumption
    <2>2. DOMAIN T[c] = 1 .. Len(T[c])
      BY <1>1
    <2> QED
      BY <1>2, <2>1, <2>2 DEF Readings!IsInjective
  <1> QED
    BY <1>1, <1>2 DEF IsReadingTable

LEMMA CharacterReadings ==
  ASSUME NEW w, NEW T, IsReadWord(w), IsReadingTable(T), NEW k \in 1 .. Len(w)
  PROVE  T[w[k]] \in Seq(Readings!Syllables) /\ w[k] \in Characters
  BY DEF IsReadWord, IsReadingTable

(* Two choices that read the same are the same.                            *)
LEMMA ReadsDiffer ==
  ASSUME NEW w, NEW T, IsReadWord(w), IsReadingTable(T),
         NEW t \in Picks(w, T), NEW u \in Picks(w, T),
         Reads(w, T, t) = Reads(w, T, u)
  PROVE  t = u
  <1>1. ASSUME NEW k \in 1 .. Len(w) PROVE t[k] = u[k]
    <2>1. T[w[k]][t[k]] = T[w[k]][u[k]]
      <3>1. Reads(w, T, t)[k] = T[w[k]][t[k]] /\ Reads(w, T, u)[k] = T[w[k]][u[k]]
        BY DEF Reads
      <3> QED
        BY <3>1
    <2>2. w[k] \in Characters /\ Len(T[w[k]]) \in Nat
      BY CharacterReadings
    <2>3. t[k] \in 1 .. Len(T[w[k]]) /\ u[k] \in 1 .. Len(T[w[k]])
      BY <2>2 DEF Picks
    <2> QED
      BY <2>1, <2>2, <2>3 DEF IsReadingTable
  <1>2. t \in [1 .. Len(w) -> Nat \ {0}] /\ u \in [1 .. Len(w) -> Nat \ {0}]
    BY DEF Picks
  <1> QED
    BY <1>1, <1>2

LEMMA FullIsPick ==
  ASSUME NEW w, NEW T, IsReadWord(w), NEW s, Inside(w, T, s), Len(s) = Len(w)
  PROVE  s \in Picks(w, T)
  <1>1. s \in [1 .. Len(w) -> Nat \ {0}]
    BY DEF Inside
  <1> QED
    BY <1>1 DEF Inside, Picks

(* No choice is before itself.                                             *)
LEMMA NotBeforeItself ==
  ASSUME NEW s \in Seq(Nat \ {0})
  PROVE  ~Before(s, s)
  <1>1. \A m \in 1 .. Len(s) : s[m] \in Nat
    OBVIOUS
  <1> QED
    BY <1>1 DEF Before

(* Two choices that differ: one is before the other, at the first place.   *)
LEMMA FirstDifference ==
  ASSUME NEW n \in Nat, NEW t \in [1 .. n -> Nat \ {0}], NEW s \in [1 .. n -> Nat \ {0}],
         t # s
  PROVE  \E m \in 1 .. n : t[m] # s[m] /\ \A k \in 1 .. m - 1 : t[k] = s[k]
  <1> DEFINE S == {m \in 1 .. n : t[m] # s[m]}
  <1>1. S # {} /\ S \subseteq Nat
    <2>1. \E m \in 1 .. n : t[m] # s[m]
      OBVIOUS
    <2>2. S \subseteq Nat
      OBVIOUS
    <2> QED
      BY <2>1, <2>2
  <1>2. PICK m \in S : \A l \in S : m <= l
    BY <1>1, Least
  <1>3. ASSUME NEW k \in 1 .. m - 1 PROVE t[k] = s[k]
    <2>1. m \in 1 .. n
      BY <1>2
    <2>2. k \in 1 .. n /\ ~(m <= k)
      BY <2>1
    <2> QED
      BY <1>2, <2>2
  <1> QED
    BY <1>2, <1>3

-----------------------------------------------------------------------------
(* The steps.  A call for the next character changes nothing.              *)
LEMMA DownLeavesBehind ==
  ASSUME NEW w, NEW T, IsReadWord(w), IsReadingTable(T), NEW s, Inside(w, T, s), Len(s) < Len(w)
  PROVE  Behind(w, T, Append(s, 1)) = Behind(w, T, s)
  <1> DEFINE r == Append(s, 1)
             n == Len(s)
  <1>1. n \in Nat /\ s \in Seq(Nat \ {0})
    BY DEF Inside
  <1>2. Len(r) = n + 1 /\ r[n + 1] = 1 /\ \A k \in 1 .. n : r[k] = s[k]
    BY <1>1
  <1> HIDE DEF r
  <1>3. ASSUME NEW t \in Picks(w, T), Before(t, s) PROVE Before(t, r)
    <2>1. PICK m \in 1 .. n : t[m] < s[m] /\ \A k \in 1 .. m - 1 : t[k] = s[k]
      BY <1>3 DEF Before
    <2>2. m \in 1 .. Len(r) /\ t[m] < r[m]
      BY <1>1, <1>2, <2>1
    <2>3. \A k \in 1 .. m - 1 : t[k] = r[k]
      BY <1>1, <1>2, <2>1
    <2> QED
      BY <2>2, <2>3 DEF Before
  <1>4. ASSUME NEW t \in Picks(w, T), Before(t, r) PROVE Before(t, s)
    <2>1. PICK m \in 1 .. Len(r) : t[m] < r[m] /\ \A k \in 1 .. m - 1 : t[k] = r[k]
      BY <1>4 DEF Before
    <2>2. m # n + 1
      <3>1. n + 1 \in 1 .. Len(w)
        BY <1>1 DEF IsReadWord
      <3>2. t[n + 1] \in Nat \ {0}
        BY <3>1 DEF Picks
      <3> QED
        BY <1>2, <2>1, <3>2
    <2>3. m \in 1 .. n /\ t[m] < s[m]
      BY <1>1, <1>2, <2>1, <2>2
    <2>4. \A k \in 1 .. m - 1 : t[k] = s[k]
      BY <1>1, <1>2, <2>1, <2>3
    <2> QED
      BY <2>3, <2>4 DEF Before
  <1>5. Behind(w, T, r) = Behind(w, T, s)
    BY <1>3, <1>4 DEF Behind
  <1> QED
    BY <1>5 DEF r

(* At the end of the word: the iterators that can still go on.             *)
CanGoOn(w, T, s) == {k \in 1 .. Len(s) : s[k] < Len(T[w[k]])}

(* None can: all choices but this one are behind.                          *)
LEMMA LastRead ==
  ASSUME NEW w, NEW T, IsReadWord(w), IsReadingTable(T), NEW s, Inside(w, T, s), Len(s) = Len(w),
         CanGoOn(w, T, s) = {}
  PROVE  Picks(w, T) = Behind(w, T, s) \union {s}
  <1>1. s \in Picks(w, T) /\ s \in Seq(Nat \ {0})
    BY FullIsPick DEF Inside
  <1>2. ASSUME NEW t \in Picks(w, T), t # s PROVE Before(t, s)
    <2>1. /\ t \in [1 .. Len(w) -> Nat \ {0}] /\ s \in [1 .. Len(w) -> Nat \ {0}]
          /\ Len(w) \in Nat
      BY <1>1 DEF Picks, IsReadWord
    <2>2. PICK m \in 1 .. Len(w) : t[m] # s[m] /\ \A k \in 1 .. m - 1 : t[k] = s[k]
      BY <1>2, <2>1, FirstDifference
    <2>3. Len(T[w[m]]) \in Nat
      BY CharacterReadings
    <2>4. t[m] <= Len(T[w[m]]) /\ ~(s[m] < Len(T[w[m]]))
      BY DEF Picks, CanGoOn
    <2>5. t[m] < s[m]
      BY <2>1, <2>2, <2>3, <2>4
    <2> QED
      BY <2>2, <2>5 DEF Before
  <1> QED
    BY <1>1, <1>2 DEF Behind

(* The deepest of them goes on: this choice is behind as well, no other.   *)
Advance(s, d) == [SubSeq(s, 1, d) EXCEPT ![d] = @ + 1]

LEMMA AdvanceType ==
  ASSUME NEW s \in Seq(Nat \ {0}), NEW d \in 1 .. Len(s)
  PROVE  /\ Advance(s, d) \in Seq(Nat \ {0}) /\ Len(Advance(s, d)) = d
         /\ \A k \in 1 .. d : Advance(s, d)[k] = IF k = d THEN s[d] + 1 ELSE s[k]
  <1> DEFINE p == SubSeq(s, 1, d)
  <1>1. p \in Seq(Nat \ {0}) /\ Len(p) = d /\ \A k \in 1 .. d : p[k] = s[k]
    OBVIOUS
  <1> HIDE DEF p
  <1>2. p \in [1 .. d -> Nat \ {0}] /\ d \in Nat /\ p[d] = s[d]
    BY <1>1
  <1> DEFINE a == [p EXCEPT ![d] = @ + 1]
  <1>3. p[d] + 1 \in Nat \ {0}
    BY <1>2
  <1>4. a \in [1 .. d -> Nat \ {0}] /\ \A k \in 1 .. d : a[k] = IF k = d THEN s[d] + 1 ELSE s[k]
    BY <1>1, <1>2, <1>3
  <1>5. a \in Seq(Nat \ {0}) /\ Len(a) = d
    BY <1>2, <1>4
  <1>6. Advance(s, d) = a
    BY DEF Advance, a, p
  <1> QED
    BY <1>4, <1>5, <1>6

LEMMA AdvanceRead ==
  ASSUME NEW w, NEW T, IsReadWord(w), IsReadingTable(T), NEW s, Inside(w, T, s), Len(s) = Len(w),
         NEW d \in CanGoOn(w, T, s), \A l \in CanGoOn(w, T, s) : l <= d
  PROVE  /\ Inside(w, T, Advance(s, d))
         /\ Behind(w, T, Advance(s, d)) = Behind(w, T, s) \union {s}
  <1>1. d \in 1 .. Len(s) /\ s[d] < Len(T[w[d]])
    BY DEF CanGoOn
  <1>2. s \in Seq(Nat \ {0}) /\ s \in Picks(w, T) /\ Len(w) \in Nat
    BY FullIsPick DEF Inside, IsReadWord
  <1> DEFINE r == Advance(s, d)
  <1>3. /\ r \in Seq(Nat \ {0}) /\ Len(r) = d
        /\ \A k \in 1 .. d : r[k] = IF k = d THEN s[d] + 1 ELSE s[k]
    BY <1>1, <1>2, AdvanceType
  <1> HIDE DEF r
  <1>4. Inside(w, T, r)
    <2>1. ASSUME NEW k \in 1 .. d PROVE r[k] <= Len(T[w[k]])
      <3>1. k \in 1 .. Len(s)
        BY <1>1
      <3>2. s[k] <= Len(T[w[k]]) /\ Len(T[w[k]]) \in Nat /\ s[k] \in Nat
        BY <3>1, <1>2, CharacterReadings DEF Inside
      <3> QED
        BY <1>1, <1>3, <3>2
    <2> QED
      BY <1>1, <1>2, <1>3, <2>1 DEF Inside
  <1>5. r[d] = s[d] + 1 /\ \A k \in 1 .. d - 1 : r[k] = s[k]
    BY <1>1, <1>3
  <1>6. ASSUME NEW t \in Picks(w, T), Before(t, r), t # s PROVE Before(t, s)
    <2>1. PICK m \in 1 .. d : t[m] < r[m] /\ \A k \in 1 .. m - 1 : t[k] = r[k]
      BY <1>3, <1>6 DEF Before
    <2>2. /\ t \in [1 .. Len(w) -> Nat \ {0}] /\ s \in [1 .. Len(w) -> Nat \ {0}]
          /\ m \in 1 .. Len(s)
      BY <1>1, <1>2, <2>1 DEF Picks
    <2>3. \A k \in 1 .. m - 1 : t[k] = s[k]
      BY <1>1, <1>5, <2>1
    <2>4. CASE t[m] < s[m]
      BY <2>2, <2>3, <2>4 DEF Before
    <2>5. CASE ~(t[m] < s[m])
      <3>1. m = d /\ t[d] = s[d]
        <4>1. m = d
          BY <1>3, <2>1, <2>5
        <4> QED
          BY <4>1, <1>5, <2>1, <2>2, <2>5
      <3>2. PICK f \in 1 .. Len(w) : t[f] # s[f] /\ \A k \in 1 .. f - 1 : t[k] = s[k]
        BY <1>2, <1>6, <2>2, FirstDifference
      <3>3. f > d
        <4>1. f # d
          BY <3>1, <3>2
        <4>2. f \notin 1 .. d - 1
          BY <2>3, <3>1, <3>2
        <4> QED
          BY <1>1, <4>1, <4>2
      <3>4. f \notin CanGoOn(w, T, s)
        BY <1>1, <3>3
      <3>5. ~(s[f] < Len(T[w[f]])) /\ t[f] <= Len(T[w[f]]) /\ Len(T[w[f]]) \in Nat
        BY <3>4, CharacterReadings DEF CanGoOn, Picks
      <3>6. t[f] < s[f]
        BY <2>2, <3>2, <3>5
      <3> QED
        BY <3>2, <3>6 DEF Before
    <2> QED
      BY <2>4, <2>5
  <1>7. ASSUME NEW t \in Picks(w, T), Before(t, s) PROVE Before(t, r)
    <2>1. PICK m \in 1 .. Len(s) : t[m] < s[m] /\ \A k \in 1 .. m - 1 : t[k] = s[k]
      BY <1>7 DEF Before
    <2>2. t[m] \in Nat /\ s[m] \in Nat /\ s[d] \in Nat /\ t[d] \in Nat
      BY <1>1, <1>2, <2>1 DEF Picks
    <2>3. CASE m <= d
      <3>1. m \in 1 .. d /\ t[m] < r[m]
        BY <1>1, <1>3, <2>1, <2>2, <2>3
      <3>2. \A k \in 1 .. m - 1 : t[k] = r[k]
        BY <1>1, <1>5, <2>1, <2>3
      <3> QED
        BY <1>3, <3>1, <3>2 DEF Before
    <2>4. CASE d < m
      <3>1. t[d] = s[d] /\ \A k \in 1 .. d - 1 : t[k] = s[k]
        BY <1>1, <2>1, <2>4
      <3>2. t[d] < r[d] /\ \A k \in 1 .. d - 1 : t[k] = r[k]
        BY <1>5, <2>2, <3>1
      <3>3. d \in 1 .. Len(r)
        BY <1>1, <1>3
      <3> QED
        BY <3>2, <3>3 DEF Before
    <2> QED
      BY <1>1, <2>1, <2>3, <2>4
  <1>8. Before(s, r)
    <2>1. d \in 1 .. Len(r) /\ s[d] < r[d] /\ \A k \in 1 .. d - 1 : s[k] = r[k]
      BY <1>1, <1>2, <1>3, <1>5
    <2> QED
      BY <2>1 DEF Before
  <1>9. Behind(w, T, r) = Behind(w, T, s) \union {s}
    BY <1>2, <1>6, <1>7, <1>8 DEF Behind
  <1> QED
    BY <1>4, <1>9 DEF r

(* The result gains what one more choice reads.                            *)
LEMMA ReadOne ==
  ASSUME NEW w, NEW T, IsReadWord(w), IsReadingTable(T), NEW V, NEW results \in Seq(V),
         NEW C, C \subseteq Picks(w, T), ReadBy(w, T, C, results),
         NEW s \in Picks(w, T), s \notin C, Reads(w, T, s) \in V
  PROVE  ReadBy(w, T, C \union {s}, Append(results, Reads(w, T, s)))
  <1> DEFINE n == Len(results)
             new == Append(results, Reads(w, T, s))
  <1>1. n \in Nat /\ Len(new) = n + 1 /\ new[n + 1] = Reads(w, T, s)
        /\ \A j \in 1 .. n : new[j] = results[j]
    OBVIOUS
  <1> HIDE DEF new
  <1>2. ASSUME NEW t \in C \union {s}
        PROVE  \E j \in 1 .. Len(new) : new[j] = Reads(w, T, t)
    <2>1. CASE t = s
      BY <1>1, <2>1
    <2>2. CASE t \in C
      <3>1. PICK j \in 1 .. n : results[j] = Reads(w, T, t)
        BY <2>2 DEF ReadBy
      <3>2. j \in 1 .. Len(new) /\ new[j] = Reads(w, T, t)
        BY <1>1, <3>1
      <3> QED
        BY <3>2
    <2> QED
      BY <2>1, <2>2
  <1>3. ASSUME NEW j \in 1 .. Len(new)
        PROVE  \E t \in C \union {s} : new[j] = Reads(w, T, t)
    <2>1. CASE j = n + 1
      BY <1>1, <2>1
    <2>2. CASE j # n + 1
      <3>1. j \in 1 .. n /\ new[j] = results[j]
        BY <1>1, <2>2
      <3>2. PICK t \in C : results[j] = Reads(w, T, t)
        BY <3>1 DEF ReadBy
      <3> QED
        BY <3>1, <3>2
    <2> QED
      BY <2>1, <2>2
  <1>4. ASSUME NEW j \in 1 .. n PROVE results[j] # Reads(w, T, s)
    <2>1. PICK t \in C : results[j] = Reads(w, T, t)
      BY DEF ReadBy
    <2>2. t \in Picks(w, T) /\ t # s
      OBVIOUS
    <2> QED
      BY <2>1, <2>2, ReadsDiffer
  <1>5. ASSUME NEW j \in 1 .. Len(new), NEW l \in 1 .. Len(new), new[j] = new[l]
        PROVE  j = l
    <2>1. CASE j = n + 1 /\ l = n + 1
      BY <2>1
    <2>2. CASE j \in 1 .. n /\ l = n + 1
      BY <1>1, <1>4, <1>5, <2>2
    <2>3. CASE j = n + 1 /\ l \in 1 .. n
      BY <1>1, <1>4, <1>5, <2>3
    <2>4. CASE j \in 1 .. n /\ l \in 1 .. n
      BY <1>1, <1>5, <2>4 DEF ReadBy
    <2> QED
      BY <1>1, <2>1, <2>2, <2>3, <2>4
  <1>6. ReadBy(w, T, C \union {s}, new)
    BY <1>2, <1>3, <1>5 DEF ReadBy
  <1> QED
    BY <1>6 DEF new

-----------------------------------------------------------------------------
LEMMA CallInit ==
  ASSUME Readings!PinYinAssumption, Readings!Init
  PROVE  CallInv
  <1>1. IsReadWord(chword) /\ IsReadingTable(chword_pinyin)
    BY AreReadWords, AreReadingTables DEF Readings!Init
  <1>2. Readings!TypeOK
    BY <1>1 DEF Readings!Init, Readings!TypeOK, IsReadWord
  <1>3. Inside(chword, chword_pinyin, sIt)
    BY <1>1 DEF Readings!Init, Inside, IsReadWord
  <1>4. Behind(chword, chword_pinyin, sIt) = {}
    BY DEF Readings!Init, Behind, Before
  <1>5. ReadBy(chword, chword_pinyin, Behind(chword, chword_pinyin, sIt), whole_pinyin)
    BY <1>4 DEF Readings!Init, ReadBy
  <1>6. FirstOf(chword, chword_pinyin, whole_pinyin, sIt)
    BY DEF Readings!Init, FirstOf
  <1> QED
    BY <1>2, <1>3, <1>5, <1>6 DEF Readings!Init, CallInv

LEMMA CallDown ==
  ASSUME Readings!PinYinAssumption, CallInv, Readings!Down
  PROVE  CallInv'
  <1>1. IsReadWord(chword) /\ IsReadingTable(chword_pinyin)
    BY AreReadWords, AreReadingTables DEF CallInv, Readings!TypeOK
  <1> DEFINE n == Len(sIt)
  <1>2. /\ sIt' = Append(sIt, 1) /\ n < Len(chword) /\ readingsPc = "down" /\ readingsPc' = readingsPc
        /\ chword_pinyin[chword[n + 1]] # <<>>
        /\ UNCHANGED <<chword, chword_pinyin, whole_pinyin, first_pinyin>>
    BY DEF Readings!Down, Readings!begin, Readings!py
  <1>3. /\ sIt \in Seq(Nat \ {0}) /\ n \in Nat /\ Inside(chword, chword_pinyin, sIt)
        /\ Len(chword) \in Nat
    BY <1>1 DEF CallInv, Inside, IsReadWord
  <1>4. /\ Append(sIt, 1) \in Seq(Nat \ {0}) /\ Len(Append(sIt, 1)) = n + 1
        /\ Append(sIt, 1)[n + 1] = 1 /\ \A k \in 1 .. n : Append(sIt, 1)[k] = sIt[k]
    BY <1>3
  <1>5. 1 <= Len(chword_pinyin[chword[n + 1]])
    <2>1. n + 1 \in 1 .. Len(chword)
      BY <1>2, <1>3
    <2> QED
      BY <1>1, <1>2, <2>1, CharacterReadings
  <1>6. Inside(chword, chword_pinyin, Append(sIt, 1))
    <2>1. ASSUME NEW k \in 1 .. n + 1
          PROVE  Append(sIt, 1)[k] <= Len(chword_pinyin[chword[k]])
      <3>1. CASE k = n + 1
        BY <1>4, <1>5, <3>1
      <3>2. CASE k # n + 1
        <4>1. k \in 1 .. n
          BY <1>3, <3>2
        <4> QED
          BY <1>3, <1>4, <4>1 DEF Inside
      <3> QED
        BY <3>1, <3>2
    <2> QED
      BY <1>2, <1>3, <1>4, <2>1 DEF Inside
  <1>7. Behind(chword, chword_pinyin, Append(sIt, 1)) = Behind(chword, chword_pinyin, sIt)
    BY <1>1, <1>2, <1>3, DownLeavesBehind
  <1>8. FirstOf(chword, chword_pinyin, whole_pinyin, Append(sIt, 1))
    <2>1. FirstOf(chword, chword_pinyin, whole_pinyin, sIt)
      BY <1>2 DEF CallInv
    <2>2. CASE whole_pinyin = <<>>
      <3>1. ASSUME NEW k \in 1 .. n + 1 PROVE Append(sIt, 1)[k] = 1
        <4>1. k = n + 1 \/ k \in 1 .. n
          BY <1>3
        <4> QED
          BY <1>4, <2>1, <2>2, <4>1 DEF FirstOf
      <3> QED
        BY <1>4, <2>2, <3>1 DEF FirstOf
    <2>3. CASE whole_pinyin # <<>>
      BY <2>1, <2>3 DEF FirstOf
    <2> QED
      BY <2>2, <2>3
  <1>9. Readings!TypeOK'
    BY <1>2, <1>4, <1>6 DEF CallInv, Readings!TypeOK, Inside, Readings!py
  <1> QED
    BY <1>2, <1>6, <1>7, <1>8, <1>9 DEF CallInv

LEMMA CallFail ==
  ASSUME Readings!PinYinAssumption, CallInv, Readings!Fail
  PROVE  CallInv'
  <1>1. IsReadWord(chword) /\ IsReadingTable(chword_pinyin)
    BY AreReadWords, AreReadingTables DEF CallInv, Readings!TypeOK
  <1>2. /\ whole_pinyin' = <<>> /\ first_pinyin' = <<>> /\ readingsPc' = "false"
        /\ chword_pinyin[chword[Len(sIt) + 1]] = <<>> /\ Len(sIt) < Len(chword)
        /\ UNCHANGED <<chword, chword_pinyin, sIt>>
    BY DEF Readings!Fail, Readings!py, Readings!Failed
  <1>3. ~HasReadings(chword, chword_pinyin)
    <2>1. Len(sIt) + 1 \in 1 .. Len(chword)
      BY <1>1, <1>2 DEF CallInv, Inside, IsReadWord
    <2> QED
      BY <1>2, <2>1 DEF HasReadings
  <1>4. Readings!TypeOK'
    BY <1>2 DEF CallInv, Readings!TypeOK, Readings!py
  <1> QED
    BY <1>2, <1>3, <1>4 DEF CallInv

LEMMA OneMore ==
  ASSUME NEW V, NEW x \in Seq(V), NEW v \in V
  PROVE  /\ Append(x, v) \in Seq(V) /\ Append(x, v) # <<>>
         /\ Len(Append(x, v)) = Len(x) + 1
  <1>1. Append(x, v) \in Seq(V) /\ Len(Append(x, v)) = Len(x) + 1 /\ Len(x) \in Nat
    OBVIOUS
  <1>2. Len(<<>>) = 0
    OBVIOUS
  <1> QED
    BY <1>1, <1>2

LEMMA CallRead ==
  ASSUME Readings!PinYinAssumption, CallInv, Readings!Read
  PROVE  CallInv'
  <1> DEFINE w == chword
             T == chword_pinyin
             new == Reads(w, T, sIt)
             F == {Readings!FirstLetter(x) : x \in Readings!Syllables}
             firsts == [k \in DOMAIN Readings!vec |-> Readings!FirstLetter(Readings!vec[k])]
  <1>1. IsReadWord(w) /\ IsReadingTable(T)
    BY AreReadWords, AreReadingTables DEF CallInv, Readings!TypeOK
  <1>2. /\ Inside(w, T, sIt) /\ Len(sIt) = Len(w) /\ sIt \in Seq(Nat \ {0})
        /\ Len(w) \in Nat /\ DOMAIN sIt = 1 .. Len(w)
    BY <1>1 DEF CallInv, Inside, Readings!Read, IsReadWord
  <1>3. sIt \in Picks(w, T)
    BY <1>1, <1>2, FullIsPick
  <1>4. Readings!vec = new
    BY <1>2 DEF Readings!vec, Readings!py, Reads
  <1>5. new \in Seq(Readings!Syllables)
    <2>1. ASSUME NEW k \in 1 .. Len(w) PROVE T[w[k]][sIt[k]] \in Readings!Syllables
      <3>1. T[w[k]] \in Seq(Readings!Syllables)
        BY <1>1, CharacterReadings
      <3>2. sIt[k] \in 1 .. Len(T[w[k]])
        BY <1>2, <3>1 DEF Inside
      <3> QED
        BY <3>1, <3>2
    <2>2. new \in [1 .. Len(w) -> Readings!Syllables]
      BY <2>1 DEF Reads
    <2> QED
      BY <1>2, <2>2
  <1>6. firsts \in Seq(F)
    <2>1. DOMAIN Readings!vec = 1 .. Len(w)
      BY <1>2 DEF Readings!vec
    <2>2. ASSUME NEW k \in 1 .. Len(w) PROVE Readings!FirstLetter(Readings!vec[k]) \in F
      <3>1. Readings!vec[k] \in Readings!Syllables
        BY <1>4, <1>5, <2>1
      <3> QED
        BY <3>1
    <2>3. firsts \in [1 .. Len(w) -> F]
      BY <2>1, <2>2
    <2> QED
      BY <1>2, <2>3
  <1>7. /\ whole_pinyin \in Seq(Seq(Readings!Syllables)) /\ first_pinyin \in Seq(Seq(F))
        /\ Len(first_pinyin) = Len(whole_pinyin)
    BY DEF CallInv, Readings!TypeOK
  <1>8. whole_pinyin' = Append(whole_pinyin, new) /\ first_pinyin' = Append(first_pinyin, firsts)
        /\ readingsPc = "down" /\ UNCHANGED <<chword, chword_pinyin>>
    BY <1>4 DEF Readings!Read
  <1>9. /\ whole_pinyin' \in Seq(Seq(Readings!Syllables)) /\ whole_pinyin' # <<>>
        /\ first_pinyin' \in Seq(Seq(F)) /\ Len(first_pinyin') = Len(whole_pinyin')
    <2> HIDE DEF new, firsts, F
    <2>2. /\ Append(whole_pinyin, new) \in Seq(Seq(Readings!Syllables))
          /\ Append(whole_pinyin, new) # <<>>
          /\ Len(Append(whole_pinyin, new)) = Len(whole_pinyin) + 1
      BY <1>5, <1>7, OneMore
    <2>3. /\ Append(first_pinyin, firsts) \in Seq(Seq(F))
          /\ Len(Append(first_pinyin, firsts)) = Len(first_pinyin) + 1
      BY <1>6, <1>7, OneMore
    <2> QED
      BY <1>7, <1>8, <2>2, <2>3
  <1>10. ReadBy(w, T, Behind(w, T, sIt) \union {sIt}, whole_pinyin')
    <2>1. ReadBy(w, T, Behind(w, T, sIt), whole_pinyin)
      BY <1>8 DEF CallInv
    <2>2. Behind(w, T, sIt) \subseteq Picks(w, T) /\ sIt \notin Behind(w, T, sIt)
      BY <1>2, NotBeforeItself DEF Behind
    <2>3. ReadBy(w, T, Behind(w, T, sIt) \union {sIt}, Append(whole_pinyin, Reads(w, T, sIt)))
      BY <1>1, <1>3, <1>5, <1>7, <2>1, <2>2, ReadOne
    <2> QED
      BY <1>8, <2>3
  <1>11. whole_pinyin'[1] = [k \in 1 .. Len(w) |-> T[w[k]][1]]
    <2>1. FirstOf(w, T, whole_pinyin, sIt)
      BY <1>8 DEF CallInv
    <2>2. CASE whole_pinyin = <<>>
      <3>1. \A k \in 1 .. Len(w) : sIt[k] = 1
        BY <1>2, <2>1, <2>2 DEF FirstOf
      <3>2. new = [k \in 1 .. Len(w) |-> T[w[k]][1]]
        BY <3>1 DEF Reads
      <3>3. whole_pinyin'[1] = new
        <4> HIDE DEF new
        <4> QED
          BY <1>5, <1>7, <1>8, <2>2
      <3> QED
        BY <3>2, <3>3
    <2>3. CASE whole_pinyin # <<>>
      <3>1. whole_pinyin[1] = [k \in 1 .. Len(w) |-> T[w[k]][1]]
        BY <2>1, <2>3 DEF FirstOf
      <3>2. whole_pinyin'[1] = whole_pinyin[1]
        <4> HIDE DEF new
        <4> QED
          BY <1>5, <1>7, <1>8, <2>3
      <3> QED
        BY <3>1, <3>2
    <2> QED
      BY <2>2, <2>3
  <1>12. \A s : FirstOf(w, T, whole_pinyin', s)
    BY <1>9, <1>11 DEF FirstOf
  <1>13. Readings!More = CanGoOn(w, T, sIt)
    BY <1>2 DEF Readings!More, CanGoOn, Readings!py
  <1> HIDE DEF new, firsts
  <1>14. CASE Readings!More = {}
    <2>1. readingsPc' = "true" /\ sIt' = sIt
      BY <1>14 DEF Readings!Read
    <2>2. Picks(w, T) = Behind(w, T, sIt) \union {sIt}
      BY <1>1, <1>2, <1>13, <1>14, LastRead
    <2>3. ReadBy(w, T, Picks(w, T), whole_pinyin')
      BY <1>10, <2>2
    <2>4. HasReadings(w, T)
      <3>1. ASSUME NEW k \in 1 .. Len(w) PROVE T[w[k]] # <<>>
        <4>1. sIt[k] \in Nat \ {0} /\ sIt[k] <= Len(T[w[k]])
          BY <1>2 DEF Inside
        <4> QED
          BY <4>1
      <3> QED
        BY <3>1 DEF HasReadings
    <2>5. Readings!TypeOK'
      BY <1>8, <1>9, <2>1 DEF CallInv, Readings!TypeOK, Readings!py
    <2>6. FirstOf(w, T, whole_pinyin', sIt')
      BY <1>12
    <2> QED
      BY <1>2, <1>8, <1>9, <2>1, <2>3, <2>4, <2>5, <2>6 DEF CallInv
  <1>15. CASE Readings!More # {}
    <2> DEFINE d == Readings!Deepest(Readings!More)
    <2>1. d \in Readings!More /\ \A l \in Readings!More : l <= d
      <3>1. Readings!More \subseteq 0 .. Len(w)
        <4>1. Readings!More \subseteq 1 .. Len(w)
          BY <1>2 DEF Readings!More
        <4> QED
          BY <1>2, <4>1
      <3>2. \E k \in Readings!More : \A l \in Readings!More : l <= k
        BY <1>2, <1>15, <3>1, Greatest
      <3> QED
        BY <3>2 DEF Readings!Deepest
    <2>2. readingsPc' = "down" /\ sIt' = Advance(sIt, d)
      BY <1>8, <1>15 DEF Readings!Read, Advance
    <2> HIDE DEF d
    <2>3. /\ Inside(w, T, sIt')
          /\ Behind(w, T, sIt') = Behind(w, T, sIt) \union {sIt}
      BY <1>1, <1>2, <1>13, <2>1, <2>2, AdvanceRead
    <2>4. ReadBy(w, T, Behind(w, T, sIt'), whole_pinyin')
      BY <1>10, <2>3
    <2>5. Readings!TypeOK'
      <3>1. /\ sIt' \in Seq(Nat \ {0}) /\ Len(sIt') <= Len(chword)
            /\ \A k \in DOMAIN sIt' : sIt'[k] <= Len(chword_pinyin[chword[k]])
        BY <2>3 DEF Inside
      <3>2. chword \in Readings!Words /\ chword_pinyin \in Tables
        BY DEF CallInv, Readings!TypeOK
      <3> QED
        BY <1>8, <1>9, <2>2, <3>1, <3>2 DEF Readings!TypeOK, Readings!py
    <2>6. FirstOf(w, T, whole_pinyin', sIt')
      BY <1>12
    <2> QED
      BY <1>8, <2>2, <2>3, <2>4, <2>5, <2>6 DEF CallInv
  <1> QED
    BY <1>14, <1>15

LEMMA CallsInductive ==
  ASSUME Readings!PinYinAssumption
  PROVE  Readings!Spec => []CallInv
  <1>1. Readings!Init => CallInv
    BY CallInit
  <1>2. CallInv /\ [Readings!Next]_Readings!vars => CallInv'
    <2>1. ASSUME CallInv, UNCHANGED Readings!vars PROVE CallInv'
      BY <2>1 DEF Readings!vars, CallInv, Readings!TypeOK, Readings!py
    <2> QED
      BY <2>1, CallDown, CallFail, CallRead DEF Readings!Next
  <1> QED
    BY <1>1, <1>2, PTL DEF Readings!Spec

-----------------------------------------------------------------------------
(* What the choices of every character read are the readings of the word.  *)
LEMMA ReadingsRead ==
  ASSUME Readings!PinYinAssumption, CallInv, readingsPc = "true"
  PROVE  Readings!AllReadingsOrNone /\ Readings!FirstIsFirst
  <1> DEFINE w == chword
             T == chword_pinyin
             n == Len(whole_pinyin)
  <1>1. IsReadWord(w) /\ IsReadingTable(T)
    BY AreReadWords, AreReadingTables DEF CallInv, Readings!TypeOK
  <1>2. /\ HasReadings(w, T) /\ ReadBy(w, T, Picks(w, T), whole_pinyin)
        /\ whole_pinyin # <<>> /\ FirstOf(w, T, whole_pinyin, sIt)
        /\ n \in Nat /\ DOMAIN whole_pinyin = 1 .. n /\ DOMAIN w = 1 .. Len(w)
    BY <1>1 DEF CallInv, Readings!TypeOK, IsReadWord
  <1>3. Readings!Readable
    BY <1>2 DEF HasReadings, Readings!Readable, Readings!py
  <1>4. ASSUME NEW t \in Picks(w, T) PROVE Reads(w, T, t) \in Readings!Readings
    <2>1. ASSUME NEW k \in 1 .. Len(w)
          PROVE  T[w[k]][t[k]] \in Readings!Syllables /\ T[w[k]][t[k]] \in Readings!Range(Readings!py(k))
      <3>1. T[w[k]] \in Seq(Readings!Syllables)
        BY <1>1, CharacterReadings
      <3>2. t[k] \in 1 .. Len(T[w[k]])
        BY <3>1 DEF Picks
      <3>3. T[w[k]][t[k]] \in Readings!Syllables /\ t[k] \in DOMAIN T[w[k]]
        BY <3>1, <3>2
      <3> QED
        BY <3>3 DEF Readings!Range, Readings!py
    <2> QED
      BY <1>2, <2>1 DEF Reads, Readings!Readings
  <1>5. ASSUME NEW r \in Readings!Readings PROVE \E t \in Picks(w, T) : r = Reads(w, T, t)
    <2>1. /\ r \in [1 .. Len(w) -> Readings!Syllables]
          /\ \A k \in 1 .. Len(w) : r[k] \in Readings!Range(T[w[k]])
      BY <1>2 DEF Readings!Readings, Readings!py
    <2>2. \A k \in 1 .. Len(w) :
             \E a \in Nat \ {0} : a <= Len(T[w[k]]) /\ r[k] = T[w[k]][a]
      <3>1. ASSUME NEW k \in 1 .. Len(w)
            PROVE  \E a \in Nat \ {0} : a <= Len(T[w[k]]) /\ r[k] = T[w[k]][a]
        <4>1. T[w[k]] \in Seq(Readings!Syllables)
          BY <1>1, CharacterReadings
        <4>2. PICK a \in DOMAIN T[w[k]] : r[k] = T[w[k]][a]
          BY <2>1 DEF Readings!Range
        <4>3. a \in Nat \ {0} /\ a <= Len(T[w[k]])
          BY <4>1, <4>2
        <4> QED
          BY <4>2, <4>3
      <3> QED
        BY <3>1
    <2> DEFINE t == [k \in 1 .. Len(w) |->
                       CHOOSE a \in Nat \ {0} : a <= Len(T[w[k]]) /\ r[k] = T[w[k]][a]]
    <2>3. ASSUME NEW k \in 1 .. Len(w)
          PROVE  t[k] \in Nat \ {0} /\ t[k] <= Len(T[w[k]]) /\ r[k] = T[w[k]][t[k]]
      BY <2>2
    <2>4. t \in [1 .. Len(w) -> Nat \ {0}]
      BY <2>3
    <2> HIDE DEF t
    <2>5. t \in Picks(w, T)
      BY <2>3, <2>4 DEF Picks
    <2>6. r = Reads(w, T, t)
      BY <2>1, <2>3 DEF Reads
    <2> QED
      BY <2>5, <2>6
  <1>6. Readings!Range(whole_pinyin) = Readings!Readings
    <2>1. ASSUME NEW r \in Readings!Readings PROVE r \in Readings!Range(whole_pinyin)
      <3>1. PICK t \in Picks(w, T) : r = Reads(w, T, t)
        BY <1>5
      <3>2. PICK j \in 1 .. n : whole_pinyin[j] = r
        BY <1>2, <3>1 DEF ReadBy
      <3> QED
        BY <1>2, <3>2 DEF Readings!Range
    <2>2. ASSUME NEW r \in Readings!Range(whole_pinyin) PROVE r \in Readings!Readings
      <3>1. PICK j \in 1 .. n : whole_pinyin[j] = r
        BY <1>2 DEF Readings!Range
      <3>2. PICK t \in Picks(w, T) : r = Reads(w, T, t)
        BY <1>2, <3>1 DEF ReadBy
      <3> QED
        BY <1>4, <3>2
    <2> QED
      BY <2>1, <2>2
  <1>7. Readings!IsInjective(whole_pinyin)
    BY <1>2 DEF Readings!IsInjective, ReadBy
  <1>8. Readings!FirstIsFirst
    BY <1>2 DEF FirstOf, Readings!FirstIsFirst, Readings!py
  <1> QED
    BY <1>3, <1>6, <1>7, <1>8 DEF Readings!AllReadingsOrNone

(* The results are all the ways to read the word, each once, or none when  *)
(* a character has no reading: getPinYin, for words of any length and any  *)
(* table.                                                                  *)
THEOREM AllReadingsReturned ==
  ASSUME Readings!PinYinAssumption
  PROVE  Readings!Spec => [](Readings!TypeOK /\ Readings!AllReadingsOrNone /\ Readings!FirstIsFirst)
  <1>1. ASSUME CallInv PROVE Readings!TypeOK /\ Readings!AllReadingsOrNone /\ Readings!FirstIsFirst
    <2>1. Readings!TypeOK
      BY <1>1 DEF CallInv
    <2>2. CASE readingsPc = "true"
      BY <1>1, <2>1, <2>2, ReadingsRead
    <2>3. CASE readingsPc = "false"
      <3>1. /\ ~HasReadings(chword, chword_pinyin) /\ whole_pinyin = <<>> /\ first_pinyin = <<>>
            /\ IsReadWord(chword)
        BY <1>1, <2>3, AreReadWords DEF CallInv, Readings!TypeOK
      <3>2. ~Readings!Readable
        BY <3>1 DEF HasReadings, Readings!Readable, Readings!py, IsReadWord
      <3> QED
        BY <2>1, <2>3, <3>1, <3>2 DEF Readings!AllReadingsOrNone, Readings!FirstIsFirst
    <2>4. CASE readingsPc = "down"
      BY <2>1, <2>4 DEF Readings!AllReadingsOrNone, Readings!FirstIsFirst
    <2> QED
      BY <2>1, <2>2, <2>3, <2>4 DEF Readings!TypeOK
  <1> QED
    BY <1>1, CallsInductive, PTL
=============================================================================
