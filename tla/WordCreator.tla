----------------------------- MODULE WordCreator ------------------------------
(***************************************************************************)
(* util/enword_create.cpp, chword_create.cpp, whole_pinyin_create.cpp: the *)
(* three dictionaries of words that are searched for words near another.   *)
(* Each indexes a word under its substrings together with its length (the  *)
(* index is module InvertedIndex) and looks for the substrings of the word *)
(* to correct; what it finds is measured by the banded distance (module    *)
(* EditDistance), ranked and cut.  A word is a sequence of units: bytes,   *)
(* and two-byte characters for chword_create.  One step is one key.        *)
(***************************************************************************)
EXTENDS Distances

CONSTANTS
  Kinds,             (* a subset of {"en", "ch", "wp"}                     *)
  Words,             (* words that come up                                 *)
  Lexicons(_),       (* the sets of words a creator may have indexed       *)
  Weight,            (* their weights                                      *)
  Before(_, _),      (* the order of strings                               *)
  m_ed,              (* edit_distance in the configuration                 *)
  MAXWORDLEN,        (* for every kind: 13, 8 and 25 in the code           *)
  LowWeight, OkWeight, (* 800 and 2000: what chword_create skips           *)
  MaxBytes,          (* 10000: whole_pinyin_create stops                   *)
  MaxAnswers         (* for every kind: 10, 30 and 10                      *)

WordCreatorAssumption ==
  /\ Kinds \subseteq {"en", "ch", "wp"} /\ \A w \in Words : Weight[w] \in Nat
  /\ m_ed \in Nat \ {0}
  /\ \A k \in Kinds : MAXWORDLEN[k] \in Nat /\ MaxAnswers[k] \in Nat

VARIABLES
  kind,
  ids,      (* the words indexed, by their number                          *)
  ori_word,
  rounds,   (* the lengths of candidates still to be tried                 *)
  sta,      (* where the next key starts                                   *)
  vec,      (* the candidates: Node(m_ivt_id, m_ed, m_weight)              *)
  seen,     (* ivt_set, bm                                                 *)
  byte_sum,
  pc, rec_word

vars == <<kind, ids, ori_word, rounds, sta, vec, seen, byte_sum, pc, rec_word>>

-----------------------------------------------------------------------------
(* create()                                                                *)

Indexed(k, w) == Len(w) < MAXWORDLEN[k] /\ (k = "ch" \/ Len(w) > 2)

(* The least length of the keys of words of length n: of m_ed + 1 pieces   *)
(* one survives m_ed edits.                                                *)
AtLeastOne(n) == IF n = 0 THEN 1 ELSE n
ShortestLong(k, n) == AtLeastOne(n \div m_ed)
Shortest(k, n) ==
  LET len == AtLeastOne(n \div (m_ed + 1))
  IN  IF k = "wp" \/ len <= 4 THEN len ELSE 4
Longest(k, n) == IF k = "wp" THEN Shortest(k, n) + 3 ELSE 4

(* A key is a substring and the length of the word; how often w has it.    *)
Times(k, w, key) ==
  IF key.of # Len(w) \/ Len(key.part) \notin Shortest(k, Len(w)) .. Longest(k, Len(w)) THEN 0
  ELSE Cardinality({p \in 1 .. Len(w) - Len(key.part) + 1 :
                      SubSeq(w, p, p + Len(key.part) - 1) = key.part})

(* The list of a key, in the order of the numbers, with merged weights.    *)
ListOf(key) ==
  LET having == SelectSeq([n \in DOMAIN ids |-> n], LAMBDA n : Times(kind, ids[n], key) > 0)
  IN  [p \in DOMAIN having |->
         [id |-> having[p], weight |-> Times(kind, ids[having[p]], key) * Weight[ids[having[p]]]]]

(* whole_pinyin_create walks a std::map, the others a hash map.            *)
Orders(k, L) ==
  IF k = "wp" THEN {SetToSortSeq(L, Before)} ELSE SetToSeqs(L)

-----------------------------------------------------------------------------
(* rectify()                                                               *)

(* The lengths in the order they are tried, by way of mark and times.      *)
AroundSteps(n) == [t \in 1 .. 2 * m_ed + 1 |-> IF t % 2 = 0 THEN n + t \div 2 ELSE n - t \div 2]
FirstLength(k, n) == IF k = "ch" THEN n ELSE IF n - m_ed <= 2 THEN 3 ELSE n - m_ed
LastLength(k, n) ==
  Min({IF k = "ch" THEN n + 1 ELSE n + m_ed, MAXWORDLEN[k] - 1})
Rounds(k, n) ==
  LET lo == FirstLength(k, n)
      hi == LastLength(k, n)
  IN  IF k = "wp" THEN SelectSeq(AroundSteps(n), LAMBDA i : lo <= i /\ i <= hi)
      ELSE [j \in 1 .. hi - lo + 1 |-> lo + j - 1]

Init ==
  /\ kind \in Kinds
  /\ \E L \in Lexicons(kind) : ids \in Orders(kind, {w \in L : Indexed(kind, w)})
  /\ ori_word \in Words
  /\ IF Indexed(kind, ori_word)
     THEN rounds = Rounds(kind, Len(ori_word)) /\ pc = "search"
     ELSE rounds = <<>> /\ pc = "done"
  /\ sta = 0 /\ vec = <<>> /\ seen = {} /\ byte_sum = 0 /\ rec_word = <<>>

i == Head(rounds)
NoMoreKeys == sta + Shortest(kind, i) > Len(ori_word)
Key == [part |-> SubSeq(ori_word, sta + 1, sta + Shortest(kind, i)), of |-> i]

(* The banded distance.                                                    *)
Distance(w) ==
  LET n == edit_distance(w, ori_word)
  IN  IF n <= m_ed THEN n ELSE 100

FarForShort(w) ==
  Distance(w) = m_ed /\ Len(ori_word) < 6 /\ edit_distance_diff(ori_word, w) # 0
Rejected(w) == Distance(w) > m_ed \/ (kind = "wp" /\ FarForShort(w))

Candidate(n) == [m_ivt_id |-> n.id, m_ed |-> Distance(ids[n.id]), m_weight |-> n.weight]

(* One node of a list.  whole_pinyin_create leaves the list at the first   *)
(* word with another initial after it took one.                            *)
Skips(x, n) ==
  x.stop \/ n.id \in x.seen \/ (kind = "ch" /\ n.weight < LowWeight)
OtherInitial(n) == kind = "wp" /\ ids[n.id][1] # ori_word[1]
Take(x, n) ==
  IF Skips(x, n) THEN x
  ELSE LET y == [x EXCEPT !.seen = @ \union {n.id}]
       IN  IF OtherInitial(n) THEN [y EXCEPT !.stop = x.find]
           ELSE LET z == [y EXCEPT !.bytes = @ + Len(ids[n.id])]
                IN  IF Rejected(ids[n.id]) THEN z
                    ELSE [z EXCEPT !.vec = Append(@, Candidate(n)), !.find = TRUE]

SearchKey ==
  /\ pc = "search" /\ rounds # <<>> /\ ~NoMoreKeys
  /\ LET x == FoldLeft(Take, [vec |-> vec, seen |-> seen, find |-> FALSE, stop |-> FALSE,
                              bytes |-> byte_sum], ListOf(Key))
     IN  vec' = x.vec /\ seen' = x.seen /\ byte_sum' = x.bytes
  /\ sta' = sta + 1
  /\ UNCHANGED <<kind, ids, ori_word, rounds, pc, rec_word>>

(* whole_pinyin_create clears its bitmap for each length.                  *)
NextLength ==
  /\ pc = "search" /\ rounds # <<>> /\ NoMoreKeys
  /\ sta' = 0
  /\ IF kind = "wp"
     THEN /\ seen' = {}
          /\ rounds' = IF byte_sum > MaxBytes THEN <<>> ELSE Tail(rounds)
     ELSE UNCHANGED seen /\ rounds' = Tail(rounds)
  /\ UNCHANGED <<kind, ids, ori_word, vec, byte_sum, pc, rec_word>>

(* Node::operator<                                                         *)
Better(m, n) ==
  \/ m.m_ed < n.m_ed
  \/ m.m_ed = n.m_ed /\ m.m_weight > n.m_weight
  \/ m.m_ed = n.m_ed /\ m.m_weight = n.m_weight /\ m.m_ivt_id < n.m_ivt_id
Sorted(v) == SortSeq(v, Better)

WordOf(n) == ids[n.m_ivt_id]

(* enword_create puts words of the same letters in front, at most two      *)
(* before others: the third goes behind the next.                          *)
SameLetters(n) == n.m_ed = 0 \/ edit_distance_diff(ori_word, WordOf(n)) = 0
TooDifferent(n) ==
  edit_distance_diff(ori_word, WordOf(n)) >= 2 /\ n.m_ed >= 2 /\ Len(ori_word) <= 5
EnoughEnglish(x) == ~(Len(x.out) < MaxAnswers["en"] \/ x.pos < 2)
PlaceEnglish(x, n) ==
  IF EnoughEnglish(x) THEN x
  ELSE IF SameLetters(n)
  THEN LET pos == IF x.pos = 2 /\ Len(x.out) > 3 THEN 3 ELSE x.pos
       IN  [out |-> InsertAt(x.out, pos + 1, n), pos |-> pos + 1]
  ELSE IF TooDifferent(n) THEN x
  ELSE [x EXCEPT !.out = Append(@, n)]

First(v, n) == SubSeq(v, 1, Min({n, Len(v)}))
Ranked ==
  CASE kind = "en" -> FoldLeft(PlaceEnglish, [out |-> <<>>, pos |-> 0], Sorted(vec)).out
    [] kind = "ch" -> SelectSeq(First(Sorted(vec), MaxAnswers["ch"]),
                                LAMBDA n : n.m_weight >= OkWeight)
    [] kind = "wp" -> First(Sorted(vec), MaxAnswers["wp"])
Rank ==
  /\ pc = "search" /\ rounds = <<>>
  /\ pc' = "done"
  /\ rec_word' = Ranked
  /\ UNCHANGED <<kind, ids, ori_word, rounds, sta, vec, seen, byte_sum>>

Next == SearchKey \/ NextLength \/ Rank
Spec == Init /\ [][Next]_vars

-----------------------------------------------------------------------------
(* Type correctness; a candidate is the number of an indexed word.         *)
Node == [m_ivt_id : DOMAIN ids, m_ed : 0 .. m_ed, m_weight : Nat]
TypeOK ==
  /\ kind \in Kinds /\ ToSet(ids) \subseteq Words /\ ori_word \in Words
  /\ \A j \in DOMAIN rounds : rounds[j] \in 1 .. MAXWORDLEN[kind] - 1
  /\ sta \in 0 .. Len(ori_word) /\ byte_sum \in Nat
  /\ vec \in Seq(Node) /\ rec_word \in Seq(Node) /\ seen \subseteq DOMAIN ids

(***************************************************************************)
(* No word comes up twice, although most are found under several keys.     *)
(***************************************************************************)
EachOnce ==
  /\ \A p, q \in DOMAIN vec : vec[p].m_ivt_id = vec[q].m_ivt_id => p = q
  /\ \A p, q \in DOMAIN rec_word : rec_word[p].m_ivt_id = rec_word[q].m_ivt_id => p = q

(***************************************************************************)
(* Looking up only the shortest keys and leaving a list early loses no     *)
(* word that is near enough: keys of the right length are shared by any    *)
(* two words within m_ed edits.  A Chinese word of at most m_ed characters *)
(* must share one, and lengths differ by one at most.                      *)
(***************************************************************************)
Qualifies(w) ==
  CASE kind = "en" -> TRUE
    [] kind = "ch" -> /\ Len(w) \in Len(ori_word) .. Len(ori_word) + 1
                      /\ Weight[w] >= LowWeight
                      /\ Len(w) <= m_ed => ToSet(w) \intersect ToSet(ori_word) # {}
    [] kind = "wp" -> w[1] = ori_word[1] /\ byte_sum <= MaxBytes
NearWordsFound ==
  pc = "done" /\ Indexed(kind, ori_word) =>
    \A n \in DOMAIN ids :
      Qualifies(ids[n]) /\ ~Rejected(ids[n]) => \E p \in DOMAIN vec : vec[p].m_ivt_id = n

(***************************************************************************)
(* The best answer comes first: of the English words those with the same   *)
(* letters, two of them before all others, even behind ten that are nearer *)
(* by the edit distance; else the nearest candidates in order.             *)
(***************************************************************************)
BestFirst ==
  pc = "done" =>
    LET same == SelectSeq(Sorted(vec), SameLetters)
        first == Min({2, Len(same)})
    IN  IF kind = "en" THEN SubSeq(rec_word, 1, first) = SubSeq(same, 1, first)
        ELSE \A p, q \in DOMAIN rec_word : p < q => Better(rec_word[p], rec_word[q])
=============================================================================
