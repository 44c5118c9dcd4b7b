------------------------------ MODULE NgramTable ------------------------------
(***************************************************************************)
(* util/ngram_model.cpp: which character follows which, with a weight.     *)
(* create() counts the pairs in the words of the training data, drops the  *)
(* rare ones and lays out the others in one array, a stretch for each left *)
(* character; getShiftProb() searches the stretch by halves.  save() opens *)
(* two files and writes one after the other; load() reads both.            *)
(***************************************************************************)
EXTENDS Integers, Sequences, SequencesExt, FiniteSets, FiniteSetsExt

CONSTANTS
  LastCode,     (* 0xffff: characters are 0 .. LastCode                    *)
  Corpora,      (* words2weight: functions from words to weights           *)
  MinPairs,     (* 90: pairs with less are dropped                         *)
  Log           (* (ushort)(log(n) * 100), which is monotone               *)

Codes == 0 .. LastCode
NoProb == 65535   (* 0xffff *)

NgramTableAssumption ==
  /\ LastCode \in Nat \ {0} /\ MinPairs \in Nat \ {0}
  /\ \A corpus \in Corpora : \A w \in DOMAIN corpus : w \in Seq(Codes) /\ corpus[w] \in Nat
  /\ \A m, n \in DOMAIN Log : m <= n => Log[m] <= Log[n]

VARIABLES
  corpus,      (* the parameter of create()                                *)
  word_rword,  (* the pairs counted so far                                 *)
  start,       (* m_word[].start                                           *)
  m_rword,     (* the right characters and weights                         *)
  next,        (* the next left character to lay out                       *)
  pc,          (* where the trainer is                                     *)
  pos_file, prob_file   (* the files                                       *)

table == <<word_rword, start, m_rword, next>>
files == <<pos_file, prob_file>>
vars == <<corpus, table, pc, files>>

(* How often r follows c, as the words weigh.                              *)
Follows(w, c, r) == Cardinality({k \in 1 .. Len(w) - 1 : w[k] = c /\ w[k + 1] = r})
Counted(c, r) == MapThenSumSet(LAMBDA w : corpus[w] * Follows(w, c, r), DOMAIN corpus)
Occurs(c, r) == \E w \in DOMAIN corpus : Follows(w, c, r) > 0
Total(c) == MapThenSumSet(LAMBDA r : Counted(c, r), Codes)

Missing == [state |-> "missing", data |-> <<>>]
Opened == [state |-> "part", data |-> <<>>]
Whole(data) == [state |-> "whole", data |-> data]

Init ==
  /\ corpus \in Corpora
  /\ word_rword = {} /\ m_rword = <<>> /\ next = 0
  /\ start = [c \in Codes |-> 0]
  /\ pc = "count"
  /\ pos_file = Missing /\ prob_file = Missing

Count ==
  /\ pc = "count" /\ pc' = "drop"
  /\ word_rword' = {p \in Codes \X Codes : Occurs(p[1], p[2])}
  /\ start' = [c \in Codes |-> Cardinality({r \in Codes : Occurs(c, r)})]
  /\ UNCHANGED <<corpus, m_rword, next, files>>

Rare == {p \in word_rword : Counted(p[1], p[2]) < MinPairs}
StartKept(c) == start[c]
StartDropped(c) == start[c] - Cardinality({p \in Rare : p[1] = c})
Drop ==
  /\ pc = "drop" /\ pc' = "sum"
  /\ word_rword' = word_rword \ Rare
  /\ start' = [c \in Codes |-> StartDropped(c)]
  /\ UNCHANGED <<corpus, m_rword, next, files>>

(* The starts are added up, so that each is the end of its stretch.        *)
AddUp ==
  /\ pc = "sum" /\ pc' = "fill"
  /\ start' = [c \in Codes |-> MapThenSumSet(LAMBDA b : start[b], 0 .. c)]
  /\ m_rword' = [k \in 1 .. start'[LastCode] |-> [code |-> 0, weight |-> NoProb]]
  /\ UNCHANGED <<corpus, word_rword, next, files>>

(* The stretches of the left characters in order; pos counts them through. *)
RightOf(c) == SetToSortSeq({p[2] : p \in {p \in word_rword : p[1] = c}}, <)
pos == Cardinality({p \in word_rword : p[1] < next})
Weight(c, r) == Log[Total(c)] - Log[Counted(c, r)]
Fill ==
  /\ pc = "fill" /\ next <= LastCode
  /\ m_rword' = [k \in DOMAIN m_rword |->
       LET j == k - pos
       IN  IF j \in DOMAIN RightOf(next)
           THEN [code |-> RightOf(next)[j], weight |-> Weight(next, RightOf(next)[j])]
           ELSE m_rword[k]]
  /\ start' = [start EXCEPT ![next] = @ - Len(RightOf(next))]
  /\ next' = next + 1
  /\ UNCHANGED <<corpus, word_rword, pc, files>>
Filled ==
  /\ pc = "fill" /\ next > LastCode /\ pc' = "open"
  /\ UNCHANGED <<corpus, table, files>>

-----------------------------------------------------------------------------
(* save(): both files are opened, and with that emptied, before the first  *)
(* is written.                                                             *)
Emptied(file) == Opened
Open ==
  /\ pc = "open" /\ pc' = "write_pos"
  /\ pos_file' = Opened /\ prob_file' = Emptied(prob_file)
  /\ UNCHANGED <<corpus, table>>
WritePos ==
  /\ pc = "write_pos" /\ pc' = "write_prob"
  /\ pos_file' = Whole(start)
  /\ UNCHANGED <<corpus, table, prob_file>>
WriteProb ==
  /\ pc = "write_prob" /\ pc' = "saved"
  /\ prob_file' = Whole(m_rword)
  /\ UNCHANGED <<corpus, table, pos_file>>

(* Training runs again, with other data; or after it was stopped anywhere. *)
Train ==
  /\ corpus' \in Corpora \ {corpus}
  /\ word_rword' = {} /\ m_rword' = <<>> /\ next' = 0
  /\ start' = [c \in Codes |-> 0]
  /\ pc' = "count"
  /\ UNCHANGED <<files>>

Next == Count \/ Drop \/ AddUp \/ Fill \/ Filled \/ Open \/ WritePos \/ WriteProb \/ Train

Spec == Init /\ [][Next]_vars

-----------------------------------------------------------------------------
(* getShiftProb() on a table: the halves of the stretch of c.              *)
RECURSIVE Search(_, _, _, _)
Search(right, rcode, sta, end) ==
  IF sta >= end THEN NoProb
  ELSE LET mid == (sta + end) \div 2
           entry == right[mid + 1]
       IN  IF entry.code = rcode THEN entry.weight
           ELSE IF entry.code > rcode THEN Search(right, rcode, sta, mid)
           ELSE Search(right, rcode, mid + 1, end)
getShiftProb(from, right, c, r) == Search(right, r, from[c], from[c + 1])

(* load(), by the other program, at any time: a file that is not whole has *)
(* fewer records than its count says.                                      *)
Reads(file) == file.state = "whole" /\ Len(file.data) > 0
ReadsPos(file) == file.state = "whole"
load == ReadsPos(pos_file) /\ Reads(prob_file)

(* Type correctness.                                                       *)
TypeOK ==
  /\ corpus \in Corpora /\ word_rword \subseteq Codes \X Codes
  /\ \A c \in Codes : start[c] \in 0 .. Cardinality(Codes \X Codes)
  /\ \A k \in DOMAIN m_rword : m_rword[k].code \in Codes /\ m_rword[k].weight \in 0 .. NoProb
  /\ next \in 0 .. LastCode + 1
  /\ pc \in {"count", "drop", "sum", "fill", "open", "write_pos", "write_prob", "saved"}
  /\ \A file \in {pos_file, prob_file} : file.state \in {"missing", "part", "whole"}

(***************************************************************************)
(* When create() is through, getShiftProb() finds every pair that was not  *)
(* dropped, with its weight, and no other, whatever the stretches are; the *)
(* starts went up to the ends and down again for this.  (The last code is  *)
(* left out: getShiftProb reads one start beyond the array for it.)        *)
(***************************************************************************)
ShiftProbIsRight ==
  pc \in {"open", "write_pos", "write_prob", "saved"} =>
    \A c \in 0 .. LastCode - 1, r \in Codes :
      getShiftProb(start, m_rword, c, r) =
        IF Occurs(c, r) /\ Counted(c, r) >= MinPairs THEN Weight(c, r) ELSE NoProb

(***************************************************************************)
(* What load() accepts is a table: the stretches fit into the array.  A    *)
(* run of the trainer that is stopped between the two files, and one that  *)
(* is still writing, leave something that load() refuses.                  *)
(***************************************************************************)
LoadedIsTable ==
  load =>
    /\ pos_file.data[LastCode] <= Len(prob_file.data)
    /\ \A c \in 0 .. LastCode - 1 : pos_file.data[c] <= pos_file.data[c + 1]
    /\ \A c \in 0 .. LastCode - 1 : \A k, l \in pos_file.data[c] + 1 .. pos_file.data[c + 1] :
         k < l => prob_file.data[k].code < prob_file.data[l].code
=============================================================================
