------------------------------- MODULE NgramRec -------------------------------
(***************************************************************************)
(* Rectify::ngramRec, both versions: which of the texts that the language  *)
(* model makes of at most two segmentations answers, and how sure it is.   *)
(* A text is a sequence of Chinese characters.  One step is one text.      *)
(***************************************************************************)
EXTENDS Distances

CONSTANTS
  Rows,        (* what findBestPath makes of a segmentation: its length    *)
               (* without BEG and END, and at most two texts and weights   *)
  Originals,   (* ori_word, and <<>> for the version without               *)
  Known,       (* m_chword_create.ifExist                                  *)
  Beside       (* m_word_cooccur of an rword it has: what was seen with it *)

NoWord == <<>>
NoWeight == 65535

(* A weight of 0 would be divided by.  The weight of a text is below       *)
(* 0xffff, and a segmentation has a syllable: BestPath.                    *)
NgramRecAssumption ==
  \A row \in Rows :
    /\ row.size \in Nat \ {0}
    /\ row.texts \in Seq(ToSet(row.texts)) /\ Len(row.texts) <= 2
    /\ \A p \in DOMAIN row.texts :
         /\ row.texts[p].word # NoWord
         /\ row.texts[p].weight \in Nat \ {0} /\ row.texts[p].weight < NoWeight

VARIABLES
  ori_word,
  rows,              (* py, with what findBestPath makes of it             *)
  right,             (* rword: "indep" when ifRightIndep, "new" when       *)
                     (* m_word_cooccur has nothing beside it, or "seen"    *)
  k, pos,            (* the row and the text in it                         *)
  res, min_weight,   (* the lightest text accepted                         *)
  tmp, tmp_weight,   (* ... of those without a character of ori_word       *)
  rec_word,          (* the answer                                         *)
  result             (* "none" while the loop runs, then what is returned  *)

vars == <<ori_word, rows, right, k, pos, res, min_weight, tmp, tmp_weight, rec_word, result>>

(* The segmentations come shortest first, and a run adds as many syllables *)
(* to each.                                                                *)
Init ==
  /\ ori_word \in Originals
  /\ rows \in {<<>>} \union {<<row>> : row \in Rows}
              \union {c \in Rows \X Rows : c[1].size <= c[2].size}
  /\ right \in {"indep", "new", "seen"}
  /\ k = 1 /\ pos = 1
  /\ res = NoWord /\ min_weight = NoWeight /\ tmp = NoWord /\ tmp_weight = NoWeight
  /\ rec_word = <<>> /\ result = "none"

WithOriginal == ori_word # NoWord

(* The version without an original only looks at the first text.           *)
Texts == IF WithOriginal \/ rows[k].texts = <<>> THEN rows[k].texts ELSE <<rows[k].texts[1]>>
Looking == result = "none" /\ k <= Len(rows) /\ pos <= Len(Texts)
Text == Texts[pos]

confidence(size, weight) ==
  (2000 + size * (IF WithOriginal THEN 30500 ELSE 35000)) \div weight
Sure == confidence(rows[k].size, Text.weight)

IsOriginal == WithOriginal /\ Text.word = ori_word /\ Sure >= 57

(* A second text must be surer; a text of several characters be a word.    *)
Likely == Sure > (IF pos = 1 THEN 60 ELSE 70)
Acceptable ==
  /\ Likely
  /\ Len(Text.word) > 1 => Text.word \in Known
  /\ Text.weight < min_weight

(* Two bytes for each character.                                           *)
Bytes(w) == [j \in 1 .. 2 * Len(w) |-> w[(j + 1) \div 2]]
AllDifferent(word) ==
  /\ WithOriginal /\ Len(ori_word) <= 2
  /\ edit_distance_fpy(Bytes(ori_word), Bytes(word)) = Len(ori_word)

KeepOriginal ==
  /\ Looking /\ IsOriginal
  /\ rec_word' = <<[word |-> ori_word, conf |-> Sure]>> /\ result' = "true"
  /\ UNCHANGED <<ori_word, rows, right, k, pos, res, min_weight, tmp, tmp_weight>>

Accept ==
  /\ Looking /\ ~IsOriginal /\ Acceptable /\ ~AllDifferent(Text.word)
  /\ res' = Text.word /\ min_weight' = Text.weight /\ pos' = pos + 1
  /\ UNCHANGED <<ori_word, rows, right, k, tmp, tmp_weight, rec_word, result>>

Remember ==
  /\ Looking /\ ~IsOriginal /\ Acceptable /\ AllDifferent(Text.word)
  /\ IF tmp_weight > Text.weight
     THEN tmp' = Text.word /\ tmp_weight' = Text.weight
     ELSE UNCHANGED <<tmp, tmp_weight>>
  /\ pos' = pos + 1
  /\ UNCHANGED <<ori_word, rows, right, k, res, min_weight, rec_word, result>>

PassOver ==
  /\ Looking /\ ~IsOriginal /\ ~Acceptable
  /\ pos' = pos + 1
  /\ UNCHANGED <<ori_word, rows, right, k, res, min_weight, tmp, tmp_weight, rec_word, result>>

NextRow ==
  /\ result = "none" /\ k <= Len(rows) /\ pos > Len(Texts)
  /\ k' = k + 1 /\ pos' = 1
  /\ UNCHANGED <<ori_word, rows, right, res, min_weight, tmp, tmp_weight, rec_word, result>>

(* What answers, with the length of the last row whatever row it is from.  *)
LastSize == rows[Len(rows)].size
Chosen == IF res # NoWord THEN [word |-> res, weight |-> min_weight]
          ELSE [word |-> tmp, weight |-> tmp_weight]
Reported == Min({100, confidence(LastSize, Chosen.weight)})
FitsRight == right \in {"indep", "new"} \/ Chosen.word \in Beside

Answer ==
  /\ result = "none" /\ k > Len(rows)
  /\ IF Chosen.word # NoWord /\ FitsRight
     THEN rec_word' = <<[word |-> Chosen.word, conf |-> Reported]>> /\ result' = "true"
     ELSE rec_word' = <<>> /\ result' = "false"
  /\ UNCHANGED <<ori_word, rows, right, k, pos, res, min_weight, tmp, tmp_weight>>

Next == KeepOriginal \/ Accept \/ Remember \/ PassOver \/ NextRow \/ Answer

Spec == Init /\ [][Next]_vars

-----------------------------------------------------------------------------
(* Every text with the row it is in, and whether it counts.                *)
Looked == IF WithOriginal THEN 1 .. 2 ELSE {1}
Offers ==
  {[size |-> rows[c[1]].size, pos |-> c[2], word |-> rows[c[1]].texts[c[2]].word,
    weight |-> rows[c[1]].texts[c[2]].weight]
   : c \in {c \in (DOMAIN rows) \X Looked : c[2] \in DOMAIN rows[c[1]].texts}}
Good(o) ==
  /\ confidence(o.size, o.weight) > (IF o.pos = 1 THEN 60 ELSE 70)
  /\ Len(o.word) > 1 => o.word \in Known

(***************************************************************************)
(* An answer is the word asked for, when a text says so that is likely     *)
(* enough; no other text, however light, then replaces it.  Else it is the *)
(* lightest good text, and one that shares no character with a short word  *)
(* only when no good text shares one.  The confidence of a replacement is  *)
(* 61 to 100 although it is computed with the length of another row.       *)
(***************************************************************************)
AnswerIsLightest ==
  result # "none" =>
    LET kept == {o \in Offers : WithOriginal /\ o.word = ori_word
                                /\ confidence(o.size, o.weight) >= 57}
        near == {o \in Offers : Good(o) /\ ~AllDifferent(o.word)}
        pool == IF near # {} THEN near ELSE {o \in Offers : Good(o)}
    IN  IF kept # {} THEN result = "true" /\ rec_word[1].word = ori_word
        ELSE /\ result = "true" =>
                  \E o \in pool : /\ o.word = rec_word[1].word
                                  /\ \A q \in pool : o.weight <= q.weight
                                  /\ rec_word[1].conf \in 61 .. 100
             /\ result = "false" => pool = {} \/ right = "seen"
=============================================================================
