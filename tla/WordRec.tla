-------------------------------- MODULE WordRec -------------------------------
(***************************************************************************)
(* The recognisers of a single word among words like it: chwordRec and     *)
(* enwordRec on the candidates of their indexes, and nearwordRec, which    *)
(* tries the characters that look like one of the word's.                  *)
(* One step is one candidate.                                              *)
(***************************************************************************)
EXTENDS PinYinDict

CONSTANTS
  Inputs,      (* calls: caller ("chinese", "english" or "near"), word, py *)
               (* (the syllables of the word), left, before (the mark left *)
               (* of left) and right (marks and words, mark "none" at the  *)
               (* ends)                                                    *)
  Candidates,  (* of m_chword_create or m_enword_create                    *)
  Models,      (* what model may be; the tables wpy, fpy, near, readings   *)
               (* and sections besides                                     *)
  ShortChinese (* 8 bytes                                                  *)

VARIABLES
  input, candidates,
  round,       (* chwordRec goes over its candidates twice                 *)
  i,
  rec_word,
  returned     (* "no", "true" or "false"                                  *)

vars == <<model, input, candidates, round, i, rec_word, returned>>

word == input.word
right == input.right
left == input.left

Init ==
  /\ input \in Inputs /\ model \in Models
  /\ candidates \in IF input.caller = "near" THEN {<<>>} ELSE Candidates[input.caller]
  /\ round = 0 /\ i = 1
  /\ rec_word = <<>> /\ returned = "no"

-----------------------------------------------------------------------------
Found(w) == IF w \in DOMAIN model.wpy THEN model.wpy[w] ELSE <<>>
Sections(w) == IF w \in DOMAIN model.sections THEN model.sections[w] ELSE <<>>
Readings(c) == IF c \in DOMAIN model.readings THEN model.readings[c] ELSE <<>>

candidate == candidates[i].word
weight == candidates[i].weight
AtMost(n, most) == Min({n, most})

Answer(w, conf) ==
  /\ rec_word' = <<[word |-> w, conf |-> conf]>> /\ returned' = "true"
  /\ UNCHANGED <<round, i>>
GiveUp == returned' = "false" /\ UNCHANGED <<round, i, rec_word>>
GoOn == i' = i + 1 /\ UNCHANGED <<round, rec_word, returned>>
NextRound(first) == round' = round + 1 /\ i' = first /\ UNCHANGED <<rec_word, returned>>

-----------------------------------------------------------------------------
(* chwordRec                                                               *)

(* Each character is read as one of the syllables, the first that fits,    *)
(* and no two as the same.                                                 *)
EachTaken(chword, taken) == Cardinality(ToSet(taken)) = Len(chword)
ifAllInForPinYin(chword, py) ==
  LET fits(k) == {j \in DOMAIN py : py[j] \in ToSet(Readings(chword[k]))}
  IN  /\ Len(chword) = Len(py)
      /\ \A k \in DOMAIN chword : fits(k) # {}
      /\ EachTaken(chword, [k \in DOMAIN chword |-> Min(fits(k))])

ifSatisForDistance(chword, code) ==
  /\ Len(chword) >= Len(code) /\ ~(Len(code) = 1 /\ Len(chword) > 1)
  /\ edit_distance_sequence(chword, code) <= 1
  /\ Len(chword) = Len(code) => chword[1] = code[1] /\ Last(chword) = Last(code)
  /\ Len(chword) = Len(code) + 1 => IsPrefix(code, chword)

First == IF candidates[1].word = word THEN 2 ELSE 1
TheWordItself ==
  IF candidates = <<>> THEN GiveUp
  ELSE LET percent == (weight * 100) \div 130000
       IN  IF candidate = word /\ percent > 15 THEN Answer(word, percent)
           ELSE NextRound(First)

ByReadings ==
  IF i > Len(candidates) THEN NextRound(First)
  ELSE LET percent == (weight * 100) \div 90000
       IN  IF Len(candidate) = Len(word) /\ percent > 35 /\ ifAllInForPinYin(candidate, input.py)
           THEN Answer(candidate, AtMost(Max({61, percent}), 100))
           ELSE GoOn

GoesWithRight(w) ==
  right.word # <<>> /\ IsAlpha(right.word[1]) => w \in Beside(right.word)
ByShape ==
  IF i > Len(candidates) THEN GiveUp
  ELSE LET percent == (weight * 100) \div 120000
       IN  IF /\ percent > (IF Size(candidate) <= ShortChinese THEN 70 ELSE 60)
              /\ GoesWithRight(candidate) /\ ifSatisForDistance(candidate, word)
           THEN Answer(candidate, AtMost(percent, 100))
           ELSE GoOn

chwordRec ==
  input.caller = "chinese" /\
  CASE round = 0 -> TheWordItself [] round = 1 -> ByReadings [] round = 2 -> ByShape

-----------------------------------------------------------------------------
(* enwordRec                                                               *)

confidence == (weight * 100) \div 10000
HasNext(n) == i + n <= Len(candidates)
IsWord == i = 1 /\ confidence > 40 /\ candidate = word
Outdone ==
  \/ /\ HasNext(2) /\ 4 * weight < candidates[i + 2].weight
     /\ weight < 20000 \/ Len(candidate) < Len(candidates[i + 2].word)
  \/ HasNext(1) /\ 4 * weight < candidates[i + 1].weight
Passed ==
  /\ i # 2 \/ weight < 12000
  /\ HasNext(1) /\ 2 * weight < candidates[i + 1].weight

(* The letters typed behind the candidate, in front of a number.           *)
Letters2Keep ==
  LET diff == Len(word) - Len(candidate)
  IN  IF diff > 0 /\ edit_distance_sequence(word, candidate) = diff THEN SubSeq(word, Len(candidate) + 1, Len(word)) ELSE <<>>

(* The neighbour the answer depends on, and whether they were seen         *)
(* together; behind a number it is the word itself that is looked up.      *)
BeforeShortChinese == right.mark = "CHWORD" /\ Size(right.word) <= ShortChinese
BehindChinese == left.mark = "CHWORD" /\ input.before # "NUMBER"
Depends ==
  right.mark = "NUMBER" \/ BeforeShortChinese \/ BehindChinese \/ left.mark = "NUMBER"
SeenTogether ==
  IF right.mark = "NUMBER" \/ BeforeShortChinese THEN right.word \in Beside(candidate)
  ELSE IF BehindChinese THEN left.word \in Beside(candidate)
  ELSE left.mark = "NUMBER" => word \in Beside(left.word)

HasSingle(py) == \E s \in DOMAIN py : Len(py[s]) = 1
IsPinYin(w) ==
  Sections(w) # <<>> /\ (Len(Sections(w)[1]) > 2 \/ ~Depends) /\ ~HasSingle(Sections(w)[1])
TooFar(w) ==
  /\ edit_distance_diff(w, word) > 0 /\ Len(word) <= 4 /\ ~Depends
  /\ \/ left.mark = "none" /\ word \in model.fpy
     \/ edit_distance(word, w) = 2

Replace(w) ==
  IF IsPinYin(w) THEN GoOn
  ELSE IF TooFar(w) THEN GiveUp
  ELSE Answer(w, AtMost(confidence, 100))

WithLetters ==
  IF Sections(candidate) = <<>> THEN Replace(candidate \o <<" ">> \o Letters2Keep)
  ELSE LET found == getWordFromDict(Found(candidate), Letters2Keep, TRUE)
       IN  IF found = <<>> THEN GiveUp ELSE Answer(found[1].word, found[1].conf)

enwordRec ==
  input.caller = "english" /\
  IF i > Len(candidates) THEN GiveUp
  ELSE IF IsWord THEN (IF Outdone THEN GoOn ELSE Answer(word, confidence))
  ELSE IF Passed \/ confidence <= 60 THEN GoOn
  ELSE IF right.mark = "NUMBER" /\ Letters2Keep # <<>> THEN WithLetters
  ELSE IF Depends /\ ~SeenTogether THEN GoOn
  ELSE Replace(candidate)

-----------------------------------------------------------------------------
(* nearwordRec                                                             *)

HasPinYin(w) == \A k \in DOMAIN w : Readings(w[k]) # <<>>
FirstPinYin(w) == FlattenSeq([k \in DOMAIN w |-> Readings(w[k])[1]])

(* The word in the place it has among the first three of its pinyin.       *)
Listed(w) ==
  IF ~HasPinYin(w) THEN <<>>
  ELSE LET list == Found(FirstPinYin(w))
       IN  SelectSeq(SubSeq(list, 1, Min({3, Len(list)})), LAMBDA e : e.word = w)
ori_weight == IF Listed(word) = <<>> THEN 0 ELSE Listed(word)[1].weight

Near(k) == IF word[k] \in DOMAIN model.near THEN model.near[word[k]] ELSE <<>>
Variants ==
  FlattenSeq([k \in DOMAIN word |-> [j \in DOMAIN Near(k) |-> [word EXCEPT ![k] = Near(k)[j]]]])

HeavierThanWord(w) == w > ori_weight
Heavier(w) == w > (IF rec_word = <<>> THEN ori_weight ELSE rec_word[1].conf)

(* While the loop runs the answer holds the weight, not the confidence.    *)
nearwordRec ==
  input.caller = "near" /\
  IF i <= Len(Variants)
  THEN LET listed == Listed(Variants[i])
       IN  /\ i' = i + 1
           /\ rec_word' = IF listed # <<>> /\ Heavier(listed[1].weight)
                          THEN <<[word |-> Variants[i], conf |-> listed[1].weight]>> ELSE rec_word
           /\ UNCHANGED <<round, returned>>
  ELSE IF rec_word = <<>> THEN GiveUp
  ELSE Answer(rec_word[1].word, 60 + rec_word[1].conf \div (1 + ori_weight))

Next ==
  /\ returned = "no"
  /\ chwordRec \/ enwordRec \/ nearwordRec
  /\ UNCHANGED <<model, input, candidates>>

Spec == Init /\ [][Next]_vars

-----------------------------------------------------------------------------
Answered(caller) == returned = "true" /\ input.caller = caller
answer == rec_word[1].word

(* An answer that changes the text is reported, and lowers the confidence  *)
(* of the whole text to its own: it is more than 60.                       *)
ChangedIsSure == returned = "true" /\ answer # word => rec_word[1].conf > 60

(* chwordRec: the answer can be read as the syllables of the word, each    *)
(* used once; or one character inside of it differs; or one is appended.   *)
ChineseIsNear ==
  Answered("chinese") =>
    \/ /\ Len(answer) = Len(word)
       /\ \E f \in [DOMAIN answer -> DOMAIN input.py] :
            /\ \A k, l \in DOMAIN answer : f[k] = f[l] => k = l
            /\ \A k \in DOMAIN answer : input.py[f[k]] \in ToSet(Readings(answer[k]))
    \/ /\ Len(answer) = Len(word)
       /\ Cardinality({k \in DOMAIN word : answer[k] # word[k]}) <= 1
       /\ answer[1] = word[1] /\ Last(answer) = Last(word)
    \/ \E c \in Chinese : answer = Append(word, c)

(* enwordRec: a number stays where it was, so what is put before it was    *)
(* seen with it, or keeps the letters typed before it.                     *)
EnglishFitsNumber ==
  Answered("english") /\ answer # word /\ right.mark = "NUMBER" =>
    \/ right.word \in Beside(answer)
    \/ \E k \in 1 .. Len(word) - 1 :
         /\ IsSuffix(SubSeq(word, k + 1, Len(word)), answer)
         /\ \E c \in DOMAIN candidates : candidates[c].word = SubSeq(word, 1, k)

(* nearwordRec: one character is replaced by one like it, and no other     *)
(* such word that is listed is heavier, nor is the word itself.            *)
NearIsHeaviest ==
  input.caller = "near" /\ returned # "no" =>
    LET better == {v \in ToSet(Variants) : Listed(v) # <<>> /\ Listed(v)[1].weight > ori_weight}
    IN  IF returned = "false" THEN better = {}
        ELSE answer \in better /\ \A v \in better : Listed(v)[1].weight <= Listed(answer)[1].weight
=============================================================================
