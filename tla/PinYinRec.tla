------------------------------- MODULE PinYinRec ------------------------------
(***************************************************************************)
(* The recognisers that take a text for pinyin and look its Chinese up:    *)
(* wholePinYinRec for one word and for a run, and firstPinYinRec.          *)
(* One step is one candidate of whole_pinyin_create.                       *)
(***************************************************************************)
EXTENDS PinYinDict

CONSTANTS
  Inputs,      (* calls: caller ("word", "run" or "first"), ori_word,      *)
               (* pinyin (its syllables) and rword, what is to its right   *)
  Candidates,  (* what whole_pinyin_create may answer: pinyin, weights and *)
               (* the lists m_wpy has for them, heaviest first             *)
  Models,      (* what model may be                                        *)
  Sections,    (* word_sect_all: the segmentations of a pinyin             *)
  English,     (* m_enword_create.ifExist                                  *)
  InCorrectDict,
  LongWord,    (* 8 bytes                                                  *)
  LongPinYin   (* 18                                                       *)

PinYinRecAssumption ==
  \A c \in Candidates : \A p \in DOMAIN c :
    /\ c[p].weight \in Nat
    /\ \A e \in DOMAIN c[p].list : c[p].list[e].weight \in Nat

VARIABLES
  input, result,
  i,            (* the candidate looked at                                 *)
  rec_word,     (* the answer with its confidence                          *)
  returned      (* "no", "true" or "false"                                 *)

vars == <<input, result, model, i, rec_word, returned>>

(* firstPinYinRec looks into one list, that of m_fpy.                      *)
Init ==
  /\ input \in Inputs /\ result \in Candidates /\ model \in Models
  /\ input.caller = "first" => Len(result) = 1
  /\ i = 1 /\ rec_word = <<>> /\ returned = "no"

-----------------------------------------------------------------------------
rword == input.rword
ori_word == input.ori_word
weight == result[i].weight
candidate == result[i].word
Alone == Len(result) = 1
NextOver(n) == i < Len(result) /\ n < result[i + 1].weight
NextUnder(n) == i < Len(result) /\ n > result[i + 1].weight
SameInitial == candidate[1] = ori_word[1]
NumberFollows == rword = <<>> \/ IsDigit(rword[1])

LookedUp(ifchange) == getWordFromDict(result[i].list, rword, ifchange)
KeptIf(found, Test(_)) == IF found # <<>> /\ Test(found[1].word) THEN found ELSE <<>>

(* Letters the word has more than the candidate go before the number.      *)
ExtraAfter(word) == Len(word)
ExtraAt(word) == Len(word) - Len(rword)
Extra == SubSeq(ori_word, Len(candidate) + 1, Len(ori_word))
HasExtra ==
  /\ Len(ori_word) > Len(candidate)
  /\ edit_distance_sequence(ori_word, candidate) = Len(ori_word) - Len(candidate)
Inserted(w) == SubSeq(w, 1, ExtraAt(w)) \o Extra \o SubSeq(w, ExtraAt(w) + 1, Len(w))

(* wholePinYinRec(vecWord, ...): a single word.                            *)
Sure(percent) == (weight * 100) \div 14000 > percent
LongAndFirst ==
  /\ i = 1 /\ Len(ori_word) >= LongPinYin
  /\ Alone \/ weight > 2 * result[2].weight

OfWord ==
  IF ~SameInitial THEN <<>>
  ELSE IF Sure(40) /\ candidate = ori_word
  THEN KeptIf(LookedUp(FALSE),
              LAMBDA w : \/ ifHavAlpha(w) \/ w \in InCorrectDict
                         \/ Size(w) > LongChinese \/ NextUnder(3 * weight))
  ELSE IF NextOver(3 * weight) \/ ~(Sure(60) \/ LongAndFirst) THEN <<>>
  ELSE IF ~HasExtra THEN LookedUp(TRUE)
  ELSE LET found == KeptIf(LookedUp(TRUE), LAMBDA w : NumberFollows)
       IN  [p \in DOMAIN found |-> [found[p] EXCEPT !.word = Inserted(@)]]

-----------------------------------------------------------------------------
(* wholePinYinRec(rword, pinyin, ...): a run.                              *)

Initials(syllables) == [p \in DOMAIN syllables |-> syllables[p][1]]
fpy == Initials(input.pinyin)
rec_wpy == Sections[candidate]
rec_py == [s \in DOMAIN rec_wpy |-> Initials(rec_wpy[s])]
ori_weight == IF result[1].word = ori_word THEN result[1].weight ELSE 0

(* A second segmentation with the same initials is preferred.              *)
idx == IF Len(rec_py) > 1 /\ edit_distance_sequence(fpy, rec_py[2]) = 0 THEN 2 ELSE 1
ed == IF idx = 2 THEN 0 ELSE edit_distance_sequence(fpy, rec_py[1])
Short == Len(fpy) <= 4
HasMore == Len(fpy) < Len(rec_py[idx])

(* A syllable against the one in its place: two mistakes side by side, or  *)
(* lengths that differ by two.                                             *)
TwoMistakes(a, b) ==
  LET len == Common(a, b)
      sub == Longer(a, b) - len
      wrong == {p \in 1 .. len : a[p] # b[p]}
      diff == edit_distance_diff(a, b)
  IN  /\ diff # 0
      /\ \/ sub = 2
         \/ /\ ~(sub = 1 /\ diff = 1 /\ len >= 3)
            /\ \/ \E p \in wrong : p + 1 \in wrong
               \/ sub = 1 /\ len \in wrong /\ diff > 1
Misspelt ==
  \E p \in 1 .. Common(input.pinyin, rec_wpy[idx]) :
    TwoMistakes(input.pinyin[p], rec_wpy[idx][p])

(* The segmentation begins as the run does.                                *)
Comparable ==
  /\ SameInitial /\ rec_py # <<>>
  /\ Len(fpy) = Len(rec_py[1]) \/ IsPrefix(fpy, rec_py[1])

(* The run itself, and common: it is looked up and kept if that is surer   *)
(* than what comes next.                                                   *)
CommonItself ==
  /\ i = 1 /\ ori_weight # 0
  /\ IF Short THEN weight > 5000 /\ (Alone \/ NextUnder(40 * weight))
     ELSE Alone \/ (NextUnder(25 * weight) /\ weight > 3000)

MuchCommoner ==
  \/ ori_weight > 300 /\ weight > 4 * ori_weight /\ weight > 30000 /\ (ed = 0 \/ ori_weight > 9000)
  \/ HasMore /\ weight > 70000
  \/ ori_weight = 0 /\ ed = 0 /\ weight > (IF Short THEN 20000 ELSE 600)
  \/ /\ weight > 4 * ori_weight /\ ed <= 1 /\ Short
     /\ weight > 500000 \/ (weight > 3000 /\ HasMore)

(* The length that is cut off is that of rword also when the model found   *)
(* has another.                                                            *)
KnownBefore(w) ==
  LET word == SubSeq(w, 1, Len(w) - Len(rword))
  IN  word \in InCorrectDict /\ Size(word) = Size(w) - Len(rword)

OfRun ==
  IF \/ Len(fpy) <= 2 /\ result[1].word # ori_word /\ ori_word \in English
     \/ ~Comparable
  THEN <<>>
  ELSE IF CommonItself
  THEN KeptIf(LookedUp(FALSE),
              LAMBDA w : \/ ifHavModelInTail(w) \/ KnownBefore(w)
                         \/ Size(w) - Len(rword) > LongWord \/ Alone
                         \/ weight > 80000 \/ NextUnder(4 * weight))
  ELSE IF NextOver(4 * weight) \/ ~MuchCommoner \/ (~HasMore /\ (ed > 1 \/ Misspelt))
  THEN <<>>
  ELSE LET found ==
             KeptIf(LookedUp(TRUE),
                    LAMBDA w : ~(NumberFollows /\ ifHavAlpha(w) /\ Len(candidate) > Len(ori_word) + 1))
       IN  [p \in DOMAIN found |-> [found[p] EXCEPT !.conf = IF ed = 1 /\ Short THEN 61 ELSE @]]

-----------------------------------------------------------------------------
(* firstPinYinRec                                                          *)
OfInitials ==
  IF Len(ori_word) <= 2 /\ NumberFollows THEN <<>>
  ELSE LET found == LookedUp(TRUE)
       IN  IF found # <<>> /\ found[1].conf > 61 THEN found ELSE <<>>

Offer == CASE input.caller = "word" -> OfWord [] input.caller = "run" -> OfRun
           [] input.caller = "first" -> OfInitials

More == returned = "no" /\ i <= Len(result) /\ i <= 5

Try ==
  /\ More
  /\ IF Offer # <<>>
     THEN rec_word' = Offer /\ returned' = "true" /\ UNCHANGED i
     ELSE i' = i + 1 /\ UNCHANGED <<rec_word, returned>>
  /\ UNCHANGED <<input, result, model>>

GiveUp ==
  /\ returned = "no" /\ ~More
  /\ returned' = "false"
  /\ UNCHANGED <<input, result, model, i, rec_word>>

Next == Try \/ GiveUp

Spec == Init /\ [][Next]_vars

-----------------------------------------------------------------------------
(* The entries that may answer.                                            *)
Entries == {result[i].list[e] : e \in DOMAIN result[i].list \intersect 1 .. 2}

(***************************************************************************)
(* The caller steps over the words of rword when it gets an answer, so an  *)
(* answer has to bring them: it ends with rword or, where the text itself  *)
(* is kept, with a model at most one letter away that has its number.      *)
(* Letters typed behind the pinyin stand in front of rword.  What comes    *)
(* before is one of the first two words of the list, or one character away *)
(* from it; and the answer is sure enough to be reported, 61 to 100.       *)
(***************************************************************************)
AnswerKeepsContext ==
  returned = "true" =>
    LET w == rec_word[1].word
        typed == IF input.caller = "word" /\ HasExtra /\ candidate # ori_word THEN Extra \o rword ELSE rword
    IN  /\ rec_word[1].conf \in 61 .. 100
        /\ \/ IsSuffix(typed, w)
           \/ /\ candidate = ori_word /\ input.caller # "first"
              /\ IsSuffix(Number(rword), w)
              /\ \E e \in Entries : edit_distance(AsciiPart(w), AsciiPart(e.word) \o rword) < 2
        /\ \E e \in Entries :
             /\ Len(ChinesePart(w)) = Len(ChinesePart(e.word))
             /\ edit_distance(ChinesePart(w), ChinesePart(e.word)) < 2
=============================================================================
