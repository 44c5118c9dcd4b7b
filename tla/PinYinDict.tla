------------------------------- MODULE PinYinDict ------------------------------
(***************************************************************************)
(* Rectify::getWordFromDict and recCHWordByModel: the Chinese word for a   *)
(* pinyin, with what the text has to its right.                            *)
(*                                                                         *)
(* A word is a sequence of characters: Chinese ones of two bytes, letters  *)
(* and digits.  A list is what m_wpy or m_fpy has, heaviest word first.    *)
(***************************************************************************)
EXTENDS Distances

CONSTANTS
  Chinese, Letters, Digits,
  LongChinese           (* 10 bytes                                        *)

VARIABLE model          (* m_word_cooccur, m_word_rword: what is seen      *)
                        (* beside a word                                   *)

-----------------------------------------------------------------------------
Size(w) == Len(w) + Len(SelectSeq(w, LAMBDA c : c \in Chinese))
IsDigit(c) == c \in Digits
IsAlpha(c) == c \in Letters
ChinesePart(w) == SelectSeq(w, LAMBDA c : c \in Chinese)
AsciiPart(w) == SubSeq(w, Len(ChinesePart(w)) + 1, Len(w))
ifHavAlpha(w) == AsciiPart(w) # <<>> /\ IsAlpha(AsciiPart(w)[1])
ifHavModelInTail(w) == ifHavAlpha(w) /\ IsDigit(w[Len(w)])

(* From the first digit on, the whole where there is none.                 *)
Number(w) ==
  LET digits == {p \in DOMAIN w : IsDigit(w[p])}
  IN  IF digits = {} THEN w ELSE SubSeq(w, Min(digits), Len(w))

Beside(w) == IF w \in DOMAIN model.cooccur THEN model.cooccur[w] ELSE {}
RightWords(w) == IF w \in DOMAIN model.rword THEN model.rword[w] ELSE <<>>
FirstOf(s) == IF s = <<>> THEN <<>> ELSE <<s[1]>>

Clamped(weight) == Min({100, Max({61, (weight * 100) \div 120000})})

(* A word beside the type; or, of the words it is seen with, one of the    *)
(* same length that differs in one of several characters.                  *)
recCHWordByModel(ch, type, conf) ==
  IF ch \in Beside(type) THEN <<[word |-> ch \o type, conf |-> conf]>>
  ELSE IF type \in DOMAIN model.cooccur /\ IsAlpha(type[1])
  THEN LET near(w) == /\ Len(w) = Len(ch) /\ edit_distance(w, ch) < 2
                      /\ edit_distance(w, ch) < Len(ch)
           words == FirstOf(SelectSeq(RightWords(type), near))
       IN  [p \in DOMAIN words |-> [word |-> words[p] \o type, conf |-> conf]]
  ELSE <<>>

(* A model seen beside the word that differs from the type in one letter   *)
(* and has its number.                                                     *)
SameNumber(str, number) ==
  LET cur_pos == Len(str) - Len(number)
  IN  /\ cur_pos > 0 /\ ~IsDigit(str[cur_pos])
      /\ SubSeq(str, cur_pos + 1, Len(str)) = number
NearModel(str, type, number) ==
  /\ Len(str) - Len(type) \in -1 .. 1
  /\ ~IsDigit(str[1]) /\ ~IsAlpha(str[Len(str)])
  /\ edit_distance(str, type) < 2
  /\ SameNumber(str, number)

(* One entry of the list; rword goes behind the word.                      *)
FromEntry(entry, first, rword, ifchange) ==
  LET ch == ChinesePart(entry.word)
      en == AsciiPart(entry.word)
      type == en \o rword
      conf == Clamped(entry.weight)
      near(str) == NearModel(str, type, Number(rword))
      model_near == FirstOf(SelectSeq(RightWords(ch), near))
  IN  IF rword = <<>> THEN <<[word |-> entry.word, conf |-> conf]>>
      ELSE IF en # <<>> /\ IsAlpha(rword[1]) THEN <<>>
      ELSE IF \/ first /\ (Size(ch) > LongChinese \/ entry.weight <= 15000)
              \/ IsDigit(type[1]) \/ IsAlpha(type[Len(type)])
      THEN <<[word |-> ch \o type, conf |-> conf]>>
      ELSE IF ~ifchange /\ type \in Beside(ch) THEN <<[word |-> ch \o type, conf |-> 100]>>
      ELSE IF ~ifchange /\ ch \in DOMAIN model.cooccur /\ model_near # <<>>
      THEN <<[word |-> ch \o model_near[1], conf |-> conf]>>
      ELSE recCHWordByModel(ch, type, conf)

(* The first of two entries that gives an answer.                          *)
getWordFromDict(list, rword, ifchange) ==
  LET from(p) == IF p > Len(list) THEN <<>> ELSE FromEntry(list[p], p = 1, rword, ifchange)
  IN  IF from(1) # <<>> THEN from(1) ELSE from(2)
=============================================================================
