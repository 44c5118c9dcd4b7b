---------------------------- MODULE RectifyQuery ----------------------------
(***************************************************************************)
(* One call of Rectify::rectify (rectify/src/rectify.cpp): the query is    *)
(* looked up whole, split into words, and scanned once from left to right. *)
(* A word is copied to the answer, replaced by a recogniser, or held in a  *)
(* pending pinyin run (start, whole_pinyin) that a later word resolves.    *)
(*                                                                         *)
(* Words are abstract: a record of what the branches ask of them.  What a  *)
(* recogniser (n-gram model, pinyin dictionaries, English dictionary)      *)
(* answers depends on the data files and is chosen freely.  Positions are  *)
(* numbered from 1, so start = 0 is the code's start = -1.                 *)
(***************************************************************************)
EXTENDS Integers, Sequences, FiniteSetsExt, Functions

CONSTANTS
  Words,          (* the words a query may be split into                   *)
  Weights,        (* the confidences a recogniser or a dictionary may give *)
  MaxQuerySize,   (* 30 bytes in the code                                  *)
  MaxSplitWords,  (* 8 words in the code                                   *)
  MaxQueryWords,  (* bound of the instance: words in a query               *)
  MaxExtra        (* bound of the instance: bytes trimmed from a query     *)

Marks == {"CHWORD", "ALPHA", "NUMBER", "CHPUNC", "ENPUNC"}

(***************************************************************************)
(* white: in m_correct_dict;  fix: in m_wrong2right;  py: has a pinyin     *)
(* reading (word_sect_all or getWholePinYin finds one);  blank: ifHavBlank *)
(* skips it (punctuation, of one byte or full-width);  odd: one of the two *)
(* characters recSingleChar knows.                                         *)
(***************************************************************************)
Word == [mark : Marks, size : Nat \ {0}, white : BOOLEAN, fix : BOOLEAN,
         py : BOOLEAN, blank : BOOLEAN, odd : BOOLEAN]

ASSUME RectifyAssumption ==
  /\ Words \subseteq Word
  /\ \A w \in Words : w.blank => w.mark \in {"ENPUNC", "CHPUNC"}
  /\ Weights \subseteq Nat
  /\ MaxQuerySize \in Nat
  /\ MaxSplitWords \in Nat
  /\ MaxQueryWords \in Nat
  /\ MaxExtra \in Nat

VARIABLES
  query,         (* the argument: its words, and what cleaning it removed  *)
  pc,            (* "start", "scan" (the for loop) or "done"               *)
  vecWord,       (* the words that are scanned, their marks included       *)
  i,             (* the loop index                                         *)
  start,         (* first word of the pending run, 0 when there is none    *)
  whole_pinyin,  (* the words whose pinyin the pending run holds           *)
  str,           (* the answer so far, as pieces                           *)
  confidence,
  ischange,
  rec,           (* the corrections returned, by their confidence          *)
  ret            (* the result of the call                                 *)

vars == <<query, pc, vecWord, i, start, whole_pinyin, str, confidence,
          ischange, rec, ret>>

-----------------------------------------------------------------------------
(* The words of a query and what the branches ask about them.              *)

(* splitCHAlNum cuts the text into maximal runs of one character class.    *)
Split(ws) == \A k \in 1 .. Len(ws) - 1 : ws[k].mark # ws[k + 1].mark

Queries ==
  {q \in [words : UNION {[1 .. n -> Words] : n \in 0 .. MaxQueryWords},
          extra : 0 .. MaxExtra, asked : BOOLEAN] :
     Split(q.words) /\ (q.asked => q.extra > 0)}

(* query.size(): the words, and the blanks and question marks removed.     *)
QuerySize(q) ==
  q.extra + FoldFunction(+, 0, [k \in DOMAIN q.words |-> q.words[k].size])

(* What a dictionary may say of the whole query: a query of one word is    *)
(* that word, unless delquestionmark took something from it.               *)
Lookup(known) == IF Len(query.words) = 1 /\ ~query.asked THEN {known} ELSE BOOLEAN
InCorrectDict == Lookup(query.words # <<>> /\ query.words[1].white)
InRectifyDict == Lookup(query.words # <<>> /\ query.words[1].fix)

Is(k, mark) == k \in 1 .. Len(vecWord) /\ vecWord[k].mark = mark
IsBlank(k) == k \in 1 .. Len(vecWord) /\ vecWord[k].blank
IsPunc(k) == Is(k, "CHPUNC") \/ Is(k, "ENPUNC")

(* A word of letters with a pinyin segmentation that is worth joining.     *)
IsPinYin(k) == Is(k, "ALPHA") /\ vecWord[k].size > 1 /\ vecWord[k].py

(* recSingleChar: a digit misread as a letter, right behind a number.      *)
RecSingleChar(k) == Is(k - 1, "NUMBER") /\ vecWord[k].odd

(* getRightAlNum: the letters and the number to the right of word k, blanks *)
(* before them skipped; k itself when there are none.                      *)
RightFrom(k) ==
  {f \in k + 1 .. Len(vecWord) : \A g \in k + 1 .. f : IsBlank(g) <=> g # f}
IsRightRun(f, e) ==
  /\ \A g \in f .. e - 1 : Is(g, "ALPHA")
  /\ Is(e, "ALPHA") \/ Is(e, "NUMBER")
RightAlNum(k) ==
  {e \in k + 1 .. Len(vecWord) : \E f \in RightFrom(k) : f <= e /\ IsRightRun(f, e)}
IsRightEnd(k, e) ==
  /\ e \in {k} \union RightAlNum(k)
  /\ \A g \in RightAlNum(k) : g <= e
RWord(k, e) == {g \in k + 1 .. e : ~IsBlank(g)}

(* ifRightIndep: none, a number first, or a letter last.                   *)
RightIndep(k) ==
  \/ RightAlNum(k) = {}
  \/ \E f \in RightFrom(k) : Is(f, "NUMBER")
  \/ \E e \in RightAlNum(k) : IsRightEnd(k, e) /\ Is(e, "ALPHA")

(* The run is at the head of the query or behind a punctuation mark.       *)
AtHead(s) == s = 1 \/ IsPunc(s - 1)

-----------------------------------------------------------------------------
(* The answer is a sequence of pieces: the words each piece stands for,    *)
(* and the weight it was given when it counts as a change.                 *)

Piece(of, differs, w) ==
  [of |-> of, changed |-> differs, weight |-> IF differs THEN w ELSE 100]

Copy(k) == Piece({k}, FALSE, 100)

CopiesButLast(from, to) == [k \in 1 .. to - from |-> Copy(from + k - 1)]
Copies(from, to) == [k \in 1 .. to - from + 1 |-> Copy(from + k - 1)]

(* confidence = confidence > weight ? weight : confidence                  *)
WeakestSwapped(c, w) == IF c > w THEN c ELSE w
Weakest(c, w) == IF c > w THEN w ELSE c

(* processRec, with the words the recogniser answered for.                 *)
ProcessRecInto(res, of, differs, w) ==
  /\ str' = Append(res, Piece(of, differs, w))
  /\ ischange' = (ischange \/ differs)
  /\ confidence' = IF differs THEN Weakest(confidence, w) ELSE confidence
ProcessRec(of, differs, w) == ProcessRecInto(str, of, differs, w)

(* str += vecWord[j] for j in from .. to                                   *)
Emit(from, to) ==
  /\ str' = str \o Copies(from, to)
  /\ UNCHANGED <<confidence, ischange>>

(* Nothing is written yet: the word waits in the run.                      *)
Hold == UNCHANGED <<str, confidence, ischange>>

KeepRun == UNCHANGED <<start, whole_pinyin>>

ClearStartOnly == start' = 0 /\ UNCHANGED whole_pinyin
ClearRun == start' = 0 /\ whole_pinyin' = <<>>

(* i = end, and the ++i of the for loop.                                   *)
NextWordOnly(e) == i' = i + 1
Stay(e) == i' = e
Resume(e) == i' = e + 1

-----------------------------------------------------------------------------
(* Before the loop.                                                        *)

Init ==
  /\ query \in Queries
  /\ pc = "start"
  /\ vecWord = <<>>
  /\ i = 1
  /\ start = 0
  /\ whole_pinyin = <<>>
  /\ str = <<>>
  /\ confidence = 100
  /\ ischange = FALSE
  /\ rec = <<>>
  /\ ret = FALSE

Return(result, corrections) ==
  /\ pc' = "done"
  /\ ret' = result
  /\ rec' = corrections

LoopFrame == UNCHANGED <<query, vecWord, i, start, whole_pinyin>>
NoAnswer == UNCHANGED <<str, confidence, ischange>>

RejectLong ==
  /\ pc = "start"
  /\ QuerySize(query) > MaxQuerySize
  /\ Return(FALSE, <<>>)
  /\ LoopFrame /\ NoAnswer

AnswerWhite ==
  /\ pc = "start"
  /\ QuerySize(query) <= MaxQuerySize
  /\ TRUE \in InCorrectDict
  /\ Return(TRUE, <<>>)
  /\ LoopFrame /\ NoAnswer

AnswerFix ==
  /\ pc = "start"
  /\ QuerySize(query) <= MaxQuerySize
  /\ FALSE \in InCorrectDict /\ TRUE \in InRectifyDict
  /\ \E w \in Weights : Return(TRUE, <<w>>)
  /\ LoopFrame /\ NoAnswer

Unlisted ==
  /\ pc = "start"
  /\ QuerySize(query) <= MaxQuerySize
  /\ FALSE \in InCorrectDict /\ FALSE \in InRectifyDict

RejectManyWords ==
  /\ Unlisted
  /\ Len(query.words) > MaxSplitWords
  /\ Return(FALSE, <<>>)
  /\ LoopFrame /\ NoAnswer

(* delSingleEN: a stray letter between two Chinese characters is dropped   *)
(* when the characters make a word; that word is one of the lexicon.       *)
StrayLetter(ws) ==
  /\ Len(ws) = 3
  /\ ws[1].mark = "CHWORD" /\ ws[1].size = 2
  /\ ws[2].mark = "ALPHA" /\ ws[2].size = 1
  /\ ws[3].mark = "CHWORD" /\ ws[3].size = 2
Joined(ws) ==
  {w \in Words : w.mark = "CHWORD" /\ w.size = 4 /\ (w.py <=> ws[1].py /\ ws[3].py)}

StartScan ==
  /\ Unlisted
  /\ Len(query.words) <= MaxSplitWords
  /\ pc' = "scan"
  /\ \/ vecWord' = query.words /\ ischange' = query.asked
     \/ /\ StrayLetter(query.words)
        /\ \E w \in Joined(query.words) : vecWord' = <<w>>
        /\ ischange' = TRUE
  /\ UNCHANGED <<query, i, start, whole_pinyin, str, confidence, rec, ret>>

-----------------------------------------------------------------------------
(* The loop: one action per way an iteration ends.                         *)

ScanFrame == UNCHANGED <<query, pc, vecWord, rec, ret>>

LooksUpChinese == whole_pinyin = <<>> /\ Is(i, "CHWORD")
LooksUp == whole_pinyin = <<>> /\ (Is(i, "ALPHA") \/ Is(i, "CHWORD"))

WordWhite ==
  /\ pc = "scan" /\ LooksUp
  /\ vecWord[i].white
  /\ Emit(i, i) /\ KeepRun /\ Resume(i) /\ ScanFrame

WordFix ==
  /\ pc = "scan" /\ LooksUp
  /\ ~vecWord[i].white /\ vecWord[i].fix
  /\ \E w \in Weights, differs \in BOOLEAN : ProcessRec({i}, differs, w)
  /\ KeepRun /\ Resume(i) /\ ScanFrame

Scanning(mark) ==
  /\ pc = "scan" /\ Is(i, mark)
  /\ LooksUp => ~vecWord[i].white /\ ~vecWord[i].fix

(* A single letter.                                                        *)
AlphaLetter ==
  /\ Scanning("ALPHA") /\ vecWord[i].size <= 1
  /\ IF RecSingleChar(i) THEN ProcessRec({i}, TRUE, 90) ELSE Emit(i, i)
  /\ KeepRun /\ Resume(i) /\ ScanFrame

(* Letters that go with the number before them (ifWordCooccur).            *)
AlphaModel ==
  /\ Scanning("ALPHA") /\ vecWord[i].size > 1
  /\ Is(i - 1, "NUMBER")
  /\ Emit(i, i) /\ ClearRun /\ Resume(i) /\ ScanFrame

(* Letters read as pinyin: the pending run when there is one, else a run   *)
(* that begins here.  A pending run is not extended by the word itself:    *)
(* the word that held it has already appended its letters.                 *)
InPinYin ==
  /\ Scanning("ALPHA") /\ vecWord[i].size > 1
  /\ whole_pinyin # <<>> \/ vecWord[i].py
PinYinRun == IF whole_pinyin = <<>> THEN <<i>> ELSE whole_pinyin
PinYinStart == IF start = 0 THEN i ELSE start

WaitsForChinese ==
  Is(i + 1, "CHWORD") /\ vecWord[i + 1].size < 16 /\ ~vecWord[i + 1].odd
BridgesUnchecked == ~Is(i + 1, "CHWORD") /\ IsBlank(i + 1)
BridgesBlank ==
  ~Is(i + 1, "CHWORD") /\ IsBlank(i + 1) /\ IsPinYin(i + 2)

PinYinHold ==
  /\ InPinYin /\ WaitsForChinese
  /\ start' = PinYinStart /\ whole_pinyin' = PinYinRun
  /\ Hold /\ Resume(i) /\ ScanFrame

PinYinBridge ==
  /\ InPinYin /\ BridgesBlank
  /\ start' = PinYinStart /\ whole_pinyin' = Append(PinYinRun, i + 2)
  /\ Hold /\ Resume(i + 1) /\ ScanFrame

PinYinEnds == InPinYin /\ ~WaitsForChinese /\ ~BridgesBlank

(* wholePinYinRec answers for the run and the letters to its right.        *)
PinYinWhole ==
  /\ PinYinEnds /\ AtHead(PinYinStart)
  /\ \E end \in i .. Len(vecWord), w \in Weights, differs \in BOOLEAN :
       /\ IsRightEnd(i, end)
       /\ ProcessRec(Range(PinYinRun) \union RWord(i, end), differs, w)
       /\ Resume(end)
  /\ ClearRun /\ ScanFrame

(* ngramRec: Chinese for the run, so it differs from the letters of word i. *)
PinYinNgram ==
  /\ PinYinEnds
  /\ \E w \in Weights : ProcessRec(Range(PinYinRun), TRUE, w)
  /\ ClearRun /\ Resume(i) /\ ScanFrame

PinYinEnglish ==
  /\ PinYinEnds /\ PinYinStart = i
  /\ \E w \in Weights, differs \in BOOLEAN : ProcessRec({i}, differs, w)
  /\ ClearRun /\ Resume(i) /\ ScanFrame

PinYinNone ==
  /\ PinYinEnds
  /\ Emit(PinYinStart, i) /\ ClearRun /\ Resume(i) /\ ScanFrame

(* Letters without a pinyin reading, and no run pending.                   *)
InEnglish ==
  /\ Scanning("ALPHA") /\ vecWord[i].size > 1
  /\ whole_pinyin = <<>> /\ ~vecWord[i].py

EnglishWord ==
  /\ InEnglish
  /\ \/ Emit(i, i)
     \/ \E w \in Weights, differs \in BOOLEAN : ProcessRec({i}, differs, w)
  /\ KeepRun /\ Resume(i) /\ ScanFrame

(* wholePinYinRec on the letters, or firstPinYinRec at the head: with the  *)
(* letters to the right the answer is never the word alone.                *)
EnglishAsPinYin ==
  /\ InEnglish
  /\ \E end \in i .. Len(vecWord), w \in Weights, differs \in BOOLEAN :
       /\ IsRightEnd(i, end)
       /\ end # i => differs
       /\ ProcessRec({i} \union RWord(i, end), differs, w)
       /\ Resume(end)
  /\ KeepRun /\ ScanFrame

(* Chinese words.                                                          *)
ChineseIsLong ==
  vecWord[i].size >= 16 \/ (vecWord[i].size >= 12 /\ Is(i - 1, "NUMBER"))
ChineseIsDigit == vecWord[i].size <= 2 /\ RecSingleChar(i)

ChineseLong ==
  /\ Scanning("CHWORD") /\ ChineseIsLong
  /\ Emit(i, i) /\ KeepRun /\ Resume(i) /\ ScanFrame

ChineseDigit ==
  /\ Scanning("CHWORD") /\ ~ChineseIsLong /\ ChineseIsDigit
  /\ ProcessRec({i}, TRUE, 90)
  /\ KeepRun /\ Resume(i) /\ ScanFrame

InChinese == Scanning("CHWORD") /\ ~ChineseIsLong /\ ~ChineseIsDigit
ChineseRun == Append(whole_pinyin, i)
ChineseStart == IF whole_pinyin = <<>> THEN i ELSE start

(* No reading: the pending words and this one are written as they are,     *)
(* and the run stays pending.                                              *)
ChineseUnread ==
  /\ InChinese /\ ~vecWord[i].py
  /\ Emit(ChineseStart, i) /\ KeepRun /\ Resume(i) /\ ScanFrame

JoinsLetters == IsPinYin(i + 1) /\ ~vecWord[i + 1].white
JoinsOverBlank == IsBlank(i + 1) /\ IsPinYin(i + 2) /\ ~vecWord[i + 2].white

ChineseHold ==
  /\ InChinese /\ vecWord[i].py /\ JoinsLetters
  /\ start' = ChineseStart /\ whole_pinyin' = Append(ChineseRun, i + 1)
  /\ Hold /\ Resume(i) /\ ScanFrame

(* Unlike PinYinBridge the loop does not step over the blank.              *)
ChineseBridge ==
  /\ InChinese /\ vecWord[i].py /\ JoinsOverBlank
  /\ start' = ChineseStart /\ whole_pinyin' = Append(ChineseRun, i + 2)
  /\ Hold /\ Resume(i) /\ ScanFrame

ChineseEnds == InChinese /\ vecWord[i].py /\ ~JoinsLetters /\ ~JoinsOverBlank
StandsAlone ==
  /\ ChineseStart = i
  /\ vecWord[i].size = 2 \/ (RightIndep(i) /\ vecWord[i].white)

ChineseAlone ==
  /\ ChineseEnds /\ StandsAlone
  /\ Emit(i, i) /\ ClearRun /\ Resume(i) /\ ScanFrame

(* wholePinYinRec, or recCHWordByModel for a word and its model number.    *)
ChineseWhole ==
  /\ ChineseEnds /\ ~StandsAlone /\ AtHead(ChineseStart)
  /\ \E end \in i .. Len(vecWord), w \in Weights, differs \in BOOLEAN :
       /\ IsRightEnd(i, end)
       /\ ProcessRec(Range(ChineseRun) \union RWord(i, end), differs, w)
       /\ Resume(end)
  /\ ClearRun /\ ScanFrame

(* ngramRec compares with word i only: a longer run always differs.        *)
ChineseNgram ==
  /\ ChineseEnds /\ ~StandsAlone /\ ~Is(i + 1, "NUMBER")
  /\ \E w \in Weights, differs \in BOOLEAN :
       /\ ChineseStart # i => differs
       /\ ProcessRec(Range(ChineseRun), differs, w)
  /\ ClearRun /\ Resume(i) /\ ScanFrame

ChineseOnly ==
  /\ ChineseEnds /\ ~StandsAlone /\ Len(vecWord) = 1
  /\ \E w \in Weights, differs \in BOOLEAN : ProcessRec({i}, differs, w)
  /\ ClearRun /\ Resume(i) /\ ScanFrame

ChineseNone ==
  /\ ChineseEnds /\ ~StandsAlone
  /\ Emit(ChineseStart, i) /\ ClearRun /\ Resume(i) /\ ScanFrame

(* Numbers and punctuation.                                                *)
OtherWord ==
  /\ pc = "scan" /\ (Is(i, "NUMBER") \/ IsPunc(i))
  /\ Emit(i, i) /\ KeepRun /\ Resume(i) /\ ScanFrame

-----------------------------------------------------------------------------
(* After the loop.                                                         *)

Scanned == pc = "scan" /\ i > Len(vecWord)

(* ifInRectifyDict(str): an answer of one untouched word was looked up.    *)
AnswerInRectifyDict ==
  IF Len(vecWord) = 1 /\ str = <<Copy(1)>> THEN {vecWord[1].fix} ELSE BOOLEAN

(* wrong2right may undo the correction, which leaves nothing to report.    *)
EndFix ==
  /\ Scanned /\ TRUE \in AnswerInRectifyDict
  /\ \/ Return(TRUE, <<>>)
     \/ \E w \in Weights : Return(TRUE, <<w>>)
  /\ LoopFrame /\ NoAnswer

Report(changed, w) == Return(TRUE, IF changed THEN <<w>> ELSE <<>>)

(* nearwordRec replaces the whole answer of a query of one Chinese word.   *)
EndNear ==
  /\ Scanned /\ FALSE \in AnswerInRectifyDict
  /\ Len(vecWord) = 1 /\ Is(1, "CHWORD")
  /\ \E w \in Weights, differs \in BOOLEAN :
       ProcessRecInto(<<>>, {1}, differs, w)
  /\ Report(ischange', confidence')
  /\ LoopFrame

End ==
  /\ Scanned /\ FALSE \in AnswerInRectifyDict
  /\ Report(ischange, confidence)
  /\ LoopFrame /\ NoAnswer

-----------------------------------------------------------------------------
Before == RejectLong \/ AnswerWhite \/ AnswerFix \/ RejectManyWords \/ StartScan
Letters ==
  \/ AlphaLetter \/ AlphaModel
  \/ PinYinHold \/ PinYinBridge \/ PinYinWhole \/ PinYinNgram
  \/ PinYinEnglish \/ PinYinNone
  \/ EnglishWord \/ EnglishAsPinYin
Chinese ==
  \/ ChineseLong \/ ChineseDigit \/ ChineseUnread
  \/ ChineseHold \/ ChineseBridge
  \/ ChineseAlone \/ ChineseWhole \/ ChineseNgram \/ ChineseOnly \/ ChineseNone
Scan == WordWhite \/ WordFix \/ Letters \/ Chinese \/ OtherWord
After == EndFix \/ EndNear \/ End

Next == Before \/ Scan \/ After

Spec == Init /\ [][Next]_vars

-----------------------------------------------------------------------------
(***************************************************************************)
(* Type correctness of the call's locals, indices included: every position *)
(* a run or a piece holds is a word of the query (vecWord[j] exists).      *)
(***************************************************************************)
TypeOK ==
  /\ query \in Queries
  /\ pc \in {"start", "scan", "done"}
  /\ vecWord \in Seq(Words)
  /\ i \in Nat \ {0}
  /\ start \in 0 .. Len(vecWord)
  /\ whole_pinyin \in Seq(1 .. Len(vecWord))
  /\ str \in Seq([of : SUBSET (1 .. Len(vecWord)), changed : BOOLEAN, weight : Nat])
  /\ confidence \in Nat
  /\ ischange \in BOOLEAN
  /\ rec \in Seq(Nat)
  /\ ret \in BOOLEAN

(***************************************************************************)
(* The two variables that describe the pending run agree: start is set     *)
(* exactly while whole_pinyin holds something, to a word the cursor has    *)
(* passed.  With whole_pinyin kept and start = -1, lines 1292 and 1378     *)
(* would copy vecWord[-1].                                                 *)
(***************************************************************************)
RunIsPaired ==
  /\ start = 0 <=> whole_pinyin = <<>>
  /\ start < i

(* Every Chinese word of the query has a reading in m_chword_pinyin.       *)
AllRead == \A k \in 1 .. Len(vecWord) : Is(k, "CHWORD") => vecWord[k].py

(* No pinyin word follows a Chinese word over a blank (lines 1392-1400).   *)
NoChineseBridge ==
  \A k \in 1 .. Len(vecWord) :
    Is(k, "CHWORD") => ~(IsBlank(k + 1) /\ IsPinYin(k + 2))

(***************************************************************************)
(* No word is lost: when the loop ends every word but the blanks is part   *)
(* of some piece of the answer, whatever mixture of runs, replacements and *)
(* words consumed ahead (i = end) produced it.  The condition is needed:   *)
(* a word without a reading (line 1380) leaves a run behind that a later   *)
(* word is exchanged for.                                                  *)
(***************************************************************************)
NoWordLost ==
  Scanned /\ AllRead =>
    \A k \in 1 .. Len(vecWord) :
      IsBlank(k) \/ \E p \in DOMAIN str : k \in str[p].of

(***************************************************************************)
(* No word is answered twice and none out of order, pending words          *)
(* included: the pieces stand for increasing positions before the run.     *)
(* Needs both conditions: line 1399 leaves the blank to the next iteration *)
(* while the words around it are still pending.                            *)
(***************************************************************************)
InOrderOnce ==
  pc = "scan" /\ AllRead /\ NoChineseBridge =>
    /\ \A p, q \in DOMAIN str : p < q =>
         \A x \in str[p].of, y \in str[q].of : x < y
    /\ \A p \in DOMAIN str : \A x \in str[p].of :
         x < (IF start = 0 THEN i ELSE start)

(***************************************************************************)
(* The confidence reported for the answer is that of its weakest change,   *)
(* and a change is reported exactly when one was made.                     *)
(***************************************************************************)
Changes == {p \in DOMAIN str : str[p].changed}
ConfidenceIsWeakest ==
  pc = "scan" =>
    /\ confidence <= 100
    /\ \A p \in Changes : confidence <= str[p].weight
    /\ confidence = 100 \/ \E p \in Changes : confidence = str[p].weight
    /\ ischange <=> (query.asked \/ vecWord # query.words \/ Changes # {})

(***************************************************************************)
(* A query made of whitelisted words is answered as it is: nothing in the  *)
(* loop takes a whitelisted word into a run or a model number.             *)
(***************************************************************************)
Trusted ==
  \A k \in 1 .. Len(vecWord) : Is(k, "ALPHA") \/ Is(k, "CHWORD") => vecWord[k].white
TrustedWordsUntouched == pc = "scan" /\ Trusted => Changes = {}

(* Every iteration moves the cursor on, i = end included: the loop ends.   *)
CursorAdvances == [][pc = "scan" /\ pc' = "scan" => i' > i]_vars

(***************************************************************************)
(* rectify.cpp:1338, on the branch that corrects a single character:       *)
(* "whole_pinyin is certainly empty" when it applies.                      *)
(***************************************************************************)
SingleCharHasNoRun ==
  pc = "scan" /\ Is(i, "CHWORD") /\ ChineseIsDigit => whole_pinyin = <<>>
=============================================================================
