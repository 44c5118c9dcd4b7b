------------------------- MODULE RectifyQueryProofs -------------------------
(***************************************************************************)
(* Theorems about RectifyQuery, for every lexicon, every set of weights    *)
(* and every bound.  The argument: before the loop nothing is set          *)
(* (Fresh); every iteration is a ScanStep, one of three changes of the run *)
(* and one of three changes of the answer; the invariants only have to be  *)
(* shown to survive those.                                                 *)
(***************************************************************************)
EXTENDS RectifyQuery, SequenceTheorems, TLAPS

Positions == 1 .. Len(vecWord)
Pieces == [of : SUBSET Positions, changed : BOOLEAN, weight : Nat]

(* Before the loop every local has its initial value.                      *)
Fresh ==
  pc = "start" =>
    /\ vecWord = <<>> /\ i = 1 /\ start = 0 /\ whole_pinyin = <<>>
    /\ str = <<>> /\ confidence = 100 /\ ischange = FALSE

IInv == TypeOK /\ RunIsPaired /\ Fresh

(* How an iteration may change the run and the answer.                     *)
RunStep ==
  \/ KeepRun
  \/ ClearRun
  \/ /\ start' \in Positions /\ start' < i'
     /\ whole_pinyin' \in Seq(Positions) /\ whole_pinyin' # <<>>
AnswerStep ==
  \/ Hold
  \/ \E from, to \in Positions : from <= to /\ Emit(from, to)
  \/ \E of \in SUBSET Positions, differs \in BOOLEAN, w \in Nat :
       ProcessRec(of, differs, w)
ScanStep ==
  /\ pc = "scan" /\ ScanFrame
  /\ i' \in Nat /\ i' > i
  /\ RunStep /\ AnswerStep

-----------------------------------------------------------------------------
(* The operators of the model.                                             *)

LEMMA WordsAreWords ==
  ASSUME TypeOK, NEW k \in Positions
  PROVE  /\ vecWord[k] \in Words /\ vecWord[k] \in Word
         /\ Len(vecWord) \in Nat
  <1>1. vecWord \in Seq(Words)
    BY DEF TypeOK
  <1>2. vecWord[k] \in Words
    BY <1>1, ElementOfSeq DEF Positions
  <1> QED
    BY <1>1, <1>2, RectifyAssumption, LenProperties

(* A word is asked about only where there is one.                          *)
LEMMA IsPosition ==
  ASSUME NEW k, NEW mark, Is(k, mark)
  PROVE  k \in Positions
  BY DEF Is, Positions

LEMMA RunRange ==
  ASSUME TypeOK, NEW run \in Seq(Positions)
  PROVE  Range(run) \subseteq Positions
  <1> SUFFICES ASSUME NEW x \in Range(run)
               PROVE  x \in Positions
    OBVIOUS
  <1>1. PICK k \in DOMAIN run : x = run[k]
    BY DEF Range
  <1> QED
    BY <1>1, ElementOfSeq, LenProperties

(* The pieces copied from the query are copies of its words.               *)
LEMMA CopiesAreUnchanged ==
  ASSUME TypeOK, NEW from \in Positions, NEW to \in Positions, from <= to
  PROVE  /\ Copies(from, to) \in Seq(Pieces)
         /\ \A k \in 1 .. Len(Copies(from, to)) : ~Copies(from, to)[k].changed
  <1>0. Len(vecWord) \in Nat
    BY LenProperties DEF TypeOK
  <1> DEFINE n == to - from + 1
             e(k) == Copy(from + k - 1)
  <1>1. n \in Nat
    BY <1>0 DEF Positions
  <1>2. \A k \in 1 .. n : e(k) \in Pieces /\ ~e(k).changed
    BY <1>0 DEF Copy, Piece, Pieces, Positions
  <1>3. Copies(from, to) = [k \in 1 .. n |-> e(k)]
    BY DEF Copies
  <1> HIDE DEF n, e
  <1>4. [k \in 1 .. n |-> e(k)] \in Seq(Pieces)
    BY <1>1, <1>2, IsASeq
  <1>5. Len([k \in 1 .. n |-> e(k)]) = n
    BY <1>1, <1>4, LenProperties
  <1> QED
    BY <1>2, <1>3, <1>4, <1>5

-----------------------------------------------------------------------------
(* Every iteration is a ScanStep.                                          *)

LEMMA PinYinRunType ==
  ASSUME IInv, InPinYin
  PROVE  /\ i \in Positions
         /\ PinYinStart \in Positions /\ PinYinStart <= i
         /\ PinYinRun \in Seq(Positions) /\ PinYinRun # <<>>
  <1>1. i \in Positions
    BY IsPosition DEF InPinYin, Scanning
  <1>2. Len(vecWord) \in Nat /\ i \in Nat
    BY LenProperties DEF IInv, TypeOK
  <1>3. start \in 0 .. Len(vecWord) /\ start < i
    BY DEF IInv, TypeOK, RunIsPaired
  <1>4. PinYinStart \in Positions /\ PinYinStart <= i
    BY <1>1, <1>2, <1>3 DEF PinYinStart, Positions
  <1>5. whole_pinyin \in Seq(Positions) /\ <<i>> \in Seq(Positions)
    BY <1>1 DEF IInv, TypeOK, Positions
  <1> QED
    BY <1>1, <1>4, <1>5 DEF PinYinRun

LEMMA ChineseRunType ==
  ASSUME IInv, InChinese
  PROVE  /\ i \in Positions
         /\ ChineseStart \in Positions /\ ChineseStart <= i
         /\ ChineseRun \in Seq(Positions) /\ ChineseRun # <<>>
  <1>1. i \in Positions
    BY IsPosition DEF InChinese, Scanning
  <1>2. Len(vecWord) \in Nat /\ i \in Nat
    BY LenProperties DEF IInv, TypeOK
  <1>3. /\ start \in 0 .. Len(vecWord) /\ start < i
        /\ start = 0 <=> whole_pinyin = <<>>
    BY DEF IInv, TypeOK, RunIsPaired
  <1>4. ChineseStart \in Positions /\ ChineseStart <= i
    BY <1>1, <1>2, <1>3 DEF ChineseStart, Positions
  <1>5. whole_pinyin \in Seq(Positions)
    BY DEF IInv, TypeOK, Positions
  <1> QED
    BY <1>1, <1>4, <1>5, AppendProperties DEF ChineseRun

(* A word is copied and the loop goes on behind it.                        *)
LEMMA EmitStep ==
  ASSUME IInv, i \in Positions, NEW from \in Positions, from <= i,
         Emit(from, i), Resume(i)
  PROVE  AnswerStep /\ i' \in Nat /\ i' > i
  BY DEF IInv, TypeOK, AnswerStep, Resume

(* A recogniser answers for some words, and the loop goes on behind the    *)
(* last word it consumed.                                                  *)
LEMMA RecStep ==
  ASSUME IInv, i \in Positions,
         NEW of \in SUBSET Positions, NEW differs \in BOOLEAN, NEW w \in Nat,
         ProcessRec(of, differs, w),
         NEW end \in i .. Len(vecWord), Resume(end)
  PROVE  AnswerStep /\ i' \in Nat /\ i' > i
  <1>1. AnswerStep
    BY DEF AnswerStep
  <1>2. i \in Nat /\ Len(vecWord) \in Nat
    BY LenProperties DEF IInv, TypeOK
  <1> QED
    BY <1>1, <1>2 DEF Resume

(* What is consumed to the right are words of the query.                   *)
LEMMA RightWords ==
  ASSUME IInv, i \in Positions, NEW end \in i .. Len(vecWord)
  PROVE  RWord(i, end) \subseteq Positions
  <1>1. i \in Nat /\ i > 0 /\ Len(vecWord) \in Nat
    BY LenProperties DEF IInv, TypeOK, Positions
  <1> QED
    BY <1>1 DEF RWord, Positions

(* The word the loop stands at, when it is at one.                         *)
LEMMA HereIsPosition ==
  ASSUME IInv, i \in Positions
  PROVE  i \in i .. Len(vecWord) /\ i <= i /\ {i} \in SUBSET Positions
  BY LenProperties DEF IInv, TypeOK, Positions

LEMMA WeightsAreNat == Weights \subseteq Nat /\ 90 \in Nat
  BY RectifyAssumption

LEMMA LettersStep ==
  ASSUME IInv, Letters
  PROVE  ScanStep
  <1> USE WeightsAreNat
  <1>1. CASE AlphaLetter
    <2>1. i \in Positions
      BY <1>1, IsPosition DEF AlphaLetter, Scanning
    <2>2. AnswerStep /\ i' \in Nat /\ i' > i
      <3>1. CASE RecSingleChar(i)
        BY <1>1, <2>1, <3>1, RecStep, HereIsPosition DEF AlphaLetter
      <3>2. CASE ~RecSingleChar(i)
        BY <1>1, <2>1, <3>2, EmitStep, HereIsPosition DEF AlphaLetter
      <3> QED
        BY <3>1, <3>2
    <2> QED
      BY <1>1, <2>2 DEF AlphaLetter, ScanStep, Scanning, RunStep
  <1>2. CASE AlphaModel
    <2>1. i \in Positions
      BY <1>2, IsPosition DEF AlphaModel, Scanning
    <2>2. AnswerStep /\ i' \in Nat /\ i' > i
      BY <1>2, <2>1, EmitStep, HereIsPosition DEF AlphaModel
    <2> QED
      BY <1>2, <2>2 DEF AlphaModel, ScanStep, Scanning, RunStep
  <1>3. CASE PinYinHold
    <2>1. InPinYin /\ i' = i + 1
      BY <1>3 DEF PinYinHold, Resume
    <2>2. i \in Nat
      BY DEF IInv, TypeOK
    <2>3. RunStep
      BY <1>3, <2>1, <2>2, PinYinRunType DEF PinYinHold, RunStep, Positions
    <2> QED
      BY <1>3, <2>1, <2>2, <2>3
      DEF PinYinHold, ScanStep, AnswerStep, InPinYin, Scanning
  <1>4. CASE PinYinBridge
    <2>1. InPinYin /\ i' = i + 2 /\ i + 2 \in Positions
      BY <1>4, IsPosition DEF PinYinBridge, Resume, BridgesBlank, IsPinYin, IInv, TypeOK
    <2>2. i \in Nat
      BY DEF IInv, TypeOK
    <2>3. /\ Append(PinYinRun, i + 2) \in Seq(Positions)
          /\ Append(PinYinRun, i + 2) # <<>>
      BY <2>1, PinYinRunType, AppendProperties
    <2>4. RunStep
      BY <1>4, <2>1, <2>2, <2>3, PinYinRunType DEF PinYinBridge, RunStep, Positions
    <2> QED
      BY <1>4, <2>1, <2>2, <2>4
      DEF PinYinBridge, ScanStep, AnswerStep, InPinYin, Scanning
  <1>5. CASE PinYinWhole
    <2>1. InPinYin
      BY <1>5 DEF PinYinWhole, PinYinEnds
    <2>2. PICK end \in i .. Len(vecWord), w \in Weights, differs \in BOOLEAN :
            /\ ProcessRec(Range(PinYinRun) \union RWord(i, end), differs, w)
            /\ Resume(end)
      BY <1>5 DEF PinYinWhole
    <2>3. i \in Positions /\ Range(PinYinRun) \union RWord(i, end) \subseteq Positions
      BY <2>1, PinYinRunType, RunRange, RightWords DEF IInv
    <2>4. AnswerStep /\ i' \in Nat /\ i' > i
      BY <2>2, <2>3, RecStep
    <2> QED
      BY <1>5, <2>4 DEF PinYinWhole, PinYinEnds, InPinYin, Scanning, ScanStep, RunStep
  <1>6. CASE PinYinNgram
    <2>1. InPinYin
      BY <1>6 DEF PinYinNgram, PinYinEnds
    <2>2. i \in Positions /\ Range(PinYinRun) \subseteq Positions
      BY <2>1, PinYinRunType, RunRange DEF IInv
    <2>3. AnswerStep /\ i' \in Nat /\ i' > i
      BY <1>6, <2>2, RecStep, HereIsPosition DEF PinYinNgram
    <2> QED
      BY <1>6, <2>3 DEF PinYinNgram, PinYinEnds, InPinYin, Scanning, ScanStep, RunStep
  <1>7. CASE PinYinEnglish
    <2>1. i \in Positions
      BY <1>7, PinYinRunType DEF PinYinEnglish, PinYinEnds
    <2>2. AnswerStep /\ i' \in Nat /\ i' > i
      BY <1>7, <2>1, RecStep, HereIsPosition DEF PinYinEnglish
    <2> QED
      BY <1>7, <2>2 DEF PinYinEnglish, PinYinEnds, InPinYin, Scanning, ScanStep, RunStep
  <1>8. CASE PinYinNone
    <2>1. i \in Positions /\ PinYinStart \in Positions /\ PinYinStart <= i
      BY <1>8, PinYinRunType DEF PinYinNone, PinYinEnds
    <2>2. AnswerStep /\ i' \in Nat /\ i' > i
      BY <1>8, <2>1, EmitStep DEF PinYinNone
    <2> QED
      BY <1>8, <2>2 DEF PinYinNone, PinYinEnds, InPinYin, Scanning, ScanStep, RunStep
  <1>9. CASE EnglishWord
    <2>1. i \in Positions
      BY <1>9, IsPosition DEF EnglishWord, InEnglish, Scanning
    <2>2. AnswerStep /\ i' \in Nat /\ i' > i
      BY <1>9, <2>1, EmitStep, RecStep, HereIsPosition DEF EnglishWord
    <2> QED
      BY <1>9, <2>2 DEF EnglishWord, InEnglish, Scanning, ScanStep, RunStep
  <1>10. CASE EnglishAsPinYin
    <2>1. i \in Positions
      BY <1>10, IsPosition DEF EnglishAsPinYin, InEnglish, Scanning
    <2>2. PICK end \in i .. Len(vecWord), w \in Weights, differs \in BOOLEAN :
            ProcessRec({i} \union RWord(i, end), differs, w) /\ Resume(end)
      BY <1>10 DEF EnglishAsPinYin
    <2>3. {i} \union RWord(i, end) \subseteq Positions
      BY <2>1, RightWords
    <2>4. AnswerStep /\ i' \in Nat /\ i' > i
      BY <2>1, <2>2, <2>3, RecStep
    <2> QED
      BY <1>10, <2>4 DEF EnglishAsPinYin, InEnglish, Scanning, ScanStep, RunStep
  <1> QED
    BY <1>1, <1>2, <1>3, <1>4, <1>5, <1>6, <1>7, <1>8, <1>9, <1>10 DEF Letters

LEMMA ChineseStep ==
  ASSUME IInv, Chinese
  PROVE  ScanStep
  <1> USE WeightsAreNat
  <1>1. CASE ChineseLong
    <2>1. i \in Positions
      BY <1>1, IsPosition DEF ChineseLong, Scanning
    <2>2. AnswerStep /\ i' \in Nat /\ i' > i
      BY <1>1, <2>1, EmitStep, HereIsPosition DEF ChineseLong
    <2> QED
      BY <1>1, <2>2 DEF ChineseLong, Scanning, ScanStep, RunStep
  <1>2. CASE ChineseDigit
    <2>1. i \in Positions
      BY <1>2, IsPosition DEF ChineseDigit, Scanning
    <2>2. AnswerStep /\ i' \in Nat /\ i' > i
      BY <1>2, <2>1, RecStep, HereIsPosition DEF ChineseDigit
    <2> QED
      BY <1>2, <2>2 DEF ChineseDigit, Scanning, ScanStep, RunStep
  <1>3. CASE ChineseUnread
    <2>1. i \in Positions /\ ChineseStart \in Positions /\ ChineseStart <= i
      BY <1>3, ChineseRunType DEF ChineseUnread
    <2>2. AnswerStep /\ i' \in Nat /\ i' > i
      BY <1>3, <2>1, EmitStep DEF ChineseUnread
    <2> QED
      BY <1>3, <2>2 DEF ChineseUnread, InChinese, Scanning, ScanStep, RunStep
  <1>4. CASE ChineseHold
    <2>1. InChinese /\ i' = i + 1 /\ i + 1 \in Positions
      BY <1>4, IsPosition DEF ChineseHold, JoinsLetters, IsPinYin, Resume
    <2>2. i \in Nat
      BY DEF IInv, TypeOK
    <2>3. /\ Append(ChineseRun, i + 1) \in Seq(Positions)
          /\ Append(ChineseRun, i + 1) # <<>>
      BY <2>1, ChineseRunType, AppendProperties
    <2>4. RunStep
      BY <1>4, <2>1, <2>2, <2>3, ChineseRunType DEF ChineseHold, RunStep, Positions
    <2> QED
      BY <1>4, <2>1, <2>2, <2>4
      DEF ChineseHold, ScanStep, AnswerStep, InChinese, Scanning
  <1>5. CASE ChineseBridge
    <2>1. InChinese /\ i' = i + 1 /\ i + 2 \in Positions
      BY <1>5, IsPosition DEF ChineseBridge, JoinsOverBlank, IsPinYin, Resume
    <2>2. i \in Nat
      BY DEF IInv, TypeOK
    <2>3. /\ Append(ChineseRun, i + 2) \in Seq(Positions)
          /\ Append(ChineseRun, i + 2) # <<>>
      BY <2>1, ChineseRunType, AppendProperties
    <2>4. RunStep
      BY <1>5, <2>1, <2>2, <2>3, ChineseRunType DEF ChineseBridge, RunStep, Positions
    <2> QED
      BY <1>5, <2>1, <2>2, <2>4
      DEF ChineseBridge, ScanStep, AnswerStep, InChinese, Scanning
  <1>6. CASE ChineseAlone
    <2>1. InChinese
      BY <1>6 DEF ChineseAlone, ChineseEnds
    <2>2. AnswerStep /\ i' \in Nat /\ i' > i
      BY <1>6, <2>1, ChineseRunType, EmitStep, HereIsPosition DEF ChineseAlone
    <2> QED
      BY <1>6, <2>1, <2>2 DEF ChineseAlone, InChinese, Scanning, ScanStep, RunStep
  <1>7. CASE ChineseWhole
    <2>1. InChinese
      BY <1>7 DEF ChineseWhole, ChineseEnds
    <2>2. PICK end \in i .. Len(vecWord), w \in Weights, differs \in BOOLEAN :
            /\ ProcessRec(Range(ChineseRun) \union RWord(i, end), differs, w)
            /\ Resume(end)
      BY <1>7 DEF ChineseWhole
    <2>3. i \in Positions /\ Range(ChineseRun) \union RWord(i, end) \subseteq Positions
      BY <2>1, ChineseRunType, RunRange, RightWords DEF IInv
    <2>4. AnswerStep /\ i' \in Nat /\ i' > i
      BY <2>2, <2>3, RecStep
    <2> QED
      BY <1>7, <2>1, <2>4 DEF ChineseWhole, InChinese, Scanning, ScanStep, RunStep
  <1>8. CASE ChineseNgram
    <2>1. InChinese
      BY <1>8 DEF ChineseNgram, ChineseEnds
    <2>2. i \in Positions /\ Range(ChineseRun) \subseteq Positions
      BY <2>1, ChineseRunType, RunRange DEF IInv
    <2>3. AnswerStep /\ i' \in Nat /\ i' > i
      BY <1>8, <2>2, RecStep, HereIsPosition DEF ChineseNgram
    <2> QED
      BY <1>8, <2>1, <2>3 DEF ChineseNgram, InChinese, Scanning, ScanStep, RunStep
  <1>9. CASE ChineseOnly
    <2>1. InChinese
      BY <1>9 DEF ChineseOnly, ChineseEnds
    <2>2. AnswerStep /\ i' \in Nat /\ i' > i
      BY <1>9, <2>1, ChineseRunType, RecStep, HereIsPosition DEF ChineseOnly
    <2> QED
      BY <1>9, <2>1, <2>2 DEF ChineseOnly, InChinese, Scanning, ScanStep, RunStep
  <1>10. CASE ChineseNone
    <2>1. InChinese
      BY <1>10 DEF ChineseNone, ChineseEnds
    <2>2. AnswerStep /\ i' \in Nat /\ i' > i
      BY <1>10, <2>1, ChineseRunType, EmitStep DEF ChineseNone
    <2> QED
      BY <1>10, <2>1, <2>2 DEF ChineseNone, InChinese, Scanning, ScanStep, RunStep
  <1> QED
    BY <1>1, <1>2, <1>3, <1>4, <1>5, <1>6, <1>7, <1>8, <1>9, <1>10 DEF Chinese

LEMMA IterationIsScanStep ==
  ASSUME IInv, Scan
  PROVE  ScanStep
  <1> USE WeightsAreNat
  <1>1. CASE WordWhite
    <2>1. i \in Positions
      BY <1>1, IsPosition DEF WordWhite, LooksUp
    <2>2. AnswerStep /\ i' \in Nat /\ i' > i
      BY <1>1, <2>1, EmitStep, HereIsPosition DEF WordWhite
    <2> QED
      BY <1>1, <2>2 DEF WordWhite, ScanStep, RunStep
  <1>2. CASE WordFix
    <2>1. i \in Positions
      BY <1>2, IsPosition DEF WordFix, LooksUp
    <2>2. AnswerStep /\ i' \in Nat /\ i' > i
      BY <1>2, <2>1, RecStep, HereIsPosition DEF WordFix
    <2> QED
      BY <1>2, <2>2 DEF WordFix, ScanStep, RunStep
  <1>3. CASE OtherWord
    <2>1. i \in Positions
      BY <1>3, IsPosition DEF OtherWord, IsPunc
    <2>2. AnswerStep /\ i' \in Nat /\ i' > i
      BY <1>3, <2>1, EmitStep, HereIsPosition DEF OtherWord
    <2> QED
      BY <1>3, <2>2 DEF OtherWord, ScanStep, RunStep
  <1> QED
    BY <1>1, <1>2, <1>3, LettersStep, ChineseStep DEF Scan

-----------------------------------------------------------------------------
(* The inductive invariant.                                                *)

LEMMA PieceType ==
  ASSUME NEW of \in SUBSET Positions, NEW differs \in BOOLEAN, NEW w \in Nat
  PROVE  /\ Piece(of, differs, w) \in Pieces
         /\ Piece(of, differs, w).changed = differs
         /\ differs => Piece(of, differs, w).weight = w
  BY DEF Piece, Pieces

LEMMA AnswerStepType ==
  ASSUME TypeOK, AnswerStep
  PROVE  str' \in Seq(Pieces) /\ confidence' \in Nat /\ ischange' \in BOOLEAN
  <1>0. str \in Seq(Pieces) /\ confidence \in Nat /\ ischange \in BOOLEAN
    BY DEF TypeOK, Pieces, Positions
  <1>1. CASE Hold
    BY <1>0, <1>1 DEF Hold
  <1>2. ASSUME NEW from \in Positions, NEW to \in Positions,
               from <= to, Emit(from, to)
        PROVE  str' \in Seq(Pieces) /\ confidence' \in Nat /\ ischange' \in BOOLEAN
    BY <1>0, <1>2, CopiesAreUnchanged, ConcatProperties DEF Emit
  <1>3. ASSUME NEW of \in SUBSET Positions, NEW differs \in BOOLEAN, NEW w \in Nat,
               ProcessRec(of, differs, w)
        PROVE  str' \in Seq(Pieces) /\ confidence' \in Nat /\ ischange' \in BOOLEAN
    <2>1. str' \in Seq(Pieces)
      BY <1>0, <1>3, PieceType, AppendProperties DEF ProcessRec, ProcessRecInto
    <2> QED
      BY <1>0, <1>3, <2>1 DEF ProcessRec, ProcessRecInto, Weakest
  <1> QED
    BY <1>1, <1>2, <1>3 DEF AnswerStep

LEMMA QueryWords ==
  ASSUME query \in Queries
  PROVE  query.words \in Seq(Words) /\ query.asked \in BOOLEAN
  <1>1. PICK n \in Nat : query.words \in [1 .. n -> Words]
    BY RectifyAssumption DEF Queries
  <1> QED
    BY <1>1, SeqDef DEF Queries

(* The corrections a call returns: none or one.                            *)
LEMMA CorrectionsType ==
  /\ <<>> \in Seq(Nat)
  /\ \A w \in Nat : <<w>> \in Seq(Nat)
  <1>1. <<>> \in Seq(Nat)
    BY EmptySeq
  <1>2. ASSUME NEW w \in Nat PROVE <<w>> \in Seq(Nat)
    <2>1. Append(<<>>, w) \in Seq(Nat) /\ Append(<<>>, w) = <<w>>
      BY <1>1, AppendProperties
    <2> QED
      BY <2>1
  <1> QED
    BY <1>1, <1>2

LEMMA InitEstablishesIInv == Init => IInv
  <1> SUFFICES ASSUME Init PROVE IInv
    OBVIOUS
  <1>1. TypeOK
    <2>1. Len(vecWord) = 0 /\ vecWord \in Seq(Words)
      BY EmptySeq DEF Init
    <2>2. whole_pinyin \in Seq(1 .. Len(vecWord))
      BY EmptySeq DEF Init
    <2>3. str \in Seq([of : SUBSET (1 .. Len(vecWord)), changed : BOOLEAN, weight : Nat])
      BY EmptySeq DEF Init
    <2>4. rec \in Seq(Nat)
      BY EmptySeq DEF Init
    <2>5. i \in Nat \ {0} /\ start \in 0 .. Len(vecWord) /\ confidence \in Nat
      BY <2>1 DEF Init
    <2>6. /\ query \in Queries /\ pc \in {"start", "scan", "done"}
          /\ ischange \in BOOLEAN /\ ret \in BOOLEAN
      BY Zenon DEF Init
    <2> QED
      BY <2>1, <2>2, <2>3, <2>4, <2>5, <2>6 DEF TypeOK
  <1>2. RunIsPaired /\ Fresh
    BY DEF Init, RunIsPaired, Fresh
  <1> QED
    BY <1>1, <1>2 DEF IInv

LEMMA ScanStepPreservesIInv ==
  ASSUME IInv, ScanStep
  PROVE  IInv'
  <1>1. /\ pc = "scan" /\ pc' = pc /\ vecWord' = vecWord /\ query' = query
        /\ rec' = rec /\ ret' = ret /\ i' \in Nat /\ i' > i
    BY DEF ScanStep, ScanFrame
  <1>2. /\ i \in Nat \ {0} /\ Len(vecWord) \in Nat
        /\ start \in 0 .. Len(vecWord) /\ whole_pinyin \in Seq(Positions)
        /\ start < i /\ (start = 0 <=> whole_pinyin = <<>>)
    BY LenProperties DEF IInv, TypeOK, RunIsPaired, Positions
  <1>3. /\ start' \in 0 .. Len(vecWord) /\ whole_pinyin' \in Seq(Positions)
        /\ start' < i' /\ (start' = 0 <=> whole_pinyin' = <<>>)
    <2>1. CASE KeepRun
      BY <1>1, <1>2, <2>1 DEF KeepRun
    <2>2. CASE ClearRun
      BY <1>1, <1>2, <2>2, EmptySeq DEF ClearRun
    <2>3. CASE /\ start' \in Positions /\ start' < i'
               /\ whole_pinyin' \in Seq(Positions) /\ whole_pinyin' # <<>>
      BY <1>1, <1>2, <2>3 DEF Positions
    <2> QED
      BY <2>1, <2>2, <2>3 DEF ScanStep, RunStep
  <1>4. str' \in Seq(Pieces) /\ confidence' \in Nat /\ ischange' \in BOOLEAN
    BY AnswerStepType DEF IInv, ScanStep
  <1>5. TypeOK'
    BY <1>1, <1>2, <1>3, <1>4 DEF IInv, TypeOK, Pieces, Positions
  <1>6. RunIsPaired' /\ Fresh'
    BY <1>1, <1>3 DEF RunIsPaired, Fresh
  <1> QED
    BY <1>5, <1>6 DEF IInv

LEMMA BeforePreservesIInv ==
  ASSUME IInv, Before
  PROVE  IInv'
  <1> USE DEF IInv
  <1>1. ASSUME NEW result \in BOOLEAN, NEW corrections \in Seq(Nat),
               Return(result, corrections), LoopFrame, NoAnswer
        PROVE  IInv'
    BY <1>1 DEF Return, LoopFrame, NoAnswer, TypeOK, RunIsPaired, Fresh
  <1>2. CASE RejectLong
    BY <1>1, <1>2, EmptySeq DEF RejectLong
  <1>3. CASE AnswerWhite
    BY <1>1, <1>3, EmptySeq DEF AnswerWhite
  <1>4. CASE AnswerFix
    <2>1. PICK w \in Weights : Return(TRUE, <<w>>)
      BY <1>4 DEF AnswerFix
    <2> QED
      BY <1>1, <1>4, <2>1, WeightsAreNat, CorrectionsType DEF AnswerFix
  <1>5. CASE RejectManyWords
    BY <1>1, <1>5, EmptySeq DEF RejectManyWords
  <1>6. CASE StartScan
    <2>1. vecWord' \in Seq(Words) /\ ischange' \in BOOLEAN
      <3>1. query.words \in Seq(Words) /\ query.asked \in BOOLEAN
        BY QueryWords DEF TypeOK
      <3>2. ASSUME NEW w \in Words PROVE <<w>> \in Seq(Words)
        BY EmptySeq, AppendProperties, Append(<<>>, w) = <<w>>
      <3> QED
        BY <1>6, <3>1, <3>2 DEF StartScan, Joined
    <2>2. /\ pc = "start" /\ pc' = "scan"
          /\ UNCHANGED <<query, i, start, whole_pinyin, str, confidence, rec, ret>>
      BY <1>6 DEF StartScan, Unlisted
    <2>3. i = 1 /\ start = 0 /\ whole_pinyin = <<>> /\ str = <<>>
      BY <2>2 DEF Fresh
    <2>4. Len(vecWord') \in Nat
      BY <2>1, LenProperties
    <2>5. TypeOK'
      BY <2>1, <2>2, <2>3, <2>4, EmptySeq DEF TypeOK
    <2> QED
      BY <2>2, <2>3, <2>5 DEF RunIsPaired, Fresh
  <1> QED
    BY <1>2, <1>3, <1>4, <1>5, <1>6 DEF Before

LEMMA AfterPreservesIInv ==
  ASSUME IInv, After
  PROVE  IInv'
  <1> USE DEF IInv
  <1>1. ASSUME NEW result \in BOOLEAN, NEW corrections \in Seq(Nat),
               Return(result, corrections), LoopFrame,
               str' \in Seq(Pieces), confidence' \in Nat, ischange' \in BOOLEAN
        PROVE  IInv'
    BY <1>1 DEF Return, LoopFrame, TypeOK, RunIsPaired, Fresh, Pieces, Positions
  <1>2. str \in Seq(Pieces) /\ confidence \in Nat /\ ischange \in BOOLEAN
    BY DEF TypeOK, Pieces, Positions
  <1>3. CASE EndFix
    <2>1. PICK corrections \in Seq(Nat) : Return(TRUE, corrections)
      BY <1>3, WeightsAreNat, CorrectionsType DEF EndFix
    <2> QED
      BY <1>1, <1>2, <1>3, <2>1 DEF EndFix, NoAnswer
  <1>4. CASE EndNear
    <2>1. PICK w \in Weights, differs \in BOOLEAN : ProcessRecInto(<<>>, {1}, differs, w)
      BY <1>4 DEF EndNear
    <2>2. {1} \in SUBSET Positions
      BY <1>4, IsPosition DEF EndNear
    <2>3. str' \in Seq(Pieces)
      BY <2>1, <2>2, WeightsAreNat, PieceType, EmptySeq, AppendProperties
      DEF ProcessRecInto
    <2>4. confidence' \in Nat /\ ischange' \in BOOLEAN
      BY <1>2, <2>1, WeightsAreNat DEF ProcessRecInto, Weakest
    <2>5. PICK corrections \in Seq(Nat) : Return(TRUE, corrections)
      BY <1>4, <2>4, CorrectionsType DEF EndNear, Report
    <2> QED
      BY <1>1, <1>4, <2>3, <2>4, <2>5 DEF EndNear
  <1>5. CASE End
    <2>1. PICK corrections \in Seq(Nat) : Return(TRUE, corrections)
      BY <1>2, <1>5, CorrectionsType DEF End, Report
    <2> QED
      BY <1>1, <1>2, <1>5, <2>1 DEF End, NoAnswer
  <1> QED
    BY <1>3, <1>4, <1>5 DEF After

LEMMA StutterPreservesIInv ==
  ASSUME IInv, UNCHANGED vars
  PROVE  IInv'
  BY DEF IInv, TypeOK, RunIsPaired, Fresh, vars

LEMMA NextPreservesIInv ==
  ASSUME IInv, [Next]_vars
  PROVE  IInv'
  BY BeforePreservesIInv, IterationIsScanStep, ScanStepPreservesIInv,
     AfterPreservesIInv, StutterPreservesIInv DEF Next

-----------------------------------------------------------------------------
(***************************************************************************)
(* The locals of rectify() keep their types: in particular every index     *)
(* held in the pending run or used for a copy is a word of the query, for  *)
(* every dictionary and every query.                                       *)
(***************************************************************************)
THEOREM TypeCorrect == Spec => []TypeOK
  <1>1. IInv => TypeOK
    BY DEF IInv
  <1> QED
    BY <1>1, InitEstablishesIInv, NextPreservesIInv, PTL DEF Spec

(***************************************************************************)
(* start and whole_pinyin always describe the same run, and it begins      *)
(* before the cursor: the copies of lines 1292 and 1378 stay in vecWord.   *)
(***************************************************************************)
THEOREM RunPaired == Spec => []RunIsPaired
  <1>1. IInv => RunIsPaired
    BY DEF IInv
  <1> QED
    BY <1>1, InitEstablishesIInv, NextPreservesIInv, PTL DEF Spec

(***************************************************************************)
(* Every iteration of the for loop moves its index on, although several    *)
(* branches assign it.                                                     *)
(***************************************************************************)
THEOREM LoopAdvances == Spec => CursorAdvances
  <1>1. ASSUME IInv, [Next]_vars
        PROVE  [pc = "scan" /\ pc' = "scan" => i' > i]_vars
    <2>1. CASE Before
      BY <2>1 DEF Before, RejectLong, AnswerWhite, AnswerFix, RejectManyWords,
                  StartScan, Unlisted
    <2>2. CASE Scan
      BY <1>1, <2>2, IterationIsScanStep DEF ScanStep
    <2>3. CASE After
      BY <2>3 DEF After, EndFix, EndNear, End, Return, Report
    <2>4. CASE UNCHANGED vars
      BY <2>4
    <2> QED
      BY <1>1, <2>1, <2>2, <2>3, <2>4 DEF Next
  <1> QED
    BY <1>1, InitEstablishesIInv, NextPreservesIInv, PTL DEF Spec, CursorAdvances

-----------------------------------------------------------------------------
(* The changes in the answer.                                              *)

LEMMA ChangesAreIndices ==
  ASSUME TypeOK
  PROVE  /\ str \in Seq(Pieces) /\ Len(str) \in Nat
         /\ Changes = {p \in 1 .. Len(str) : str[p].changed}
  <1>1. str \in Seq(Pieces)
    BY DEF TypeOK, Pieces, Positions
  <1> QED
    BY <1>1, LenProperties DEF Changes

(* Copying words to the answer changes nothing.                            *)
LEMMA EmitChanges ==
  ASSUME TypeOK, NEW from \in Positions, NEW to \in Positions,
         from <= to, Emit(from, to)
  PROVE  /\ Changes' = Changes
         /\ \A p \in Changes : str'[p] = str[p]
  <1> DEFINE copies == Copies(from, to)
  <1>1. /\ str \in Seq(Pieces) /\ Len(str) \in Nat
        /\ Changes = {p \in 1 .. Len(str) : str[p].changed}
    BY ChangesAreIndices
  <1>2. copies \in Seq(Pieces) /\ \A k \in 1 .. Len(copies) : ~copies[k].changed
    BY CopiesAreUnchanged
  <1>3. str' = str \o copies
    BY DEF Emit
  <1> HIDE DEF copies
  <1>4. Len(copies) \in Nat
    BY <1>2, LenProperties
  <1>5. /\ str' \in Seq(Pieces) /\ Len(str') = Len(str) + Len(copies)
        /\ \A p \in 1 .. Len(str) : str'[p] = str[p]
        /\ \A p \in Len(str) + 1 .. Len(str') : str'[p] = copies[p - Len(str)]
    BY <1>1, <1>2, <1>3, <1>4, ConcatProperties
  <1>6. \A p \in Len(str) + 1 .. Len(str') : ~str'[p].changed
    <2> TAKE p \in Len(str) + 1 .. Len(str')
    <2>1. p - Len(str) \in 1 .. Len(copies)
      BY <1>1, <1>4, <1>5
    <2> QED
      BY <1>2, <1>5, <2>1
  <1>7. Changes' = {p \in 1 .. Len(str') : str'[p].changed}
    BY <1>5, LenProperties DEF Changes
  <1> QED
    BY <1>1, <1>4, <1>5, <1>6, <1>7

(* A recogniser adds one piece, a change when it differs.                  *)
LEMMA RecChanges ==
  ASSUME TypeOK, NEW of \in SUBSET Positions, NEW differs \in BOOLEAN, NEW w \in Nat,
         ProcessRec(of, differs, w)
  PROVE  /\ Changes' = Changes \union (IF differs THEN {Len(str) + 1} ELSE {})
         /\ \A p \in Changes : str'[p] = str[p]
         /\ differs => str'[Len(str) + 1].weight = w
  <1>1. /\ str \in Seq(Pieces) /\ Len(str) \in Nat
        /\ Changes = {p \in 1 .. Len(str) : str[p].changed}
    BY ChangesAreIndices
  <1> DEFINE piece == Piece(of, differs, w)
  <1>2. /\ piece \in Pieces /\ piece.changed = differs
        /\ differs => piece.weight = w
    BY PieceType
  <1>3. str' = Append(str, piece)
    BY DEF ProcessRec, ProcessRecInto
  <1> HIDE DEF piece
  <1>4. /\ str' \in Seq(Pieces) /\ Len(str') = Len(str) + 1
        /\ \A p \in 1 .. Len(str) : str'[p] = str[p]
        /\ str'[Len(str) + 1] = piece
    BY <1>1, <1>2, <1>3, AppendProperties
  <1>5. Changes' = {p \in 1 .. Len(str) + 1 : str'[p].changed}
    BY <1>4, LenProperties DEF Changes
  <1> QED
    BY <1>1, <1>2, <1>4, <1>5

LEMMA ScanStepPreservesConfidence ==
  ASSUME IInv, ConfidenceIsWeakest, ScanStep
  PROVE  ConfidenceIsWeakest'
  <1>1. pc = "scan" /\ pc' = "scan" /\ query' = query /\ vecWord' = vecWord
    BY DEF ScanStep, ScanFrame
  <1>2. /\ confidence <= 100
        /\ \A p \in Changes : confidence <= str[p].weight
        /\ confidence = 100 \/ \E p \in Changes : confidence = str[p].weight
        /\ ischange <=> (query.asked \/ vecWord # query.words \/ Changes # {})
    BY <1>1 DEF ConfidenceIsWeakest
  <1>3. /\ TypeOK /\ confidence \in Nat /\ ischange \in BOOLEAN /\ Len(str) \in Nat
        /\ \A p \in Changes : str[p].weight \in Nat
    <2>1. str \in Seq(Pieces) /\ Changes = {p \in 1 .. Len(str) : str[p].changed}
      BY ChangesAreIndices DEF IInv
    <2>2. \A p \in 1 .. Len(str) : str[p].weight \in Nat
      <3>1. ASSUME NEW p \in 1 .. Len(str) PROVE str[p] \in Pieces
        BY <2>1, ElementOfSeq
      <3> QED
        BY <3>1 DEF Pieces
    <2>3. Len(str) \in Nat
      BY <2>1, LenProperties
    <2>4. TypeOK /\ confidence \in Nat /\ ischange \in BOOLEAN
      BY Zenon DEF IInv, TypeOK
    <2> QED
      BY <2>1, <2>2, <2>3, <2>4
  <1>4. CASE Hold
    BY <1>1, <1>2, <1>4 DEF Hold, ConfidenceIsWeakest, Changes
  <1>5. ASSUME NEW from \in Positions, NEW to \in Positions,
               from <= to, Emit(from, to)
        PROVE  ConfidenceIsWeakest'
    <2>1. Changes' = Changes /\ \A p \in Changes : str'[p] = str[p]
      BY <1>3, <1>5, EmitChanges
    <2>2. confidence' = confidence /\ ischange' = ischange
      BY <1>5 DEF Emit
    <2> QED
      BY <1>1, <1>2, <2>1, <2>2 DEF ConfidenceIsWeakest
  <1>6. ASSUME NEW of \in SUBSET Positions, NEW differs \in BOOLEAN, NEW w \in Nat,
               ProcessRec(of, differs, w)
        PROVE  ConfidenceIsWeakest'
    <2>1. /\ Changes' = Changes \union (IF differs THEN {Len(str) + 1} ELSE {})
          /\ \A p \in Changes : str'[p] = str[p]
          /\ differs => str'[Len(str) + 1].weight = w
      BY <1>3, <1>6, RecChanges
    <2>2. /\ ischange' = (ischange \/ differs)
          /\ confidence' = IF differs THEN Weakest(confidence, w) ELSE confidence
      BY <1>6 DEF ProcessRec, ProcessRecInto
    <2>3. CASE differs
      <3>1. /\ confidence' \in Nat /\ confidence' <= confidence /\ confidence' <= w
            /\ confidence' = confidence \/ confidence' = w
        BY <1>3, <2>2, <2>3 DEF Weakest
      <3>2. /\ Changes' = Changes \union {Len(str) + 1}
            /\ str'[Len(str) + 1].weight = w /\ ischange'
        BY <2>1, <2>2, <2>3
      <3>3. \A p \in Changes' : confidence' <= str'[p].weight
        BY <1>2, <1>3, <2>1, <3>1, <3>2
      <3>4. confidence' = 100 \/ \E p \in Changes' : confidence' = str'[p].weight
        BY <1>2, <2>1, <3>1, <3>2
      <3> QED
        BY <1>1, <1>2, <1>3, <3>1, <3>2, <3>3, <3>4 DEF ConfidenceIsWeakest
    <2>4. CASE ~differs
      <3>1. Changes' = Changes /\ confidence' = confidence /\ (ischange' <=> ischange)
        BY <2>1, <2>2, <2>4
      <3> QED
        BY <1>1, <1>2, <2>1, <3>1 DEF ConfidenceIsWeakest
    <2> QED
      BY <2>3, <2>4
  <1> QED
    BY <1>4, <1>5, <1>6 DEF ScanStep, AnswerStep

LEMMA StartScanSetsConfidence ==
  ASSUME IInv, StartScan
  PROVE  ConfidenceIsWeakest' /\ Changes' = {} /\ whole_pinyin' = <<>>
  <1>1. str' = <<>> /\ confidence' = 100 /\ query' = query /\ whole_pinyin' = <<>>
    BY DEF StartScan, Unlisted, IInv, Fresh
  <1>2. Changes' = {}
    BY <1>1, EmptySeq DEF Changes
  <1>3. query.words \in Seq(Words) /\ query.asked \in BOOLEAN
    BY QueryWords DEF IInv, TypeOK
  <1>4. ischange' <=> (query.asked \/ vecWord' # query.words)
    <2>1. CASE vecWord' = query.words /\ ischange' = query.asked
      BY <1>3, <2>1
    <2>2. CASE /\ StrayLetter(query.words) /\ ischange' = TRUE
               /\ \E w \in Joined(query.words) : vecWord' = <<w>>
      <3>1. Len(query.words) = 3 /\ Len(vecWord') = 1
        BY <2>2 DEF StrayLetter
      <3> QED
        BY <2>2, <3>1
    <2> QED
      BY <2>1, <2>2 DEF StartScan
  <1> QED
    BY <1>1, <1>2, <1>4 DEF ConfidenceIsWeakest

(***************************************************************************)
(* The confidence that rectify() reports is never higher than that of the  *)
(* weakest change made, and ischange tells exactly whether there is one.   *)
(***************************************************************************)
THEOREM WeakestReported == Spec => []ConfidenceIsWeakest
  <1> DEFINE CInv == IInv /\ ConfidenceIsWeakest
  <1>1. Init => CInv
    BY InitEstablishesIInv DEF Init, ConfidenceIsWeakest
  <1>2. CInv /\ [Next]_vars => CInv'
    <2> SUFFICES ASSUME CInv, [Next]_vars PROVE CInv'
      OBVIOUS
    <2>1. IInv'
      BY NextPreservesIInv
    <2>2. CASE Scan
      BY <2>1, <2>2, IterationIsScanStep, ScanStepPreservesConfidence
    <2>3. CASE StartScan
      BY <2>1, <2>3, StartScanSetsConfidence
    <2>4. CASE RejectLong \/ AnswerWhite \/ AnswerFix \/ RejectManyWords \/ After
      <3>1. pc' = "done"
        BY <2>4 DEF RejectLong, AnswerWhite, AnswerFix, RejectManyWords, After,
                    EndFix, EndNear, End, Return, Report
      <3> QED
        BY <2>1, <3>1 DEF ConfidenceIsWeakest
    <2>5. CASE UNCHANGED vars
      BY <2>1, <2>5 DEF vars, ConfidenceIsWeakest, Changes
    <2> QED
      BY <2>2, <2>3, <2>4, <2>5 DEF Next, Before
  <1> QED
    BY <1>1, <1>2, PTL DEF Spec

-----------------------------------------------------------------------------
(* In a query of whitelisted words no run ever begins.                     *)
NoRunTrusted ==
  pc = "scan" /\ Trusted => whole_pinyin = <<>> /\ Changes = {}

(* Every other branch of the loop asks ifInCorrectDict first.              *)
LEMMA TrustedIteration ==
  ASSUME IInv, NoRunTrusted, Scan, Trusted
  PROVE  Emit(i, i) /\ KeepRun /\ i \in Positions
  <1>1. whole_pinyin = <<>>
    BY IterationIsScanStep DEF NoRunTrusted, ScanStep
  <1>2. ASSUME Is(i, "ALPHA") \/ Is(i, "CHWORD")
        PROVE  vecWord[i].white /\ LooksUp
    BY <1>1, <1>2, IsPosition DEF Trusted, LooksUp, Positions
  <1>3. ~Scanning("ALPHA") /\ ~Scanning("CHWORD") /\ ~WordFix
    BY <1>2 DEF Scanning, WordFix, LooksUp
  <1>4. ~Letters
    BY <1>3 DEF Letters, AlphaLetter, AlphaModel, PinYinHold, PinYinBridge,
      PinYinWhole, PinYinNgram, PinYinEnglish, PinYinNone, PinYinEnds,
      EnglishWord, EnglishAsPinYin, InPinYin, InEnglish
  <1>5. ~Chinese
    BY <1>3 DEF Chinese, ChineseLong, ChineseDigit, ChineseUnread, ChineseHold,
      ChineseBridge, ChineseAlone, ChineseWhole, ChineseNgram, ChineseOnly,
      ChineseNone, ChineseEnds, InChinese
  <1>6. WordWhite \/ OtherWord
    BY <1>3, <1>4, <1>5 DEF Scan
  <1> QED
    BY <1>6, IsPosition DEF WordWhite, OtherWord, LooksUp, IsPunc

(***************************************************************************)
(* A query made of whitelisted words comes out of the loop unchanged,      *)
(* whatever its words are and however many there are of them.              *)
(***************************************************************************)
THEOREM WhitelistHolds == Spec => []TrustedWordsUntouched
  <1> DEFINE TInv == IInv /\ NoRunTrusted
  <1>1. Init => TInv
    BY InitEstablishesIInv DEF Init, NoRunTrusted
  <1>2. TInv /\ [Next]_vars => TInv'
    <2> SUFFICES ASSUME TInv, [Next]_vars PROVE TInv'
      OBVIOUS
    <2>1. IInv'
      BY NextPreservesIInv
    <2>2. CASE Scan
      <3>1. pc = "scan" /\ vecWord' = vecWord
        BY <2>2, IterationIsScanStep DEF ScanStep, ScanFrame
      <3>2. SUFFICES ASSUME Trusted PROVE whole_pinyin' = <<>> /\ Changes' = {}
        BY <2>1, <3>1 DEF NoRunTrusted, Trusted, Is
      <3>3. Emit(i, i) /\ KeepRun /\ i \in Positions
        BY <2>2, <3>2, TrustedIteration
      <3>4. Changes' = Changes
        BY <3>3, EmitChanges, HereIsPosition DEF IInv
      <3> QED
        BY <3>1, <3>2, <3>3, <3>4 DEF NoRunTrusted, KeepRun
    <2>3. CASE StartScan
      BY <2>1, <2>3, StartScanSetsConfidence DEF NoRunTrusted
    <2>4. CASE RejectLong \/ AnswerWhite \/ AnswerFix \/ RejectManyWords \/ After
      <3>1. pc' = "done"
        BY <2>4 DEF RejectLong, AnswerWhite, AnswerFix, RejectManyWords, After,
                    EndFix, EndNear, End, Return, Report
      <3> QED
        BY <2>1, <3>1 DEF NoRunTrusted
    <2>5. CASE UNCHANGED vars
      BY <2>1, <2>5 DEF vars, NoRunTrusted, Trusted, Is, Changes
    <2> QED
      BY <2>2, <2>3, <2>4, <2>5 DEF Next, Before
  <1>3. TInv => TrustedWordsUntouched
    BY DEF NoRunTrusted, TrustedWordsUntouched
  <1> QED
    BY <1>1, <1>2, <1>3, PTL DEF Spec

-----------------------------------------------------------------------------
(***************************************************************************)
(* What becomes of every word.  While a run is pending the loop stands at  *)
(* a word that will resolve it (RunWaits), so that an iteration does one   *)
(* of three things: it writes the run and the words it consumes            *)
(* (WriteStep), takes the words it passes into the run (HoldStep), or      *)
(* copies the blank that a run behind a Chinese word left (PassStep).      *)
(***************************************************************************)
RunHead == IF start = 0 THEN i ELSE start

(* A run from s on waits at k: at letters it already holds, at Chinese     *)
(* behind letters, or at the blank before letters it already holds.        *)
WaitsAt(run, s, k) ==
  \/ /\ IsPinYin(k) /\ ~Is(k - 1, "NUMBER")
     /\ k \in Range(run) /\ Range(run) \subseteq s .. k
  \/ /\ Is(k, "CHWORD") /\ vecWord[k].size < 16 /\ Is(k - 1, "ALPHA")
     /\ Range(run) \subseteq s .. k
  \/ /\ IsBlank(k) /\ Is(k - 1, "CHWORD") /\ IsPinYin(k + 1)
     /\ k + 1 \in Range(run) /\ Range(run) \subseteq s .. k + 1

RunWaits == whole_pinyin # <<>> => WaitsAt(whole_pinyin, start, i)

WriteStep ==
  \E e \in i .. Len(vecWord), W \in SUBSET Positions :
    /\ i' = e + 1 /\ start' = 0 /\ whole_pinyin' = <<>>
    /\ Range(whole_pinyin) \subseteq W /\ W \subseteq RunHead .. e
    /\ \A k \in i .. e : IsBlank(k) \/ k \in W
    /\ \/ \E differs \in BOOLEAN, w \in Nat : ProcessRec(W, differs, w)
       \/ \E from \in Positions : from <= e /\ W = from .. e /\ Emit(from, e)
HoldStep ==
  /\ Hold /\ start' = RunHead
  /\ Range(whole_pinyin) \subseteq Range(whole_pinyin')
  /\ \A k \in i .. i' - 1 : IsBlank(k) \/ k \in Range(whole_pinyin')
  /\ WaitsAt(whole_pinyin', start', i')
PassStep ==
  /\ ~NoChineseBridge /\ IsBlank(i) /\ KeepRun /\ Emit(i, i) /\ i' = i + 1
  /\ WaitsAt(whole_pinyin', start', i')

(* The words of a run that takes one more.                                 *)
LEMMA RangeOfRun ==
  ASSUME NEW run \in Seq(Positions), NEW x \in Positions
  PROVE  Range(Append(run, x)) = Range(run) \union {x}
  <1>2. /\ Append(run, x) \in Seq(Positions) /\ Len(Append(run, x)) = Len(run) + 1
        /\ \A k \in 1 .. Len(run) : Append(run, x)[k] = run[k]
        /\ Append(run, x)[Len(run) + 1] = x
    BY AppendProperties
  <1>3. Len(run) \in Nat /\ DOMAIN run = 1 .. Len(run)
    BY LenProperties
  <1>4. DOMAIN Append(run, x) = 1 .. Len(run) + 1
    BY <1>2, LenProperties
  <1>5. Range(Append(run, x)) = {Append(run, x)[k] : k \in 1 .. Len(run) + 1}
    BY <1>4 DEF Range
  <1>6. Range(run) = {run[k] : k \in 1 .. Len(run)}
    BY <1>3 DEF Range
  <1>7. 1 .. Len(run) + 1 = (1 .. Len(run)) \union {Len(run) + 1}
    BY <1>3
  <1> QED
    BY <1>2, <1>5, <1>6, <1>7

(* A blank is neither letters, a number nor Chinese.                       *)
LEMMA BlankIsPunc ==
  ASSUME TypeOK, NEW k, IsBlank(k)
  PROVE  ~Is(k, "ALPHA") /\ ~Is(k, "NUMBER") /\ ~Is(k, "CHWORD")
  <1>1. k \in Positions /\ vecWord[k] \in Words
    BY WordsAreWords DEF IsBlank, Positions
  <1> QED
    BY <1>1, RectifyAssumption DEF IsBlank, Is

(* What is known of the run at letters, at Chinese and at the rest.        *)
LEMMA LettersWait ==
  ASSUME TypeOK, RunWaits, whole_pinyin # <<>>, Is(i, "ALPHA")
  PROVE  /\ vecWord[i].size > 1 /\ ~Is(i - 1, "NUMBER")
         /\ i \in Range(whole_pinyin) /\ Range(whole_pinyin) \subseteq start .. i
  BY BlankIsPunc DEF RunWaits, WaitsAt, Is, IsPinYin

LEMMA ChineseWaits ==
  ASSUME TypeOK, RunWaits, whole_pinyin # <<>>, Is(i, "CHWORD")
  PROVE  /\ vecWord[i].size < 16 /\ ~Is(i - 1, "NUMBER")
         /\ Range(whole_pinyin) \subseteq start .. i
  BY BlankIsPunc DEF RunWaits, WaitsAt, Is, IsPinYin

LEMMA OthersWait ==
  ASSUME TypeOK, RunWaits, whole_pinyin # <<>>, Is(i, "NUMBER") \/ IsPunc(i)
  PROVE  /\ IsBlank(i) /\ Is(i - 1, "CHWORD") /\ IsPinYin(i + 1)
         /\ i + 1 \in Range(whole_pinyin)
         /\ Range(whole_pinyin) \subseteq start .. i + 1
  BY DEF RunWaits, WaitsAt, Is, IsPinYin, IsPunc

(* The first word that is not answered yet.                                *)
LEMMA RunHeadPlace ==
  ASSUME IInv, i \in Positions
  PROVE  RunHead \in Positions /\ RunHead \in Nat /\ i \in Nat /\ RunHead <= i
  <1>1. i \in Nat /\ start \in 0 .. Len(vecWord) /\ Len(vecWord) \in Nat /\ start < i
    BY LenProperties DEF IInv, TypeOK, RunIsPaired
  <1> QED
    BY <1>1 DEF RunHead, Positions

(* The words a branch answers for lie between that word and this one.      *)
LEMMA PinYinRunWords ==
  ASSUME IInv, RunWaits, InPinYin
  PROVE  /\ PinYinStart = RunHead /\ i \in Range(PinYinRun)
         /\ Range(whole_pinyin) \subseteq Range(PinYinRun)
         /\ Range(PinYinRun) \subseteq RunHead .. i
  <1>1. i \in Positions /\ i \in Nat /\ Is(i, "ALPHA")
    BY PinYinRunType DEF InPinYin, Scanning, IInv, TypeOK
  <1>2. PinYinStart = RunHead
    BY DEF PinYinStart, RunHead
  <1>3. CASE whole_pinyin = <<>>
    BY <1>1, <1>2, <1>3 DEF PinYinRun, Range, RunHead, IInv, RunIsPaired
  <1>4. CASE whole_pinyin # <<>>
    <2>1. start # 0
      BY <1>4 DEF IInv, RunIsPaired
    <2> QED
      BY <1>1, <1>2, <1>4, <2>1, LettersWait DEF PinYinRun, RunHead, IInv
  <1> QED
    BY <1>3, <1>4

LEMMA ChineseRunWords ==
  ASSUME IInv, RunWaits, InChinese
  PROVE  /\ ChineseStart = RunHead
         /\ Range(ChineseRun) = Range(whole_pinyin) \union {i}
         /\ Range(ChineseRun) \subseteq RunHead .. i
  <1>1. i \in Positions /\ i \in Nat /\ Is(i, "CHWORD")
    BY ChineseRunType DEF InChinese, Scanning, IInv, TypeOK
  <1>2. ChineseStart = RunHead
    BY DEF ChineseStart, RunHead, IInv, RunIsPaired
  <1>3. whole_pinyin \in Seq(Positions)
    BY DEF IInv, TypeOK, Positions
  <1>4. Range(Append(whole_pinyin, i)) = Range(whole_pinyin) \union {i}
    BY <1>1, <1>3, RangeOfRun
  <1>5. start \in Nat /\ start < i /\ (start = 0 <=> whole_pinyin = <<>>)
    BY <1>1 DEF IInv, TypeOK, RunIsPaired
  <1>6. Range(whole_pinyin) \subseteq RunHead .. i
    <2>1. CASE whole_pinyin = <<>>
      BY <2>1 DEF Range
    <2>2. CASE whole_pinyin # <<>>
      BY <1>1, <1>5, <2>2, ChineseWaits DEF RunHead, IInv
    <2> QED
      BY <2>1, <2>2
  <1> QED
    BY <1>1, <1>2, <1>4, <1>5, <1>6 DEF RunHead, ChineseRun

-----------------------------------------------------------------------------
(* Every iteration is one of the three steps.                              *)

(* Nothing is pending and the word is copied.                              *)
LEMMA CopyHere ==
  ASSUME IInv, i \in Positions, Emit(i, i), Resume(i),
         whole_pinyin = <<>>, KeepRun \/ ClearRun
  PROVE  WriteStep
  <1>1. i \in Nat /\ i \in i .. Len(vecWord) /\ i .. i \in SUBSET Positions
    BY HereIsPosition DEF IInv, TypeOK
  <1>2. start = 0 /\ start' = 0 /\ whole_pinyin' = <<>>
    BY DEF IInv, RunIsPaired, KeepRun, ClearRun
  <1>3. Range(whole_pinyin) = {} /\ RunHead = i
    BY <1>2 DEF Range, RunHead
  <1>4. i' = i + 1
    BY DEF Resume
  <1>5. \A k \in i .. i : IsBlank(k) \/ k \in i .. i
    OBVIOUS
  <1>6. \E from \in Positions : from <= i /\ i .. i = from .. i /\ Emit(from, i)
    BY <1>1
  <1> QED
    BY <1>1, <1>2, <1>3, <1>4, <1>5, <1>6 DEF WriteStep

(* The pending words and this one are copied.                              *)
LEMMA CopyRun ==
  ASSUME IInv, i \in Positions, Emit(RunHead, i), Resume(i), ClearRun,
         Range(whole_pinyin) \subseteq RunHead .. i
  PROVE  WriteStep
  <1>1. i \in i .. Len(vecWord) /\ Len(vecWord) \in Nat
    BY HereIsPosition, LenProperties DEF IInv, TypeOK
  <1>2. RunHead \in Positions /\ RunHead <= i /\ RunHead \in Nat /\ i \in Nat
    BY RunHeadPlace
  <1>3. RunHead .. i \in SUBSET Positions
    BY <1>1, <1>2 DEF Positions
  <1>4. \A k \in i .. i : IsBlank(k) \/ k \in RunHead .. i
    BY <1>1, <1>2
  <1>5. i' = i + 1 /\ start' = 0 /\ whole_pinyin' = <<>>
    BY DEF Resume, ClearRun
  <1> QED
    BY <1>1, <1>2, <1>3, <1>4, <1>5 DEF WriteStep

(* A recogniser answers for the pending words, this one and some to the    *)
(* right of it.                                                            *)
LEMMA AnswerRun ==
  ASSUME IInv, i \in Positions, NEW e \in i .. Len(vecWord), NEW W,
         W \subseteq RunHead .. i, i \in W, Range(whole_pinyin) \subseteq W,
         NEW differs \in BOOLEAN, NEW w \in Nat,
         ProcessRec(W \union RWord(i, e), differs, w), Resume(e),
         ClearRun \/ (KeepRun /\ whole_pinyin = <<>>)
  PROVE  WriteStep
  <1>1. i \in Nat /\ Len(vecWord) \in Nat
    BY LenProperties DEF IInv, TypeOK
  <1>2. start' = 0 /\ whole_pinyin' = <<>>
    BY DEF ClearRun, KeepRun, IInv, RunIsPaired
  <1>3. RunHead \in Nat /\ RunHead > 0 /\ RunHead <= i
    BY RunHeadPlace DEF Positions
  <1>4. W \union RWord(i, e) \subseteq RunHead .. e
    <2>1. RWord(i, e) \subseteq i + 1 .. e /\ e \in Nat /\ i <= e
      BY <1>1 DEF RWord
    <2>2. ASSUME NEW x \in W PROVE x \in RunHead .. e
      BY <1>1, <1>3, <2>1
    <2>3. ASSUME NEW x \in RWord(i, e) PROVE x \in RunHead .. e
      <3>1. x \in i + 1 .. e
        BY <2>1
      <3> QED
        BY <1>1, <1>3, <2>1, <3>1
    <2> QED
      BY <2>2, <2>3
  <1>5. W \union RWord(i, e) \in SUBSET Positions
    BY <1>1, <1>3, <1>4 DEF Positions
  <1>6. \A k \in i .. e : IsBlank(k) \/ k \in W \union RWord(i, e)
    BY <1>1 DEF RWord
  <1>7. i' = e + 1
    BY DEF Resume
  <1> QED
    BY <1>2, <1>4, <1>5, <1>6, <1>7 DEF WriteStep

(* The same without words to the right.                                    *)
LEMMA AnswerHere ==
  ASSUME IInv, i \in Positions, NEW W,
         W \subseteq RunHead .. i, i \in W, Range(whole_pinyin) \subseteq W,
         NEW differs \in BOOLEAN, NEW w \in Nat,
         ProcessRec(W, differs, w), Resume(i),
         ClearRun \/ (KeepRun /\ whole_pinyin = <<>>)
  PROVE  WriteStep
  <1>1. RWord(i, i) = {}
    BY DEF RWord, IInv, TypeOK
  <1>2. ProcessRec(W \union RWord(i, i), differs, w)
    BY <1>1, W \union {} = W
  <1> QED
    BY <1>2, AnswerRun, HereIsPosition

(* Where no run is pending a word is answered alone.                       *)
LEMMA Alone ==
  ASSUME IInv, i \in Positions, whole_pinyin = <<>>
  PROVE  /\ {i} \subseteq RunHead .. i /\ i \in {i}
         /\ Range(whole_pinyin) \subseteq {i}
  <1>1. i \in Nat /\ RunHead = i
    BY DEF IInv, TypeOK, RunIsPaired, RunHead
  <1> QED
    BY <1>1 DEF Range

LEMMA LettersWriteOrHold ==
  ASSUME IInv, RunWaits, Letters
  PROVE  WriteStep \/ HoldStep
  <1> USE WeightsAreNat
  <1>1. CASE AlphaLetter
    <2>1. Is(i, "ALPHA") /\ i \in Positions /\ ~(vecWord[i].size > 1)
      BY <1>1, IsPosition, WordsAreWords DEF AlphaLetter, Scanning, IInv, Word
    <2>2. whole_pinyin = <<>>
      BY <2>1, LettersWait DEF IInv
    <2>3. CASE RecSingleChar(i)
      BY <1>1, <2>1, <2>2, <2>3, Alone, AnswerHere DEF AlphaLetter
    <2>4. CASE ~RecSingleChar(i)
      BY <1>1, <2>1, <2>2, <2>4, CopyHere DEF AlphaLetter
    <2> QED
      BY <2>3, <2>4
  <1>2. CASE AlphaModel
    <2>1. Is(i, "ALPHA") /\ i \in Positions /\ Is(i - 1, "NUMBER")
      BY <1>2, IsPosition DEF AlphaModel, Scanning
    <2>2. whole_pinyin = <<>>
      BY <2>1, LettersWait DEF IInv
    <2> QED
      BY <1>2, <2>1, <2>2, CopyHere DEF AlphaModel
  <1>3. CASE PinYinHold
    <2>1. InPinYin /\ i' = i + 1 /\ i \in Nat /\ i + 1 \in Nat
      BY <1>3 DEF PinYinHold, Resume, IInv, TypeOK
    <2>2. /\ start' = RunHead /\ whole_pinyin' = PinYinRun
          /\ i \in Range(PinYinRun) /\ Range(whole_pinyin) \subseteq Range(PinYinRun)
          /\ Range(PinYinRun) \subseteq RunHead .. i
      BY <1>3, <2>1, PinYinRunWords DEF PinYinHold
    <2>3. /\ Is(i + 1, "CHWORD") /\ vecWord[i + 1].size < 16 /\ Is(i, "ALPHA")
      BY <1>3 DEF PinYinHold, WaitsForChinese, InPinYin, Scanning
    <2>4. RunHead .. i \subseteq RunHead .. i + 1 /\ i = (i + 1) - 1
      BY <2>1
    <2>5. WaitsAt(PinYinRun, RunHead, i + 1)
      BY <2>1, <2>2, <2>3, <2>4 DEF WaitsAt
    <2> QED
      BY <1>3, <2>1, <2>2, <2>5 DEF HoldStep, PinYinHold
  <1>4. CASE PinYinBridge
    <2>1. InPinYin /\ i' = i + 2 /\ i \in Nat /\ i \in Positions
      BY <1>4, PinYinRunType DEF PinYinBridge, Resume, IInv, TypeOK
    <2>2. IsBlank(i + 1) /\ IsPinYin(i + 2) /\ i + 2 \in Positions
      BY <1>4, IsPosition DEF PinYinBridge, BridgesBlank, IsPinYin
    <2>3. /\ start' = RunHead /\ whole_pinyin' = Append(PinYinRun, i + 2)
          /\ i \in Range(PinYinRun) /\ Range(whole_pinyin) \subseteq Range(PinYinRun)
          /\ Range(PinYinRun) \subseteq RunHead .. i
      BY <1>4, <2>1, PinYinRunWords DEF PinYinBridge
    <2>4. Range(whole_pinyin') = Range(PinYinRun) \union {i + 2}
      BY <2>1, <2>2, <2>3, PinYinRunType, RangeOfRun
    <2>5. RunHead .. i \subseteq RunHead .. i + 2 /\ i + 2 \in RunHead .. i + 2
      BY <2>1, RunHeadPlace
    <2>6. ~Is((i + 2) - 1, "NUMBER")
      BY <2>1, <2>2, BlankIsPunc, (i + 2) - 1 = i + 1 DEF IInv
    <2>7. WaitsAt(whole_pinyin', RunHead, i + 2)
      BY <2>2, <2>3, <2>4, <2>5, <2>6 DEF WaitsAt
    <2>8. \A k \in i .. i + 1 : IsBlank(k) \/ k \in Range(whole_pinyin')
      BY <2>1, <2>2, <2>3, <2>4
    <2> QED
      BY <1>4, <2>1, <2>3, <2>4, <2>7, <2>8 DEF HoldStep, PinYinBridge
  <1>5. CASE PinYinWhole
    <2>1. InPinYin
      BY <1>5 DEF PinYinWhole, PinYinEnds
    <2>2. PICK end \in i .. Len(vecWord), w \in Weights, differs \in BOOLEAN :
            /\ ProcessRec(Range(PinYinRun) \union RWord(i, end), differs, w)
            /\ Resume(end)
      BY <1>5 DEF PinYinWhole
    <2> QED
      BY <1>5, <2>1, <2>2, PinYinRunType, PinYinRunWords, AnswerRun DEF PinYinWhole
  <1>6. CASE PinYinNgram
    <2>1. InPinYin
      BY <1>6 DEF PinYinNgram, PinYinEnds
    <2> QED
      BY <1>6, <2>1, PinYinRunType, PinYinRunWords, AnswerHere DEF PinYinNgram
  <1>7. CASE PinYinEnglish
    <2>1. InPinYin /\ i \in Positions /\ i \in Nat
      BY <1>7, PinYinRunType DEF PinYinEnglish, PinYinEnds, IInv, TypeOK
    <2>2. whole_pinyin = <<>>
      BY <1>7, <2>1 DEF PinYinEnglish, PinYinStart, IInv, TypeOK, RunIsPaired, Positions
    <2> QED
      BY <1>7, <2>1, <2>2, Alone, AnswerHere DEF PinYinEnglish
  <1>8. CASE PinYinNone
    <2>1. InPinYin
      BY <1>8 DEF PinYinNone, PinYinEnds
    <2>2. PinYinStart = RunHead /\ Range(whole_pinyin) \subseteq RunHead .. i
      BY <2>1, PinYinRunWords
    <2> QED
      BY <1>8, <2>1, <2>2, PinYinRunType, CopyRun DEF PinYinNone
  <1>9. CASE EnglishWord
    <2>1. i \in Positions /\ whole_pinyin = <<>>
      BY <1>9, IsPosition DEF EnglishWord, InEnglish, Scanning
    <2> QED
      BY <1>9, <2>1, CopyHere, Alone, AnswerHere DEF EnglishWord
  <1>10. CASE EnglishAsPinYin
    <2>1. i \in Positions /\ whole_pinyin = <<>> /\ KeepRun
      BY <1>10, IsPosition DEF EnglishAsPinYin, InEnglish, Scanning
    <2>2. PICK end \in i .. Len(vecWord), w \in Weights, differs \in BOOLEAN :
            ProcessRec({i} \union RWord(i, end), differs, w) /\ Resume(end)
      BY <1>10 DEF EnglishAsPinYin
    <2> QED
      BY <2>1, <2>2, Alone, AnswerRun
  <1> QED
    BY <1>1, <1>2, <1>3, <1>4, <1>5, <1>6, <1>7, <1>8, <1>9, <1>10 DEF Letters

(* Where every Chinese word has a reading.                                 *)
LEMMA ChineseWritesOrHolds ==
  ASSUME IInv, RunWaits, AllRead, Chinese
  PROVE  WriteStep \/ HoldStep
  <1> USE WeightsAreNat
  <1>1. CASE ChineseLong
    <2>1. Is(i, "CHWORD") /\ i \in Positions /\ ChineseIsLong
      BY <1>1, IsPosition DEF ChineseLong, Scanning
    <2>2. vecWord[i].size \in Nat
      BY <2>1, WordsAreWords DEF IInv, Word
    <2>3. whole_pinyin = <<>>
      BY <2>1, <2>2, ChineseWaits DEF ChineseIsLong, IInv
    <2> QED
      BY <1>1, <2>1, <2>3, CopyHere DEF ChineseLong
  <1>2. CASE ChineseDigit
    <2>1. Is(i, "CHWORD") /\ i \in Positions /\ Is(i - 1, "NUMBER")
      BY <1>2, IsPosition DEF ChineseDigit, Scanning, ChineseIsDigit, RecSingleChar
    <2>2. whole_pinyin = <<>>
      BY <2>1, ChineseWaits DEF IInv
    <2> QED
      BY <1>2, <2>1, <2>2, Alone, AnswerHere DEF ChineseDigit
  <1>3. ~ChineseUnread
    BY DEF ChineseUnread, AllRead, InChinese, Scanning, Is
  <1>4. CASE ChineseHold
    <2>1. InChinese /\ i' = i + 1 /\ i \in Nat /\ i \in Positions /\ Is(i, "CHWORD")
      BY <1>4, ChineseRunType DEF ChineseHold, Resume, IInv, TypeOK, InChinese, Scanning
    <2>2. IsPinYin(i + 1) /\ i + 1 \in Positions
      BY <1>4, IsPosition DEF ChineseHold, JoinsLetters, IsPinYin
    <2>3. /\ start' = RunHead /\ whole_pinyin' = Append(ChineseRun, i + 1)
          /\ Range(ChineseRun) = Range(whole_pinyin) \union {i}
          /\ Range(ChineseRun) \subseteq RunHead .. i
      BY <1>4, <2>1, ChineseRunWords DEF ChineseHold
    <2>4. Range(whole_pinyin') = Range(ChineseRun) \union {i + 1}
      BY <2>1, <2>2, <2>3, ChineseRunType, RangeOfRun
    <2>5. RunHead .. i \subseteq RunHead .. i + 1 /\ i + 1 \in RunHead .. i + 1
      BY <2>1, RunHeadPlace
    <2>6. ~Is((i + 1) - 1, "NUMBER")
      BY <2>1, (i + 1) - 1 = i DEF Is
    <2>7. WaitsAt(whole_pinyin', RunHead, i + 1)
      BY <2>2, <2>3, <2>4, <2>5, <2>6 DEF WaitsAt
    <2>8. \A k \in i .. i' - 1 : IsBlank(k) \/ k \in Range(whole_pinyin')
      BY <2>1, <2>3, <2>4
    <2> QED
      BY <1>4, <2>1, <2>3, <2>4, <2>7, <2>8 DEF HoldStep, ChineseHold
  <1>5. CASE ChineseBridge
    <2>1. InChinese /\ i' = i + 1 /\ i \in Nat /\ i \in Positions /\ Is(i, "CHWORD")
      BY <1>5, ChineseRunType DEF ChineseBridge, Resume, IInv, TypeOK, InChinese, Scanning
    <2>2. IsBlank(i + 1) /\ IsPinYin(i + 2) /\ i + 2 \in Positions
      BY <1>5, IsPosition DEF ChineseBridge, JoinsOverBlank, IsPinYin
    <2>3. /\ start' = RunHead /\ whole_pinyin' = Append(ChineseRun, i + 2)
          /\ Range(ChineseRun) = Range(whole_pinyin) \union {i}
          /\ Range(ChineseRun) \subseteq RunHead .. i
      BY <1>5, <2>1, ChineseRunWords DEF ChineseBridge
    <2>4. Range(whole_pinyin') = Range(ChineseRun) \union {i + 2}
      BY <2>1, <2>2, <2>3, ChineseRunType, RangeOfRun
    <2>5. RunHead .. i \subseteq RunHead .. i + 2 /\ i + 2 \in RunHead .. i + 2
      BY <2>1, RunHeadPlace
    <2>6. (i + 1) - 1 = i /\ (i + 1) + 1 = i + 2
      BY <2>1
    <2>7. WaitsAt(whole_pinyin', RunHead, i + 1)
      BY <2>1, <2>2, <2>3, <2>4, <2>5, <2>6 DEF WaitsAt
    <2>8. \A k \in i .. i' - 1 : IsBlank(k) \/ k \in Range(whole_pinyin')
      BY <2>1, <2>3, <2>4
    <2> QED
      BY <1>5, <2>1, <2>3, <2>4, <2>7, <2>8 DEF HoldStep, ChineseBridge
  <1>6. CASE ChineseAlone
    <2>1. InChinese /\ i \in Positions /\ i \in Nat
      BY <1>6, ChineseRunType DEF ChineseAlone, ChineseEnds, IInv, TypeOK
    <2>2. whole_pinyin = <<>>
      BY <1>6, <2>1 DEF ChineseAlone, StandsAlone, ChineseStart, IInv, RunIsPaired, TypeOK
    <2> QED
      BY <1>6, <2>1, <2>2, CopyHere DEF ChineseAlone
  <1>7. CASE ChineseWhole
    <2>1. InChinese
      BY <1>7 DEF ChineseWhole, ChineseEnds
    <2>2. PICK end \in i .. Len(vecWord), w \in Weights, differs \in BOOLEAN :
            /\ ProcessRec(Range(ChineseRun) \union RWord(i, end), differs, w)
            /\ Resume(end)
      BY <1>7 DEF ChineseWhole
    <2> QED
      BY <1>7, <2>1, <2>2, ChineseRunType, ChineseRunWords, AnswerRun DEF ChineseWhole
  <1>8. CASE ChineseNgram
    <2>1. InChinese
      BY <1>8 DEF ChineseNgram, ChineseEnds
    <2> QED
      BY <1>8, <2>1, ChineseRunType, ChineseRunWords, AnswerHere DEF ChineseNgram
  <1>9. CASE ChineseOnly
    <2>1. InChinese /\ i \in Positions /\ i = 1
      BY <1>9, ChineseRunType DEF ChineseOnly, ChineseEnds, Positions
    <2>2. whole_pinyin = <<>>
      BY <2>1 DEF IInv, RunIsPaired, TypeOK
    <2> QED
      BY <1>9, <2>1, <2>2, Alone, AnswerHere DEF ChineseOnly
  <1>10. CASE ChineseNone
    <2>1. InChinese
      BY <1>10 DEF ChineseNone, ChineseEnds
    <2>2. ChineseStart = RunHead /\ Range(whole_pinyin) \subseteq RunHead .. i
      BY <2>1, ChineseRunWords
    <2> QED
      BY <1>10, <2>1, <2>2, ChineseRunType, CopyRun DEF ChineseNone
  <1> QED
    BY <1>1, <1>2, <1>3, <1>4, <1>5, <1>6, <1>7, <1>8, <1>9, <1>10 DEF Chinese

LEMMA IterationMoves ==
  ASSUME IInv, RunWaits, AllRead, Scan
  PROVE  WriteStep \/ HoldStep \/ PassStep
  <1> USE WeightsAreNat
  <1>1. CASE WordWhite
    <2>1. i \in Positions /\ whole_pinyin = <<>>
      BY <1>1, IsPosition DEF WordWhite, LooksUp
    <2> QED
      BY <1>1, <2>1, CopyHere DEF WordWhite
  <1>2. CASE WordFix
    <2>1. i \in Positions /\ whole_pinyin = <<>>
      BY <1>2, IsPosition DEF WordFix, LooksUp
    <2> QED
      BY <1>2, <2>1, Alone, AnswerHere DEF WordFix
  <1>3. CASE OtherWord
    <2>1. i \in Positions /\ i \in Nat /\ Emit(i, i) /\ KeepRun /\ i' = i + 1
      BY <1>3, IsPosition DEF OtherWord, IsPunc, Resume, IInv, TypeOK
    <2>2. CASE whole_pinyin = <<>>
      BY <1>3, <2>1, <2>2, CopyHere DEF OtherWord
    <2>3. CASE whole_pinyin # <<>>
      <3>1. /\ IsBlank(i) /\ Is(i - 1, "CHWORD") /\ IsPinYin(i + 1)
            /\ i + 1 \in Range(whole_pinyin)
            /\ Range(whole_pinyin) \subseteq start .. i + 1
        BY <1>3, <2>3, OthersWait DEF OtherWord, IInv
      <3>2. i - 1 \in 1 .. Len(vecWord) /\ (i - 1) + 1 = i /\ (i - 1) + 2 = i + 1
            /\ (i + 1) - 1 = i
        BY <2>1, <3>1 DEF Is
      <3>3. ~NoChineseBridge
        BY <3>1, <3>2 DEF NoChineseBridge
      <3>4. ~Is(i, "NUMBER")
        BY <3>1, BlankIsPunc DEF IInv
      <3>5. WaitsAt(whole_pinyin', start', i')
        BY <2>1, <3>1, <3>2, <3>4 DEF WaitsAt, KeepRun
      <3> QED
        BY <2>1, <3>1, <3>3, <3>5 DEF PassStep
    <2> QED
      BY <2>2, <2>3
  <1> QED
    BY <1>1, <1>2, <1>3, LettersWriteOrHold, ChineseWritesOrHolds DEF Scan

-----------------------------------------------------------------------------
(* What a step adds to the answer: pieces for the words of W, in order.    *)
Adds(W) ==
  /\ Len(str) \in Nat /\ Len(str') \in Nat /\ Len(str) <= Len(str')
  /\ DOMAIN str = 1 .. Len(str) /\ DOMAIN str' = 1 .. Len(str')
  /\ \A p \in 1 .. Len(str) : str'[p].of = str[p].of
  /\ \A p \in Len(str) + 1 .. Len(str') : str'[p].of \subseteq W
  /\ \A k \in W : \E p \in Len(str) + 1 .. Len(str') : k \in str'[p].of
  /\ \A p, q \in Len(str) + 1 .. Len(str') : p < q =>
       \A x \in str'[p].of, y \in str'[q].of : x < y

(* A recogniser adds one piece for its words, a copy one piece per word.   *)
LEMMA RecAdds ==
  ASSUME TypeOK, NEW W \in SUBSET Positions, NEW differs \in BOOLEAN, NEW w \in Nat,
         ProcessRec(W, differs, w)
  PROVE  Adds(W)
  <1>1. str \in Seq(Pieces) /\ Len(str) \in Nat /\ DOMAIN str = 1 .. Len(str)
    BY LenProperties DEF TypeOK, Pieces, Positions
  <1> DEFINE piece == Piece(W, differs, w)
  <1>2. piece \in Pieces /\ piece.of = W
    BY PieceType DEF Piece
  <1>3. str' = Append(str, piece)
    BY DEF ProcessRec, ProcessRecInto
  <1> HIDE DEF piece
  <1>4. /\ str' \in Seq(Pieces) /\ Len(str') = Len(str) + 1
        /\ \A p \in 1 .. Len(str) : str'[p] = str[p]
        /\ str'[Len(str) + 1] = piece
    BY <1>1, <1>2, <1>3, AppendProperties
  <1>5. DOMAIN str' = 1 .. Len(str')
    BY <1>4, LenProperties
  <1>6. Len(str) + 1 .. Len(str') = {Len(str) + 1}
    BY <1>1, <1>4
  <1> QED
    BY <1>1, <1>2, <1>4, <1>5, <1>6 DEF Adds

LEMMA EmitAdds ==
  ASSUME TypeOK, NEW from \in Positions, NEW to \in Positions,
         from <= to, Emit(from, to)
  PROVE  Adds(from .. to)
  <1>1. /\ str \in Seq(Pieces) /\ Len(str) \in Nat /\ DOMAIN str = 1 .. Len(str)
        /\ from \in Nat /\ to \in Nat
    BY LenProperties DEF TypeOK, Pieces, Positions
  <1> DEFINE n == to - from + 1
             copies == Copies(from, to)
  <1>2. n \in Nat /\ copies \in Seq(Pieces) /\ Len(copies) = n
    <2>1. copies \in Seq(Pieces) /\ n \in Nat
      BY <1>1, CopiesAreUnchanged
    <2>2. DOMAIN copies = 1 .. n
      BY DEF Copies
    <2> QED
      BY <2>1, <2>2, LenProperties
  <1>3. \A k \in 1 .. n : copies[k].of = {from + k - 1}
    BY DEF Copies, Copy, Piece
  <1>4. str' = str \o copies
    BY DEF Emit
  <1> HIDE DEF copies
  <1>5. /\ str' \in Seq(Pieces) /\ Len(str') = Len(str) + n
        /\ \A p \in 1 .. Len(str) : str'[p] = str[p]
        /\ \A p \in Len(str) + 1 .. Len(str') : str'[p] = copies[p - Len(str)]
    <2>1. /\ str \in Seq(Pieces) /\ copies \in Seq(Pieces)
          /\ Len(str) \in Nat /\ Len(copies) \in Nat
      BY <1>1, <1>2
    <2>2. /\ str' \in Seq(Pieces) /\ Len(str') = Len(str) + Len(copies)
          /\ \A p \in 1 .. Len(str) : str'[p] = str[p]
          /\ \A p \in Len(str) + 1 .. Len(str') : str'[p] = copies[p - Len(str)]
      BY <1>4, <2>1, ConcatProperties
    <2> QED
      BY <1>2, <2>2
  <1>6. \A p \in Len(str) + 1 .. Len(str') :
          str'[p].of = {from + (p - Len(str)) - 1}
    <2> TAKE p \in Len(str) + 1 .. Len(str')
    <2>1. p - Len(str) \in 1 .. n
      BY <1>1, <1>2, <1>5
    <2> QED
      BY <1>3, <1>5, <2>1
  <1>7. Len(str') \in Nat /\ Len(str) <= Len(str') /\ DOMAIN str' = 1 .. Len(str')
    BY <1>1, <1>2, <1>5, LenProperties
  <1>8. ASSUME NEW p \in Len(str) + 1 .. Len(str')
        PROVE  str'[p].of \subseteq from .. to
    <2>1. from + (p - Len(str)) - 1 \in from .. to
      BY <1>1, <1>2, <1>5
    <2> QED
      BY <1>6, <2>1
  <1>9. ASSUME NEW k \in from .. to
        PROVE  \E p \in Len(str) + 1 .. Len(str') : k \in str'[p].of
    <2>1. PICK p \in Int : p = Len(str) + (k - from) + 1
      BY <1>1
    <2>2. p \in Len(str) + 1 .. Len(str') /\ from + (p - Len(str)) - 1 = k
      BY <1>1, <1>5, <2>1
    <2> QED
      BY <1>6, <2>2
  <1>10. ASSUME NEW p \in Len(str) + 1 .. Len(str'), NEW q \in Len(str) + 1 .. Len(str'),
                p < q, NEW x \in str'[p].of, NEW y \in str'[q].of
         PROVE  x < y
    <2>1. x = from + (p - Len(str)) - 1 /\ y = from + (q - Len(str)) - 1
      BY <1>6
    <2> QED
      BY <1>1, <1>7, <1>10, <2>1
  <1> QED
    BY <1>1, <1>5, <1>7, <1>8, <1>9, <1>10 DEF Adds

(* Every word the loop has passed is answered, pending or a blank.         *)
Covered ==
  \A k \in Positions : k < i =>
    IsBlank(k) \/ k \in Range(whole_pinyin) \/ \E p \in DOMAIN str : k \in str[p].of

(* The pieces stand for increasing words, all of them before the run.      *)
Ordered ==
  /\ \A p, q \in DOMAIN str : p < q => \A x \in str[p].of, y \in str[q].of : x < y
  /\ \A p \in DOMAIN str : \A x \in str[p].of : x < RunHead

AInv ==
  pc = "scan" /\ AllRead => RunWaits /\ Covered /\ (NoChineseBridge => Ordered)

(* Writing the run and the words up to e keeps both.                       *)
LEMMA WriteCovers ==
  ASSUME TypeOK, Covered, vecWord' = vecWord, whole_pinyin' = <<>>,
         NEW e \in i .. Len(vecWord), NEW W \in SUBSET Positions, Adds(W), i' = e + 1,
         Range(whole_pinyin) \subseteq W, \A k \in i .. e : IsBlank(k) \/ k \in W
  PROVE  Covered'
  <1>1. i \in Nat /\ e \in Nat
    BY LenProperties DEF TypeOK
  <1> SUFFICES ASSUME NEW k \in Positions, k < i'
               PROVE  IsBlank(k) \/ \E p \in DOMAIN str' : k \in str'[p].of
    BY DEF Covered, Positions, IsBlank
  <1>2. ASSUME k \in W PROVE \E p \in DOMAIN str' : k \in str'[p].of
    BY <1>2 DEF Adds
  <1>3. CASE k < i
    <2>1. IsBlank(k) \/ k \in W \/ \E p \in DOMAIN str : k \in str[p].of
      BY <1>3 DEF Covered
    <2>2. ASSUME NEW p \in DOMAIN str, k \in str[p].of
          PROVE  \E q \in DOMAIN str' : k \in str'[q].of
      BY <2>2 DEF Adds
    <2> QED
      BY <1>2, <2>1, <2>2
  <1>4. CASE ~(k < i)
    <2>1. k \in i .. e
      BY <1>1, <1>4 DEF Positions
    <2> QED
      BY <1>2, <2>1
  <1> QED
    BY <1>3, <1>4

LEMMA WriteOrders ==
  ASSUME IInv, Ordered, i \in Positions, NEW e \in i .. Len(vecWord),
         NEW W \in SUBSET Positions, Adds(W),
         i' = e + 1, start' = 0, W \subseteq RunHead .. e
  PROVE  Ordered'
  <1>1. i \in Nat /\ e \in Nat /\ RunHead \in Nat /\ RunHead <= e + 1 /\ RunHead' = e + 1
    BY RunHeadPlace DEF RunHead
  <1>2. str \in Seq(Pieces) /\ \A p \in DOMAIN str : str[p].of \subseteq Positions
    <2>1. str \in Seq(Pieces)
      BY DEF IInv, TypeOK, Pieces, Positions
    <2>2. ASSUME NEW p \in 1 .. Len(str) PROVE str[p].of \subseteq Positions
      <3>1. str[p] \in Pieces
        BY <2>1, ElementOfSeq
      <3> QED
        BY <3>1 DEF Pieces
    <2> QED
      BY <2>1, <2>2, LenProperties
  <1>3. ASSUME NEW p \in DOMAIN str', NEW x \in str'[p].of
        PROVE  /\ x \in Nat /\ x < e + 1
               /\ p \in DOMAIN str => x \in str[p].of /\ x < RunHead
               /\ p \notin DOMAIN str => x >= RunHead /\ p \in Len(str) + 1 .. Len(str')
    <2>1. CASE p \in DOMAIN str
      <3>1. x \in str[p].of
        BY <2>1 DEF Adds
      <3>2. x < RunHead /\ x \in Nat
        BY <1>2, <2>1, <3>1 DEF Ordered, Positions
      <3> QED
        BY <1>1, <2>1, <3>1, <3>2
    <2>2. CASE p \notin DOMAIN str
      <3>1. p \in Len(str) + 1 .. Len(str')
        BY <2>2 DEF Adds
      <3>2. x \in RunHead .. e
        BY <3>1 DEF Adds
      <3> QED
        BY <1>1, <2>2, <3>1, <3>2
    <2> QED
      BY <2>1, <2>2
  <1>4. ASSUME NEW p \in DOMAIN str', NEW q \in DOMAIN str', p < q,
               NEW x \in str'[p].of, NEW y \in str'[q].of
        PROVE  x < y
    <2>1. CASE q \in DOMAIN str
      <3>1. p \in DOMAIN str
        BY <1>4, <2>1 DEF Adds
      <3> QED
        BY <1>3, <1>4, <2>1, <3>1 DEF Ordered
    <2>2. CASE q \notin DOMAIN str /\ p \in DOMAIN str
      BY <1>1, <1>3, <2>2
    <2>3. CASE q \notin DOMAIN str /\ p \notin DOMAIN str
      <3>1. p \in Len(str) + 1 .. Len(str') /\ q \in Len(str) + 1 .. Len(str')
        BY <1>3, <2>3
      <3> QED
        BY <1>4, <3>1 DEF Adds
    <2> QED
      BY <2>1, <2>2, <2>3
  <1> QED
    BY <1>1, <1>3, <1>4 DEF Ordered

(* The three steps keep the invariant.                                     *)
LEMMA WritePreservesAInv ==
  ASSUME IInv, RunWaits, Covered, NoChineseBridge => Ordered, i \in Positions,
         ScanStep, WriteStep
  PROVE  RunWaits' /\ Covered' /\ (NoChineseBridge => Ordered')
  <1>1. PICK e \in i .. Len(vecWord), W \in SUBSET Positions :
          /\ i' = e + 1 /\ start' = 0 /\ whole_pinyin' = <<>>
          /\ Range(whole_pinyin) \subseteq W /\ W \subseteq RunHead .. e
          /\ \A k \in i .. e : IsBlank(k) \/ k \in W
          /\ \/ \E differs \in BOOLEAN, w \in Nat : ProcessRec(W, differs, w)
             \/ \E from \in Positions : from <= e /\ W = from .. e /\ Emit(from, e)
    BY DEF WriteStep
  <1>2. vecWord' = vecWord
    BY DEF ScanStep, ScanFrame
  <1>3. e \in Positions
    BY LenProperties DEF IInv, TypeOK, Positions
  <1>4. Adds(W)
    BY <1>1, <1>3, RecAdds, EmitAdds DEF IInv
  <1>5. Covered'
    BY <1>1, <1>2, <1>4, WriteCovers DEF IInv
  <1>6. NoChineseBridge => Ordered'
    BY <1>1, <1>4, WriteOrders
  <1> QED
    BY <1>1, <1>5, <1>6 DEF RunWaits

(* What a run waits for is asked of words only, which do not change.       *)
LEMMA RunWaitsNext ==
  ASSUME vecWord' = vecWord, WaitsAt(whole_pinyin', start', i')
  PROVE  RunWaits'
  BY DEF RunWaits, WaitsAt, Is, IsBlank, IsPinYin

(* A number below b that is not between a and b is below a.                *)
LEMMA Between ==
  ASSUME NEW a \in Nat, NEW b \in Nat, NEW c \in Nat, c < b, c \notin a .. b - 1
  PROVE  c < a
  OBVIOUS

LEMMA HoldPreservesAInv ==
  ASSUME IInv, RunWaits, Covered, NoChineseBridge => Ordered, i \in Positions,
         ScanStep, HoldStep
  PROVE  RunWaits' /\ Covered' /\ (NoChineseBridge => Ordered')
  <1>1. vecWord' = vecWord /\ i' \in Nat /\ i \in Nat /\ str' = str
    BY DEF ScanStep, ScanFrame, HoldStep, Hold, IInv, TypeOK
  <1>2. RunWaits'
    BY <1>1, RunWaitsNext DEF HoldStep
  <1>3. Covered'
    <2> SUFFICES ASSUME NEW k \in Positions, k < i', ~IsBlank(k),
                        k \notin Range(whole_pinyin')
                 PROVE  \E p \in DOMAIN str : k \in str[p].of
      BY <1>1 DEF Covered, Positions, IsBlank
    <2>1. k \notin i .. i' - 1 /\ k \notin Range(whole_pinyin)
      BY DEF HoldStep
    <2>2. k \in Nat /\ k < i'
      BY LenProperties DEF Positions, IInv, TypeOK
    <2>3. k < i
      BY <1>1, <2>1, <2>2, Between
    <2> QED
      BY <2>1, <2>3 DEF Covered
  <1>4. RunHead' = RunHead
    BY RunHeadPlace DEF HoldStep, RunHead, Positions
  <1>5. NoChineseBridge => Ordered'
    BY <1>1, <1>4 DEF Ordered
  <1> QED
    BY <1>2, <1>3, <1>5

LEMMA PassPreservesAInv ==
  ASSUME IInv, RunWaits, Covered, i \in Positions, ScanStep, PassStep
  PROVE  RunWaits' /\ Covered' /\ ~NoChineseBridge
  <1>1. vecWord' = vecWord /\ i' = i + 1 /\ i \in Nat /\ whole_pinyin' = whole_pinyin
    BY DEF ScanStep, ScanFrame, PassStep, KeepRun, IInv, TypeOK
  <1>2. RunWaits'
    BY <1>1, RunWaitsNext DEF PassStep
  <1>3. Adds(i .. i)
    BY <1>1, HereIsPosition, EmitAdds DEF PassStep, IInv
  <1>4. Covered'
    <2> SUFFICES ASSUME NEW k \in Positions, k < i', ~IsBlank(k),
                        k \notin Range(whole_pinyin)
                 PROVE  \E p \in DOMAIN str' : k \in str'[p].of
      BY <1>1 DEF Covered, Positions, IsBlank
    <2>1. k < i
      BY <1>1 DEF PassStep, Positions
    <2>2. PICK p \in DOMAIN str : k \in str[p].of
      BY <2>1 DEF Covered
    <2> QED
      BY <1>3, <2>2 DEF Adds
  <1> QED
    BY <1>2, <1>4 DEF PassStep

(* An iteration looks at a word.                                           *)
LEMMA IterationIsHere ==
  ASSUME Scan
  PROVE  i \in Positions
  <1>1. Letters => Is(i, "ALPHA")
    BY DEF Letters, AlphaLetter, AlphaModel, PinYinHold, PinYinBridge, PinYinWhole,
      PinYinNgram, PinYinEnglish, PinYinNone, PinYinEnds, EnglishWord,
      EnglishAsPinYin, InPinYin, InEnglish, Scanning
  <1>2. Chinese => Is(i, "CHWORD")
    BY DEF Chinese, ChineseLong, ChineseDigit, ChineseUnread, ChineseHold,
      ChineseBridge, ChineseAlone, ChineseWhole, ChineseNgram, ChineseOnly,
      ChineseNone, ChineseEnds, InChinese, Scanning
  <1> QED
    BY <1>1, <1>2, IsPosition DEF Scan, WordWhite, WordFix, LooksUp, OtherWord, IsPunc

LEMMA IterationPreservesAInv ==
  ASSUME IInv, AInv, Scan
  PROVE  AInv'
  <1>1. ScanStep
    BY IterationIsScanStep
  <1>2. pc = "scan" /\ vecWord' = vecWord
    BY <1>1 DEF ScanStep, ScanFrame
  <1> SUFFICES ASSUME AllRead
               PROVE  RunWaits' /\ Covered' /\ (NoChineseBridge => Ordered')
    BY <1>2 DEF AInv, AllRead, NoChineseBridge, Is, IsBlank, IsPinYin
  <1>3. RunWaits /\ Covered /\ (NoChineseBridge => Ordered)
    BY <1>2 DEF AInv
  <1>4. i \in Positions
    BY IterationIsHere
  <1> QED
    BY <1>1, <1>3, <1>4, IterationMoves, WritePreservesAInv, HoldPreservesAInv,
       PassPreservesAInv

LEMMA StartScanSetsAInv ==
  ASSUME IInv, StartScan
  PROVE  AInv'
  <1>1. /\ i' = 1 /\ start' = 0 /\ whole_pinyin' = <<>> /\ str' = <<>>
    BY DEF StartScan, Unlisted, IInv, Fresh
  <1>2. RunWaits'
    BY <1>1 DEF RunWaits
  <1>3. Covered'
    BY <1>1 DEF Covered, Positions
  <1>4. Ordered'
    <2>1. DOMAIN str' = {}
      BY <1>1
    <2> QED
      BY <2>1 DEF Ordered
  <1> QED
    BY <1>2, <1>3, <1>4 DEF AInv

LEMMA AInvIsInvariant == Spec => [](IInv /\ AInv)
  <1>1. Init => IInv /\ AInv
    BY InitEstablishesIInv DEF Init, AInv
  <1>2. IInv /\ AInv /\ [Next]_vars => IInv' /\ AInv'
    <2> SUFFICES ASSUME IInv, AInv, [Next]_vars PROVE IInv' /\ AInv'
      OBVIOUS
    <2>1. IInv'
      BY NextPreservesIInv
    <2>2. CASE Scan
      BY <2>1, <2>2, IterationPreservesAInv
    <2>3. CASE StartScan
      BY <2>1, <2>3, StartScanSetsAInv
    <2>4. CASE RejectLong \/ AnswerWhite \/ AnswerFix \/ RejectManyWords \/ After
      <3>1. pc' = "done"
        BY <2>4 DEF RejectLong, AnswerWhite, AnswerFix, RejectManyWords, After,
                    EndFix, EndNear, End, Return, Report
      <3> QED
        BY <2>1, <3>1 DEF AInv
    <2>5. CASE UNCHANGED vars
      BY <2>1, <2>5 DEF vars, AInv, RunWaits, WaitsAt, Covered, Ordered, RunHead,
         Positions, AllRead, NoChineseBridge, Is, IsBlank, IsPinYin
    <2> QED
      BY <2>2, <2>3, <2>4, <2>5 DEF Next, Before
  <1> QED
    BY <1>1, <1>2, PTL DEF Spec

(***************************************************************************)
(* When the loop ends every word but the blanks is part of the answer, for *)
(* every query whose Chinese words have readings: no mixture of pending    *)
(* runs, replacements and words consumed ahead drops one.                  *)
(***************************************************************************)
THEOREM NoWordIsLost == Spec => []NoWordLost
  <1>1. ASSUME IInv, AInv
        PROVE  NoWordLost
    <2> SUFFICES ASSUME Scanned, AllRead, NEW k \in Positions
                 PROVE  IsBlank(k) \/ \E p \in DOMAIN str : k \in str[p].of
      BY DEF NoWordLost, Positions
    <2>1. RunWaits /\ Covered /\ i > Len(vecWord) /\ i \in Nat /\ Len(vecWord) \in Nat
      BY <1>1, LenProperties DEF AInv, Scanned, IInv, TypeOK
    <2>2. whole_pinyin = <<>>
      BY <2>1 DEF RunWaits, WaitsAt, Is, IsBlank, IsPinYin
    <2>3. Range(whole_pinyin) = {} /\ k < i
      BY <2>1, <2>2 DEF Range, Positions
    <2>4. k < i
      BY <1>1, <2>2, <2>3
    <2> QED
      BY <2>1, <2>3 DEF Covered
  <1> QED
    BY <1>1, AInvIsInvariant, PTL

(***************************************************************************)
(* The answer keeps the order of the query and no word of it is answered   *)
(* twice, the pending words included, under the two conditions that the    *)
(* branches at lines 1380 and 1399 need.                                   *)
(***************************************************************************)
THEOREM AnsweredInOrderOnce == Spec => []InOrderOnce
  <1>1. AInv => InOrderOnce
    BY DEF AInv, InOrderOnce, Ordered, RunHead
  <1> QED
    BY <1>1, AInvIsInvariant, PTL
=============================================================================
