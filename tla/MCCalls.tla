------------------------------- MODULE MCCalls --------------------------------
(***************************************************************************)
(* The functions that rectify() calls and that run to their end without    *)
(* another actor, each on its own: a behaviour is one call, whose          *)
(* variables are those of its module; the others' stay at an idle value.   *)
(***************************************************************************)
EXTENDS MCInputs

VARIABLES
  call,                                                       (* which one *)
  s1, s2, max_ed, d, row, current, distance,
  kind, ids, asked, rounds, sta, vec, seen, byte_sum, creatorPc, near,
  words, shift, probMatrix, pathMatrix, best, taken, bestPc,
  ori_word, rows, right, k, textPos, res, min_weight, tmp, tmp_weight, chosen,
  ngramResult,
  node, stack_buffer, stack_path, str_all,
  pText, dictionary, pos, buffer, greedyPc,
  splitter, distin, ori_str, str, strPos, piece, pre_ct, vecWord, vecMark,
  splitPc,
  op, ifSimp, ifHalf, ifLower, text, buf, src, dest, converted,
  chword, chword_pinyin, sIt, whole_pinyin, first_pinyin, readingsPc,
  pinyinInput, pinyins, pinyinModel, pinyinPos, pinyinRec, pinyinReturned,
  model, input, candidates, round, candidatePos, rec_word, returned

distanceVars == <<s1, s2, max_ed, d, row, current, distance>>
creatorVars == <<kind, ids, asked, rounds, sta, vec, seen, byte_sum, creatorPc,
                 near>>
bestVars == <<words, shift, probMatrix, pathMatrix, best, taken, bestPc>>
ngramVars == <<ori_word, rows, right, k, textPos, res, min_weight, tmp,
               tmp_weight, chosen, ngramResult>>
allVars == <<node, stack_buffer, stack_path, str_all>>
greedyVars == <<pText, dictionary, pos, buffer, greedyPc>>
splitVars == <<splitter, distin, ori_str, str, strPos, piece, pre_ct, vecWord,
               vecMark, splitPc>>
converterVars == <<op, ifSimp, ifHalf, ifLower, text, buf, src, dest, converted>>
readingsVars == <<chword, chword_pinyin, sIt, whole_pinyin, first_pinyin,
                  readingsPc>>
pinYinsVars == <<pinyinInput, pinyins, pinyinModel, pinyinPos, pinyinRec,
                 pinyinReturned>>
recogniserVars == <<model, input, candidates, round, candidatePos, rec_word,
                    returned>>
vars == <<call, distanceVars, creatorVars, bestVars, ngramVars, allVars,
          greedyVars, splitVars, converterVars, readingsVars, pinYinsVars,
          recogniserVars>>

-----------------------------------------------------------------------------
Distance == INSTANCE EditDistance WITH
  Byte <- {"a", "b"}, MaxLen <- 4, MaxEds <- {1, 2}, Leftovers <- {0, 50},
  i <- row, result <- distance

Creator == INSTANCE WordCreator WITH
  Kinds <- {"en", "ch", "wp"}, Words <- CreatorWords, Lexicons <- CreatorLexicons,
  Weight <- CreatorWeight, Before <- CreatorBefore, m_ed <- 2,
  MAXWORDLEN <- CreatorLonger, LowWeight <- 2, OkWeight <- 4,
  MaxBytes <- 12, MaxAnswers <- CreatorAnswers,
  ori_word <- asked, pc <- creatorPc, rec_word <- near

Best == INSTANCE BestPath WITH
  Codes <- BestCodes, BEG <- "BEG", END <- "END", NUM <- "NUM",
  Rows <- BestRows, Shifts <- BestShifts,
  rec_word <- best, pc <- bestPc

Ngram == INSTANCE NgramRec WITH
  Rows <- NgramRows, Originals <- NgramOriginals, Known <- {<<"x", "x">>, <<"y">>},
  Beside <- {<<"x">>, <<"x", "y">>},
  pos <- textPos, rec_word <- chosen, result <- ngramResult

All == INSTANCE AllPaths WITH
  TextLen <- 5

Greedy == INSTANCE GreedySegment WITH
  TextLen <- 4,
  text <- pText, words <- dictionary, pc <- greedyPc

Split == INSTANCE SplitText WITH
  MaxLen <- 4,
  text <- ori_str, i <- strPos, tmp <- piece, pc <- splitPc

Converter == INSTANCE Character WITH
  Bytes <- {65, 97, 129, 161, 163, 193, 218}, MaxLen <- 4,
  Table <- Converted,
  returned <- converted

Readings == INSTANCE PinYin WITH
  Characters <- ReadCharacters, Tables <- ReadingTables, MaxChars <- 3,
  pc <- readingsPc

PinYins == INSTANCE PinYinRec WITH
  Chinese <- {"X", "Y", "Z"}, Letters <- {"a", "b"}, Digits <- {"1", "2"}, LongChinese <- 2,
  Inputs <- PinYinInputs, Candidates <- PinYinCandidates, Models <- PinYinModels,
  Sections <- PinYinSections, English <- RightWords, InCorrectDict <- RightWords,
  LongWord <- 2, LongPinYin <- 3,
  input <- pinyinInput, result <- pinyins, model <- pinyinModel, i <- pinyinPos,
  rec_word <- pinyinRec, returned <- pinyinReturned

Recogniser == INSTANCE WordRec WITH
  Chinese <- {"X", "Y", "Z"}, Letters <- {"a", "b"}, Digits <- {"1", "2"}, LongChinese <- 2,
  ShortChinese <- 4, Inputs <- WordInputs, Candidates <- WordCandidates, Models <- WordModels,
  i <- candidatePos

ASSUME CallsAssumption ==
  /\ Distance!EditDistanceAssumption /\ Creator!WordCreatorAssumption
  /\ Best!BestPathAssumption /\ Ngram!NgramRecAssumption
  /\ All!AllPathsAssumption /\ Greedy!GreedySegmentAssumption
  /\ Split!SplitTextAssumption /\ Converter!CharacterAssumption
  /\ Readings!PinYinAssumption /\ PinYins!PinYinRecAssumption

-----------------------------------------------------------------------------
NoDistance ==
  /\ s1 = "" /\ s2 = "" /\ max_ed = "" /\ d = "" /\ row = "" /\ current = ""
  /\ distance = ""
NoCreator ==
  /\ kind = "" /\ ids = "" /\ asked = "" /\ rounds = "" /\ sta = "" /\ vec = ""
  /\ seen = "" /\ byte_sum = "" /\ creatorPc = "" /\ near = ""
NoBest ==
  /\ words = "" /\ shift = "" /\ probMatrix = "" /\ pathMatrix = "" /\ best = ""
  /\ taken = "" /\ bestPc = ""
NoNgram ==
  /\ ori_word = "" /\ rows = "" /\ right = "" /\ k = "" /\ textPos = ""
  /\ res = "" /\ min_weight = "" /\ tmp = "" /\ tmp_weight = "" /\ chosen = ""
  /\ ngramResult = ""
NoAll ==
  /\ node = "" /\ stack_buffer = "" /\ stack_path = "" /\ str_all = ""
NoGreedy ==
  /\ pText = "" /\ dictionary = "" /\ pos = "" /\ buffer = "" /\ greedyPc = ""
NoSplit ==
  /\ splitter = "" /\ distin = "" /\ ori_str = "" /\ str = "" /\ strPos = ""
  /\ piece = "" /\ pre_ct = "" /\ vecWord = "" /\ vecMark = "" /\ splitPc = ""
NoConverter ==
  /\ op = "" /\ ifSimp = "" /\ ifHalf = "" /\ ifLower = "" /\ text = ""
  /\ buf = "" /\ src = "" /\ dest = "" /\ converted = ""
NoReadings ==
  /\ chword = "" /\ chword_pinyin = "" /\ sIt = "" /\ whole_pinyin = ""
  /\ first_pinyin = "" /\ readingsPc = ""
NoPinYins ==
  /\ pinyinInput = "" /\ pinyins = "" /\ pinyinModel = "" /\ pinyinPos = ""
  /\ pinyinRec = "" /\ pinyinReturned = ""
NoRecogniser ==
  /\ model = "" /\ input = "" /\ candidates = "" /\ round = ""
  /\ candidatePos = "" /\ rec_word = "" /\ returned = ""

Init ==
  /\ call \in {"distance", "words", "best path", "ngram", "all paths",
               "greedy", "split", "characters", "readings", "pinyin", "word"}
  /\ IF call = "distance" THEN Distance!Init ELSE NoDistance
  /\ IF call = "words" THEN Creator!Init ELSE NoCreator
  /\ IF call = "best path" THEN Best!Init ELSE NoBest
  /\ IF call = "ngram" THEN Ngram!Init ELSE NoNgram
  /\ IF call = "all paths" THEN All!Init ELSE NoAll
  /\ IF call = "greedy" THEN Greedy!Init ELSE NoGreedy
  /\ IF call = "split" THEN Split!Init ELSE NoSplit
  /\ IF call = "characters" THEN Converter!Init ELSE NoConverter
  /\ IF call = "readings" THEN Readings!Init ELSE NoReadings
  /\ IF call = "pinyin" THEN PinYins!Init ELSE NoPinYins
  /\ IF call = "word" THEN Recogniser!Init ELSE NoRecogniser

DistanceStep ==
  /\ call = "distance" /\ Distance!Next
  /\ UNCHANGED <<call, creatorVars, bestVars, ngramVars, allVars, greedyVars,
                 splitVars, converterVars, readingsVars, pinYinsVars,
                 recogniserVars>>
CreatorStep ==
  /\ call = "words" /\ Creator!Next
  /\ UNCHANGED <<call, distanceVars, bestVars, ngramVars, allVars, greedyVars,
                 splitVars, converterVars, readingsVars, pinYinsVars,
                 recogniserVars>>
BestStep ==
  /\ call = "best path" /\ Best!Next
  /\ UNCHANGED <<call, distanceVars, creatorVars, ngramVars, allVars,
                 greedyVars, splitVars, converterVars, readingsVars,
                 pinYinsVars, recogniserVars>>
NgramStep ==
  /\ call = "ngram" /\ Ngram!Next
  /\ UNCHANGED <<call, distanceVars, creatorVars, bestVars, allVars,
                 greedyVars, splitVars, converterVars, readingsVars,
                 pinYinsVars, recogniserVars>>
AllStep ==
  /\ call = "all paths" /\ All!Next
  /\ UNCHANGED <<call, distanceVars, creatorVars, bestVars, ngramVars,
                 greedyVars, splitVars, converterVars, readingsVars,
                 pinYinsVars, recogniserVars>>
GreedyStep ==
  /\ call = "greedy" /\ Greedy!Next
  /\ UNCHANGED <<call, distanceVars, creatorVars, bestVars, ngramVars,
                 allVars, splitVars, converterVars, readingsVars, pinYinsVars,
                 recogniserVars>>
SplitStep ==
  /\ call = "split" /\ Split!Next
  /\ UNCHANGED <<call, distanceVars, creatorVars, bestVars, ngramVars,
                 allVars, greedyVars, converterVars, readingsVars,
                 pinYinsVars, recogniserVars>>
ConverterStep ==
  /\ call = "characters" /\ Converter!Next
  /\ UNCHANGED <<call, distanceVars, creatorVars, bestVars, ngramVars,
                 allVars, greedyVars, splitVars, readingsVars, pinYinsVars,
                 recogniserVars>>
ReadingsStep ==
  /\ call = "readings" /\ Readings!Next
  /\ UNCHANGED <<call, distanceVars, creatorVars, bestVars, ngramVars,
                 allVars, greedyVars, splitVars, converterVars, pinYinsVars,
                 recogniserVars>>
PinYinsStep ==
  /\ call = "pinyin" /\ PinYins!Next
  /\ UNCHANGED <<call, distanceVars, creatorVars, bestVars, ngramVars,
                 allVars, greedyVars, splitVars, converterVars, readingsVars,
                 recogniserVars>>
RecogniserStep ==
  /\ call = "word" /\ Recogniser!Next
  /\ UNCHANGED <<call, distanceVars, creatorVars, bestVars, ngramVars,
                 allVars, greedyVars, splitVars, converterVars, readingsVars,
                 pinYinsVars>>

Next ==
  \/ DistanceStep \/ CreatorStep \/ BestStep \/ NgramStep \/ AllStep
  \/ GreedyStep \/ SplitStep \/ ConverterStep \/ ReadingsStep \/ PinYinsStep
  \/ RecogniserStep

Spec == Init /\ [][Next]_vars

-----------------------------------------------------------------------------
(* Type correctness of the parts that keep state from step to step.        *)
TypeOK ==
  /\ call = "distance" => Distance!TypeOK
  /\ call = "words" => Creator!TypeOK
  /\ call = "best path" => Best!TypeOK
  /\ call = "all paths" => All!TypeOK
  /\ call = "greedy" => Greedy!TypeOK
  /\ call = "split" => Split!TypeOK
  /\ call = "characters" => Converter!TypeOK
  /\ call = "readings" => Readings!TypeOK

(* The banded distance in memory that is never cleared is exact up to its  *)
(* limit and writes only its rows; all distances that fill a table are the *)
(* least number of edits, the cheaper ones enclose it: edit_distance.h.    *)
DistanceIsRight ==
  call = "distance" =>
    /\ Distance!BandExact /\ Distance!WritesStayInRow
    /\ Distance!DistancesAgree /\ Distance!CheapOnesEnclose

(* A search by shared substrings finds every word that is near enough,     *)
(* once, and the best first: the word creators.                            *)
CandidatesFound ==
  call = "words" => Creator!NearWordsFound /\ Creator!EachOnce /\ Creator!BestFirst

(* The first text of a row sequence is the likeliest and the second the    *)
(* likeliest with another end: findBestPath.  Of the texts of all          *)
(* segmentations ngramRec answers with the likeliest that may answer.      *)
LikeliestFound ==
  /\ call = "best path" => Best!FirstIsBest /\ Best!SecondIsNext
  /\ call = "ngram" => Ngram!AnswerIsLightest

(* The walk with two stacks prints every segmentation of a pinyin once,    *)
(* and the greedy pass cuts a text between characters: WordSegmentation.   *)
SegmentationsRight ==
  /\ call = "all paths" => All!EverySegmentationOnce /\ All!BufferFitsPath
  /\ call = "greedy" => Greedy!ForwardOnCharacters

(* Whatever bytes a text is made of, the splitters cut it into its runs    *)
(* and lose no character, the conversions in place convert each character  *)
(* once and read none that they wrote, and a word is read in all ways or   *)
(* in none.                                                                *)
TextsSurvive ==
  /\ call = "split" => Split!SplitIsRuns /\ Split!NumbersAreNumbers /\ Split!CharactersSurvive
  /\ call = "characters" => Converter!EachCharacterConverted /\ Converter!ConvertedOnce
  /\ call = "readings" => Readings!AllReadingsOrNone /\ Readings!FirstIsFirst

(* What is put for pinyin keeps what was typed beside it, and the number   *)
(* behind it: wholePinYinRec, firstPinYinRec.                              *)
PinYinKeepsContext == call = "pinyin" => PinYins!AnswerKeepsContext

(* What is put for a word is near it, each recogniser having its own       *)
(* meaning of near, is reported as sure enough, keeps a number where it    *)
(* was, and is the heaviest of what looks alike: chwordRec, enwordRec,     *)
(* nearwordRec.                                                            *)
WordAnswersFit ==
  call = "word" =>
    /\ Recogniser!ChangedIsSure /\ Recogniser!ChineseIsNear
    /\ Recogniser!EnglishFitsNumber /\ Recogniser!NearIsHeaviest
=============================================================================
