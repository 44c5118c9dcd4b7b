------------------------------ MODULE SplitText -------------------------------
(***************************************************************************)
(* util/encode_process.h and util/string_process.h: a GBK text is made     *)
(* small, freed of question marks, and split into words of one kind.       *)
(*                                                                         *)
(* Bytes are told apart by kind.  A byte of the upper half begins a        *)
(* character of two, and the second one may look like a letter.            *)
(***************************************************************************)
EXTENDS Integers, Sequences, SequencesExt, FiniteSets

CONSTANT MaxLen   (* bound of the instance                                 *)

SplitTextAssumption == MaxLen \in Nat

Bytes == {"upper", "lower", "digit", "dot", "mark", "lead", "symbol"}
Texts == UNION {[1 .. n -> Bytes] : n \in 0 .. MaxLen}

Marks == {"ENWORD", "CHWORD", "ENPUNC", "CHPUNC", "ALPHA", "NUMBER"}
Splitters == {"splitCHEN", "splitCHAlNum"}

High(b) == b \in {"lead", "symbol"}
isalpha(b) == b \in {"upper", "lower"}
isdigit(b) == b = "digit"

(* A second byte is a letter or of the upper half; digits come before.     *)
isGBKCH(ch1, ch2) == ch1 = "lead" /\ (isalpha(ch2) \/ High(ch2))

-----------------------------------------------------------------------------
(* The loops of string_process.h go from character to character.           *)
RECURSIVE VisitedFrom(_, _)
VisitedFrom(str, i) ==
  IF i > Len(str) THEN {}
  ELSE {i} \union VisitedFrom(str, IF High(str[i]) THEN i + 2 ELSE i + 1)
Visited(str) == VisitedFrom(str, 1)

to_lower(str) ==
  [i \in DOMAIN str |-> IF i \in Visited(str) /\ str[i] = "upper" THEN "lower" ELSE str[i]]
to_upper(str) ==
  [i \in DOMAIN str |-> IF i \in Visited(str) /\ str[i] = "lower" THEN "upper" ELSE str[i]]

(* Deletes question marks, but not in the last place.                      *)
After(str, i) == IF High(str[i]) THEN i + 2 ELSE i + 1
RECURSIVE DeleteFrom(_, _)
DeleteFrom(str, i) ==
  IF i >= Len(str) THEN str
  ELSE IF str[i] = "mark" THEN DeleteFrom(RemoveAt(str, i), i)
  ELSE DeleteFrom(str, After(str, i))
delquestionmark(str) == DeleteFrom(str, 1)

-----------------------------------------------------------------------------
VARIABLES
  splitter, distin,   (* which function runs, and its last parameter       *)
  text, str,          (* the text; after to_lower and delquestionmark      *)
  i, tmp,             (* the next byte, the first byte of the word         *)
  pre_ct,             (* the kind of the last character                    *)
  vecWord, vecMark,   (* the words, by first and last byte; their kinds    *)
  pc                  (* "split" or "done"                                 *)

vars == <<splitter, distin, text, str, i, tmp, pre_ct, vecWord, vecMark, pc>>

Init ==
  /\ splitter \in Splitters /\ distin \in BOOLEAN
  /\ text \in Texts
  /\ str = delquestionmark(to_lower(text))
  /\ i = 1 /\ tmp = 1 /\ pre_ct = "none"
  /\ vecWord = <<>> /\ vecMark = <<>>
  /\ pc = "split"

DigitBefore == i > 1 /\ isdigit(str[i - 1])
DigitAfter == i < Len(str) /\ isdigit(str[i + 1])

AsciiKind ==
  IF splitter = "splitCHEN"
  THEN IF isalpha(str[i]) \/ isdigit(str[i])
          \/ (str[i] = "dot" /\ (distin => (DigitBefore /\ DigitAfter)))
       THEN "ENWORD" ELSE "ENPUNC"
  ELSE IF isalpha(str[i]) THEN "ALPHA"
       ELSE IF isdigit(str[i]) \/ (str[i] = "dot" /\ DigitBefore /\ (distin => DigitAfter))
       THEN "NUMBER" ELSE "ENPUNC"

Kind ==
  IF ~High(str[i]) THEN AsciiKind
  ELSE IF isGBKCH(str[i], str[i + 1]) THEN "CHWORD" ELSE "CHPUNC"

Width == IF High(str[i]) THEN 2 ELSE 1

(* Half a character at the end is left out.                                *)
Readable == i <= Len(str) /\ i + Width - 1 <= Len(str)

Cut(ct) == i # 1 /\ pre_ct # ct

Character ==
  /\ pc = "split" /\ Readable
  /\ vecWord' = IF Cut(Kind) THEN Append(vecWord, <<tmp, i - 1>>) ELSE vecWord
  /\ vecMark' = IF Cut(Kind) THEN Append(vecMark, pre_ct) ELSE vecMark
  /\ tmp' = IF Cut(Kind) THEN i ELSE tmp
  /\ pre_ct' = Kind
  /\ i' = i + Width
  /\ UNCHANGED <<splitter, distin, text, str, pc>>

(* The last word, if there is one.                                         *)
WordLeft == tmp < i
Finish ==
  /\ pc = "split" /\ ~Readable
  /\ vecWord' = IF WordLeft THEN Append(vecWord, <<tmp, i - 1>>) ELSE vecWord
  /\ vecMark' = IF WordLeft THEN Append(vecMark, pre_ct) ELSE vecMark
  /\ pc' = "done"
  /\ UNCHANGED <<splitter, distin, text, str, i, tmp, pre_ct>>

Next == Character \/ Finish

Spec == Init /\ [][Next]_vars

-----------------------------------------------------------------------------
(* Type correctness: every word has a kind of the splitter's.              *)
TypeOK ==
  /\ i \in 1 .. MaxLen + 1 /\ tmp \in 1 .. i
  /\ pre_ct \in Marks \union {"none"}
  /\ vecWord \in Seq((1 .. MaxLen) \X (1 .. MaxLen))
  /\ vecMark \in Seq(Marks \ (IF splitter = "splitCHEN" THEN {"ALPHA", "NUMBER"} ELSE {"ENWORD"}))
  /\ Len(vecWord) = Len(vecMark)

(***************************************************************************)
(* The words are the maximal runs of one kind: without gap from the start  *)
(* to the last whole character, no character cut in two, no neighbours of  *)
(* one kind.  The word loop of rectify() relies on it when it looks at     *)
(* the kinds to the left and right.                                        *)
(***************************************************************************)
SplitIsRuns ==
  pc = "done" =>
    /\ \A k \in DOMAIN vecWord :
         /\ vecWord[k][1] = IF k = 1 THEN 1 ELSE vecWord[k - 1][2] + 1
         /\ vecWord[k][1] <= vecWord[k][2] /\ vecWord[k][1] \in Visited(str)
         /\ k > 1 => vecMark[k - 1] # vecMark[k]
    /\ LET end == IF vecWord = <<>> THEN 0 ELSE vecWord[Len(vecWord)][2]
       IN  end = Len(str) \/ (end = Len(str) - 1 /\ High(str[Len(str)]))

(***************************************************************************)
(* A number has a digit next to each of its dots: with distin on both      *)
(* sides, otherwise before it.  (A malformed character may end in a digit; *)
(* the dot after it then is a number of its own.)                          *)
(***************************************************************************)
NumbersAreNumbers ==
  \A k \in DOMAIN vecWord : vecMark[k] = "NUMBER" =>
    \A j \in vecWord[k][1] .. vecWord[k][2] :
      \/ str[j] = "digit"
      \/ /\ str[j] = "dot" /\ j > 1 /\ str[j - 1] = "digit"
         /\ distin => j < vecWord[k][2] /\ str[j + 1] = "digit"

(* The characters of a text.                                               *)
Chars(t) ==
  LET starts == SetToSortSeq(Visited(t), <)
  IN  [k \in DOMAIN starts |->
         SubSeq(t, starts[k], IF k = Len(starts) THEN Len(t) ELSE starts[k + 1] - 1)]
NoMark(c) == c # <<"mark">>

(***************************************************************************)
(* Lower case and deleted question marks leave every other character as it *)
(* was, also one whose second byte looks like a letter or question mark,   *)
(* and no question mark is left but the last character of the text.        *)
(***************************************************************************)
CharactersSurvive ==
  i = 1 =>
    /\ \A k \in DOMAIN Chars(text) :
         Len(Chars(text)[k]) = 2 =>
           Chars(to_lower(text))[k] = Chars(text)[k] /\ Chars(to_upper(text))[k] = Chars(text)[k]
    /\ LET kept == Chars(delquestionmark(text))
       IN  /\ SelectSeq(kept, NoMark) = SelectSeq(Chars(text), NoMark)
           /\ \A k \in 1 .. Len(kept) - 1 : NoMark(kept[k])
=============================================================================
