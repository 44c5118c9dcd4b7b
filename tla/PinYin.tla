-------------------------------- MODULE PinYin --------------------------------
(***************************************************************************)
(* util/pinyin_process.h: all ways to read a Chinese word, as syllables    *)
(* and as their first letters.  getPinYin goes down the characters with a  *)
(* vector of the syllables so far; the versions that return only one of    *)
(* the two results do the same.                                            *)
(***************************************************************************)
EXTENDS Integers, Sequences, SequencesExt, FiniteSets

CONSTANTS
  Characters,   (* what substr(pos, 2) of a word can be                    *)
  Tables,       (* chword_pinyin: the syllables of a character in order,   *)
                (* <<>> for one the table does not have or has none for    *)
  MaxChars      (* bound of the instance                                   *)

Words == UNION {[1 .. n -> Characters] : n \in 0 .. MaxChars}
Syllables == UNION {Range(table[c]) : table \in Tables, c \in Characters}

PinYinAssumption ==
  /\ MaxChars \in Nat
  /\ Tables \subseteq [Characters -> Seq(Syllables)]
  /\ \A table \in Tables, c \in Characters : IsInjective(table[c])

VARIABLES
  chword, chword_pinyin,        (* the parameters                          *)
  sIt,                          (* the iterators of the calls in progress  *)
  whole_pinyin, first_pinyin,   (* the results                             *)
  pc                            (* "down", "true" or "false"               *)

vars == <<chword, chword_pinyin, sIt, whole_pinyin, first_pinyin, pc>>

(* A syllable is its first letter and the rest.                            *)
FirstLetter(syllable) == syllable[1]

Init ==
  /\ chword \in Words /\ chword_pinyin \in Tables
  /\ sIt = <<>>
  /\ whole_pinyin = <<>> /\ first_pinyin = <<>>
  /\ pc = "down"

py(k) == chword_pinyin[chword[k]]
vec == [k \in DOMAIN sIt |-> py(k)[sIt[k]]]

(* A call for the next character, which has readings: from the first on.   *)
begin(k) == 1
Down ==
  /\ pc = "down" /\ Len(sIt) < Len(chword) /\ py(Len(sIt) + 1) # <<>>
  /\ sIt' = Append(sIt, begin(Len(sIt) + 1))
  /\ UNCHANGED <<chword, chword_pinyin, whole_pinyin, first_pinyin, pc>>

(* It has none: all calls return false, and the results are cleared.       *)
Failed == "false"
Fail ==
  /\ pc = "down" /\ Len(sIt) < Len(chword) /\ py(Len(sIt) + 1) = <<>>
  /\ whole_pinyin' = <<>> /\ first_pinyin' = <<>>
  /\ pc' = Failed
  /\ UNCHANGED <<chword, chword_pinyin, sIt>>

(* The calls that have a next syllable.                                    *)
More == {k \in DOMAIN sIt : sIt[k] < Len(py(k))}
Deepest(S) == CHOOSE k \in S : \A l \in S : l <= k

(* The end of the word.  The calls without a next syllable return, the     *)
(* deepest of the others goes on.                                          *)
Read ==
  /\ pc = "down" /\ Len(sIt) = Len(chword)
  /\ whole_pinyin' = Append(whole_pinyin, vec)
  /\ first_pinyin' = Append(first_pinyin, [k \in DOMAIN vec |-> FirstLetter(vec[k])])
  /\ IF More = {} THEN pc' = "true" /\ UNCHANGED sIt
     ELSE /\ sIt' = [SubSeq(sIt, 1, Deepest(More)) EXCEPT ![Deepest(More)] = @ + 1]
          /\ UNCHANGED pc
  /\ UNCHANGED <<chword, chword_pinyin>>

Next == Down \/ Fail \/ Read

Spec == Init /\ [][Next]_vars

-----------------------------------------------------------------------------
(* Type correctness.                                                       *)
TypeOK ==
  /\ chword \in Words /\ chword_pinyin \in Tables
  /\ sIt \in Seq(Nat \ {0}) /\ Len(sIt) <= Len(chword)
  /\ \A k \in DOMAIN sIt : sIt[k] <= Len(py(k))
  /\ whole_pinyin \in Seq(Seq(Syllables))
  /\ first_pinyin \in Seq(Seq({FirstLetter(x) : x \in Syllables}))
  /\ Len(first_pinyin) = Len(whole_pinyin)
  /\ pc \in {"down", "true", "false"}

(***************************************************************************)
(* All or nothing: the result is every way to take a reading for each      *)
(* character, each once, or nothing if a character has none.  The empty    *)
(* word has one reading, which nearwordRec counts on for what is left and  *)
(* right of the first and the last character.                              *)
(***************************************************************************)
Readable == \A k \in DOMAIN chword : py(k) # <<>>
Readings ==
  {r \in [DOMAIN chword -> Syllables] : \A k \in DOMAIN chword : r[k] \in Range(py(k))}
AllReadingsOrNone ==
  /\ pc = "true" => Readable /\ Range(whole_pinyin) = Readings /\ IsInjective(whole_pinyin)
  /\ pc = "false" => ~Readable /\ whole_pinyin = <<>> /\ first_pinyin = <<>>

(***************************************************************************)
(* The first result, the only one most callers use, takes the first        *)
(* reading of every character.                                             *)
(***************************************************************************)
FirstIsFirst ==
  pc = "true" => whole_pinyin[1] = [k \in DOMAIN chword |-> py(k)[1]]

=============================================================================
