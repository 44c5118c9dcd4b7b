------------------------------- MODULE Training -------------------------------
(***************************************************************************)
(* train/src: from counted texts to the files the rectifier loads, and     *)
(* Rectify::init, which loads them.  One step is one stage of main(), or   *)
(* all of init().                                                          *)
(*                                                                         *)
(* A text is a sequence of words with their marks, as splitCHAlNum leaves  *)
(* it, for the trainer and the rectifier alike (not so when a dot follows  *)
(* a digit, where only the trainer passes distin); a word is a sequence of *)
(* characters.  Of the indexes and the language model only matters here    *)
(* whether they were saved.                                                *)
(***************************************************************************)
EXTENDS Integers, Sequences, SequencesExt, FiniteSetsExt, Functions

CONSTANTS
  Texts,
  Corpora,           (* what each text weighs in query and dict together;  *)
                     (* 0 when it is in neither                            *)
  PinYin,            (* the input: the syllables of each character         *)
  FiltSets,          (* what m_filt may be                                 *)
  Chinese,
  Blanks,            (* what a blank begins with (ifHavBlank)              *)
  Rare,              (* 10, of filtCHWord                                  *)
  wpy_thresh, en_thresh, ch_thresh, word_cooccur_num,
  ShortLatin,        (* 15 bytes                                           *)
  ShortChinese,      (* 8                                                  *)
  LongChinese,       (* 10                                                 *)
  LongTail,          (* 8                                                  *)
  STRMAXNUM,
  MaxRuns            (* bound: runs of the trainer                         *)

(* The thresholds are ordered as in the configuration: a word that is      *)
(* indexed is more frequent than a character that is dropped.  The         *)
(* splitter joins what has one mark.                                       *)
TrainingAssumption ==
  /\ Corpora \subseteq [Texts -> Nat]
  /\ Rare \in Nat /\ wpy_thresh > Rare
  /\ \A t \in Texts : \A i \in 2 .. Len(t) : t[i].mark # "PUNC" => t[i].mark # t[i - 1].mark

VARIABLES
  stage,             (* what main() does next                              *)
  corpus, runs, failed,
  m_sin_chword, m_enword, m_chword, m_whole_pinyin, m_word_rword_weight, words2weight,
  m_filt, m_pinyin_chword, m_chword_pinyin, m_wpy2word, m_fpy2word,
  files,             (* what is in out_path                                *)
  given,             (* whether the files nothing here writes are there    *)
  complete,          (* the corpus of the last run when all of it is saved *)
  inited,            (* "no", "true" or "false"                            *)
  loaded             (* the tables of the rectifier, and the corpus they   *)
                     (* are all of                                         *)

counts == <<m_sin_chword, m_enword, m_chword, m_whole_pinyin, m_word_rword_weight, words2weight>>
readings == <<m_filt, m_pinyin_chword, m_chword_pinyin>>
lists == <<m_wpy2word, m_fpy2word>>
vars == <<stage, corpus, runs, failed, counts, readings, lists, files, given, complete, inited, loaded>>

-----------------------------------------------------------------------------
Empty == [x \in {} |-> 0]
Size(w) == Len(w) + Len(SelectSeq(w, LAMBDA c : c \in Chinese))

Is(t, i, mark) == i \in DOMAIN t /\ t[i].mark = mark
(* What the places of a text that pass the test give, in order.            *)
Where(t, Test(_), Give(_)) == FlattenSeq([i \in DOMAIN t |-> IF Test(i) THEN <<Give(i)>> ELSE <<>>])
Words(t, Test(_)) == Where(t, Test, LAMBDA i : t[i].word)

(* What one text adds to each count.                                       *)
CharactersOfFirst(t) == IF Is(t, 1, "CHWORD") THEN t[1].word ELSE <<>>
AllCharacters(t) == FlattenSeq(Words(t, LAMBDA i : Is(t, i, "CHWORD")))
AlphaWords(t) == Words(t, LAMBDA i : Is(t, i, "ALPHA"))
StartsText(t, i) == i = 1 \/ Is(t, i - 1, "PUNC")
ChineseWords(t) ==
  Words(t, LAMBDA i : Is(t, i, "CHWORD") /\ StartsText(t, i) /\ Size(t[i].word) >= 4)
PinYinWords(t) ==
  ChineseWords(t)
    \o (IF Is(t, 1, "CHWORD") /\ Is(t, 2, "ALPHA") THEN <<t[1].word \o t[2].word>> ELSE <<>>)

(* Behind the first word: letters and the numbers right behind them.       *)
TailEnd(t) == Max({e \in 1 .. Len(t) : \A j \in 2 .. e : Is(t, j, IF j = 2 THEN "ALPHA" ELSE "NUMBER")})
TailOf(t) == FlattenSeq([j \in 1 .. TailEnd(t) - 1 |-> t[j + 1].word])

FirstLatin(t) ==
  Is(t, 1, "ALPHA") /\ Size(t[1].word) < ShortLatin
LatinPairs(t) ==
  IF FirstLatin(t) /\ (Is(t, 2, "NUMBER") \/ (Is(t, 2, "CHWORD") /\ Size(t[2].word) <= ShortChinese))
  THEN << <<t[1].word, t[2].word>> >> ELSE <<>>
NumberPairs(t) ==
  Where(t, LAMBDA i : Is(t, i, "ALPHA") /\ Is(t, i - 1, "NUMBER"), LAMBDA i : <<t[i - 1].word, t[i].word>>)
BothWays(a, b) == << <<a, b>>, <<b, a>> >>
Ways(a, b) == BothWays(a, b)
ChinesePairs(t) ==
  IF /\ Is(t, 1, "CHWORD") /\ TailOf(t) # <<>>
     /\ Size(t[1].word) <= LongChinese /\ Size(TailOf(t)) <= LongTail
  THEN Ways(t[1].word, TailOf(t)) ELSE <<>>
Pairs(t) == LatinPairs(t) \o NumberPairs(t) \o ChinesePairs(t)

Tag(t, i) ==
  <<"BEG">> \o (IF Is(t, i - 1, "NUMBER") THEN <<"NUM">> ELSE IF Is(t, i - 1, "ALPHA") THEN <<"ALP">> ELSE <<>>)
    \o t[i].word \o <<"END">>
Tagged(t) ==
  Where(t, LAMBDA i : Is(t, i, "CHWORD") /\ (StartsText(t, i) => Size(t[i].word) >= 4), LAMBDA i : Tag(t, i))

Times(s, x) == Len(SelectSeq(s, LAMBDA y : y = x))
Trained == {t \in Texts : corpus[t] > 0}
Counted(adds) ==
  [x \in UNION {ToSet(adds[t]) : t \in Trained} |->
     MapThenSumSet(LAMBDA t : corpus[t] * Times(adds[t], x), Trained)]

-----------------------------------------------------------------------------
NoCorpus == Empty
NoFiles == [there |-> {}, pinyin |-> Empty, reverse |-> Empty, whole |-> {}, first |-> {}, cooccur |-> {}]
NothingLoaded == [pinyin |-> Empty, reverse |-> Empty, whole |-> {}, cooccur |-> {},
   from |-> NoCorpus]

FreshMemory ==
  /\ m_sin_chword = Empty /\ m_enword = Empty /\ m_chword = Empty /\ m_whole_pinyin = Empty
  /\ m_word_rword_weight = Empty /\ words2weight = Empty
  /\ m_filt = {} /\ m_pinyin_chword = Empty /\ m_chword_pinyin = Empty
  /\ m_wpy2word = {} /\ m_fpy2word = {}

Init ==
  /\ stage = "idle" /\ runs = 0 /\ failed = FALSE
  /\ corpus = NoCorpus /\ complete = NoCorpus
  /\ FreshMemory
  /\ files = NoFiles /\ given \in BOOLEAN
  /\ inited = "no" /\ loaded = NothingLoaded

Start ==
  /\ stage = "idle" /\ runs < MaxRuns
  /\ corpus' \in Corpora /\ stage' = "processData" /\ runs' = runs + 1
  /\ failed' = FALSE /\ complete' = NoCorpus
  /\ UNCHANGED <<counts, readings, lists, files, given, inited, loaded>>

(* Both calls.                                                             *)
processData ==
  /\ stage = "processData" /\ stage' = "readPinYin"
  /\ m_sin_chword' = Counted([t \in Trained |-> AllCharacters(t)])
  /\ m_enword' = Counted([t \in Trained |-> AlphaWords(t)])
  /\ m_chword' = Counted([t \in Trained |-> ChineseWords(t)])
  /\ m_whole_pinyin' = Counted([t \in Trained |-> PinYinWords(t)])
  /\ m_word_rword_weight' = Counted([t \in Trained |-> Pairs(t)])
  /\ words2weight' = Counted([t \in Trained |-> Tagged(t)])
  /\ UNCHANGED <<corpus, runs, failed, readings, lists, files, given, complete, inited, loaded>>

(* A missing input only leaves the tables empty.                           *)
readPinYin(ok) ==
  /\ stage = "readPinYin" /\ stage' = "filtCHWord"
  /\ m_filt' \in FiltSets
  /\ m_chword_pinyin' = IF ok THEN PinYin ELSE Empty
  /\ m_pinyin_chword' =
       IF ok THEN [p \in UNION {PinYin[c] : c \in DOMAIN PinYin} |-> {c \in DOMAIN PinYin : p \in PinYin[c]}]
       ELSE Empty
  /\ failed' = ~ok
  /\ UNCHANGED <<corpus, runs, counts, lists, files, given, complete, inited, loaded>>

Frequent(c) == c \in DOMAIN m_sin_chword /\ m_sin_chword[c] > Rare
filtCHWord ==
  /\ stage = "filtCHWord" /\ stage' = "sortCHENWord"
  /\ m_pinyin_chword' = [p \in DOMAIN m_pinyin_chword |-> {c \in m_pinyin_chword[p] : Frequent(c)}]
  /\ UNCHANGED <<corpus, runs, failed, counts, m_filt, m_chword_pinyin, lists, files, given, complete, inited, loaded>>

-----------------------------------------------------------------------------
(* The limits on the number of words are off (0), as configured.           *)
Filtered(w) == \E f \in m_filt : IsPrefix(f, w)
ChineseOf(w) == SelectSeq(w, LAMBDA c : c \in Chinese)
LettersOf(w) == SelectSeq(w, LAMBDA c : c \notin Chinese)
PinYinsOf(w) ==
  LET ch == ChineseOf(w)
  IN  IF ToSet(ch) \subseteq DOMAIN m_chword_pinyin
      THEN {f \in [DOMAIN ch -> UNION {m_chword_pinyin[c] : c \in ToSet(ch)}] :
              \A k \in DOMAIN ch : f[k] \in m_chword_pinyin[ch[k]]}
      ELSE {}
Listed ==
  {w \in DOMAIN m_whole_pinyin :
     m_whole_pinyin[w] >= wpy_thresh /\ Size(w) + 1 < STRMAXNUM /\ ~Filtered(w)}

(* The word, with each of its readings and what follows the Chinese.       *)
WholeLists ==
  UNION {{[pinyin |-> p, letters |-> LettersOf(w), word |-> w, weight |-> m_whole_pinyin[w]] :
            p \in PinYinsOf(w)} : w \in Listed}
FirstLists ==
  {[initials |-> [k \in DOMAIN e.pinyin |-> e.pinyin[k][1]], letters |-> e.letters,
    word |-> e.word, weight |-> e.weight] : e \in WholeLists}
WholeKey(e) == FlattenSeq(e.pinyin) \o e.letters

Kept(table, thresh) == {w \in DOMAIN table : table[w] >= thresh /\ ~Filtered(w)}
sortCHENWord ==
  /\ stage = "sortCHENWord" /\ stage' = "createIndex"
  /\ m_wpy2word' = WholeLists /\ m_fpy2word' = FirstLists
  /\ m_chword' = Restrict(m_chword, Kept(m_chword, ch_thresh))
  /\ m_whole_pinyin' =
       [k \in {WholeKey(e) : e \in WholeLists} |->
          MapThenSumSet(LAMBDA e : e.weight, {e \in WholeLists : WholeKey(e) = k})]
  /\ m_enword' =
       Restrict(m_enword, {w \in Kept(m_enword, en_thresh) :
         w \in DOMAIN m_whole_pinyin' => m_enword[w] >= en_thresh * 40})
  /\ UNCHANGED <<corpus, runs, failed, m_sin_chword, m_word_rword_weight, words2weight, readings,
                 files, given, complete, inited, loaded>>

-----------------------------------------------------------------------------
(* main() goes on whatever a stage returns; a file it cannot write stays   *)
(* as it was.                                                              *)
Saved(now, next, ok, new) ==
  /\ stage = now /\ stage' = next
  /\ files' = IF ok THEN new ELSE files
  /\ failed' = (failed \/ ~ok)
  /\ UNCHANGED <<corpus, runs, m_sin_chword, m_enword, m_chword, m_whole_pinyin, words2weight,
                 lists, given, inited, loaded>>

createIndex(ok) ==
  /\ Saved("createIndex", "savePinYin", ok, [files EXCEPT !.there = @ \union {"index"}])
  /\ UNCHANGED <<m_word_rword_weight, readings, complete>>

NotEmpty(table) == Restrict(table, {x \in DOMAIN table : table[x] # {}})
savePinYin(ok) ==
  /\ Saved("savePinYin", "savePinYinToWord", ok,
           [files EXCEPT !.there = @ \union {"pinyin"},
             !.pinyin = NotEmpty(m_pinyin_chword), !.reverse = NotEmpty(m_chword_pinyin)])
  /\ m_pinyin_chword' = IF ok THEN Empty ELSE m_pinyin_chword
  /\ m_chword_pinyin' = IF ok THEN Empty ELSE m_chword_pinyin
  /\ UNCHANGED <<m_filt, m_word_rword_weight, complete>>

savePinYinToWord(ok) ==
  /\ Saved("savePinYinToWord", "saveWordCooccur", ok,
           [files EXCEPT !.there = @ \union {"words"}, !.whole = m_wpy2word, !.first = m_fpy2word])
  /\ UNCHANGED <<readings, m_word_rword_weight, complete>>

SeenOften ==
  {p \in DOMAIN m_word_rword_weight :
     m_word_rword_weight[p] >= word_cooccur_num /\ Size(p[2]) + 1 < STRMAXNUM}
saveWordCooccur(ok) ==
  /\ Saved("saveWordCooccur", "end", ok, [files EXCEPT !.there = @ \union {"cooccur"}, !.cooccur = SeenOften])
  /\ complete' = IF failed' THEN complete ELSE corpus
  /\ UNCHANGED <<readings, m_word_rword_weight>>

(* The process ends, or is stopped on its way.                             *)
End ==
  /\ stage # "idle" /\ stage' = "idle"
  /\ m_sin_chword' = Empty /\ m_enword' = Empty /\ m_chword' = Empty /\ m_whole_pinyin' = Empty
  /\ m_word_rword_weight' = Empty /\ words2weight' = Empty
  /\ m_filt' = {} /\ m_pinyin_chword' = Empty /\ m_chword_pinyin' = Empty
  /\ m_wpy2word' = {} /\ m_fpy2word' = {}
  /\ UNCHANGED <<corpus, runs, failed, files, given, complete, inited, loaded>>

-----------------------------------------------------------------------------
(* Rectify::init: the tables are loaded in order, up to the first failure. *)
loadPinYin == "pinyin" \in files.there
loadWordCooccur == loadPinYin /\ given /\ "cooccur" \in files.there
ReadWords == loadWordCooccur /\ "words" \in files.there
ReadAll == ReadWords /\ "index" \in files.there

init ==
  /\ inited = "no"
  /\ inited' = IF ReadAll THEN "true" ELSE "false"
  /\ loaded' = [pinyin |-> IF loadPinYin THEN files.pinyin ELSE Empty,
                reverse |-> IF loadPinYin THEN files.reverse ELSE Empty,
                cooccur |-> IF loadPinYin THEN files.cooccur ELSE {},
                whole |-> IF ReadWords THEN files.whole ELSE {},
                from |-> complete]
  /\ UNCHANGED <<stage, corpus, runs, failed, counts, readings, lists, files, given, complete>>

(* The rectifier is restarted.                                             *)
Restart ==
  /\ inited # "no" /\ inited' = "no" /\ loaded' = NothingLoaded
  /\ UNCHANGED <<stage, corpus, runs, failed, counts, readings, lists, files, given, complete>>

Next ==
  \/ Start \/ processData \/ filtCHWord \/ sortCHENWord \/ End \/ init \/ Restart
  \/ \E ok \in BOOLEAN :
       readPinYin(ok) \/ createIndex(ok) \/ savePinYin(ok) \/ savePinYinToWord(ok) \/ saveWordCooccur(ok)

Spec == Init /\ [][Next]_vars

-----------------------------------------------------------------------------
(* Everything of one whole run was loaded.                                 *)
LoadedWhole == inited = "true" /\ loaded.from # NoCorpus

TypeOK ==
  /\ stage \in {"idle", "processData", "readPinYin", "filtCHWord", "sortCHENWord", "createIndex",
                "savePinYin", "savePinYinToWord", "saveWordCooccur", "end"}
  /\ runs \in 0 .. MaxRuns /\ failed \in BOOLEAN /\ inited \in {"no", "true", "false"}
  /\ corpus \in Corpora \union {NoCorpus} /\ complete \in Corpora \union {NoCorpus}

(* What the trainer lists under a pinyin, the rectifier can cut: each of   *)
(* its syllables is in the dictionary of the segmentation, though rare     *)
(* characters were dropped from that and not from the readings.            *)
ListsAreCut ==
  LoadedWhole =>
    \A e \in loaded.whole : \A k \in DOMAIN e.pinyin : e.pinyin[k] \in DOMAIN loaded.pinyin

(* Rectify::getRightAlNum for the first word: the letters and the number   *)
(* behind it, blanks before them skipped.                                  *)
IsBlank(t, i) == Is(t, i, "PUNC") /\ t[i].word[1] \in Blanks
RightFrom(t) == Min({f \in 2 .. Len(t) + 1 : ~IsBlank(t, f)})
RightEnd(t) ==
  Max({e \in 1 .. Len(t) :
         e > 1 => /\ RightFrom(t) <= e
                  /\ \A j \in RightFrom(t) .. e :
                       Is(t, j, "ALPHA") \/ (j = e /\ Is(t, j, "NUMBER"))})
rword(t) == FlattenSeq([j \in 1 .. RightEnd(t) - RightFrom(t) + 1 |-> t[RightFrom(t) + j - 1].word])

(* What of a text the recognisers look up in m_word_cooccur: letters with  *)
(* the number before them (ifWordCooccur); letters at the beginning with   *)
(* what follows, and at the end with the Chinese before (enwordRec); and   *)
(* Chinese with the letters and the number behind it, either way round     *)
(* (getWordFromDict, recCHWordByModel).  A number alone is taken for       *)
(* independent of the Chinese (ifRightIndep).                              *)
Asked(t) ==
  {<<t[i - 1].word, t[i].word>> : i \in {i \in DOMAIN t : Is(t, i, "ALPHA") /\ Is(t, i - 1, "NUMBER")}}
  \union {<<t[1].word, t[2].word>> :
            i \in {i \in {2} : /\ Is(t, 1, "ALPHA") /\ Size(t[1].word) < ShortLatin
                               /\ \/ Is(t, 2, "NUMBER")
                                  \/ Is(t, 2, "CHWORD") /\ Size(t[2].word) <= ShortChinese}}
  \union UNION {{<<t[1].word, rword(t)>>, <<rword(t), t[1].word>>} :
            i \in {i \in {2} : /\ Is(t, 1, "CHWORD") /\ Size(t[1].word) <= LongChinese
                               /\ Is(t, RightFrom(t), "ALPHA") /\ Size(rword(t)) <= LongTail}}

(* The trainer does not step over blanks (process_data.cpp:91): it counts  *)
(* what the recognisers ask for only in texts that have none there.        *)
Unspaced(t) ==
  IF Is(t, 1, "CHWORD") /\ Is(t, RightFrom(t), "ALPHA")
  THEN <<t[1]>> \o SubSeq(t, RightFrom(t), Len(t)) ELSE t

(* A text that was seen often enough, without blanks behind its first      *)
(* word, is left alone by all of them, with or without these blanks.       *)
NeighboursAreFound ==
  LoadedWhole =>
    \A t \in DOMAIN loaded.from :
      Unspaced(t) \in DOMAIN loaded.from /\ loaded.from[Unspaced(t)] >= word_cooccur_num =>
        {p \in Asked(t) : Size(p[2]) + 1 < STRMAXNUM} \subseteq loaded.cooccur
=============================================================================
