------------------------------- MODULE MCStores -------------------------------
(***************************************************************************)
(* The trainer, and the four kinds of stores that it writes and the        *)
(* rectifier reads, each on its own: a behaviour is one of one part, whose *)
(* variables are those of its module; the others' stay at an idle value.   *)
(***************************************************************************)
EXTENDS Integers, Sequences, TLC

VARIABLES
  store,                                                      (* which one *)
  hashPc, vec, pow, bucket, chain, table, b, last, file, hashLoaded, invalid,
  vectorPc, hashmap, left, tmpHash, offset, bin, vectorIndex, full, flag,
  memIndex, data, writes, vectorIntact, vectorSource,
  indexPc, todo, idInvert, idIndex, index, disk, loaded, mem, builds, intact, source,
  corpus, word_rword, start, m_rword, next, bigramPc, pos_file, prob_file,
  stage, counted, runs, failed, m_sin_chword, m_enword, m_chword, m_whole_pinyin,
  m_word_rword_weight, words2weight, m_filt, m_pinyin_chword, m_chword_pinyin, m_wpy2word,
  m_fpy2word, files, given, complete, inited, tables

hashVars == <<hashPc, vec, pow, bucket, chain, table, b, last, file, hashLoaded, invalid>>
vectorVars == <<vectorPc, hashmap, left, tmpHash, offset, bin, vectorIndex, full, flag,
                memIndex, data, writes, vectorIntact, vectorSource>>
indexVars == <<indexPc, todo, idInvert, idIndex, index, disk, loaded, mem, builds, intact, source>>
bigramVars == <<corpus, word_rword, start, m_rword, next, bigramPc, pos_file, prob_file>>
trainerVars ==
  <<stage, counted, runs, failed, m_sin_chword, m_enword, m_chword, m_whole_pinyin,
    m_word_rword_weight, words2weight, m_filt, m_pinyin_chword, m_chword_pinyin, m_wpy2word,
    m_fpy2word, files, given, complete, inited, tables>>
vars == <<store, hashVars, vectorVars, indexVars, bigramVars, trainerVars>>

-----------------------------------------------------------------------------
(* Keys with and without collisions, in the first and the last bucket.     *)
HashKeys == {"a", "b", "c", "d", "e", "f", "g"}
HashOf ==
  [k \in HashKeys |-> CASE k = "a" -> 1 [] k \in {"b", "c"} -> 5 [] k = "d" -> 3
                        [] k = "e" -> 7 [] k = "f" -> 4 [] k = "g" -> 11]
Hash == INSTANCE StaticHash WITH
  Keys <- HashKeys, Hash <- HashOf, MinPow <- 1, MaxPow <- 2, Pows <- {0, 3},
  MaxElements <- 4, pc <- hashPc, loaded <- hashLoaded

(* Lists of none to two items; a long item is cut to another one.          *)
VectorMaps ==
  { ("a" :> <<"x", "y">>) @@ ("b" :> <<"long">>) @@ ("c" :> <<>>),
    ("a" :> <<"y">>) @@ ("b" :> <<"y", "x">>),
    [k \in {} |-> <<>>] }
Vector == INSTANCE HashVector WITH
  Keys <- {"a", "b", "c"}, Items <- {"x", "y", "long"},
  Cut <- ("x" :> "x") @@ ("y" :> "y") @@ ("long" :> "x"), Maps <- VectorMaps,
  MaxWrites <- 2, pc <- vectorPc, index <- vectorIndex, intact <- vectorIntact,
  source <- vectorSource

(* Words that share keys and one that has a key twice.                     *)
Index == INSTANCE InvertedIndex WITH
  Words <- {"aab", "ab", "bc"}, Keys <- {"a", "b", "c", "aa"},
  KeysOf <- ("aab" :> <<"a", "a", "b", "aa">>) @@ ("ab" :> <<"a", "b">>) @@ ("bc" :> <<"b", "c">>),
  Weight <- ("aab" :> 1) @@ ("ab" :> 2) @@ ("bc" :> 5),
  Lexicons <- {{"aab", "ab"}, {"ab", "bc"}, {}}, MaxBuilds <- 2, pc <- indexPc

(* Texts in which pairs are frequent, rare, or become frequent together;   *)
(* any monotone function, and this one grows like a logarithm.             *)
BigramWords == {<<0, 1, 2, 0>>, <<1, 2, 1, 2>>, <<1, 0>>, <<0>>}
Bigrams == INSTANCE NgramTable WITH
  LastCode <- 3, Corpora <- {f \in [BigramWords -> 0 .. 2] : f[<<0>>] = 0}, MinPairs <- 2,
  Log <- [n \in 0 .. 20 |-> IF n < 2 THEN 0 ELSE IF n < 4 THEN 1 ELSE IF n < 8 THEN 2 ELSE 3],
  pc <- bigramPc

(* Each text is seen often alone, and all of them are rare or come to be   *)
(* frequent together.  "Z" has a syllable of its own and shares one.       *)
Marked(mark, word) == [mark |-> mark, word |-> word]
X == Marked("CHWORD", <<"X">>)
XY == Marked("CHWORD", <<"X", "Y">>)
ZX == Marked("CHWORD", <<"Z", "X">>)
Latin == Marked("ALPHA", <<"a">>)
Number == Marked("NUMBER", <<"1">>)
Blank == Marked("PUNC", <<" ">>)
Wide == Marked("PUNC", <<"__">>)
Comma == Marked("PUNC", <<",">>)
TrainerTexts ==
  { <<XY>>, <<X, Latin>>, <<X, Latin, Number>>, <<Latin, Number>>, <<Latin, XY>>,
    <<Number, Latin, Blank, ZX>>, <<X, Latin, Number, Marked("ALPHA", <<"b">>)>>, <<X, Comma, Latin, X>>,
    <<X, Blank, Wide, Latin, Number>> }
Trainer == INSTANCE Training WITH
  Texts <- TrainerTexts,
  Corpora <- {[t \in TrainerTexts |-> IF t = s THEN 30 ELSE 0] : s \in TrainerTexts}
             \union {[t \in TrainerTexts |-> w] : w \in {8, 15}},
  PinYin <- ("X" :> {<<"x">>, <<"h", "e">>}) @@ ("Y" :> {<<"y">>}) @@ ("Z" :> {<<"z">>, <<"h", "e">>}),
  FiltSets <- {{}, {<<"X", "Y">>}}, Chinese <- {"X", "Y", "Z"},
  Blanks <- {" ", "__"}, Rare <- 10,
  wpy_thresh <- 20, en_thresh <- 1, ch_thresh <- 20, word_cooccur_num <- 20,
  ShortLatin <- 3, ShortChinese <- 4, LongChinese <- 4, LongTail <- 3, STRMAXNUM <- 9,
  MaxRuns <- 2, corpus <- counted, loaded <- tables

ASSUME StoresAssumption ==
  /\ Hash!StaticHashAssumption /\ Vector!HashVectorAssumption
  /\ Index!InvertedIndexAssumption /\ Bigrams!NgramTableAssumption
  /\ Trainer!TrainingAssumption

-----------------------------------------------------------------------------
NoHash ==
  /\ hashPc = "" /\ vec = "" /\ pow = "" /\ bucket = "" /\ chain = "" /\ table = ""
  /\ b = "" /\ last = "" /\ file = "" /\ hashLoaded = "" /\ invalid = ""
NoVector ==
  /\ vectorPc = "" /\ hashmap = "" /\ left = "" /\ tmpHash = "" /\ offset = ""
  /\ bin = "" /\ vectorIndex = "" /\ full = "" /\ flag = "" /\ memIndex = ""
  /\ data = "" /\ writes = "" /\ vectorIntact = "" /\ vectorSource = ""
NoIndex ==
  /\ indexPc = "" /\ todo = "" /\ idInvert = "" /\ idIndex = "" /\ index = "" /\ disk = ""
  /\ loaded = "" /\ mem = "" /\ builds = "" /\ intact = "" /\ source = ""
NoBigrams ==
  /\ corpus = "" /\ word_rword = "" /\ start = "" /\ m_rword = "" /\ next = ""
  /\ bigramPc = "" /\ pos_file = "" /\ prob_file = ""

NoTrainer ==
  /\ stage = "" /\ counted = "" /\ runs = "" /\ failed = "" /\ m_sin_chword = "" /\ m_enword = ""
  /\ m_chword = "" /\ m_whole_pinyin = "" /\ m_word_rword_weight = "" /\ words2weight = ""
  /\ m_filt = "" /\ m_pinyin_chword = "" /\ m_chword_pinyin = "" /\ m_wpy2word = ""
  /\ m_fpy2word = "" /\ files = "" /\ given = "" /\ complete = "" /\ inited = "" /\ tables = ""

Init ==
  /\ store \in {"hash", "vector", "index", "bigrams", "trainer"}
  /\ IF store = "hash" THEN Hash!Init ELSE NoHash
  /\ IF store = "vector" THEN Vector!Init ELSE NoVector
  /\ IF store = "index" THEN Index!Init ELSE NoIndex
  /\ IF store = "bigrams" THEN Bigrams!Init ELSE NoBigrams
  /\ IF store = "trainer" THEN Trainer!Init ELSE NoTrainer

HashStep ==
  /\ store = "hash" /\ Hash!Next
  /\ UNCHANGED <<store, vectorVars, indexVars, bigramVars, trainerVars>>
VectorStep ==
  /\ store = "vector" /\ Vector!Next
  /\ UNCHANGED <<store, hashVars, indexVars, bigramVars, trainerVars>>
IndexStep ==
  /\ store = "index" /\ Index!Next
  /\ UNCHANGED <<store, hashVars, vectorVars, bigramVars, trainerVars>>
BigramStep ==
  /\ store = "bigrams" /\ Bigrams!Next
  /\ UNCHANGED <<store, hashVars, vectorVars, indexVars, trainerVars>>
TrainerStep ==
  /\ store = "trainer" /\ Trainer!Next
  /\ UNCHANGED <<store, hashVars, vectorVars, indexVars, bigramVars>>

Next == HashStep \/ VectorStep \/ IndexStep \/ BigramStep \/ TrainerStep

Spec == Init /\ [][Next]_vars

-----------------------------------------------------------------------------
(* Type correctness of each part.                                          *)
TypeOK ==
  /\ store = "hash" => Hash!TypeOK
  /\ store = "vector" => Vector!TypeOK
  /\ store = "index" => Index!TypeOK
  /\ store = "bigrams" => Bigrams!TypeOK
  /\ store = "trainer" => Trainer!TypeOK

(* A lookup in the keyless table gives the value stored under the hash of  *)
(* the key, or the invalid value, and its scan of a bucket ends in the     *)
(* table: static_hash_map.                                                 *)
HashLookupIsRight == store = "hash" => Hash!LookupIsRight /\ Hash!ScanStaysInTable

(* Behind a write that returned true every key has its list, whatever      *)
(* write was interrupted before: static_hash_vector.                       *)
VectorLookupIsExact == store = "vector" => Vector!LookupExact

(* A loaded index gives every key its words: IndexCreator.                 *)
IndexIsFaithful == store = "index" => Index!IndexIsFaithful

(* Every pair that was not dropped is found with its weight, and what      *)
(* load() accepts is a table: NgramModel.                                  *)
BigramsAreRight == store = "bigrams" => Bigrams!ShiftProbIsRight /\ Bigrams!LoadedIsTable

(* What one whole training wrote fits together when it is loaded: the      *)
(* pinyin of every listed word can be cut, and what was often seen         *)
(* together is found under the names the recognisers ask for.              *)
TablesFitTogether == store = "trainer" => Trainer!ListsAreCut /\ Trainer!NeighboursAreFound
=============================================================================
