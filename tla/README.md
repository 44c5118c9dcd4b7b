# query_rectify: TLA+ models

Specifications of `query_rectify`, a C++ library that corrects search queries (Chinese words, pinyin, English
words and product model numbers mixed in one string), and of the programs around it. The modules are
translated from the code; the comments in the source are used only where a run confronts the code with them.

Paths below are relative to `src/` unless they name a module of this directory. The sources are in GBK.

## 1. The system

| Component | Code | State it keeps | Operations |
|---|---|---|---|
| Query correction | `rectify/src/rectify.cpp` | per call: split words, loop index, pending pinyin run, answer, confidence | `rectify`, `processRec`, recognisers (`ngramRec`, `wholePinYinRec`, `firstPinYinRec`, `chwordRec`, `enwordRec`, `nearwordRec`) |
| Initialisation | `rectify.cpp:23`, `rectify/src/main.cpp` | dictionaries loaded so far | `init`, a sequence of loads with early returns |
| Circular file queue | `util/circle_queue.{h,cpp}` | two offsets and the records, in a mapped file | `InitializeCircleQueue`, `StoreToCircleQueue`, `ReadFromCircleQueue`, `PeekAllFromQueue`, `PeekSessionsFromQueue`, `SetReadOff`, queries of the offsets |
| Text splitting | `util/encode_process.h`, `util/string_process.h` | none | `splitCHAlNum`, `splitCHEN`, `delquestionmark` |
| Pinyin readings | `util/pinyin_process.h` | the table of readings | `getWholePinYin`, `getFirstPinYin` (a cross product of the readings of the characters) |
| Pinyin segmentation | `util/word_segment.*`, `seg_graph.*`, `kshortpath.*` | word net, slots of each vertex | `GenerateWordNet`, `ShortPath`, `Output`, `word_sect_all` |
| Segmentation dictionary | `util/dictionary.*` | a trie in one array, its nodes moved on insertion | `insert`, `search`, maximum matching (`fmm`, `bmm`) |
| N-gram model | `util/ngram_model.*` | transition tables | `create`, `save`, `load`, the Viterbi search `findBestPath` |
| Static hash tables | `util/static_hash_vector.h`, `nokey_static_hash.h`, `hash_wrap.h`, `BitMap.h` | bucket arrays | build, save, load, lookup |
| Inverted index | `util/index_create.cpp`, `chword_create.cpp`, `enword_create.cpp`, `whole_pinyin_create.cpp` | key to candidate lists | build, retrieve and merge candidates |
| Edit distance | `util/edit_distance.h` | none | `edit_distance` and its bounded variants |
| Training | `train/src/process_data.cpp` | files written by each stage | the stages, in the order `main` calls them |
| Conversions | `util/Character.h`, `util/code_convert.h` | none | tables, a wrapper of `iconv` |

How they interact. `train` writes the data files; `Rectify::init` loads them; `rectify` calls the splitter, the
hash tables, the pinyin tables, the segmentation and the recognisers, which call the index, the edit distance
and the n-gram model. All of that is sequential: one call is a long chain of branches over the state of the
call. The only concurrency is in the queue, where a writer process and a reader process share a file without a
lock and either may crash.

What is hard in it:

* `rectify` keeps a *pending run* (`start`, `whole_pinyin`) over iterations. Some thirty branches extend it,
  replace it, write it out or leave it, several of them consume words ahead (`i = end`) or look two words
  ahead. What must hold is about the whole call: every word comes out once and in order, indices are in range,
  the confidence is that of the weakest change, whitelisted words stay.
* the queue decides from an offset that the other process moves, turns around at the end of the file by a flag
  in front of a published offset, and hands an offset from one call to a later one.
* `KShortPath` moves array rows that other rows refer to by index.
* `init` and the training pipeline fail half way; the trie relocates nodes; the banded edit distance, the
  16-bit n-gram indices and the keyless hash have boundaries of their own.

The hazards, each with the line where it bites and the property that covers it, are the list `hazards` of
`PROJECT.json`. A hazard without a property has a note that says why.

## 2. Modules

| Module | Models | Checked by | Kind |
|---|---|---|---|
| `RectifyQuery` | one call of `Rectify::rectify` | `MCRectifyQuery` | detailed |
| `RectifyQueryProofs` | theorems about it | | proofs |
| `NgramRec`, `PinYinDict`, `PinYinRec`, `WordRec` | the recognisers `rectify` calls | `MCCalls` | detailed |
| `CircleQueue` | writer, reader, mapped file, crashes | `MCCircleQueue` | detailed |
| `CircleQueueProofs` | theorems about it: the file; what comes out of it | | proofs |
| `RecordFifo` | what a queue of records is | `MCCircleQueue` | abstract |
| `KShortPath`, `SegmentAll` | word net, shortest segmentations, the sections made of them | `MCSegmentAll` | detailed |
| `SegmentProofs` | theorems about both, and about `AllPaths`, `GreedySegment` and `PinYin` | | proofs |
| `AllPaths`, `GreedySegment` | the other segmentation strategies | `MCCalls` | detailed |
| `DictionaryTrie` | the double-array trie | `MCDictionaryTrie` | detailed |
| `WordTable` | what a dictionary is | `MCDictionaryTrie` | abstract |
| `DictionaryProofs` | theorems about the trie | | proofs |
| `Distances`, `EditDistance` | the distances as operators; the banded one step by step | `MCCalls` | detailed |
| `EditDistanceProofs` | theorems about the banded one | | proofs |
| `WordCreator` | search for words near a word, in three versions | `MCCalls` | detailed |
| `InvertedIndex` | the index the creators search, its files | `MCStores` | detailed |
| `StaticHash`, `HashVector` | the two hash tables and their files | `MCStores` | detailed |
| `StaticHashProofs` | theorems about both | | proofs |
| `SetInduction` | induction and recursion in a form the proofs can use | | proofs |
| `NgramTable`, `BestPath` | the table of the language model; the search over it | `MCStores`, `MCCalls` | detailed |
| `NgramProofs` | theorems about the search, and about `NgramRec` | | proofs |
| `Training` | the trainer's stages and `Rectify::init` | `MCStores` | detailed |
| `SplitText`, `Character`, `PinYin` | splitting, conversion, readings | `MCCalls` | detailed |

`MCStores` and `MCCalls` compose modules that share no state: a variable `store` or `call` says which of them a behaviour
is about, its variables are those of the module, the others' stay at an idle value. A property of the composition
is the conjunction of properties of the parts. The inputs and bounds of each part stand beside its INSTANCE, and in
`MCInputs`.

### RectifyQuery

State: the locals of `rectify`, under the source's names. `pc` is `start` before the loop, `scan` in it, `done`
after it. Positions are numbered from 1, so `start = 0` is the code's `start = -1`.

A word is a record of what the branches ask of it: its mark, its size in bytes, whether the whitelist or the
correction table has it, whether a pinyin reading exists, whether `ifHavBlank` skips it, whether
`recSingleChar` knows it. The answer is a sequence of pieces, each with the set of word positions it stands
for; this is what "no word lost" and "in order" are stated on. What a recogniser answers depends on the data
files, so whether it answers, what it is worth and whether it differs are free choices, within what the code
around the call guarantees (for example `ngramRec` cannot return the letters it was given).

Every way an iteration ends is an action. `WordWhite`/`WordFix` are the lookups at the loop head;
`AlphaLetter` … `EnglishAsPinYin` the branches for letters; `ChineseLong` … `ChineseNone` those for Chinese;
`OtherWord` numbers and punctuation; `Before` and `After` what precedes and follows the loop.

Not obvious from the code, and visible in the model:

* a Chinese word without a reading (line 1380) writes the pending words and itself and leaves the run pending.
  The next word that resolves the run takes them again, or takes the word with them. Hence the condition
  `AllRead` of `NoWordLost` and `InOrderOnce`;
* the Chinese branch over a blank (1392–1400) does not step over the blank as the pinyin branch (1222) does,
  so the blank is written before the words around it: the condition `NoChineseBridge` of `InOrderOnce`;
* a run of several words compares the correction with its last word only, so it is always counted as changed;
* `nearwordRec` may replace a query of one Chinese word that was whitelisted in the loop, because
  `delquestionmark` took something from the string the first lookup saw.

### CircleQueue and RecordFifo

State: the two offsets of the header and the cells behind it; the writer's and the reader's locals with a
program counter each; and history variables (`log`, `taken`, `passed`, `logged`, `numbered`) that no action
reads. A cell holds what its bytes stand for. The writer takes one step per store to the mapping (flag,
stamp, length, payload, published offset), in the order of the code; the reader one step per decision. Actions
and functions correspond by name: `StoreHere`, `StoreAtStart`, `StoreFlag` … `Publish` are
`StoreToCircleQueue`; `Read*` are `ReadFromCircleQueue`; `PeekAll`, `PeekSessions`, `Find*`, `Walk*` the two peeks;
`SetReadOff` itself. `Submit`, `ReadUsed` and `WriteOut` are the callers, which are not in the repository;
they do what the interface asks for (retry on BUFFER_FULL, use the returned pointer, write the copied text and
then release).

Stores of one process become visible in program order. That is an assumption: the code uses plain `int`
pointers. It is what the platforms the build targets (x86) do with the stores the compiler emits in this
order.

`RecordFifo` is the abstract queue: append one record, drop some from the front. `Queued`, the refinement
mapping, is what a walk from the read offset finds in the file, so the mapping depends on the shared file alone
and not on the history.

Not obvious from the code: a record of more than half the file may find the queue empty with both offsets in
the middle and room on neither side, and then waits for ever (`Small` in `StoreIsServed`); a reader that only
peeks whole sessions releases nothing when one unfinished session fills the file; a payload must end in a zero
byte, since the peeks copy it out as a C string.

### KShortPath and SegmentAll

State: the word net, and for each vertex its row of slots (`value`, `pre`, `ks`, `label`). `Settle` is one
`GetsPath`; `Stop` the end of the loop of `ShortPath`; `Output` an operator. The dictionary decides which words a
text contains, so the initial state takes any set of words of at most `MaxWordLen` letters. The edges of a
vertex are visited in one step: they lead to different vertices.

An insertion starts its search at slot `value_j`, shifts the rest of the row and leaves labels and the links of
other rows alone. That this is right depends on the order in which slots are settled, and is what `FilledIsFinal`
and `OutputIsShortest` check.

`SegmentAll` adds what `word_sect_all` makes of the routes: `Cut` reads each row of cells up to the first -1, which is
what `new` and the loop in front of `Output` put there. A route may have as many cells as the text has letters and one
more; the code allocates 512 and does not compare (`SegmentAllAssumption`).

### AllPaths and GreedySegment

`AllPaths` is `_getNode` and `_getPath` with their two stacks. `_node` is a list by beginnings and then by ends; the model has the set of
its places, and `From` gives those with one beginning in that order, which is all that the walk asks of it. What `_getPath` keeps of a
path when it tries the next word is decided by ends alone (`Kept`: the path up to the last place that ends before the new one does), and
works because longer words are tried first: `BufferFitsPath`. `GreedySegment` is
`word_sect(pText, pResult, a)`. Its backward pass steps back by one byte where no word ends and so may stop inside a
Chinese character; only the forward pass is promised to stay on characters.

### DictionaryTrie and WordTable

State: the arrays `base`, `check` and `detail`, the tail and the counters of the object; what `update` wrote; and what
`search`, `fmm` and `bmm` now answer, kept so that each is computed once per state. `insert` is one action: it is
sequential and no caller sees its inside. `CHANGE_BC` moves the children of one of two nodes, one after the other, with
the bytes written to arrays in the order of the code, since a moved node's own children are found by their CHECK.
The arrays grow when they are written to, as in the code, where each write first calls `REALLOC_BC` or `REALLOC_TAIL`; what was
never written is zero, and `m_nBC_POS`, the highest node written, bounds what is read. Memory does not run out in the model (the
code exits). `CHANGE_BC` and `X_CHECK` run over lists of bytes that end with a zero, by loops that do their body once before they
look; the model's do nothing for an empty list. The lists are never empty: see `DictionaryProofs` below.

The abstract `WordTable` gives a word the next number when it is first inserted, never another one, and lets a table be
saved and taken up again. `ImplementsWordTable` is the refinement, by what `search` answers.

### Distances, EditDistance, WordCreator, InvertedIndex

`Distances` has every distance of `edit_distance.h` that fills a table or just counts, and a reference, `LeastEdits`: the
least cost of pairing places of both words in order. `EditDistance` is the banded programme, one row a step, in memory
that an earlier call has left behind: cells outside the band are read, and the walls of 100 are what makes that
harmless. The wall to the left is written without a check against the row's end; `WritesStayInRow` says it needs none.

`WordCreator` holds the three creators in one module, with `kind` for what differs: lengths, keys, filters, order, cut.
A step is one key. Which words share a key is computed from the words (`ListOf`); `InvertedIndex` checks that the index
delivers that. `InvertedIndex` is the builder of `IndexCreator`, which numbers words and keys as they come, merges the
lists and writes six files, with crashes and failing files, and the reader that loads them between any two steps. `saveKey`
cuts every name at 25 bytes (`resize`); that is the identity here, as the creators make no longer ones.

### StaticHash and HashVector

`StaticHash` builds `nokey_static_hash.h` element by element and bucket by bucket. No key is stored, so two keys with one
hash share what is found, and `std::sort` may order them either way. A lookup scans until the hashes leave the bucket;
the mark behind the last element is what ends the scan of the last bucket. `HashVector` writes `X.bin` and then the index
`X`, each in pieces, with crashes, full disks and a reader at any moment. It promises something to a reader only behind
a `write` that returned true; a table left from an interrupted write is accepted by `read` when the older file of the
two is large enough, and answers from the wrong items. `VectorLookupIsExact` therefore asks for `intact`.

### NgramTable and BestPath

`NgramTable` is `create`, which counts pairs, drops the rare ones and lays out the others with one array of starts that
moves up to the ends and down again; `save`; `load`, at any time; and `getShiftProb`, by halves. For the last code it
reads one start beyond the array, which `ShiftProbIsRight` leaves out. `BestPath` is `findBestPath` over 16-bit weights,
with the second best text found by striking out where the first one passed.

### The recognisers: NgramRec, PinYinDict, PinYinRec, WordRec

`RectifyQuery` lets a recogniser answer freely; these modules say what each one answers. `NgramRec` takes the texts that
`BestPath` may give and chooses. `PinYinDict` is `getWordFromDict` and `recCHWordByModel`; `PinYinRec` puts `wholePinYinRec`
(for a word and for a run) and `firstPinYinRec` on top of it, one candidate a step. `WordRec` is `chwordRec`, `enwordRec` and
`nearwordRec`. Thresholds in bytes are constants, made small in the instance so that words of one to three characters
lie on both sides.

Not obvious from the code: the confidence of `ngramRec` is computed with the length of the last segmentation looked at,
not of the one chosen, and divides by a weight that must not be 0 (`NgramRecAssumption`); `enwordRec` looks behind a
number for the original word, not for the candidate.

### SplitText, Character, PinYin

`SplitText` has the two splitters, byte by byte, on texts of all kinds of bytes, malformed ones included.
`Character` has the three conversions in place, where one index reads ahead of the one that writes. The table of 3004
entries is a constant; what is assumed of it (`CharacterAssumption`: no image is converted again, none is wide or a
blank) holds of the table in `Character.h`. `ConvertDigitAlpha` leaves a full-width Z alone, and reads past half a
character at the end of its text; such a text is not among its inputs. `PinYin` goes down the characters of a word with
one vector and back up, as the recursion of `getPinYin` does.

### Training

One step is one stage of `main`, or the whole of `init`. A stage may fail and `main` goes on; the process may be stopped
between two stages and started again on other data, and the rectifier loads what is there at any moment. `complete` is
the corpus when the last run saved everything. The promises are about tables written by different stages from one
corpus, after different filters: `ListsAreCut` and `NeighboursAreFound`.

A text that was seen often should be left alone, which takes that the pairs the recognisers ask for are those the trainer
counted. They cut differently: `getRightAlNum` steps over blanks behind the Chinese word (`rectify.cpp:395`), `processData`
stops there (`process_data.cpp:91`). So "X a1" counts nothing for (X, "a1"), however often it is seen, and is left alone only
when "Xa1" was seen often enough; `NeighboursAreFound` promises it of the text without these blanks (`Unspaced`), for
queries with and without them. A dot behind a digit is a second difference, `splitCHAlNum` being called with `distin` by the
trainer only; the texts of the model have none.

Not obvious from the code: `filtCHWord` drops rare characters from one of the two tables of readings only; nothing writes
`m_word_rword` any more, which `init` requires (the file must come from elsewhere: `given`); the result of most stages is
not looked at.

## 3. Runs

Bounds are CONSTANTs of the cfg files, or stand beside the INSTANCE in `MCStores` and `MCCalls`.

| Run | Question | Bounds | Outcome |
|---|---|---|---|
| `rectify_broad` | all branches of the loop: types, run, confidence, whitelist, progress | lexicon of 18 words, up to 3 words (4 are refused), 2 weights | holds |
| `rectify_runs` | words and order in long runs | 9 words of the lexicon, up to 5 in a query | holds |
| `rectify_stale` | the comment at `rectify.cpp:1338`: no run is pending when a single character is corrected | 5 words of the lexicon, up to 5 in a query | violated |
| `queue` | storing against all reader calls mixed: the file, the walks, nothing lost, sessions, `RecordFifo` | file of 17 cells, 5 records of 0, 1 or 2 cells, 1 crash | holds |
| `queue_sessions` | a reader of whole sessions | 6 records, 1 crash | holds |
| `queue_served` | a retrying writer is served, records leave | file of 20 cells, records of 0, 2, 9 cells, 5 of them, 1 crash | holds |
| `queue_returned` | `circle_queue.h:5`, lock free for one reader and one writer: the record returned is stable | 6 records | violated |
| `queue_header` | `circle_queue.cpp:15`: the order of the header's fields | 3 records | violated |
| `segment_all` | the segmentations returned are the shortest, shortest first, each once; the rows made of them cover the text; the search returns | all word nets of 5 letters, 3 slots, rows that just fit | holds |
| `stores` | hash tables, index, table of pairs and trainer: what is loaded answers as what was stored | see below | holds |
| `dictionary_trie` | the trie implements a table of words; longest matches | 6 words that collide and begin each other | holds |
| `calls` | every function `rectify` calls, from call to return | see below | holds |

Parts of `stores`: a hash table of up to 4 elements from 7 keys, with collisions of hashes and of buckets; 3 maps
written twice; an index of two of 3 words built twice; 4 words of 4 codes with all weights up to 2; 9 texts, trained twice.
Parts of `calls`: all pairs of words of up to 4 bytes; lexicons of one to three of 7 words; rows of up to two characters
with any weights of a small set; all word nets of 5 letters for the walk over all paths, all texts of 4 bytes for the greedy
one, for splitting and for conversion; words of up to 3 characters with all tables of readings; and for the
recognisers all combinations of the inputs of `MCInputs`.

Why the bounds are enough to be of use.

* `RectifyQuery`: a branch looks at most one word back, two ahead, and at a run of letters to the right; a
  run needs two words to begin and one to end. The limit of 8 words is 3 in `rectify_broad`, so that queries at the
  limit go through the loop and those above it are refused. Three words from a lexicon that has a word for every
  branch fire all of them, the bridges and the looks over a blank too; blanks are of both kinds `ifHavBlank` takes
  (`rectify.cpp:199`, `201`), and so two of different marks may be adjacent. Five words from the nine that make and
  break runs, under the limit of the code, give a run, a bridge, an end and a second run. The theorems of section 5
  hold without bounds.
* `CircleQueue`: 14 cells behind the header and records of 3 to 5 cells: two to four records fill the file, so
  five records turn it, with every distance between the offsets at the turn. One crash, of either
  process at any step; a second crash finds nothing the first does not leave, since a restart begins in the
  same place. The theorems about the queue hold without bounds.
* `KShortPath`: five letters have up to 16 segmentations and a vertex three slots, so rows overflow on the
  inner vertices as well as on the last.
* stores: each builder meets an empty, a single and a shared list or bucket, a second run over files left by a
  first, and a reader in between. Three of the four crash; the trainer also runs with stages that fail.
* the trie: six words are enough for both sides of a collision to move, for a moved node with children, for a tail that
  is split and for a word that ends inside another.
* the functions of `calls` have no state from call to call, but for the rows of `EditDistance`, which start with
  anything in them. Words of four units on both sides leave the band of width 1 and 2 on every side.

Fairness. `queue_served` assumes weak fairness of the writer's steps of a store (a writer that is told
BUFFER_FULL tries again; no fairness of submitting) and of the reader's steps (a log reader in a loop of peek,
write, release). Crashes are never assumed, and not excluded. `segment_all` assumes weak fairness of the only
thread there is. The other runs use safety specifications.

`CHECK_DEADLOCK FALSE` stands where the modelled call returns (`RectifyQuery`, `SegmentAll`, `MCCalls`), where stores and
trainer have run as often as the instance lets them (`MCStores`), and in the queue runs with a plain reader, where
all records of the instance get stored and read and both sides are done.

Each property of a passing run is also checked against a mutant, a definition of the module changed the way a
plausible bug would; the variants (`FitsAtStartLoose`, `ClearStartOnly`, `CopiesButLast`, …) stand next to the
definitions they replace, and no specification uses them.

## 4. Where code and comments disagree

* `rectify.cpp:1338` says that `whole_pinyin` is certainly empty on the single-character branch. The stale run
  described in section 2 reaches it.
* `circle_queue.h:5` promises a lock-free queue for one reader and one writer. `ReadFromCircleQueue` releases the
  record (line 141) before its caller has used the pointer it got, so the writer may overwrite it. The peek
  interface does not have this: it copies first and releases by `SetReadOff`.
* `circle_queue.cpp:15` gives the header as size, write offset, read offset. The code has the read offset second.

## 5. Proofs

Checked by TLAPS, for every value of the constants that satisfies the ASSUME of the module. Besides types these say: for
`RectifyQuery`, that a blank word has a mark of punctuation, ENPUNC or CHPUNC (`ifHavBlank` takes no other); for `KShortPath`, at least two vertices, one slot, and `MAX` above any
length; for `SegmentAll`, rows as long as the text; for `CircleQueue`, a file with room for a stamp behind the header; for `DictionaryTrie`, words and texts
without the byte that ends a word (a line break, at which the code's readers cut) and without zeros. The
modules without an ASSUME of their own name an assumption, which the theorem takes as a hypothesis and `MCStores` or
`MCCalls` checks of its instance: for `AllPaths` and `GreedySegment`, that the length of the text is a natural number, which may be 0; for `EditDistance`, limits `max_ed` from 1 to 99 (`Far`, the wall, is 100 in the code; the
limit is a value of the configuration, 2 when it is missing); for `HashVector`, that cutting an item twice is cutting it once; for `BestPath`, at
most 33 rows without repetitions, since a query has at most 30 bytes (`rectify.cpp:1073`), and weights up to 1699, since each is the difference of the
logarithms of two counts of 31 bits, the smaller at least 90 (`ngram_model.cpp:99`, `124`), in hundredths; for
`NgramRec`, at most two texts to a segmentation, none of them empty, with weights above 0 and below 0xffff; for `StaticHash`, that the
least number of buckets is 2 or more; for `PinYin`, that the syllables of a character differ.

**SetInduction.** The prover cannot instantiate the library's induction theorems, which take an operator. `Least`, `Induction` and
`InductionDown` state induction for a *set* of numbers, which a proof names and hides; `Levels` and `LevelsUp` show that a recursive
function exists whose value at *n* is a given step applied to the values below (above) *n*; `Iteration` does the same for a step that
needs only the value before it. With them, the functions
the models define by recursion (`Walk`, `Trace`, `Pushed`, `EditRows`, `ChainEnd`, `Members`, `ScanEnd`, `Power`, `Path`, `Chain`, `Moved`, `UpTo`, `PathsTo`) are shown to satisfy their equations
for every input. For this these functions are recursive functions of one argument, curried where they need two.

**RectifyQueryProofs.** `TypeCorrect`, `RunPaired`, `LoopAdvances`, `WeakestReported`, `WhitelistHolds`, `NoWordIsLost`,
`AnsweredInOrderOnce`.
The inductive invariant is `IInv == TypeOK /\ RunIsPaired /\ Fresh`: `TypeOK` alone is not inductive, because
that `Emit(start, i)` copies existing words needs `start` to be set whenever a run is pending, and `Fresh` (the
locals have their initial values before the loop) is needed to enter it. The thirty actions are first reduced
to one: `IterationIsScanStep` shows that each iteration writes pieces of words up to the new cursor
(`AnswerStep`), leaves the run in one of a few forms (`RunStep`) and moves the cursor. The invariants are then
proved of that step. `ConfidenceIsWeakest` is proved on top of `IInv`, by what appending unchanged pieces or one
correction does to the set of changes. `TrustedWordsUntouched` needs one strengthening, `NoRunTrusted`: in a query
of whitelisted words no run ever begins. `NoWordLost` and `InOrderOnce` rest on `AInv`: every word the loop has passed is in the answer, in the pending run, or a
blank (`Covered`); the answer's pieces stand for increasing words, all of them before the run (`Ordered`); and a pending run waits at a
word that will resolve it (`RunWaits`), so that no iteration starts a second run over a first. An iteration then does one of three
things, `WriteStep`, `HoldStep` and `PassStep`. The conditions of the two properties (`AllRead`, `NoChineseBridge`) exclude the branches of
section 2.

**SegmentProofs.** First about the slots: `TypeCorrect`, `RowsStaySorted`, `WaysAreLinked`, `WaysAreFinal`. The inductive invariant
adds to the properties `ZeroSettled`, `Bounded` (a way to vertex *v* has fewer than *v* edges behind the first, hence
`MAX` is never reached), `Frontier` (a way is at most one longer than any open one, because the cheapest open
slot is settled first) and `Offered` (a settled slot *s* has filled slot *s* of every successor, which is why the
search for a place may start at `value_j`). From `Frontier` and `Offered`, `InsertedFillsEmpty` shows that an insertion
puts the way into the first empty slot of a sorted row and moves nothing.

Then about the results: `ShortestAreReturned` and `SegmentationsCoverText`. Filled slots of a vertex trace different paths
of the slot's length (`OutputInv`). An induction along the text shows of every path of the net that it is in a slot, or lost against a
full row that is no longer, or still to come behind an open slot (`Reached`); when `Stop` is possible nothing is still to come, so what is
returned are the shortest. The segmentations are the routes in reverse, and `CutInv` says what `Cut` makes of a row of cells that begins
with a route and goes on with -1.

Last about `AllPaths`: `AllPathsTypes`, `BufferAlwaysFits` and `EverySegmentationPrinted`. Neither property is inductive: they say
nothing of the places below the top of the buffer, which were pushed for paths that have been left since. `Walk` is: the ends rise up the
buffer (`Raised`), so the longest word is tried first; no place of the buffer is on the path (`Untried`); each
place of the buffer, put on what of the path ends before it (`Held`), joins it; the printed segmentations differ; and a segmentation is
printed exactly if it does not begin with what is held for a place of the buffer (`Awaited`). By `OneBegins`, no segmentation
begins with what is held for two places. So a step that tries a place replaces the segmentations that wait for it by those that wait
for its successors, or prints the one it completes, and loses none and repeats none. When the buffer is empty nothing is awaited.
`PathsToIs` shows that what the property compares with, `PathsTo`, is the set of segmentations.

`GreedySegment`: `GreedyStaysInText` and `GreedyKeepsCharacters`. Whole characters compose (`WholeOn`), and what is left of whole
characters behind whole characters is whole (`WholeRest`); so the two bytes that are taken where no word begins are never more than
are left.

`PinYin`: `AllReadingsReturned`. The iterators of the calls in progress stand for the choices of readings that come before them, in the order
of the first character on which two choices differ (`Behind`); the results are what these choices read, each once (`ReadBy`). A call for the
next character begins at its first syllable and so changes nothing of this; at the end of the word one choice is added and the
deepest iterator that can goes on (`AdvanceRead`); if none can, no choice is left (`LastRead`). As a character's syllables differ, two choices never
read the same (`ReadsDiffer`).

**CircleQueueProofs.** `TypeCorrect`, `QueueStaysIntact`, `StoresStayClear`, `PeeksAreFaithful`, for files and records of any
size, any number of records and of crashes. None of the four is inductive. `IInv` adds:

* `Chain`. The unread records lie in at most two stretches, one from the read offset up and, once the writer has turned
  around, one from the start of the file up to the write offset. `Upper` says in which of them a record is; a record
  begins where the one before it ends, or is the first of the second stretch and then a flag is where the one
  before it ends (`Placed`), and later records lie behind earlier ones of their stretch (`Before`). `QueueIntact` alone does not say
  that records do not overlap, which is what a release or a turn of the reader needs.
* `Storing`: what the writer has written so far, and that its place is still behind the last record (`Here`) or in front
  of the reader (`AtStart`), though the reader has moved since it looked. `WriterStaysClear` follows from this alone.
* `Reading`: the walk stands at a record's place, and the place where it will stop is that of a later record, or of a
  mark, although the writer may have published more.

The stores of the writer go through one lemma, `StoreKeepsRecords` (a write outside the cells a reader may walk
changes no record); `PublishStep` adds a record to the chain; all releases are one lemma, `Advance`, and the turn
of the reader another, `FollowFlag`. `WalkAt` shows that a walk meets its stop exactly at the record it was set to: two
places among the records are never equal.

Then what comes out of the queue: `NoRecordIsLost`, `QueueImplementsFifo`, `SessionsStaySeparate`, `SessionsHaveOneNumber`. On top of `IInv`, the
recursive function `Walk` is shown to find in the file exactly the records not yet taken, in order. With that, the
refinement of `RecordFifo` is one step per action: `Publish` appends, a release drops from the front, all else changes
nothing of what a walk finds. `Logging` says that what is released, or is about to be, has been returned or
written out. `NumberInv` relates the numbers given so far to the counter and to the marks between the records: a session is open
while the counter stands at its number (`SessionIsOpen`), and for a reader of whole sessions a mark has come when it has moved
(`SessionIsClosed`); with `PeekAll` mixed in the second fails, and a session may get two numbers.

**EditDistanceProofs.** `DistanceTypeCorrect`, `BandedDistanceIsExact`, `WallStaysInRow`. The table (`EditRows`) is smooth: neighbours differ by
at most one (`TableIsSmooth`), and a cell is at least its distance from the diagonal (`TableIsFarEnough`). The invariant says of the row
behind the cursor that its cells in the band are exact where the table is at most `max_ed` and larger than `max_ed` elsewhere, the walls
included (`RowBehind`, `BandRight`); `StepIsRight` shows that three such neighbours make another. The early return is right because every path
through the table passes every row (`EveryRowMatters`). Cells never exceed the length of the first word or 100, so the code's `char` is wide enough for
words of up to 127 bytes; that longer ones are not compared is the callers' matter.

**StaticHashProofs.** `HashTypeCorrect`, `ScansEnd`, `LookupsAreRight`. Chains: every element leads to the next one of its bucket (`Linked`), a bucket
to its first (`IsHead`); so `ChainEnd` is the last and `Members` the whole bucket. Packing turns each bucket into a run of the table (`IsRun`):
all its elements, in order of their hashes, followed by a hash of another bucket. Of the last run the end mark says so (`MarkIsElsewhere`),
which needs two buckets. `NoMoreThanElements` counts the table by its different values, so no position is larger than the number of
elements. `ScanInRun` then shows where a scan stops.

Then about `HashVector`, taken in as an instance: `VectorTypeCorrect`, `ListsAreReadBack`. `Writing`: the offsets noted for the keys written so far point at their lists in the items
written so far, and lists do not reach into what comes later. `Complete`: after a write that returned true the index has exactly the
keys of its map, and each entry fits the items as far as they are there (an item write that fails is not noticed). `ReadBack`: an object that
read such files holds all the items its entries name, because `read` takes the number of items from the size in the file; it keeps
them whatever is written afterwards.

**NgramProofs.** `NgramTypes`, `LikeliestIsFirst`, `NextIsAnother`. The step from one row to the next is the principle of
Viterbi's search: a lightest way to a character is a lightest way to one of the characters before it, and one more step (`CellNext`). So
in `IInv` a cell holds the weight of the lightest way to its character, 0xffff exactly if there is none, and the pointers back from it
spell out such a way (`IsCell`). After the first text was taken one cell of the row before the last no longer does: it is struck out, on purpose, and
`Cells` leaves it out. `StruckOut` shows that what `getMinValPos` then finds is the lightest of the other cells, and `TextsDiffer`
that a text which ends in another character of a row without repetitions is another text. Two things about numbers are needed.
`TotalFits`: a way has at most 32 steps of at most 1699, so no sum reaches 0xffff or, with the 400 added, is cut to 16 bits; and `FineDown`:
whether a weight is likely enough is monotone, so that it suffices to look at the lightest.

`WeightsAreFinite` follows: no text that is found weighs 0xffff. `LightestAnswers`, about `NgramRec`, assumes it of the texts it is given,
and that none weighs 0. Its invariant says what the loop's variables tell of the texts passed so far (`NearIs`,
`FarIs`): `res` is the lightest good one that shares a character, `tmp` the lightest of the others, but only as long as `res` is empty, since
texts heavier than `res` are passed over. That the confidence is computed with the length of the last segmentation can only raise it, as
they come shortest first (`SurerWhenLonger`).

**DictionaryProofs.** `TrieStaysSound`, `DictionaryTypes`, `DictionaryIsWordTable`, `LongestWordsMatched`, `MovedListsAreNotEmpty`,
for words and texts of any length over any bytes. The invariant `Good` says that a trie

* is `Sound`: its nodes form a tree (`Tree`), each leaf's tail ends inside the array and no other leaf's begins in it (`Tails`), and
  each leaf has a number that was given (`Numbered`);
* is `Busy`: inner nodes have children, but for the root of an empty trie;
* counts its words, has only inserted ones, and knows the length of the longest.

Inside an insertion a node may have been opened that has neither children nor a tail yet; `Tree(T, o)` and the rest name it. `Has(T, o, v, d)`
is what a trie is for, the word *v* under the number *d*, and every operation is a lemma about it. `LeafHas`: a leaf put under a node adds
one word. `ChainDownIs`: each step of the chain of `TAIL_INSERT` moves the open node down one byte and keeps the words; `TailInsertIs` ends
the chain with two leaves. `CHANGE_BC` gives nodes other names (`Renaming`): a copy of each moved child, whose children are told in the
same round and only then, so what the code reads of the nodes still to be moved is as it was; `RenamedPath` leads each key along the
same path under the new names. `SearchIs`, `FmmFinds` and `BmmFinds` relate the walks to `Has`. The refinement of `WordTable` follows, since an
insertion adds one word, under the number of words so far, and keeps the others' numbers. `MovedListsAreNotEmpty` needs `Busy`, and is why the
model may leave open what the loops over an empty list would do.

Only model-checked, and why:

* `StoreIsServed`, `QueueDrains` and `Returns`: liveness under fairness, and ENABLED.
* `InvertedIndex`, `WordCreator`: folds and sorts, which take operators and cannot be instantiated by the prover.
* `NgramTable`, `SplitText`, `Character`: recursive operators, in the models or in the reference definitions of
  their properties.
* `Training` and the recognisers but `NgramRec`: nothing stands in the way but the work.
* The properties of `MCStores` and `MCCalls` are conjunctions over the parts at the bounds of the instance. The theorems about
  `StaticHash`, `HashVector`, `EditDistance`, `AllPaths`, `GreedySegment`, `PinYin`, `BestPath` and `NgramRec` are about the modules; the runs
  check the same definitions, under the names `HashLookupIsRight`, `VectorLookupIsExact`, `DistanceIsRight`, `SegmentationsRight`,
  `TextsSurvive` and `LikeliestFound`. `DistancesAgree` and `CheapOnesEnclose`, the parts of `DistanceIsRight` that compare the versions of the distance with
  each other, have no theorem.

## 6. What could be added

* `CircleQueueInit`: the steps of `InitializeCircleQueue`, with two processes that start at once and a file left with
  another size. `CircleQueue` begins with an initialised file.
* Theorems about `NgramTable` and `SplitText`, with their recursion as functions; about `Training` and the other recognisers.
* The limits on the numbers of words in the trainer (the filters cut by rank as well as by weight when `m_ch_max_num` and its like are set).

## 7. Not modelled

* `train/util`: an older copy of `util`.
* `util/code_convert.h` (a wrapper of `iconv`), `util/session_log_c.h` (a header without its implementation),
  `util/parse_config.h`, `rectify/src/TimeUtil.h`, `rectify/src/hash_data.cpp` (a command line tool), `trim` and `split` (wrappers of the string class).
* `util/BitMap.h` and the hash function: keys are hashed by a function that is a constant of the instance, with
  collisions.
* the content of the data files: dictionaries, tables of probabilities. What they decide is a free choice, or a
  constant of the instance.
* the batch loop of the rectifier's `main`, its log, and the reading of the configuration.
* memory that runs out, at which the trie exits; `getWordProb` of the language model, which nothing calls.

Five hazards have no property; their notes in `PROJECT.json` give the reason.
