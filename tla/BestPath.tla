------------------------------- MODULE BestPath -------------------------------
(***************************************************************************)
(* NgramModel::findBestPath of util/ngram_model.cpp: the likeliest text    *)
(* for a sequence of syllables, and the likeliest one without the last     *)
(* character's weight at the end of a text.  A row holds the characters    *)
(* that one syllable can be; the first row is the tag BEG, the last one    *)
(* END, and a tag NUM or ALP may follow BEG.  Weights are 16 bits, smaller *)
(* is likelier, 0xffff is impossible.                                      *)
(***************************************************************************)
EXTENDS Integers, Sequences, SequencesExt, FiniteSets

CONSTANTS
  Codes,           (* the characters and tags                              *)
  BEG, END, NUM,   (* tags; NUM stands for ALP too                         *)
  Rows,            (* the sequences of rows that ngramRec makes            *)
  Shifts           (* getShiftProb: functions from pairs to weights        *)

None == 65535      (* 0xffff *)
Word16(n) == n % 65536

(* The syllables come from a query of at most 30 bytes (rectify.cpp 1074), *)
(* and the characters of one are a set.  A weight is the difference of     *)
(* log(n) * 100 for two counts of 31 bits, the lesser at least 90.         *)
MaxRows == 33
HeaviestShift == 2148 - 449

BestPathAssumption ==
  /\ {BEG, END, NUM} \subseteq Codes
  /\ Shifts \subseteq [Codes \X Codes -> (0 .. HeaviestShift) \union {None}]
  /\ \A rows \in Rows :
       /\ rows \in Seq(Seq(Codes)) /\ Len(rows) \in 3 .. MaxRows
       /\ \A k \in DOMAIN rows : IsInjective(rows[k])
       /\ rows[1] = <<BEG>> /\ rows[Len(rows)] = <<END>>

VARIABLES
  words, shift,            (* the rows, and the model                      *)
  probMatrix, pathMatrix,  (* the rows computed so far                     *)
  rec_word,                (* the result: texts and weights                *)
  taken,                   (* where the first text passes the last row     *)
                           (* before END                                   *)
  pc                       (* "rows", "first", "second" or "done"          *)

vars == <<words, shift, probMatrix, pathMatrix, rec_word, taken, pc>>

Init ==
  /\ words \in Rows /\ shift \in Shifts
  /\ probMatrix = <<[j \in DOMAIN words[1] |-> 0]>>
  /\ pathMatrix = <<[j \in DOMAIN words[1] |-> 1]>>
  /\ rec_word = <<>> /\ taken = 0
  /\ pc = "rows"

(* The ways to character j of row k, by the previous character; the first  *)
(* of the lightest is kept.                                                *)
Reachable(k, j) ==
  {pre \in DOMAIN words[k - 1] : shift[<<words[k - 1][pre], words[k][j]>>] # None
                                 /\ probMatrix[k - 1][pre] # None}
WayShort(k, j, pre) == shift[<<words[k - 1][pre], words[k][j]>>]
Way(k, j, pre) == shift[<<words[k - 1][pre], words[k][j]>>] + probMatrix[k - 1][pre]
Lightest(k, j) ==
  LET ways == {Way(k, j, pre) : pre \in Reachable(k, j)} IN Min(ways \union {None})
Previous(k, j) ==
  LET pre == {p \in Reachable(k, j) : Way(k, j, p) = Lightest(k, j) /\ Way(k, j, p) < None}
  IN  IF pre = {} THEN 1 ELSE Min(pre)

Row ==
  /\ pc = "rows"
  /\ LET k == Len(probMatrix) + 1
     IN  /\ probMatrix' = Append(probMatrix, [j \in DOMAIN words[k] |-> Lightest(k, j)])
         /\ pathMatrix' = Append(pathMatrix, [j \in DOMAIN words[k] |-> Previous(k, j)])
         /\ pc' = IF k = Len(words) THEN "first" ELSE "rows"
  /\ UNCHANGED <<words, shift, rec_word, taken>>

(* The positions in rows 1 .. k on the way back from one in row k.         *)
Back(k, j) ==
  LET Place[i \in 0 .. k - 1] == IF i = 0 THEN j ELSE pathMatrix[k - i + 1][Place[i - 1]]
  IN  [n \in 1 .. k |-> Place[k - n]]

(* The characters of rows 2 .. k, without a tag.                           *)
TextTo(path, k) ==
  LET character(n) == words[n][path[n]]
      from == IF character(2) = NUM THEN 3 ELSE 2
  IN  [n \in 1 .. k - from + 1 |-> character(n + from - 1)]

(* getMinValPos: the first of the lightest.                                *)
MinValPos(row) ==
  LET light == {j \in DOMAIN row : row[j] # None /\ \A l \in DOMAIN row : row[j] <= row[l]}
  IN  IF light = {} THEN 0 ELSE Min(light)

Weight(prob) == IF prob = 0 THEN 100 ELSE (2000 + 30000 * (Len(words) - 2)) \div prob
Likely(prob) == Weight(prob) >= 40

(* The last row has one place, END.  The place before it that the first    *)
(* text takes is struck out for the second.                                *)
Struck(matrix, k, j) == [matrix EXCEPT ![k][j] = None]
First ==
  /\ pc = "first"
  /\ LET n == Len(words)
         j == MinValPos(probMatrix[n])
         prob == probMatrix[n][j]
         path == Back(n, j)
     IN  IF j # 0 /\ Likely(prob)
         THEN /\ rec_word' = <<[word |-> TextTo(path, n - 1), weight |-> prob]>>
              /\ probMatrix' = Struck(probMatrix, n - 1, pathMatrix[n][j])
              /\ taken' = pathMatrix[n][j]
              /\ pc' = "second"
         ELSE pc' = "done" /\ UNCHANGED <<rec_word, probMatrix, taken>>
  /\ UNCHANGED <<words, shift, pathMatrix>>

(* The sum is 16 bits wide.                                                *)
Second ==
  /\ pc = "second" /\ pc' = "done"
  /\ LET n == Len(words) - 1
         j == MinValPos(probMatrix[n])
         prob == Word16(probMatrix[n][j] + 400)
     IN  rec_word' = IF j # 0 /\ Likely(prob)
                     THEN Append(rec_word, [word |-> TextTo(Back(n, j), n), weight |-> prob])
                     ELSE rec_word
  /\ UNCHANGED <<words, shift, probMatrix, pathMatrix, taken>>

Next == Row \/ First \/ Second

Spec == Init /\ [][Next]_vars

-----------------------------------------------------------------------------
(* Type correctness: every pointer back is a place of the row before.      *)
TypeOK ==
  /\ words \in Rows /\ shift \in Shifts
  /\ probMatrix \in Seq(Seq(0 .. None)) /\ pathMatrix \in Seq(Seq(Nat))
  /\ Len(probMatrix) = Len(pathMatrix) /\ Len(probMatrix) \in 1 .. Len(words)
  /\ \A k \in 1 .. Len(probMatrix) :
       /\ Len(probMatrix[k]) = Len(words[k]) /\ Len(pathMatrix[k]) = Len(words[k])
       /\ \A j \in 1 .. Len(words[k]) :
            probMatrix[k][j] # None /\ k > 1 => pathMatrix[k][j] \in 1 .. Len(words[k - 1])
  /\ rec_word \in Seq([word : Seq(Codes), weight : 0 .. None]) /\ Len(rec_word) <= 2
  /\ taken \in Nat
  /\ pc \in {"rows", "first", "second", "done"}

(* The possible ways through rows 1 .. k, and their weights.               *)
Into(path, n) == shift[<<words[n][path[n]], words[n + 1][path[n + 1]]>>]
WaysTo(k) ==
  {path \in [1 .. k -> UNION {DOMAIN words[n] : n \in 1 .. k}] :
     /\ \A n \in 1 .. k : path[n] \in DOMAIN words[n]
     /\ \A n \in 1 .. k - 1 : Into(path, n) # None}
Sum(k, path) ==
  LET UpTo[n \in 0 .. k - 1] == IF n = 0 THEN 0 ELSE UpTo[n - 1] + Into(path, n)
  IN  UpTo[k - 1]

(***************************************************************************)
(* The first text is the likeliest of all ways from BEG to END, and has    *)
(* its weight; there is none only if no way is likely enough.              *)
(***************************************************************************)
FirstIsBest ==
  pc = "done" =>
    LET n == Len(words)
        likely == {path \in WaysTo(n) : Likely(Sum(n, path))}
    IN  IF likely = {} THEN rec_word = <<>>
        ELSE /\ rec_word # <<>>
             /\ rec_word[1].weight = Min({Sum(n, path) : path \in likely})
             /\ \E path \in likely : /\ Sum(n, path) = rec_word[1].weight
                                     /\ TextTo(path, n - 1) = rec_word[1].word

(***************************************************************************)
(* The second text is the likeliest, up to the last character, of those    *)
(* that end in another place than the first, with 400 in place of the way  *)
(* to END.  It is another text, and its weight is not wrapped around.      *)
(***************************************************************************)
SecondIsNext ==
  pc = "done" /\ rec_word # <<>> =>
    LET n == Len(words) - 1
        others == {path \in WaysTo(n) : path[n] # taken}
        best == Min({Sum(n, path) : path \in others}) + 400
    IN  IF others = {} \/ ~Likely(best) THEN Len(rec_word) = 1
        ELSE /\ Len(rec_word) = 2 /\ rec_word[2].weight = best
             /\ rec_word[2].word # rec_word[1].word
             /\ \E path \in others : /\ Sum(n, path) + 400 = best
                                     /\ TextTo(path, n) = rec_word[2].word
=============================================================================
