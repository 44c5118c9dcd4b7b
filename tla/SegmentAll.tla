------------------------------ MODULE SegmentAll ------------------------------
(***************************************************************************)
(* WordSegmentation::word_sect_all of util/word_segment.cpp, on top of     *)
(* KShortPath: it allocates rows of cells, lets Output write each route    *)
(* into one, and cuts the text where a row says.  The overload for first   *)
(* letters keeps one letter of each word.                                  *)
(***************************************************************************)
EXTENDS KShortPath

CONSTANT Cells   (* MAX_SENTENCE_LEN / 2: the length of a row              *)

(* A route may visit every vertex.  The code does not check the text.      *)
ASSUME SegmentAllAssumption == Cells \in Nat /\ Cells >= NumVertex

VARIABLES
  py,        (* the words of each segmentation, as places in the text      *)
  fpy,       (* the place of the first letter of each word                 *)
  returned   (* "no", or what word_sect_all returns                        *)

allVars == <<vars, py, fpy, returned>>

AllInit == Init /\ py = <<>> /\ fpy = <<>> /\ returned = "no"

(* nSegRoute, filled with -1 before Output writes.                         *)
nSegRoute(k) ==
  LET route == IF k <= Len(Output) THEN Output[k] ELSE <<>>
  IN  [c \in 0 .. Cells - 1 |-> IF c < Len(route) THEN route[c + 1] ELSE -1]

(* The cells from 1 on that are read: up to the first -1.                  *)
CellsButOne(row) == {c \in 1 .. Cells - 2 : row[c + 1] # -1}
CellsRead(row) == {c \in 1 .. Cells - 1 : \A d \in 1 .. c : row[d] # -1}

(* The word that ends where cell c says; the first begins at 0.            *)
WordAt(row, c) == <<IF c = 1 THEN 0 ELSE row[c - 1], row[c]>>
Words(row) == [c \in CellsRead(row) |-> WordAt(row, c)]

(* The rows of py after row k: the routes with a word, in their order.     *)
Pushed[k \in 0 .. MaxSegmentNum] ==
  IF k = 0 THEN <<>>
  ELSE LET words == Words(nSegRoute(k))
       IN  IF words = <<>> THEN Pushed[k - 1] ELSE Append(Pushed[k - 1], words)
Sections == Pushed[MaxSegmentNum]

Cut ==
  /\ pc = "done" /\ returned = "no"
  /\ py' = Sections
  /\ fpy' = [k \in DOMAIN py' |-> [c \in DOMAIN py'[k] |-> py'[k][c][1]]]
  /\ returned' = IF Len(py') > 0 THEN "true" ELSE "false"
  /\ UNCHANGED vars

AllNext == (Next /\ UNCHANGED <<py, fpy, returned>>) \/ Cut

AllSpec == AllInit /\ [][AllNext]_allVars

(* One call, run by one thread.                                            *)
FairAllSpec == AllSpec /\ WF_allVars(AllNext)

-----------------------------------------------------------------------------
(***************************************************************************)
(* What the recognisers build on: each row cuts the whole text into words  *)
(* of the dictionary, without gap or overlap; the rows differ, and the     *)
(* first has the fewest words; there is a row exactly if the text can be   *)
(* segmented, and that is the result.                                      *)
(***************************************************************************)
IsSegmentation(words) ==
  /\ words # <<>>
  /\ words[1][1] = 0 /\ words[Len(words)][2] = Last
  /\ \A c \in DOMAIN words : words[c] \in edges
  /\ \A c \in 1 .. Len(words) - 1 : words[c][2] = words[c + 1][1]
SectionsCoverText ==
  returned # "no" =>
    /\ \A k \in DOMAIN py : IsSegmentation(py[k]) /\ Len(py[1]) <= Len(py[k])
    /\ \A k, l \in DOMAIN py : py[k] = py[l] => k = l
    /\ (returned = "true") = (PathsTo[Last] # {})
    /\ (returned = "true") = (py # <<>>)
=============================================================================
