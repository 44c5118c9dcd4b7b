---------------------------- MODULE InvertedIndex -----------------------------
(***************************************************************************)
(* util/index_create.cpp: the index from keys to lists of words that the   *)
(* three word creators (module WordCreator) build and search.  A builder   *)
(* numbers words and keys as they come, collects a list of nodes per key,  *)
(* sorts and merges the lists and saves six files; it may fail or crash in *)
(* between.  A reader loads the files.                                     *)
(***************************************************************************)
EXTENDS Integers, Sequences, SequencesExt, FiniteSets, TLC

CONSTANTS
  Words, Keys,
  KeysOf,    (* for every word the keys its creator gives it, one after    *)
             (* the other; one that is at two places comes twice           *)
  Weight,    (* for every word                                             *)
  Lexicons,  (* sets of words somebody builds an index of                  *)
  MaxBuilds  (* bound of the instance                                      *)

InvertedIndexAssumption ==
  /\ KeysOf \in [Words -> Seq(Keys)] /\ Weight \in [Words -> Nat]
  /\ Lexicons \subseteq SUBSET Words /\ MaxBuilds \in Nat

VARIABLES
  pc, todo,            (* the builder; the words create() has not reached  *)
  idInvert, idIndex,   (* m_id_invert, m_id_index: names by number; their  *)
                       (* inverses are m_invert_id and m_index_id          *)
  index,               (* m_index: for every key number a list of nodes    *)
  disk,                (* the six files                                    *)
  loaded, mem,         (* load() returned true; what it filled             *)
  builds,
  intact, source       (* history: the lexicon of a save of which every    *)
                       (* part succeeded; intact when load() was called    *)

vars == <<pc, todo, idInvert, idIndex, index, disk, loaded, mem, builds, intact, source>>
builder == <<todo, idInvert, idIndex, index>>
reader == <<loaded, mem, source>>

Files == {"idx", "ivt", "idx_dict", "ivt_dict", "idx_rev", "ivt_rev"}
Whole(v) == [state |-> "whole", val |-> v]
Partial == [state |-> "partial", val |-> <<>>]
Missing == [state |-> "none", val |-> <<>>]
None == {}

Init ==
  /\ pc = "idle" /\ todo = {}
  /\ idInvert = <<>> /\ idIndex = <<>> /\ index = <<>>
  /\ disk = [f \in Files |-> Missing]
  /\ loaded = FALSE /\ mem = [f \in Files |-> <<>>]
  /\ builds = 0 /\ intact = None /\ source = None

-----------------------------------------------------------------------------
(* Building.  Numbers are positions here, one more than in the code.       *)

(* setIndexId, setInvertId: a name keeps its number.                       *)
Numbered(names, n) == IF n \in ToSet(names) THEN names ELSE Append(names, n)
NumberOf(names, n) == CHOOSE p \in DOMAIN names : names[p] = n

(* addInvertNode; a new key's number is the length of the index plus one.  *)
AddNode(lists, p, node) ==
  IF p \in DOMAIN lists THEN [lists EXCEPT ![p] = Append(@, node)]
  ELSE IF p = Len(lists) + 1 THEN Append(lists, <<node>>)
  ELSE lists

Start ==
  /\ pc = "idle" /\ builds < MaxBuilds
  /\ todo' \in Lexicons
  /\ pc' = "create" /\ builds' = builds + 1
  /\ idInvert' = <<>> /\ idIndex' = <<>> /\ index' = <<>>
  /\ UNCHANGED <<disk, intact>> /\ UNCHANGED reader

(* create(): the words come in the order of a hash map.                    *)
CreateWord ==
  /\ pc = "create"
  /\ \E w \in todo :
       LET names == Numbered(idInvert, w)
           node == [invert_id |-> NumberOf(names, w), weight |-> Weight[w]]
           Add(x, k) == LET ks == Numbered(x.keys, k)
                        IN  [keys |-> ks, lists |-> AddNode(x.lists, NumberOf(ks, k), node)]
           all == FoldLeft(Add, [keys |-> idIndex, lists |-> index], KeysOf[w])
       IN  /\ idInvert' = names /\ idIndex' = all.keys /\ index' = all.lists
           /\ todo' = todo \ {w}
  /\ UNCHANGED <<pc, disk, builds, intact>> /\ UNCHANGED reader

Below(m, n) ==
  m.invert_id < n.invert_id \/ (m.invert_id = n.invert_id /\ m.weight < n.weight)
Sorted(lists) == [p \in DOMAIN lists |-> SortSeq(lists[p], Below)]
sortInvertNode ==
  /\ pc = "create" /\ todo = {}
  /\ pc' = "lists"
  /\ index' = Sorted(index)
  /\ UNCHANGED <<todo, idInvert, idIndex, disk, builds, intact>> /\ UNCHANGED reader

-----------------------------------------------------------------------------
(* save()                                                                  *)

(* Neighbours with the same word become one node; weights add up.          *)
Merged(list) ==
  LET Take(out, n) ==
        IF out # <<>> /\ out[Len(out)].invert_id = n.invert_id
        THEN [out EXCEPT ![Len(out)].weight = @ + n.weight]
        ELSE Append(out, n)
  IN  FoldLeft(Take, <<>>, list)

(* Where the list of each key begins in the file of all nodes; one more    *)
(* entry ends the last.                                                    *)
OffsetsUnmerged(lists) ==
  [p \in 1 .. Len(lists) + 1 |->
     FoldLeft(LAMBDA n, l : n + Len(l), 0, SubSeq(lists, 1, p - 1))]
Offsets(lists) ==
  [p \in 1 .. Len(lists) + 1 |->
     FoldLeft(LAMBDA n, l : n + Len(Merged(l)), 0, SubSeq(lists, 1, p - 1))]
AllNodes(lists) == FlattenSeq([p \in DOMAIN lists |-> Merged(lists[p])])

(* Both files are opened, and so emptied, before either is written; what   *)
(* fwrite returns is not looked at.                                        *)
SaveLists ==
  /\ pc = "lists"
  /\ \/ /\ \E o \in {Whole(Offsets(index)), Partial}, n \in {Whole(AllNodes(index)), Partial} :
             disk' = [disk EXCEPT !["idx"] = o, !["ivt"] = n]
        /\ pc' = "idx_dict"
     \/ /\ \E F \in SUBSET {"idx", "ivt"} :
             F # {"idx", "ivt"} /\ disk' = [f \in Files |-> IF f \in F THEN Partial ELSE disk[f]]
        /\ pc' = "idle"
  /\ intact' = None
  /\ UNCHANGED builds /\ UNCHANGED builder /\ UNCHANGED reader

(* A key's number under its name; the results of container_to_hash_file are not   *)
(* looked at.                                                              *)
DictOf(names) == [n \in ToSet(names) |-> NumberOf(names, n)]
SaveDict(f, names, next) ==
  /\ pc = f
  /\ pc' = next
  /\ disk' \in {[disk EXCEPT ![f] = Whole(DictOf(names))], [disk EXCEPT ![f] = Partial], disk}
  /\ UNCHANGED <<builds, intact>> /\ UNCHANGED builder /\ UNCHANGED reader

(* saveKey.                                                                *)
SaveKeys(f, names, next) ==
  /\ pc = f
  /\ \/ disk' = [disk EXCEPT ![f] = Whole(names)] /\ pc' = next
     \/ disk' = disk /\ pc' = "idle"
  /\ intact' = IF pc' = "idle" /\ next = "idle" /\ \A g \in Files : disk'[g].state = "whole"
                  /\ disk'["ivt_dict"].val = DictOf(idInvert)
                  /\ disk'["idx_dict"].val = DictOf(idIndex)
                  /\ disk'[f].val = names
               THEN ToSet(idInvert) ELSE intact
  /\ UNCHANGED builds /\ UNCHANGED builder /\ UNCHANGED reader

(* A crash may leave the files being written incomplete.                   *)
Crash ==
  /\ pc # "idle"
  /\ pc' = "idle"
  /\ \E F \in SUBSET (IF pc = "lists" THEN {"idx", "ivt"} ELSE {pc} \intersect Files) :
       /\ disk' = [f \in Files |-> IF f \in F THEN Partial ELSE disk[f]]
       /\ intact' = IF F = {} THEN intact ELSE None
  /\ UNCHANGED builds /\ UNCHANGED builder /\ UNCHANGED reader

-----------------------------------------------------------------------------
(* load(): lists and names must be there in full, with at least one name;  *)
(* the results for the two dictionaries are not looked at, so a missing    *)
(* one is an empty one.  The counts at the head of an empty list file are  *)
(* uninitialised memory, and with a 0 there it is accepted.                *)
NamesThere(f) == disk[f].state = "whole" /\ disk[f].val # <<>>
Load ==
  /\ ~loaded
  /\ LET lists == {disk["idx"].state, disk["ivt"].state}
     IN  loaded' \in IF "none" \in lists \/ ~NamesThere("idx_rev") \/ ~NamesThere("ivt_rev")
                     THEN {FALSE} ELSE IF lists = {"whole"} THEN {TRUE} ELSE BOOLEAN
  /\ mem' = [f \in Files |-> disk[f].val]
  /\ source' = intact
  /\ UNCHANGED <<pc, disk, builds, intact>> /\ UNCHANGED builder

(* The reader ends.                                                        *)
Unload ==
  /\ loaded /\ builds < MaxBuilds
  /\ loaded' = FALSE /\ mem' = [f \in Files |-> <<>>] /\ source' = None
  /\ UNCHANGED <<pc, disk, builds, intact>> /\ UNCHANGED builder

Next ==
  \/ Start \/ CreateWord \/ sortInvertNode \/ SaveLists
  \/ SaveDict("idx_dict", idIndex, "ivt_dict") \/ SaveDict("ivt_dict", idInvert, "idx_rev")
  \/ SaveKeys("idx_rev", idIndex, "ivt_rev") \/ SaveKeys("ivt_rev", idInvert, "idle")
  \/ Crash \/ Load \/ Unload

Spec == Init /\ [][Next]_vars

-----------------------------------------------------------------------------
(* What a reader asks.  0 is the code's -1.                                *)
getIndexId(k) == IF k \in DOMAIN mem["idx_dict"] THEN mem["idx_dict"][k] ELSE 0
getInvertId(w) == IF w \in DOMAIN mem["ivt_dict"] THEN mem["ivt_dict"][w] ELSE 0
getInvertById(n) == IF n \in DOMAIN mem["ivt_rev"] THEN mem["ivt_rev"][n] ELSE "none"

getIvtList(n) ==
  IF n < 1 \/ n >= Len(mem["idx"]) THEN <<>>
  ELSE SubSeq(mem["ivt"], mem["idx"][n] + 1, mem["idx"][n + 1])

Found(k) == getIvtList(getIndexId(k))

-----------------------------------------------------------------------------
Node == [invert_id : Nat, weight : Nat]

(* Type correctness: lists and key numbers stay in step while building.    *)
TypeOK ==
  /\ pc \in {"idle", "create", "lists"} \union Files
  /\ todo \subseteq Words
  /\ IsInjective(idInvert) /\ ToSet(idInvert) \subseteq Words
  /\ IsInjective(idIndex) /\ ToSet(idIndex) \subseteq Keys
  /\ index \in Seq(Seq(Node)) /\ Len(index) = Len(idIndex)
  /\ \A f \in Files : disk[f].state \in {"whole", "partial", "none"}
  /\ loaded \in BOOLEAN /\ builds \in 0 .. MaxBuilds
  /\ intact \subseteq Words /\ source \subseteq Words

(* How often word w has key k.                                             *)
Times(w, k) == Cardinality({p \in DOMAIN KeysOf[w] : KeysOf[w][p] = k})

(***************************************************************************)
(* After a save of which all parts succeeded, whatever was on disk before  *)
(* and in whatever order the words came, the list found under a key holds  *)
(* exactly the words that have it, each once, in the order of their        *)
(* numbers, which lead back to the words; a word that has the key n times  *)
(* counts n times its weight.                                              *)
(***************************************************************************)
IndexIsFaithful ==
  loaded /\ source # None =>
    /\ \A w \in Words : IF w \in source THEN getInvertById(getInvertId(w)) = w
                        ELSE getInvertId(w) = 0
    /\ \A k \in Keys :
         LET list == Found(k)
         IN  /\ \A i, j \in DOMAIN list : i < j => list[i].invert_id < list[j].invert_id
             /\ {<<getInvertById(list[i].invert_id), list[i].weight>> : i \in DOMAIN list}
                = {<<w, Times(w, k) * Weight[w]>> : w \in {v \in source : Times(v, k) > 0}}
=============================================================================
