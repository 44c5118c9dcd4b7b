------------------------------- MODULE WordTable ------------------------------
(***************************************************************************)
(* What util/dictionary.cpp promises: a table of words, each with the      *)
(* number it got when it was first inserted; a word stays with its number. *)
(* A table can be saved, and a later one can start from what was saved.    *)
(***************************************************************************)
EXTENDS Integers, FiniteSets

CONSTANT Words

VARIABLES
  table,   (* a function from the words inserted to 1 .. their count       *)
  saved

Empty == [w \in {} |-> 0]
Init == table = Empty /\ saved = Empty

Insert(w) ==
  /\ w \notin DOMAIN table
  /\ table' = [v \in DOMAIN table \union {w} |->
                 IF v = w THEN Cardinality(DOMAIN table) + 1 ELSE table[v]]
  /\ UNCHANGED saved

Save == saved' = table /\ UNCHANGED table
Restart == table' = saved /\ UNCHANGED saved

Next == (\E w \in Words : Insert(w)) \/ Save \/ Restart

Spec == Init /\ [][Next]_<<table, saved>>
=============================================================================
