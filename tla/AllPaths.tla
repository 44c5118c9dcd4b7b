------------------------------- MODULE AllPaths -------------------------------
(***************************************************************************)
(* util/word_segment.cpp: every segmentation of a text.  _getNode lists    *)
(* the places where the text has a word of the dictionary, by beginning    *)
(* and end; _getPath walks them with two stacks, what it has yet to try    *)
(* and the words it has taken, and prints the taken ones at the end of the *)
(* text.  The tops of the stacks are the ends of the sequences.            *)
(***************************************************************************)
EXTENDS Integers, Sequences, SequencesExt, FiniteSets

CONSTANT TextLen   (* strlen(pText), in letters                            *)

AllPathsAssumption == TextLen \in Nat

Places == {p \in (0 .. TextLen) \X (0 .. TextLen) : p[1] < p[2]}

VARIABLES
  node,           (* _node                                                 *)
  stack_buffer,   (* _stack_buffer: places to try                          *)
  stack_path,     (* _stack_path: places taken                             *)
  str_all         (* _str_all: the segmentations printed                   *)

vars == <<node, stack_buffer, stack_path, str_all>>

(* Which places hold a word depends on the dictionary.                     *)
Nodes == SUBSET Places

(* The places that begin at b, in the order of _node.                      *)
From(b) ==
  LET UpTo[e \in 0 .. TextLen] ==
        IF e = 0 THEN <<>>
        ELSE IF <<b, e>> \in node THEN Append(UpTo[e - 1], <<b, e>>) ELSE UpTo[e - 1]
  IN  UpTo[TextLen]

Init ==
  /\ node \in Nodes
  /\ stack_buffer = From(0)
  /\ stack_path = <<>> /\ str_all = <<>>

(* What stays of the path under the new place: all up to the last one that *)
(* ends before it does.                                                    *)
UpToLast(path, S) == SubSeq(path, 1, Max(S \union {0}))
KeptLess(path, val) == UpToLast(path, {k \in 1 .. Len(path) : path[k][2] < val[1]})
Kept(path, val) == UpToLast(path, {k \in 1 .. Len(path) : path[k][2] < val[2]})

Try ==
  LET val == Last(stack_buffer)
      path == Append(Kept(stack_path, val), val)
      ends == val[2] = TextLen
      hasmore == ~ends /\ From(val[2]) # <<>>
  IN  /\ stack_buffer # <<>>
      /\ stack_buffer' = Front(stack_buffer) \o (IF hasmore THEN From(val[2]) ELSE <<>>)
      /\ stack_path' = IF hasmore THEN path ELSE Front(path)
      /\ str_all' = IF ends THEN Append(str_all, path) ELSE str_all
      /\ UNCHANGED node

(* The call returns and empties the stack of what was taken.               *)
Finish ==
  /\ stack_buffer = <<>> /\ stack_path # <<>>
  /\ stack_path' = <<>>
  /\ UNCHANGED <<node, stack_buffer, str_all>>

Next == Try \/ Finish

Spec == Init /\ [][Next]_vars

-----------------------------------------------------------------------------
(* Type correctness.                                                       *)
TypeOK ==
  /\ node \in Nodes
  /\ stack_buffer \in Seq(node) /\ stack_path \in Seq(node)
  /\ str_all \in Seq(Seq(node))

(***************************************************************************)
(* Whatever is tried next can continue what has been taken: after Kept the *)
(* path joins it, although the places on the buffer were pushed for paths  *)
(* that have been left since.                                              *)
(***************************************************************************)
Joined(path) == \A k \in 1 .. Len(path) - 1 : path[k][2] = path[k + 1][1]
BufferFitsPath ==
  stack_buffer # <<>> =>
    LET path == Append(Kept(stack_path, Last(stack_buffer)), Last(stack_buffer))
    IN  path[1][1] = 0 /\ Joined(path)

(***************************************************************************)
(* When the walk is over, every segmentation of the text has been printed, *)
(* and each once.                                                          *)
(***************************************************************************)
PathsTo[e \in 0 .. TextLen] ==
  IF e = 0 THEN {<<>>}
  ELSE UNION {{Append(path, p) : path \in PathsTo[p[1]]} : p \in {p \in node : p[2] = e}}
EverySegmentationOnce ==
  stack_buffer = <<>> =>
    IF TextLen = 0 THEN str_all = <<>>
    ELSE IsInjective(str_all) /\ Range(str_all) = PathsTo[TextLen]

=============================================================================
