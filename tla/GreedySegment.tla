---------------------------- MODULE GreedySegment ----------------------------
(***************************************************************************)
(* util/word_segment.cpp: word_sect(pText, pResult, a), the longest words  *)
(* from the front of a text and then from its back.  Where no word begins, *)
(* the forward pass takes one byte of ASCII or the two of a Chinese        *)
(* character; where none ends, the backward pass takes one byte.           *)
(*                                                                         *)
(* A text is a sequence of bytes, "ascii" or "high".  Places between bytes *)
(* are counted from 0.  The dictionary is the set of places it has.        *)
(***************************************************************************)
EXTENDS Integers, Sequences, FiniteSets

CONSTANT TextLen   (* strlen(pText)                                        *)

GreedySegmentAssumption == TextLen \in Nat

VARIABLES
  text,    (* pText                                                        *)
  words,   (* where the text has a word of the dictionary                  *)
  pos,     (* where each piece of the forward pass begins                  *)
  buffer,  (* ... of the backward pass, from the back                      *)
  pc       (* "forward", "backward" or "done"                              *)

vars == <<text, words, pos, buffer, pc>>

Longest(S) == CHOOSE n \in S : \A m \in S : n >= m
Smallest(S) == CHOOSE n \in S : \A m \in S : n <= m

(* Whole characters, one behind the other, from b to e.                    *)
WidthAt(t, p) == IF t[p + 1] = "ascii" THEN 1 ELSE 2
Whole(t, b, e) ==
  \E starts \in SUBSET (b .. e) :
    {b, e} \subseteq starts /\ \A p \in starts \ {e} : p + WidthAt(t, p) \in starts

(* A text and the words of the dictionary are made of whole characters,    *)
(* but the text may have a word across two characters.                     *)
Texts == {t \in [1 .. TextLen -> {"ascii", "high"}] : Whole(t, 0, TextLen)}
WordsOf(t) == {p \in (0 .. TextLen) \X (0 .. TextLen) : p[1] < p[2] /\ Whole(t, p[1], p[2])}

Init ==
  /\ text \in Texts
  /\ words \in SUBSET WordsOf(text)
  /\ pos = <<0>> /\ buffer = <<TextLen>>
  /\ pc = "forward"

(* Dictionary::fmm and bmm: how long the longest word is that begins at p, *)
(* and where the longest one that ends at p begins.                        *)
fmm(p) == Longest({0} \union {e - p : e \in {e \in 0 .. TextLen : <<p, e>> \in words}})
bmm(p) ==
  LET begins == {b \in 0 .. TextLen : <<b, p>> \in words}
  IN  IF begins = {} THEN -1 ELSE Smallest(begins)

Length(p) == IF fmm(p) # 0 THEN fmm(p) ELSE WidthAt(text, p)

Forward ==
  /\ pc = "forward"
  /\ LET p == pos[Len(pos)]
     IN  IF p < TextLen THEN pos' = Append(pos, p + Length(p)) /\ UNCHANGED pc
         ELSE pc' = "backward" /\ UNCHANGED pos
  /\ UNCHANGED <<text, words, buffer>>

StartFar(p) == IF bmm(p) = -1 THEN p - 2 ELSE bmm(p)
Start(p) == IF bmm(p) = -1 THEN p - 1 ELSE bmm(p)

Backward ==
  /\ pc = "backward"
  /\ LET p == buffer[Len(buffer)]
     IN  IF p > 0 THEN buffer' = Append(buffer, Start(p)) /\ UNCHANGED pc
         ELSE pc' = "done" /\ UNCHANGED buffer
  /\ UNCHANGED <<text, words, pos>>

Next == Forward \/ Backward

Spec == Init /\ [][Next]_vars

-----------------------------------------------------------------------------
(* Type correctness: the backward pass stays in the text.                  *)
TypeOK ==
  /\ text \in Texts /\ words \subseteq WordsOf(text)
  /\ pos \in Seq(0 .. TextLen + 1) /\ buffer \in Seq(0 .. TextLen)
  /\ pc \in {"forward", "backward", "done"}

(***************************************************************************)
(* The forward pass moves from character to character, and ends exactly at *)
(* the end of the text: with two bytes for a character it could step over  *)
(* the final zero, and read on behind the text.                            *)
(***************************************************************************)
ForwardOnCharacters ==
  \A k \in DOMAIN pos : pos[k] <= TextLen /\ Whole(text, 0, pos[k])

=============================================================================
