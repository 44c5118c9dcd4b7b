------------------------------- MODULE Distances ------------------------------
(***************************************************************************)
(* util/edit_distance.h: the distances between two words, as operators.  A *)
(* word is a sequence of bytes; the _ch versions compare two-byte units.   *)
(***************************************************************************)
EXTENDS Integers, Sequences, SequencesExt, FiniteSets

-----------------------------------------------------------------------------
(* The versions that fill the whole table.                                 *)

(* Two-byte units; an odd byte at the end is not looked at.                *)
Units(s) == [k \in 1 .. Len(s) \div 2 |-> <<s[2 * k - 1], s[2 * k]>>]

Differ(a, b) == IF a = b THEN 0 ELSE 1

(* Row p of the table from the row above it, and all the rows.             *)
EditRow(s, t, p, above) ==
  LET R[q \in 0 .. Len(t)] ==
        IF q = 0 THEN p
        ELSE Min({above[q] + 1, R[q - 1] + 1, above[q - 1] + Differ(s[p], t[q])})
  IN  R
EditRows(s, t) ==
  LET Row[p \in 0 .. Len(s)] ==
        IF p = 0 THEN [q \in 0 .. Len(t) |-> q] ELSE EditRow(s, t, p, Row[p - 1])
  IN  Row
edit_distance(s, t) == EditRows(s, t)[Len(s)][Len(t)]
edit_distance_ch(s, t) == edit_distance(Units(s), Units(t))

(* The version with one row: the cell above is overwritten in passing and  *)
(* remembered as the next diagonal.  d0 is what the cell d[0] held, which  *)
(* is not written before the first row.                                    *)
one_row(s, t, d0) ==
  LET Row[p \in 0 .. Len(s)] ==
        IF p = 0 THEN [q \in 0 .. Len(t) |-> IF q = 0 THEN d0 ELSE q]
        ELSE LET R[q \in 0 .. Len(t)] ==
                   IF q = 0 THEN p
                   ELSE LET lastdiag == IF q = 1 THEN p - 1 ELSE Row[p - 1][q - 1]
                        IN  IF s[p] = t[q] THEN lastdiag
                            ELSE Min({Row[p - 1][q], R[q - 1], lastdiag}) + 1
             IN  R
  IN  Row[Len(s)][Len(t)]
one_row_ch(s, t, d0) == one_row(Units(s), Units(t), d0)

-----------------------------------------------------------------------------
(* The cheaper distances.                                                  *)

Common(s, t) == Min({Len(s), Len(t)})
Longer(s, t) == Len(s) + Len(t) - Common(s, t)

(* Position by position.                                                   *)
places_that_differ(s, t) ==
  Len(SelectSeq([k \in 1 .. Common(s, t) |-> Differ(s[k], t[k])], LAMBDA n : n = 1))
edit_distance_sequence(s, t) ==
  Longer(s, t) - Common(s, t) + places_that_differ(s, t)
(* The same on two-byte units; of words of different length, half the sum. *)
edit_distance_fpy(s, t) ==
  IF Len(s) # Len(t) THEN (Len(s) + Len(t)) \div 2
  ELSE edit_distance_sequence(Units(s), Units(t))

(* What sort and set_intersection leave: bytes in common, with repetition. *)
InCommon(s, t) ==
  LET Times(u, a) == Len(SelectSeq(u, LAMBDA c : c = a))
      Both[S \in SUBSET ToSet(s)] ==
        IF S = {} THEN 0
        ELSE LET a == CHOOSE a \in S : TRUE
             IN  Min({Times(s, a), Times(t, a)}) + Both[S \ {a}]
  IN  Both[ToSet(s)]
edit_distance_diff(s, t) == Longer(s, t) - InCommon(s, t)

-----------------------------------------------------------------------------
(* The reference: the least cost of pairing places of the two words in     *)
(* order, where a place left alone or a pair that differs costs one.       *)
InOrder(P) == SetToSortSeq(P, LAMBDA a, b : a < b)
PairingCost(s, t, P, Q) ==
  LET p == InOrder(P)
      q == InOrder(Q)
  IN  Len(s) + Len(t) - 2 * Len(p) + Cardinality({k \in DOMAIN p : s[p[k]] # t[q[k]]})
LeastEdits(s, t) ==
  Min({PairingCost(s, t, c[1], c[2]) :
         c \in {x \in (SUBSET DOMAIN s) \X (SUBSET DOMAIN t) :
                 Cardinality(x[1]) = Cardinality(x[2])}})
=============================================================================
