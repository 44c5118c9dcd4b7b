----------------------------- MODULE EditDistance -----------------------------
(***************************************************************************)
(* util/edit_distance.h, the banded version, which the word creators call: *)
(* it keeps two rows of the dynamic programme in memory that the caller    *)
(* allocated once for many calls and never cleared.  One step is one row.  *)
(***************************************************************************)
EXTENDS Distances

CONSTANTS
  Byte,
  MaxLen,    (* bound of the instance: length of the words                 *)
  MaxEds,    (* values of max_ed                                           *)
  Leftovers  (* values found in memory that was not written               *)

(* What stands outside the band: more than any limit that is asked for     *)
(* (m_ed is 2 unless the configuration says otherwise).                    *)
Far == 100

EditDistanceAssumption ==
  /\ MaxLen \in Nat
  /\ MaxEds \subseteq Nat \ {0} /\ \A m \in MaxEds : m < Far
  /\ Leftovers \subseteq Int

VARIABLES
  s1, s2,    (* the units compared                                         *)
  max_ed,
  d,         (* the two rows                                               *)
  i, current,
  result     (* 0 .. , or Running                                          *)

vars == <<s1, s2, max_ed, d, i, current, result>>

Running == -1

-----------------------------------------------------------------------------
(* The banded version, edit_distance(char*, char*, char**, int).           *)

Words == UNION {[1 .. n -> Byte] : n \in 0 .. MaxLen}

(* Its callers pass the longer word first and rows for the shorter one,    *)
(* and an index has no empty word.                                         *)
Init ==
  /\ s1 \in Words /\ s2 \in Words /\ Len(s1) >= Len(s2) /\ s2 # <<>>
  /\ max_ed \in MaxEds
  /\ \E old \in [0 .. Len(s2) -> Leftovers] :
       d = [r \in 0 .. 1 |-> IF r = 0 THEN [j \in 0 .. Len(s2) |-> j] ELSE old]
  /\ i = 1 /\ current = 1 /\ result = Running

E == Min({i + max_ed, Len(s2)})
S == IF i - max_ed > 1 THEN i - max_ed ELSE 1

(* The row as the inner loop finds it: its first cell and, when the band   *)
(* has left the edge, the wall at the band's left.                         *)
Prepared(row) == [row EXCEPT ![0] = i]
Unwalled(row) == Prepared(row)
Walled(row) ==
  IF i - max_ed >= 1 THEN [Prepared(row) EXCEPT ![i - max_ed - 1] = Far] ELSE Prepared(row)

InBand(above, row) ==
  LET R[j \in 0 .. Len(s2)] ==
        IF j < S \/ j > E THEN row[j]
        ELSE IF s1[i] = s2[j] THEN above[j - 1]
        ELSE Min({above[j], above[j - 1], R[j - 1]}) + 1
  IN  R
(* The wall at the band's right covers the band's last cell.               *)
Closed(row) == IF i + max_ed <= Len(s2) THEN [row EXCEPT ![i + max_ed] = Far] ELSE row

Hopeless(row) == \A j \in S .. E : row[j] > max_ed

(* One turn of the outer loop.                                             *)
Row ==
  /\ result = Running /\ i <= Len(s1)
  /\ LET row == InBand(d[1 - current], Walled(d[current]))
     IN  /\ d' = [d EXCEPT ![current] = Closed(row)]
         /\ IF Hopeless(row)
            THEN result' = Far /\ UNCHANGED <<i, current>>
            ELSE i' = i + 1 /\ current' = 1 - current /\ UNCHANGED result
  /\ UNCHANGED <<s1, s2, max_ed>>

Return ==
  /\ result = Running /\ i > Len(s1)
  /\ result' = d[1 - current][Len(s2)]
  /\ UNCHANGED <<s1, s2, max_ed, d, i, current>>

Next == Row \/ Return
Spec == Init /\ [][Next]_vars

-----------------------------------------------------------------------------

(* Type correctness.  What the rows hold is a leftover, a wall or no more  *)
(* than the longer word has units: a cell is a char, which that never      *)
(* overflows.                                                              *)
TypeOK ==
  /\ s1 \in Words /\ s2 \in Words /\ max_ed \in MaxEds
  /\ DOMAIN d = 0 .. 1
  /\ \A r \in 0 .. 1 : /\ DOMAIN d[r] = 0 .. Len(s2)
                       /\ \A j \in DOMAIN d[r] :
                            d[r][j] \in Leftovers \union {Far} \union 0 .. Len(s1)
  /\ i \in 1 .. Len(s1) + 1 /\ current \in 0 .. 1
  /\ result \in {Running, Far} \union 0 .. Len(s1)

(***************************************************************************)
(* Whatever the rows held before, the banded distance is exact up to       *)
(* max_ed and above max_ed otherwise: the callers drop exactly the words   *)
(* that are too far.                                                       *)
(***************************************************************************)
BandExact ==
  result # Running =>
    LET n == edit_distance(s1, s2)
    IN  IF n <= max_ed THEN result = n ELSE result > max_ed

(***************************************************************************)
(* The wall at the left has no check against the row's end: it stays in    *)
(* the row only because a row without a cell in the band ends the call.    *)
(***************************************************************************)
WritesStayInRow ==
  result = Running /\ i <= Len(s1) => i - max_ed - 1 <= Len(s2)

(* Once for each pair of words and what the first cell held.               *)
Compared ==
  /\ i = 1 /\ result = Running /\ \A n \in MaxEds : max_ed <= n
  /\ \A j \in DOMAIN d[1] : d[1][j] = d[1][0]

(***************************************************************************)
(* All the versions that fill the table compute the least number of edits; *)
(* the one with one row does when the first word has a unit.               *)
(***************************************************************************)
DistancesAgree ==
  Compared =>
    LET n == LeastEdits(s1, s2)
    IN  /\ edit_distance(s1, s2) = n
        /\ one_row(s1, s2, d[1][0]) = n
        /\ edit_distance_ch(s1, s2) = LeastEdits(Units(s1), Units(s2))
        /\ Len(s1) > 1 => one_row_ch(s1, s2, d[1][0]) = edit_distance_ch(s1, s2)

(***************************************************************************)
(* The cheaper distances enclose the edit distance: a filter that compares *)
(* letters (enword_create.cpp:121, whole_pinyin_create.cpp:125) never sees *)
(* more difference than there is, one that compares positions never less.  *)
(***************************************************************************)
CheapOnesEnclose ==
  Compared =>
    /\ edit_distance_diff(s1, s2) <= edit_distance(s1, s2)
    /\ edit_distance(s1, s2) <= edit_distance_sequence(s1, s2)
    /\ Len(s1) = Len(s2) /\ Len(s1) % 2 = 0 =>
         edit_distance_ch(s1, s2) <= edit_distance_fpy(s1, s2)
=============================================================================
