----------------------------- MODULE RecordFifo -----------------------------
(***************************************************************************)
(* What util/circle_queue.h promises ("circle file queue, store anything"):*)
(* records come out in the order they were stored, each of them whole, and *)
(* leave only from the front, one by one or several at a time.             *)
(***************************************************************************)
EXTENDS Integers, Sequences

CONSTANT Lengths  (* the lengths of the records stored                     *)

VARIABLES
  queue,   (* the records stored and not yet released                      *)
  stored   (* how many were ever stored                                    *)

(* A record of length 0 has no payload to tell it by.                      *)
Record(len, n) == [len |-> len, id |-> IF len = 0 THEN 0 ELSE n]

Init == queue = <<>> /\ stored = 0

Put ==
  \E len \in Lengths :
    /\ queue' = Append(queue, Record(len, stored + 1))
    /\ stored' = stored + 1

Release ==
  \E n \in 1 .. Len(queue) :
    /\ queue' = SubSeq(queue, n + 1, Len(queue))
    /\ UNCHANGED stored

Next == Put \/ Release

Spec == Init /\ [][Next]_<<queue, stored>>
=============================================================================
