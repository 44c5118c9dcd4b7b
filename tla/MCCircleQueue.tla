---------------------------- MODULE MCCircleQueue ----------------------------
(* A small file: 3-cell header, 2-cell stamps, 1-cell lengths.             *)
EXTENDS CircleQueue
=============================================================================
