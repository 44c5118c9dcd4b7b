----------------------------- MODULE MCSegmentAll -----------------------------
(* All word nets of texts of a fixed length, with rows that just fit.      *)
EXTENDS SegmentAll
=============================================================================
