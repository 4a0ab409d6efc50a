---------------------------- MODULE MCSuperScore -----------------------------
(***************************************************************************)
(* A SuperScore round of two entries, published by two requests at once.   *)
(***************************************************************************)
EXTENDS SuperScore, TLC

CONSTANTS e1, e2, p1, p2

RoundSymmetry == Permutations({e1, e2}) \cup Permutations({p1, p2})
=============================================================================
