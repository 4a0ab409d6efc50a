--------------------------- MODULE MCFinalsSeries ---------------------------
(***************************************************************************)
(* Finals in which corrections can change who meets whom: the week 1       *)
(* matchups and the preliminary final may be found either way, one of them *)
(* by the tie rule; the semi-finals and the grand final go one way.        *)
(* Lineups are corrected in the first semi-final, where a lineup may be of *)
(* a displaced finalist.                                                   *)
(***************************************************************************)
EXTENDS FinalsSeries

MCOutcomes == [s \in Slots |-> CASE s = "qf" -> {"tie", "away"}
                                [] s = "ef" -> {"home", "away"}
                                [] s = "preliminary" -> {"tie", "away"}
                                [] s = "first_semi" -> {"away"}
                                [] OTHER -> {"tie"}]
MCMaxReview == [s \in Slots |-> IF s = "first_semi" THEN 3 ELSE 1]
=============================================================================
