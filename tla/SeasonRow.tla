------------------------------ MODULE SeasonRow ------------------------------
(***************************************************************************)
(* The lifecycle of one season (season.py).  A transaction that locks the  *)
(* season's row first is ordered with its completion by that lock.         *)
(***************************************************************************)
VARIABLE
  season   \* bbbffl_season.lifecycle_state

States == {"setup", "active", "completed"}

\* guard_writable: after the completion no fenced operation commits.
Writable == season # "completed"

\* _transition_lifecycle_in_transaction: LEGAL_TRANSITIONS knows no way back.
Transition(target) ==
  /\ <<season, target>> \in {<<"setup", "active">>, <<"active", "completed">>}
  /\ season' = target
=============================================================================
