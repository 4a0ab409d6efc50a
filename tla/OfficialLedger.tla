--------------------------- MODULE OfficialLedger ---------------------------
(***************************************************************************)
(* What the official results of one ordinary round promise, whatever the    *)
(* code does to keep the promise: nothing is official until every matchup   *)
(* is, in one step; afterwards histories only grow, one version of one      *)
(* matchup at a time; once the season is completed no history changes       *)
(* again; and the result in force is always the last of its history.        *)
(***************************************************************************)
EXTENDS Naturals, Sequences

CONSTANTS Matchups

VARIABLES
  closed,   \* the season is completed
  history,  \* the official versions of each matchup
  inForce   \* the version of each matchup everybody reads, 0 before there is one

vars == <<closed, history, inForce>>

Init ==
  /\ closed = FALSE
  /\ history = [m \in Matchups |-> <<>>]
  /\ inForce = [m \in Matchups |-> 0]

\* The history of m grows by one version and that version comes into force.
Extends(m) ==
  /\ Len(history'[m]) = Len(history[m]) + 1
  /\ \A i \in DOMAIN history[m] : history'[m][i] = history[m][i]
  /\ inForce'[m] = Len(history'[m])

PublishAll ==
  /\ ~ closed
  /\ \A m \in Matchups : inForce[m] = 0 /\ Extends(m)
  /\ UNCHANGED closed

Amend(m) ==
  /\ ~ closed
  /\ \A n \in Matchups : inForce[n] # 0
  /\ Extends(m)
  /\ \A n \in Matchups \ {m} : history'[n] = history[n] /\ inForce'[n] = inForce[n]
  /\ UNCHANGED closed

Close ==
  /\ ~ closed
  /\ closed' = TRUE
  /\ UNCHANGED <<history, inForce>>

Next == PublishAll \/ Close \/ \E m \in Matchups : Amend(m)

Spec == Init /\ [][Next]_vars
=============================================================================
