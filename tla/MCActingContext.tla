--------------------------- MODULE MCActingContext ---------------------------
(***************************************************************************)
(* Two coaches of one entry each, in different seasons; one of them logs   *)
(* in, from two browsers or tabs, and is granted a scorer's and an         *)
(* administrator's role.                                                   *)
(***************************************************************************)
EXTENDS ActingContext, TLC, FiniteSets

CONSTANTS c1, c2, e1, e2, t1, t2, q1, q2, q3, g1, g2, s1, s2

MCSeasonOf == e1 :> t1 @@ e2 :> t2
MCFirstHolder == e1 :> c1 @@ e2 :> c2

\* What happens to a coach who never logs in does not matter here.
OneOfficial ==
  /\ \A g \in GrantIds : grants[g] = None \/ grants[g].coach \in WithLogin
  /\ holder[e2] = c2 /\ credential[c2] = 1

UnderWay == {q \in Requests : requests[q] # Idle}

\* The two stories are checked side by side: two sessions and two resets with
\* no roles or transfers about, or one session, its roles and the tabs that
\* share it.  Three requests at once are logins and resets.
ResetStory == holder = FirstHolder /\ \A g \in GrantIds : grants[g] = None
RolesStory == credential[c1] = 1 /\ sessions[s2] = None

ContextBounds ==
  /\ OneOfficial
  /\ \/ Cardinality(UnderWay) <= 2
     \/ \A q \in UnderWay : requests[q].step \in {"verified", "rotated", "resetting"}
  /\ \/ RolesStory
     \/ ResetStory /\ \A s \in SessionIds : sessions[s] = None \/ sessions[s].role = "coach"

ContextSymmetry == Permutations({q1, q2, q3}) \cup Permutations({g1, g2})
=============================================================================
