------------------------------ MODULE MCSquads ------------------------------
(***************************************************************************)
(* Two teams.  The preseason runs from nothing with squads of one, and the *)
(* mid-season from the confirmed ladder, after any preseason with squads   *)
(* of two.                                                                 *)
(***************************************************************************)
EXTENDS MidseasonDraft, TLC

CONSTANTS e1, e2

MCOrders == {<<e1, e2>>, <<e2, e1>>}

\* No pick, a first-round pick given away, or the first-round picks swapped.
MCPickTrades == {<<>>, <<1, e1>> :> e2, <<1, e1>> :> e2 @@ <<1, e2>> :> e1}

MCSymmetry == Permutations(Players)

\* The season the preseason leaves behind: every pick made at instant 1.
Midseason ==
  \E squads \in [DOMAIN SnakePicks(<<e1, e2>>, 2) -> Players] :
    LET blank == SnakePicks(<<e1, e2>>, 2)
        picks == [s \in DOMAIN blank |-> [blank[s] EXCEPT !.player = squads[s], !.at = 1]]
    IN /\ \A s, t \in DOMAIN squads : squads[s] = squads[t] => s = t
       /\ clock = 2 /\ eligible = Players /\ limit = 2
       /\ periods = {[player |-> squads[s], entry |-> blank[s].owner, from |-> 1, to |-> Open] :
                       s \in DOMAIN blank}
       /\ drafts = [k \in Kinds |-> IF k = "preseason"
                                    THEN [NewDraft(2, picks) EXCEPT !.final = TRUE] ELSE NoDraft]
       /\ window = "closed" /\ version = 1
       /\ opening = [e \in Entries |-> Squad(periods, e)]
       /\ order \in Orders /\ midState = "ladder_confirmed"
       /\ trigger = 1 /\ confirmedAt = 1 /\ confirming = {}
       /\ delisted = {} /\ trades = <<>> /\ finalRead = FALSE

MCInit == SquadsInit \/ Midseason

MCSpec == MCInit /\ [][SquadsNext]_squadVars

CONSTANT CorrectedLate   \* the opening squads may be corrected during the mid-season

\* Bounds: the season that starts with the preseason ends with its ladder, and
\* has at most one player in quarantine at a time, early on.
StartsEarly ==
  /\ eligible # Players => Cardinality(Players \ eligible) = 1 /\ clock = 1
  /\ midState \in {"none", "ladder_confirmed"}
  /\ trigger # 0 => window = "closed" /\ version = 1 /\ clock = 2

\* Bounds: the one that starts at the ladder leaves the preseason draft as it
\* is and delists two players; a trade is of players or of picks, and beside it
\* no reconciliation of the draft falls asleep.
StartsLate ==
  /\ eligible = Players
  /\ window = "closed" /\ (version = 1 \/ CorrectedLate)
  /\ drafts["preseason"].final /\ ~drafts["midseason"].paused
  /\ Cardinality(delisted) <= 2
  /\ trades # <<>> =>
       /\ DOMAIN trades[1].to = {} \/ DOMAIN trades[1].picks = {}
       /\ finalRead => midState = "draft_open"

Bounds == IF limit = 2 THEN StartsLate ELSE StartsEarly
=============================================================================
