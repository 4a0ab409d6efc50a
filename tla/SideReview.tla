----------------------------- MODULE SideReview -----------------------------
(***************************************************************************)
(* One side of a matchup under scorer review: app/round_review.py          *)
(* _side_review.  A team sheet names at most one player per slot; the       *)
(* scorer's decisions (DNP rulings, the interchange ruling, overrides) say  *)
(* where each position's score comes from and what still blocks sign-off.   *)
(* Scores themselves are abstracted to their source.                        *)
(***************************************************************************)
CONSTANTS
  Starters,     \* the scorable positions (OVERRIDE_POSITIONS)
  Interchange,  \* the one slot that scores nothing by itself
  Players,      \* season players
  Vacant,       \* a slot naming nobody
  Doubtful      \* players whose AFL evidence recommends review_required or recommend_dnp

ASSUME SlotsAssumption ==
  /\ Interchange \notin Starters
  /\ Vacant \notin Players
  /\ Doubtful \subseteq Players

Slots == Starters \cup {Interchange}

TeamSheet == [Slots -> Players \cup {Vacant}]

\* The current decision rows of one entry: bbbffl_matchup_slot_ruling,
\* bbbffl_matchup_interchange_ruling ("none": no row; "unused": a row with a
\* NULL target) and bbbffl_matchup_override.
Decisions ==
  [ruling   : [Slots -> {"unruled", "dnp", "played"}],
   target   : Starters \cup {"none", "unused"},
   override : SUBSET Starters]

NoDecisions ==
  [ruling |-> [p \in Slots |-> "unruled"], target |-> "none", override |-> {}]

RuledOut(d, p) == d.ruling[p] = "dnp"

VacantIn(sheet, d, p) == RuledOut(d, p) \/ sheet[p] = Vacant

\* Positions nobody fills and no interchange ruling speaks about.
OpenVacancies(sheet, d) ==
  IF d.target = "none" THEN {p \in Starters : VacantIn(sheet, d, p)} ELSE {}

InterchangeUsable(sheet, d, p) ==
  /\ VacantIn(sheet, d, p)
  /\ d.target = p
  /\ ~ RuledOut(d, Interchange)
  /\ sheet[Interchange] # Vacant

\* effective_source of a position.
Source(sheet, d, p) ==
  IF p \in d.override THEN "override"
  ELSE IF InterchangeUsable(sheet, d, p) THEN "interchange"
  ELSE IF VacantIn(sheet, d, p) THEN "zero"
  ELSE "starter"

Sources(sheet, d) == [p \in Starters |-> Source(sheet, d, p)]

UnresolvedDnp(sheet, d) ==
  {p \in Slots : sheet[p] \in Doubtful /\ d.ruling[p] = "unruled"}

TargetOccupied(sheet, d) ==
  d.target \in Starters /\ ~ VacantIn(sheet, d, d.target)

VacancyUnresolved(sheet, d) ==
  /\ sheet[Interchange] # Vacant
  /\ ~ RuledOut(d, Interchange)
  /\ OpenVacancies(sheet, d) # {}

\* No blocker on this side.
SideReady(sheet, d) ==
  /\ UnresolvedDnp(sheet, d) = {}
  /\ ~ TargetOccupied(sheet, d)
  /\ ~ VacancyUnresolved(sheet, d)
=============================================================================
