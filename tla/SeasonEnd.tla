------------------------------ MODULE SeasonEnd ------------------------------
(***************************************************************************)
(* The end of a season: the Grand Final, the two awards derived from the   *)
(* official results (season_awards.py), and the completion that derives    *)
(* them once more, under the season's lock, and closes the season          *)
(* (season_completion.py).  Until then ordinary results and tie rulings    *)
(* may still change the ladder's last place, and a correction the premier. *)
(***************************************************************************)
EXTENDS FinalsSeeding

CONSTANTS
  Teams,
  Last(_),     \* the team an order places last
  MaxGrand     \* bound on the official versions of the Grand Final

VARIABLES
  superscore, \* how far the season's four SuperScore rounds are
  grand,      \* the effective official result of the Grand Final
  awards      \* the active season_award of each type, with its provenance

endVars == <<seedingVars, season, superscore, grand, awards>>

Awards == {"premiership", "wooden_spoon"}

EndTypeOK ==
  /\ superscore \in {"none", "initialized", "final"}
  /\ grand \in [version : 0..MaxGrand, premier : Teams \cup {None}]
  /\ awards \in [Awards -> [team : Teams, of : Nat] \cup {None}]

EndInit ==
  /\ superscore = "none"
  /\ grand = [version |-> 0, premier |-> None]
  /\ awards = [a \in Awards |-> None]

\* initialize_structure: the stream and its rounds, once there is a bracket;
\* what an earlier call made is found, what it lacks is added.
InitializeSuperScore ==
  /\ Writable /\ bracket # None /\ superscore = "none"
  /\ superscore' = "initialized"
  /\ UNCHANGED <<seedingVars, season, grand, awards>>

\* The last of the four SuperScore rounds is published (SuperScore).
FinishSuperScore ==
  /\ Writable /\ superscore = "initialized" /\ superscore' = "final"
  /\ UNCHANGED <<seedingVars, season, grand, awards>>

\* publish_finals_round of week 4, or correct_finals_result of its matchup.
PublishGrandFinal(team) ==
  /\ Writable /\ bracket # None /\ grand.version < MaxGrand
  /\ grand' = [version |-> grand.version + 1, premier |-> team]
  /\ UNCHANGED <<seedingVars, season, superscore, awards>>

\* _resolve_effective_grand_final: the premier of the effective version.
Premiership == [team |-> grand.premier, of |-> grand.version]

\* The ladder's last place, or what a ruling on these very results says of it.
LadderOrder ==
  IF order # Tied THEN order
  ELSE IF Resolves(ruling, results) THEN ruling.order ELSE None

\* _resolve_effective_wooden_spoon, with the versions it rests on.
WoodenSpoon == [team |-> Last(LadderOrder), of |-> results]

\* _record_or_supersede: the active award is kept or replaced.
Reconcile(award) ==
  /\ Writable
  /\ IF award = "premiership" THEN grand.version > 0 ELSE LadderOrder # None
  /\ awards' = [awards EXCEPT ![award] =
                  IF award = "premiership" THEN Premiership ELSE WoodenSpoon]
  /\ UNCHANGED <<seedingVars, season, superscore, grand>>

\* _require_all_final: of every finals week and every SuperScore round.  A Grand
\* Final that has an official result is in the last of the weeks, and final.
RequiredRoundsFinal == superscore = "final" /\ grand.version > 0

\* Mutant of CompleteSeason: an award that was recorded is good enough.
CompleteWithAwards ==
  /\ RequiredRoundsFinal /\ LadderOrder # None
  /\ awards' = [awards EXCEPT
       !["premiership"] = IF @ = None THEN Premiership ELSE @,
       !["wooden_spoon"] = IF @ = None THEN WoodenSpoon ELSE @]
  /\ Transition("completed")
  /\ UNCHANGED <<seedingVars, superscore, grand>>

\* One transaction under the season's lock: every required round is final, both
\* awards are reconciled, the season is completed.
CompleteSeason ==
  /\ RequiredRoundsFinal /\ LadderOrder # None
  /\ awards' = [a \in Awards |-> IF a = "premiership" THEN Premiership ELSE WoodenSpoon]
  /\ Transition("completed")
  /\ UNCHANGED <<seedingVars, superscore, grand>>

EndNext ==
  \/ SeedingNext /\ UNCHANGED <<season, superscore, grand, awards>>
  \/ InitializeSuperScore \/ FinishSuperScore
  \/ \E team \in Teams : PublishGrandFinal(team)
  \/ \E award \in Awards : Reconcile(award)
  \/ CompleteSeason

(* ------------------------------ properties ----------------------------- *)

\* A completed season has both awards, and they are and remain those of its
\* official results: of the Grand Final's effective version, and of the last
\* place of the ladder, its tie broken by a ruling on these very results.
AwardsAreRight ==
  season = "completed" =>
    /\ awards["premiership"] = [team |-> grand.premier, of |-> grand.version]
    /\ awards["wooden_spoon"].of = results
    /\ awards["wooden_spoon"].team =
         Last(IF order # Tied THEN order ELSE IF ruling.on = results THEN ruling.order ELSE None)
=============================================================================
