------------------------------ MODULE SuperScore ------------------------------
(***************************************************************************)
(* One SuperScore round: every entry's lineup scored alone, reviewed by    *)
(* entry, published as one leaderboard (superscore_round.py,               *)
(* superscore_review.py, superscore_results.py), until the season that     *)
(* owns it is completed.                                                   *)
(*                                                                         *)
(* A publication calculates every entry in one transaction, assembles what *)
(* it calculated, and commits in another.  A request that only calculates  *)
(* is a publication given up in between.                                   *)
(***************************************************************************)
EXTENDS Naturals, Sequences

CONSTANTS
  Entries,       \* EXPECTED_ENTRY_COUNT season entries
  Publishers,    \* concurrent publication requests
  None,
  MaxReview,     \* bound on the review_version of an entry
  MaxFacts,      \* bound on the states the AFL facts go through
  MaxBoards      \* bound on the leaderboard revisions

Calculations == [rev : Nat, at : Nat, said : Nat, facts : Nat]

ASSUME SuperScoreAssumption ==
  /\ Entries # {}
  /\ MaxReview \in Nat /\ MaxFacts \in Nat \ {0} /\ MaxBoards \in Nat
  /\ None \notin Calculations \cup [Entries -> Calculations] \cup [Entries -> Nat]

VARIABLES
  state,       \* bbbffl_round_lifecycle.state, "none" before there is a row
  review,      \* superscore_entry_review_state, None before setup_round
  said,        \* of each entry, its lineup and its rulings, by their changes
  facts,       \* what afl-api says of the round
  calculation, \* superscore_entry_calculation of each entry, or None
  publishing,  \* of each request, the calculations it assembled, or None
  boards,      \* superscore_leaderboard_revision with its official results
  completed    \* bbbffl_season.lifecycle_state is "completed"

roundVars == <<state, review, said, facts, calculation, publishing, boards, completed>>

SuperScoreTypeOK ==
  /\ state \in {"none", "upcoming", "open", "live", "review", "final"}
  /\ review = None \/ review \in [Entries -> 0..MaxReview]
  /\ said \in [Entries -> Nat]
  /\ facts \in 1..MaxFacts
  /\ \A e \in Entries : calculation[e] = None \/ calculation[e] \in Calculations
  /\ \A p \in Publishers : publishing[p] = None \/ publishing[p] \in [Entries -> Calculations]
  /\ boards \in Seq([Entries -> [said : Nat, facts : 1..MaxFacts]])
  /\ completed \in BOOLEAN

RoundInit ==
  /\ state = "none" /\ review = None
  /\ said = [e \in Entries |-> 0] /\ facts = 1
  /\ calculation = [e \in Entries |-> None]
  /\ publishing = [p \in Publishers |-> None]
  /\ boards = <<>> /\ completed = FALSE

\* guard_writable, first in a transaction: the season's row is locked and not
\* completed.  The lock orders these transactions and the completion.
Writable == ~completed

(* ------------------------------ the round ------------------------------- *)

\* setup_round: the lifecycle row, then every entry's review row at once.
CreateRow ==
  /\ state = "none" /\ state' = "upcoming"
  /\ UNCHANGED <<review, said, facts, calculation, publishing, boards, completed>>

CreateReviewRows ==
  /\ state # "none" /\ review = None
  /\ review' = [e \in Entries |-> 0]
  /\ UNCHANGED <<state, said, facts, calculation, publishing, boards, completed>>

OpenRound ==
  /\ state = "upcoming" /\ review # None
  /\ state' = "open"
  /\ UNCHANGED <<review, said, facts, calculation, publishing, boards, completed>>

\* advance_round_to_review, one committed transition at a time.
AdvanceToReview ==
  /\ state \in {"open", "live"}
  /\ state' = IF state = "open" THEN "live" ELSE "review"
  /\ UNCHANGED <<review, said, facts, calculation, publishing, boards, completed>>

(* ---------------------------- entry changes ----------------------------- *)

Touch(e) ==
  /\ review # None /\ review[e] < MaxReview
  /\ review' = [review EXCEPT ![e] = @ + 1]
  /\ said' = [said EXCEPT ![e] = @ + 1]
  /\ UNCHANGED <<state, facts, calculation, publishing, boards, completed>>

\* A coach's lineup, with the rulings it clears.
SubmitLineup(e) == state \in {"open", "live"} /\ Touch(e)

\* Mutant of RecordRuling: the season is not looked at.
RecordRulingUnfenced(e) == Touch(e)

\* A DNP or interchange ruling or an override, whatever state the round is in.
\* The page's review_version only has more of them refused.
RecordRuling(e) == Writable /\ Touch(e)

FactsChange ==
  /\ facts < MaxFacts /\ facts' = facts + 1
  /\ UNCHANGED <<state, review, said, calculation, publishing, boards, completed>>

(* ----------------------------- publication ------------------------------ *)

\* The revision counts the changes of the fingerprint.
Calculated(e) ==
  LET old == calculation[e]
      new == [rev |-> 1, at |-> review[e], said |-> said[e], facts |-> facts]
  IN  IF old = None THEN new
      ELSE [new EXCEPT !.rev = IF [old EXCEPT !.rev = 1] = new THEN old.rev ELSE old.rev + 1]

Calculate(p) ==
  /\ publishing[p] = None /\ review # None /\ Writable
  /\ calculation' = [e \in Entries |-> Calculated(e)]
  /\ publishing' = [publishing EXCEPT ![p] = calculation']
  /\ UNCHANGED <<state, review, said, facts, boards, completed>>

\* Blockers, stale evidence, a lost connection; or nothing more was asked.
GiveUp(p) ==
  /\ publishing[p] # None
  /\ publishing' = [publishing EXCEPT ![p] = None]
  /\ UNCHANGED <<state, review, said, facts, calculation, boards, completed>>

\* Mutant of StillCurrent: only the calculations are compared.
CalculationsCurrent(c) == \A e \in Entries : calculation[e].rev = c[e].rev

\* Every review row is at the version calculated from, every calculation is
\* the one assembled.
StillCurrent(c) ==
  \A e \in Entries : review[e] = c[e].at /\ calculation[e].rev = c[e].rev

\* A first leaderboard makes the round final, a later one corrects it.
Publish(p) ==
  LET c == publishing[p] IN
  /\ c # None /\ Writable
  /\ state \in {"review", "final"} /\ StillCurrent(c)
  /\ Len(boards) < MaxBoards
  /\ boards' = Append(boards, [e \in Entries |-> [said |-> c[e].said, facts |-> c[e].facts]])
  /\ state' = "final"
  /\ publishing' = [publishing EXCEPT ![p] = None]
  /\ UNCHANGED <<review, said, facts, calculation, completed>>

\* What complete_season asks of this round.
CompleteSeason ==
  /\ Writable /\ state = "final"
  /\ completed' = TRUE
  /\ UNCHANGED <<state, review, said, facts, calculation, publishing, boards>>

RoundNext ==
  \/ CreateRow \/ CreateReviewRows \/ OpenRound \/ AdvanceToReview
  \/ \E e \in Entries : SubmitLineup(e) \/ RecordRuling(e)
  \/ FactsChange
  \/ \E p \in Publishers : Calculate(p) \/ GiveUp(p) \/ Publish(p)
  \/ CompleteSeason

RoundSpec == RoundInit /\ [][RoundNext]_roundVars

(* ------------------------------ properties ------------------------------ *)

Latest == boards'[Len(boards')]

\* A leaderboard says, of every entry, what its lineup and its rulings say at
\* that moment, and what its stored calculation says: nothing recorded while
\* it was assembled, and no other calculation, is missed (_persist).
BoardIsCurrent ==
  [][boards' # boards =>
       \A e \in Entries :
         /\ Latest[e].said = said[e]
         /\ Latest[e].said = calculation[e].said
         /\ Latest[e].facts = calculation[e].facts]_roundVars

\* The published leaderboards only grow, and with the season's completion the
\* round is settled: no leaderboard, no calculation and no entry's rulings
\* change afterwards, by whatever was under way at that moment.
SettledByCompletion ==
  [][/\ SubSeq(boards', 1, Len(boards)) = boards
     /\ completed => /\ UNCHANGED <<state, review, said, calculation, boards>>
                     /\ completed']_roundVars
=============================================================================
