# TLA+ models of BBBFFL Scoring

A verification project for `bbbffl_app`: the season model of a fantasy football league of ten
entries, in which coaches submit weekly lineups, scorers recalculate scores from the facts of an
external service (afl-api), rule on players who did not play, sign rounds off and correct them. The
program is a web application over a relational database: every request runs in a thread of its own,
its transactions are atomic, and between two transactions, or two statements outside one, anything may
happen. Production uses PostgreSQL at READ COMMITTED with `SELECT ... FOR UPDATE` row locks
(`db.py:_for_update_suffix`); that is the setting of every model here. With SQLite, used by the tests,
writers are serialised and there is strictly less interleaving.

All paths below are under `src/bbbffl_app/app/` unless they say otherwise.

## 1. The system

| Component | State | Operations | What is hard about it | What makes it correct | Modelled in |
|---|---|---|---|---|---|
| Round review and sign-off (`round_review.py`, `routes/round_review.py`) | slot rulings, interchange ruling, overrides per matchup and entry; `review_version` of a matchup | record a ruling/override, build the review, sign off, correct | the review is built by many unlocked statements; two or more scorers; a sign-off first recalculates over the network | a result is frozen from the decisions and lineups in force when it commits | RoundResults |
| Competition lifecycle (`competition_lifecycle.py`) | round state and version, official results per version, effective version | create, transition, publish, correct one matchup | compare-and-swap on two versions, all-or-nothing publication, the season fence | final exactly when everything is published; histories only grow | RoundResults, OfficialLedger |
| Matchup calculation (`calculations.py`, `scoring.py`, `participation.py`) | one calculation row per matchup | calculate a matchup or a round | holds row locks across a network call; the facts may come from a stale cache | a calculation never regresses | RoundResults |
| Weekly lineups (`lineups.py`, `lineup_correction.py`) | a draft and its revision; immutable submission versions; effective version; corrections | save draft, submit, correct | draft and version compare-and-swaps; a correction invalidates the scorers' decisions | earlier versions stand, stale pages are refused, corrections say what they overrode | RoundResults, PositionLocks, LineupDrafts |
| Lockout triggers (`lockouts.py`, first half; `round_preflight.py`) | trigger headers with immutable revisions, activation rows | configure, remove, observe and activate | pages that are out of date, AFL membership checked before the lock, facts fetched before the lock | what locked a player can never be changed afterwards | LockoutPlan |
| Position locks (`lockouts.py`, second half) | one immutable lock row per lineup position | materialise, lock state, guard a submission | evidence is written in its own transaction, lineups move meanwhile | a locked position is not moved by an ordinary submission | PositionLocks |
| Round mapping and preflight (`round_mapping.py`, `round_preflight.py`, `fixtures.py`) | mapping revisions; the frozen fixture draw | propose, accept, correct; create and open a round | the "not yet created" check is made without a lock | an open round keeps the mapping it froze | LockoutPlan, PairedWeek, SeasonSetup |
| Proxy, carry-forward, validation (`lineup_proxy.py`, `carry_forward.py`, `lineup_validation.py`, `coach_lineup.py`) | `draft_source`; none of their own otherwise | save or submit on a coach's behalf, copy an earlier lineup | an unlocked source lineup, two authors of one draft | provenance is never lost, a copy equals its source | LineupDrafts |
| Missed-lineup adjudication (`lineup_adjudication.py`) | an adjudication with its slots | preview, confirm | evidence compared with activation instants | only content proven to predate the lock counts | LineupDrafts |
| Opening Round deferred selections (`opening_round.py`) | rules, nominations, locks, confirmations | propose, accept, nominate, correct, confirm, reopen | one slot locks against another AFL round | a locked nomination stands | LineupDrafts, SeasonSetup |
| Player pool and ownership (`player_pool.py`) | ownership periods, squad limits | acquire, release | operations commit in another order than the instants they carry | one owner at any instant, the past is never rewritten | Ownership, SquadHistory, SeasonDraft |
| Preseason draft (`draft.py`) | ordered picks, pause, finalised | accept order, pick, correct, transfer, finalise, reopen | corrections and transfers between picks; a final draft may be reopened at any time | turns are taken in order | SeasonDraft, SeasonSetup |
| Preseason window (`preseason.py`) | window, trades, frozen squads | open, trade, close, correct the snapshot | a draft reopened under a closed window | the snapshot is the ownership | PreseasonWindow |
| Mid-season draft (`midseason_draft.py`) | phases, delistings, trades, vacancies | confirm the ladder, delist, trade, lock, generate, pick, reopen | a long protocol of phases; trades of picks and players, reversals | picks equal vacancies, nobody over the limit | MidseasonDraft |
| Provisional players (`provisional_players.py`) | nominations, provisional identities, candidate matches | nominate, create, detect, reconcile, reject | several candidates on one target, pool refreshes in between | a player is quarantined exactly while a match is unresolved | ProvisionalPlayers |
| Finals series (`finals*.py`) | bracket, pairings, eliminations, review | create, open week, advance, rewind, publish, correct | a corrected prerequisite after a later week has begun | pairings follow from the results in force | FinalsSeeding, FinalsSeries |
| SuperScore (`superscore_*.py`, `finals_superscore_open.py`) | review state per entry, leaderboards; a plan that mirrors the finals week's | set up, open, calculate, publish; synchronise | a publication in two transactions; two plans edited apart | a leaderboard is current; the plans agree after synchronising | SuperScore, PairedWeek |
| Ladder and tie rulings (`ladder.py`, `ladder_tie_ruling.py`) | tie rulings | recompute, record a ruling | the ladder moves with corrections | a ruling applies to the results it was made on | FinalsSeeding, SeasonEnd |
| Season (`season.py`, `season_setup.py`, `season_activation.py`, `season_completion.py`, `season_awards.py`) | lifecycle state, entries, byes, draw, awards | set up, activate, complete, reconcile awards | decisions taken from afl-api before the transaction that writes | an active season is set up; a completed one has its awards | SeasonSetup, SeasonEnd, Season |
| AFL client (`afl_client.py`, `afl_resilience.py`) | a cache | read with retry and stale fallback | a second read older than the first | evidence says whether it is fresh; it speaks of the request's own fetches only | RoundResults (`StaleWindow`) |
| Authentication and authorization (`auth.py`, `authorization.py`, `identity.py`) | credentials, sessions, grants, holders | login, rotate, reset, grant, transfer, switch role | three reads of a changing database per request, tabs that share a session | a request acts with an authority its coach had while it ran; an answered reset leaves no session that was open | ActingContext |
| Grand Final prototype (`service.py`, `db.py`, ...), replay tooling, read models, configuration | -- | -- | superseded, sequential, or read-only | -- | -- |

How they interact: scorers and coaches call the services through `routes/`; a submission calls the
lock guard inside its own transaction; a lineup correction reaches into the review's tables and bumps
the matchup's `review_version`; a sign-off recalculates, reads the review and calls
`publish_results`; the ladder, the finals seeding and the awards read official results; completion of
the season raises the fence every publication checks. There are no callbacks and no background jobs:
"eventually" never happens by itself, only because somebody asks.

## 2. The modules

### RoundResults, SideReview, OfficialLedger

`RoundResults` is one ordinary round from "open" to its published and corrected results.
`SideReview` (pure operators) is one side of a matchup under review: where each position's score
comes from, and what blocks sign-off. `OfficialLedger` is the abstract specification: nothing is
official until everything is, in one step; then histories grow by one version of one matchup at a
time; a completed season is closed for good.

State: `season`, `round` (state and version), `reviewVersion`, `effective`, `official`, `lineup`,
`decisions`, `calculation` are the tables; `facts` is the revision of what afl-api publishes;
`lockedBy` the matchup rows a running calculation holds; `scorer` the requests under way.

Actions and code: `StartCalculation` / `PersistCalculation` = `_calculate_locked` (rows locked in a
fixed order, facts fetched over the network while they are held, then lineups read, rows persisted,
commit); `ReadRound`, `ReadMatchups`, `ReadCalculation`, `ReadDecisions` = the unlocked statements of
`build_round_review`/`build_matchup_review`; `Publish` = `attempt_signoff` with `publish_results`;
`CorrectMatchup` = `attempt_correction` with `correct_matchup_result`; `LoadReview` and `Record...` =
the three ruling commands; `CorrectLineup` = `submit_correction` with
`_invalidate_stale_review_state`; `SubmitLineup`, `AdjudicateMissedLineup`, `Transition`,
`CompleteSeason`, `AflFactsChange`; `Abandon` = any refusal, failure or lost connection, with the
rollback and the release of locks.

Abstractions. Scores are reduced to their source: a frozen result keeps the calculation and the
decisions it was made from. The rulings, overrides and lineup-version statements of one matchup are
one step (`ReadDecisions`): every write of a decision and every lineup correction bumps
`review_version`, which was read before and is compared at the commit, so a request that saw some of
them before and some after such a write cannot commit; a resubmission does not bump it, but changes
the lineup version, which is compared with the calculation's. The lineups of a calculation are read
at `PersistCalculation`: the code reads each one just before it writes the row, and no later step of
the transaction depends on anything that could happen in between except another entry's submission,
which is a change of the other side. The five matchups are `NumMatchups`; `correct_results` has no
caller and is left out.

### LockoutPlan

The trigger plan of a round together with its mapping, from before the round exists. An operator's
decision is a process: `LoadPage` (what the page showed), `Check` (what is verified before any lock,
with calls to afl-api), then one guarded transaction: `ActivateMapping`, `ConfigureTrigger` or
`RemoveTrigger`. An observation is a process: `Fetch` (match facts, no lock), `ReadTriggers` (takes
the row of `bbbffl_round`, compares the mapping revision, lists the triggers), `FireTriggers` (inserts
the activations and commits). `CreateRound` snapshots the mapping, `OpenRound` compares it.
`MatchBegins`/`MatchRescheduled` are the outside world: a match passes its lock boundary by status or by
the clock, and one not played may be moved.

A decision's transaction is one step because every writer of these tables takes the `bbbffl_round` row
first; `create` and `replace`, which do not, have no production caller. The observation keeps the row
over two steps because it reads and fires trigger by trigger. Pages always send the revision they
showed. Where a
trigger may stand among the others is `LockoutRules`, which PairedWeek shares.

### PositionLocks

One entry's lineup under that plan (`EXTENDS LockoutPlan`, composing its observations with lineup
requests). A request observes (`Begin`, `Observe`), records lock evidence for the effective lineup
in a transaction of its own (`ReadEffective`: unlocked read, network call; `RecordEvidence`: insert),
and then answers a page (`Answer`), submits (`Guard`: row locks taken, version compared, positions
evaluated with the facts fetched under the lock; `Commit`) or corrects (`CorrectLineup`). `Advance` is
the lifecycle, whose row a guarded submission holds. `PlanEdited` is what an operator's decision does
to the plan; how a decision comes about is LockoutPlan's subject.

The coverage the evidence step reads and its insert are one step, and the guard's facts do not matter
beyond what the durable activations say, because evaluation reads activations and not statuses. A
match that the confirmed-bye lookup cannot explain is INDETERMINATE (`byes` is the answer of that
lookup). Deferred Opening Round slots, ownership and the draft are left out.

### LineupDrafts

How one entry's lineup for one round comes to be: the draft, the five ways of submitting (coach, proxy,
carry-forward, capture of an evidenced draft, carry-forward as an adjudicator's fallback) and the
Opening Round nominations that fix some of its positions.

State: `draft` is `weekly_lineup` with its slots (revision 0: no row yet), `lineup` the effective
submission, `earlier` those of the earlier rounds, `nominated` and `confirmed` the entry's nominations
and their confirmation, `firedBy` which match fired each trigger, `rowLock` and `entryLock` who holds
the rows of `weekly_lineup` and `opening_round_submission`, `request` the requests under way. History:
`draft.edited` (a person saved it) and `atStart` (the draft when the clock passed a match's start).
The clock is modelled because evidence compares the instant a slot was saved with the instant a
trigger fired.

Actions and code: `Visit`/`Preload`/`Load` = `ensure_draft` with `preload_target_lineup`, then the
page; `Post`/`Save` = `lineup_action`'s form and `save_draft`; `AskVacancies` the second page;
`Examine` = `_eligibility`; `Resolve` = `resolve_source` and `get_or_create_header`; `Observe` =
`materialize`; `TakeRow` = `_lock_lineup_row` with every check of `submit`, `submit_positions` or
`submit_adjudicated_first_submission`; `Commit` = `_finalize_submission`; `LockState`, `Nominate`,
`ReadSlot`, `Renominate`, `Confirm` = the nominations (`_lock` holds the confirmation's row from the
check to the commit; `ReadSlot` is the unlocked read of `_reconcile_corrected_target_draft`);
`Resubmit` an earlier round's submission; `Drop` any refusal or failure; `Tick`, `RoundObserved`,
`Advance` everybody else.

Abstractions. An observation is one step and lock evidence is left out: LockoutPlan and PositionLocks
have them, and since a trigger never comes undone, evidence adds nothing to what triggers cover. A
preload reads the draft and saves it with the revision it read, so it is one step. Rules, ownership
and clubs are the constant `Nominees`. `cast` says which requests a behaviour may have, so that one
run covers the pairs that interfere and not their product.

### Ownership, SquadHistory, SeasonDraft, PreseasonWindow, MidseasonDraft

`Ownership` is `player_ownership_period` as a value: what it is to release, to acquire, to fit in a
squad at an instant. `SquadHistory` is the abstract specification over it: a step closes open periods
and opens new ones, never rewrites or forgets one, and nobody is owned twice at any instant.
`SeasonDraft` has the two drafts and the squad limit, `PreseasonWindow` extends it with the trade
window and the frozen opening squads, `MidseasonDraft` with the phases of the mid-season.

Every operation locks its draft (or the season) first and is one step; its instant is not, since
`draft.py` and `preseason.py` read it before they queue for the lock, so an operation takes effect
at any earlier instant `at`. The mid-season's own operations read it under the lock. Two things are
steps of their own because they are transactions of their own: `CheckTrigger`/`ConfirmLadder`
(`confirm_ladder` checks the trigger round, then computes the ladder, then writes) and
`FinalizeMidseason`/`ReadCompletion`/`CompleteDraft` (`reconcile_completion`). A superseded pick's
row is kept by the code and filtered by every query; the model empties the pick instead. The ladder
is any order; `transfer_pick` is left to the preseason, where its callers are. Shortlists and the
draft board are a coach's notes and a read model.

### ProvisionalPlayers

Nominations, provisional rows, their candidate matches and the quarantine. Names are not kept: an
operation that compares them is given the pairs that agree at that moment (a refresh renames players
too). `Create` and `Refresh` include detection, `RejectCandidate` and `Reconcile` give back the
eligibility that `restore_eligible_on_release` holds for the target, and hand it to the next pending
match. `Acquire` and `ReleaseRow` are the drafts and trades of Ownership, whoever the owner is.

### FinalsSeeding, FinalsSeries

`FinalsSeeding` goes from the last ordinary round to a frozen bracket: corrections of results, tie
rulings, the replay season's snapshot, and the bracket's creation in its reads (`ReadSeed`,
`ResolveTie`) and its transaction (`CreateBracket`), which compares what was read under the lock.

`FinalsSeries` is the four weeks. `OpenWeek`/`Materialise`/`FinishOpening` = `open_finals_week`, one
transaction per pairing; `StartPublication`/`CommitPublication` = `publish_finals_round`;
`Advance` = `advance_finals_week`; a correction is `StartCorrection` (recalculate, assemble),
`BeginCorrection` (its transaction up to the reading of the next week's pairings) and
`FinishCorrection` (under the next week's locks: retried when a pairing was materialised in between,
refused when the next week is played, else committed with the rewind). `Played` is
`_downstream_play_state`. Lineups come in three ways, which differ in what they lock: `Submit` and
`SubmitAdjudicated` are first submissions (`FirstSubmission`), under the rows of the lineup and of the
round only, so that they may fall between the two halves of a rewind; `CorrectLineup` takes its
matchup's row too and moves its review version. Scores are reduced to who wins, lineups to who has one; entries are their
seed positions; the review's protocol is RoundResults'. A rewind that holds the matchup's row while a
submission holds the round's may end in a deadlock, which the database breaks: one of the two is rolled
back, and the model simply lets the other go first.

### SuperScore, LockoutRules, PairedWeek

`SuperScore` is one SuperScore round: review rows, rulings and lineups (`said`), a calculation per
entry with a fingerprint's revision, and a publication in two transactions. `PairedWeek` is the one
operator action that opens a finals week and its SuperScore round (`finals_superscore_open.py`): each
of its four transactions is a step, operators edit either plan, triggers fire and either round is
opened by itself in between, the action may end after any of them and be called again. The planner is
modelled as it is written: a pass tries each change left over (`Tried`, `Pass`), and passes are repeated
(`Planned`); since one that moves nothing changes nothing, as many passes as keys stand for the loop's
"while progressed". `Written` is the writer's own view of an order, with the rule of `LockoutRules`
that also refuses a second main trigger. The loops are recursive functions, so that proofs can unfold
them.

### SeasonRow, SeasonSetup, SeasonEnd, Season

`SeasonRow` is the lifecycle and its fence. `SeasonSetup` is everything before activation; the two
requests that decide something from afl-api or the draft before their transaction
(`accept_opening_round_rules`, `accept_draft_order`) are two steps. Of the draft and the trade window it
keeps how far they are, forwards and backwards: `ExecutePick`, `CorrectPick`, `FinalizeDraft`,
`ReopenDraft`, `OpenWindow`, `CloseWindow` (`draft.py`, `preseason.py`; players and squads are
SeasonDraft's and PreseasonWindow's). A draft may be reopened whatever the season is in; its picks can
be corrected only until the window is closed, since a correction releases a player. `begun` remembers
Pick 1 even when it was corrected, as `_completed_preseason_picks` does. `SeasonEnd` (over
`FinalsSeeding`) is the Grand Final, the awards and their reconciliation, the completion. `Season`
composes them over the shared row; what is played in between is the single step `PlayRounds`.

### ActingContext

Whom a request acts as. `Arrive`, `ResolveActiveRole` and `ResolveRepresentedEntry` are the three
reads of `resolve_principal`; `EnterForEntry`/`EnterForSeason` the checks of a route; `ActivateRole`/
`SetActiveRole` and `Represent`/`SetRepresentedEntry` the check and the write of a switch; `VerifyLogin`, `RotateSession`,
`OpenSession` a login in its three transactions; `ResetPassword`, `RevokeAllForCoach` a reset in its
two; a login keeps the credential it verified to its last step, and the session it opens carries it
(`since`) beside the resets that were answered when its row was written (`answered`); `Grant`, `Revoke`, `TransferEntry`, `Expire`, `Logout` the rest. `seen` is a history variable: the
authorities each request's coach has had since it came. What only refuses a request (passwords, the
attempt limiter, CSRF tokens, the table of capabilities) is left out.

## 3. Model checking

| Run | Module, configuration | What it shows |
|---|---|---|
| `round_results` | MCRoundResults | decisions and lineups in force at the commit, refinement of OfficialLedger |
| `round_evidence` | MCRoundResults, RoundEvidence.cfg | facts older than the request only from another's stale cache, no regression of a calculation |
| `lockout_plan` | MCLockoutPlan | activated triggers frozen, plan ordered, decisions informed, matches of the accepted round only |
| `position_locks` | MCPositionLocks | evidence and earlier locks hold against submissions; corrections record what they override |
| `lineup_drafts` | MCLineupDrafts | what is submitted was seen, copies are current, nominations honoured, a capture proves what it claims |
| `squads` | MCSquads | the ledger keeps its history (refinement of SquadHistory), picks in turn, frozen squads stand, delistings owned, limits and vacancies after trades |
| `provisional` | MCProvisionalPlayers | the quarantine is exact, rejections stand, owned matches quarantine |
| `finals_series` | MCFinalsSeries | bracket, results and lineups agree through corrections and rewinds; open weeks are complete; corrections end |
| `season` | MCSeason | from creation to completion: setup decided and kept through reopened drafts, seeding right, awards right |
| `superscore` | MCSuperScore | leaderboards are current when they commit; completion settles the round |
| `paired_week` | MCPairedWeek | a synchronisation mirrors the finals week; the planner gives up only when no order works |
| `acting_context` | MCActingContext | requests act within an authority their coach had; an answered reset leaves no session that was open |

Bounds, and why they are enough. *round_results*: two matchups (the smallest draw in which a
publication could be partial and a correction of one could disturb the other), one scored position and
the interchange, two players one of whom needs a ruling, one slot the scorers rule on, two requests;
three review versions, two lineup versions and three official versions let two corrections follow a
publication. It starts in a live round with all lineups but one submitted; the missing one exercises
adjudication and the calculation that fails. *round_evidence*: one matchup, three fact revisions, a
publisher and a recalculator, either of which may be served by a cache one revision old.
*lockout_plan*: two triggers, so that order and uniqueness mean
something, two revisions each (configured, then removed or reconfigured), two AFL rounds and mapping
revisions, two operators with overlapping tasks, one observer; keys are interchangeable (symmetry).
*position_locks*: two positions, three players (one in the selective trigger's match, one in the main
trigger's, one on a bye), two proposed sheets, three versions; one request submits, the other views or
corrects. *lineup_drafts*: two positions, three players (one on a bye, the only nominee), a selective
trigger over two matches that start at different instants, so that one of them may lock the other's
players, one of them after the main trigger's match, which may begin early; three instants, three draft
revisions, two versions, one earlier round with two; eleven pairs of requests, each pair chosen because
the two touch the same rows. The third instant is reached beside captures only (`LastInstantForCaptures`):
all matches have begun by the second, and nobody else looks back.
*squads*: two teams and four interchangeable players, three instants, one trade of one or two players
or of first-round picks (given away or swapped), two snapshot versions. Two starts: from nothing with
squads of one (`StartsEarly`: the preseason up to the confirmed ladder) and from the confirmed ladder
after any preseason with squads of two (`StartsLate`); a pick's order, a limit that binds and a swap
all need two places, and the two halves share nothing but the ledger they hand over. *provisional*:
two provisional and two canonical players, all pairs of them (symmetry): the smallest case in which a
target has two pending matches and a provisional player two targets. *finals_series*: all four weeks
with five finalists; the week-1 matchups and the preliminary may go either way, one by the tie rule;
one finalist submits, one matchup is ruled on, one week's trigger fires; reviews are moved twice
beyond the first (`MaxReview`) in the first semi-final, where a lineup may be a displaced finalist's, and
not elsewhere; one correction with every interleaving of the next week's opening. *season*: two teams and one entry too many, two clubs whose
byes are published in stages, two results, two rulings, two Grand Final results, two draws; drafts are
corrected, reopened and finalized any number of times, before and after the activation. Once the season
is played no request of the setup is left under way and the byes are all published
(`SettledBeforePlay`): Pick 1 is made, so neither could change anything. *superscore*: two entries, two publications, two of everything that is counted.
*paired_week*: two keys, five configurations over two AFL rounds, one later edit after any pair of
plans (`MCPairInit`), three mapping revisions. *acting_context*: two coaches with an entry each in
different seasons, one of them logs in, two sessions, two resets (`MaxCredential`), which may be under
way at once with a login beside them (three requests), two requests at once otherwise, roles scorer and
administrator, one grant in force; `ContextBounds` separates the story of the resets from that of the
roles. In all runs the counters are bounded by guards (`Max...`) or by the constraints
named here, and every action fires.

Deadlock is checked in the runs whose system goes on for ever (`lockout_plan`, `position_locks`,
`lineup_drafts`). The others say CHECK_DEADLOCK FALSE: with every counter at its bound and the round,
draft or season over, nothing may be left to do.

Fairness. Nearly nothing in this code happens by itself: coaches and scorers act if they want to, a
request may be given up at any point, so most specifications are `Init /\ [][Next]_vars`. The
exception is a loop in the program itself: the transaction of a finals correction restarts when the
next week changed under it. `SeriesSpec` assumes weak fairness of that request's own steps
(`BeginCorrection \/ FinishCorrection`): a request the server has taken up runs. `CorrectionsEnd` says it
ends, however often the next week is opened meanwhile; it holds because each restart needs a pairing
to be materialised and there are finitely many.

Mutants. PROJECT.json pairs every property with a plausible slip of the code (a comparison dropped, a
flag taken from the wrong row, half of a retry) under which its run fails; the mutated operator stands
beside the original in the module, with a comment that says what it gets wrong.

## 4. What is proved

TLAPS, for every value of the constants that satisfies the named assumptions (`SlotsAssumption`,
`ShapeAssumption`, `DataAssumption`, `NullAssumption`; `PlanAssumption`, `LineupAssumption`;
`DraftAssumption`; `OpenAssumption`, `SeasonDraftAssumption`, `PickTradesAssumption`;
`IdentityAssumption`; `SetupAssumption`, `SeedingAssumption`; `SuperScoreAssumption`, `PairAssumption`;
`ContextAssumption`; `ActorsAssumption`, `AbsenceAssumption`). They say that null values are no values,
that orders name every entry once, that initial data are well formed and that bounds are numbers. No
theorem has a hypothesis of its own.

*RoundResultsProofs*: `TypeCorrect`; `FinalExactlyWhenPublished` (the invariant together with types is
inductive: only `Publish` and `CorrectMatchup` touch results, and `LegalTransition` never yields
"final"); `LedgerImplemented`, the refinement, from it; `FrozenDecisionsAreCurrent`. The last needs
`ReviewInv`: what a request has read of a matchup is still current if the matchup's review version
still is the one read *before* it. Each reading step extends what the request holds, every writer of a
decision bumps the version, and a version never returns. `DistinctReviews` comes from `CorrectionInv` (a
correction's review version lies below the matchup's, because committing it bumps it);
`SignoffRestsOnCurrentLineup` from `SnapshotInv` (a stored calculation's lineups are the effective ones
if the version numbers agree) and `SignoffInv` (the same for what a request has read);
`CalculationsAdvance` from `CalculationInv` (rows locked by a calculation are written by it only).
Official facts may be older than the request that publishes them (section 5). `OlderFactsComeFromOthers`
says how old and whose: nothing that becomes official was calculated by a request that began before the
facts its publisher began with, and what is older than that is another request's stale answer. It rests on
`SinceInv`: once a publishing request has stored its calculation, every row it covers, and every row it
read, was calculated by itself from live facts or by a request that began no earlier.

*LockoutPlanProofs*: `PlanTypeCorrect`; `ActivatedPlanIsFrozen` -- not inductive by itself, since an
observation fires triggers it listed in an earlier step: `Held` adds that it holds the round row
meanwhile and that what it listed is still listed; `DecisionsAreInformed` from `SeenInv` (a page's
history is never longer than the trigger's, and one of the same length is the same one);
`PlanFollowsMapping` from `CheckedInv` and `FetchedInv` (what was fetched without a lock belongs to
the accepted AFL round if its mapping revision is still the accepted one); `PlanStaysOrdered`. Over
PositionLocks, which composes the plan with an entry's lineup: `LocksAreTyped`,
`SubmissionsKeepEvidence`, `SubmissionsKeepEarlierLocks` and `CorrectionsAreMarked`. Their `LockInv` says
that what a guarded submission changes was neither recorded nor covered when its observation ended
(`GuardedKeeps`), and that a request whose expected version is still the lineup's has recorded evidence
for the lineup in force (`Recorded`). That a covered position stays covered meanwhile is the plan's own
invariant at work: an activated trigger is not reconfigured (`FrozenInv`).

*LineupDraftsProofs*: `SubmissionsWereSeen`, `CopiesAreCurrent`, `NominationsAreHonoured` and
`CapturesArePreLock` from `DraftInv`, one statement per request and one about the draft. `Saved`: the
draft is what a request saved if its revision is the one it wrote. `Copied`: the source is what it
copied if the version is the one it read. `Captured`: what it is about to capture is in the draft,
unmarked since every instant that matters. `DraftHistory`: at every match's start the draft held what it
holds now wherever it has no later mark. `WorldMoves` says once what any step may do to what the others
have read (save the draft only while its row is free or there was none, replace no source that is held,
undo no trigger), so that `OthersKeep` is one lemma and each action is looked at for its own request
only. The instant the code compares with is the earliest of the selective triggers' that name the player's
match, and the main one's only where there is none (`InstantIsEarliest`); so where such a match starts
after the main one, `CapturesArePreLock` says that the player was there by that later start, and no more
(section 5).

*SquadsProofs*: `SquadsImplementHistory`, the refinement of SquadHistory: from `LedgerTyped` (the
periods are typed and share no instant), every operation is a release followed by acquisitions at one
instant, and lemmas about `Release` and `Acquire` say what that keeps. `PicksAreInTurn`: `Turns`, with
`DraftsTyped`; the lowest incomplete pick is completed, the last completed one is emptied, and
numbers are ordered totally. `FrozenSquadsHold` and `DelistedStayOwned` need `Phases` (nothing of the
mid-season precedes the closing of the window, its draft does not exist before the lock), by which
the operations that move players are excluded, and what an exchange does to each owner
(`ExchangedOwners`). `SquadsStayWithinLimit` counts: squads are finite (`LedgerCounted`), a release and an
acquisition move their cardinality by one each, the delistings of an entry are players it owns, and a
trade is affordable only if what remains after the lock fits. `SelectionsFillVacancies` follows a plan
through three states: `Planned` (what the lock reconciled, the selections that the selection table is
made from, still covers every entry's vacancies), `Filled` (while the draft is open an entry's squad and
the picks it has left make the limit) and `Finished` (a final draft left full squads and no pick, so
that reopening it finds the plan again). Between a final draft and its reopening trades go on; that they
leave full squads full is a pigeonhole (`FullStays`): the same players are owned, no squad passes the
limit.

*IdentityProofs*, players: `QuarantineStaysExact`. Exactness alone is not inductive: `MatchesHeld` adds
that a pending match holds a promise to give back (`restore`), refers to a player who is still
provisional and to a target in the pool; `PoolTyped` that a reconciled player has taken his target's
place. All detections are one lemma (`DetectionIsExact`). `RejectionsStand` follows from the same
invariant; `OwnedMatchesQuarantine` from `OwnedInv` with `HeldTyped` (a player who was ever owned stays
in the pool: only one that nobody owned is merged away). Users: `RequestsActWithinAuthority` from
`Rights` (at each step of a request the role it resolved and the entry it represents were covered at a
moment in `seen`), and `AnsweredResetsEndSessions` from `ResetInv` (a session that is alive was opened when
as many resets had been answered as now). A login that verified an older credential may still open its
session after the answer: the theorem does not exclude it, and section 5 shows it.

*FinalsSeriesProofs*: `SeriesIsTyped`; `BracketIsDerived`, `ResultsStayWithPairings`,
`LineupsStayWithPairings` and `OpenWeeksHaveMatchups` from `SeriesInv`, which ties the weeks together:
pairings of a week are derived together and only from results that exist, matchups and calculations have
the entries of their pairing, results are published with their whole week (`DrawnTogether` ...
`ResultsAreFinal`), and what a request has listed or read is still of the current generation or will be
refused (`OpeningHolds`, `ReadsHold`). `OutForGood`: nobody who lost a knockout match is paired again,
and no finalist meets itself, however often results are corrected and weeks rewound; it is stated of no
run, since it adds `FirstWeek` and the bracket's tables to the same invariant.

*SeasonProofs*: `ActiveSeasonsAreSetUp`, `DraftsRestOnDecidedRules`, `FinalsAreSeededRight`,
`AwardsAreDerived`, each with an invariant on what a request carries from its reads to its
transaction (an acceptance begun before Pick 1 carries either no rule or one for every club; a read
seeding is still right if the results it was read at are still current). `ActiveSeasonsAreSetUp` holds
although a draft can be reopened after the activation, because what could undo its picks is refused
once the window is closed, and the activation requires it closed.

*SuperScoreProofs*: `BoardsAreCurrent` from `BoardInv` (a publication's assembled calculation is the
stored one if the revisions agree, and says what the entry says if the review version agrees), and
`RoundIsSettled` from `RoundOrder` (a completed season's round is final).

Over PairedWeek. `PlannerIsComplete`, for any two plans and any number of keys (the run has two): if
some order of the pending changes can be written one trigger at a time, the planner leaves none. The
argument: suppose it left some, and take the first of a writable order that was left. The keys before it
are moved, so the triggers beside it are those the order had there when its turn came, which suffer it
since the planner asks of a move (`Movable`) no more than the writer (`WellPlaced`); or they are keys
moved ahead of their turn, and each of those the order writes later beside it, and neither placing is
one-sided (`PlacesAreMutual`). So the key could move in the plan the passes ended with; but each pass
moves a key or finds that none can move, and there are as many passes as keys (`PlannedEffect`). The
converse is false, which is the finding about `PlannedOrderApplies` in section 5; `OrderAppliesWithOneMain` delimits
it: an order the planner finds is writable whenever both plans have their main trigger under one key.
`PlannerGivesUpRightly` is completeness at a synchronisation, where the pending keys exist in sorted
order (`SortedExists`, by rank: a key's place is how many come before it). `SynchronisationMirrors`
needs `PairInv`: both plans are well ordered whatever is edited, removed or synchronised
(`ConfiguredInOrder`, `RemovedInOrder`), a fired trigger is listed, and a finals week the action has
opened stays open with the mapping it froze.

Induction over a plan's keys is a minimal counterexample in a set of indices (`Climb`). With it, a run of
a given step exists (`RunExists`), so that the recursive functions `Pass` and `Planned` equal their own
unfolding (`PassRuns`, `PlannedRuns`), and what one `Tried` keeps (`AmidTried`) is kept by all.

The type invariants (`TypeCorrect`, `PlanTypeCorrect`, `LedgerTyped`, `DraftTyped` ... ) are proved where
proofs need them; the `...TypeOK` of the other modules document the state and were checked with their
runs, which spend their properties on what could be wrong.

Extrema. The proofs need that a nonempty set of instants has a least and a latest member (`LeastOf`,
`LatestOf`). The induction theorems cannot be instantiated here, but the library's statement that a
well-founded relation has minimal members (`WFMin`) takes no operator, so these are proved as minimal
counterexamples.

Only model-checked. `CorrectionsEnd` is a liveness property and out of the prover's reach. Every other
property of a run is stated by a theorem.

## 5. Where the code and its documents disagree

Each of these is a sentence of the documentation that the model refutes. A configuration beside the
modules reproduces it where there is one (`tlc -config X.cfg M`; TLC reports a violation); otherwise
put the named property in the run's configuration with the change described.

| What happens | Against | To reproduce |
|---|---|---|
| the mapping of an open round is corrected underneath it: a correction in flight lands after the round was created and opened, because "not yet created" is checked without a lock | `round_mapping.py`, `competition_lifecycle.py` (a frozen context) | FrozenMapping.cfg, MCLockoutPlan |
| a draft saved after the main trigger locked everything is captured as proven, when a selective trigger's match is played later: the plan is ordered by sequence number and the selective trigger's instant always wins | `lineup_adjudication.py:59-61`, an edit after the lock "can never be misrepresented as pre-lockout evidence" | `CaptureIsBeforeEveryLock` in MCLineupDrafts.cfg |
| a draft nobody ever saved is captured as evidence, because opening a page creates its row | `lineup_adjudication.py` | UntouchedDraft.cfg, MCLineupDrafts |
| the order planned for SuperScore's triggers is not the order that can be written: the planner checks sequence numbers and that the selective triggers come first, the writer also that there is no second main trigger (`lockouts.py:919-925`); with the main trigger under one key in both plans it cannot happen (`OrderAppliesWithOneMain`) | `finals_superscore_open.py:244-247`, "guaranteed-resolvable order" | PlannedOrder.cfg, MCPairedWeek |
| a represented entry is stored under a role it was not chosen in, by two tabs of one session | `set_active_role`'s docstring; requests are safe all the same (`ActsWithinAuthority`) | CarriedContext.cfg, MCActingContext |
| a sign-off publishes stale facts although its own evidence was fresh: another recalculation, answered from the cache, lands between | `routes/round_review.py` | `OfficialReflectsCurrentFacts` in RoundEvidence.cfg |
| a correction that read its review before a publication freezes a superseded calculation | `round_review.py` | `CorrectionFreezesCurrentCalculation` in RoundEvidence.cfg with `StaleWindow <- NeverStale`, `MaxFacts = 0`, `Duties <- PublisherDuties` |
| a bye player closed by the main trigger is corrected as if not locked | `lineup_correction.py` | `EveryLockedCorrectionMarked` in MCPositionLocks.cfg |
| a mid-season draft is marked complete while its draft was reopened: `reconcile_completion` reads that the draft is final in one transaction and completes in another | `midseason_draft.py` | `CompletionIsFinal` in MCSquads.cfg |
| a provisional player who was drafted and released can be drafted again although a match with an owned canonical player is unresolved | the docstring of `provisional_players.py` | `NoSecondCopy` in MCProvisionalPlayers.cfg |
| a login that verified the old password opens its session after the reset was answered: the password is verified, `created_at` read and the row inserted in this order, and the reset may end all sessions before the last of them | `auth.py:556-558`, a session token issued before the reset "must not keep authenticating past it"; `docs/coach-authentication.md:235-241` | `ResetsEndOldPasswords` in MCActingContext.cfg |
| live initialization of the finals seeds from a snapshot that is applied between its preview and the bracket's creation | `season_setup.py`, that it will not | a behaviour of FinalsSeeding (`ApplySnapshot` after `InitializeFinals`) |

## 6. Hazards

`hazards` in PROJECT.json lists what is hard to test, each at its line, with the properties that watch
it. Further hazards of this code have no property, because the code promises nothing there or the
database resolves them: a trigger that fires between the reading of the coverage and the submission's
commit (`lockouts.py:1959`); evidence that names a player displaced while it was being recorded
(`lockouts.py:1917`); an Opening Round correction that reads the draft without its lock and then
cleans it, and the two orders of locks around it, which PostgreSQL breaks by failing one transaction
(`opening_round.py:906`, `:909`, `:923`, `:1059`); a carry-forward source that is unchanged but no
longer the latest (`carry_forward.py:118`); a ruling that outlives a resubmission of the slot
(`lineups.py:1183`); matchup rows taken in two orders (`calculations.py:131`);
a nomination that is moved, by a correction that found no draft to reconcile, while a submission that has
read it holds the lineup's row (`opening_round.py:902`), so that the lineup commits the nominee where he
was nominated when it took the row (`NominationsHonoured` says no more than that).

## 7. Not modelled, and the plan

Not modelled: read models and presentation (no state), replay tooling (sequential scripts over the
modelled services), the Grand Final prototype (superseded), configuration, the score formula, retry
and backoff of the AFL client (they delay an answer), archives (a read of a completed season). Waits
on row locks that form a cycle are broken by the database failing one transaction, which is
`Abandon`, `Drop`, `GiveUp` or `EndRequest`.

Operations the code has and production does not call are left out, or modelled with the ones that
are: `OwnershipRepository.transfer`, `create_stream_matchup`, `correct_results`, `save_calculation`,
`ensure_stream`/`ensure_round` (a script's), `OpeningRoundRuleRepository.correct`,
`reconcile_premiership`/`reconcile_wooden_spoon` by themselves, `transition_lifecycle`,
`resolve_finals_seed_order`.

What is left, in order of what it would add: the refinement of what the plan promises an entry's lineup
(PositionLocks) as an abstract module of its own, where the theorems now speak of single steps; the
score formula as a pure operator against the league's rules.
