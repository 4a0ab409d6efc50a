---------------------------- MODULE RoundResults ----------------------------
(***************************************************************************)
(* One ordinary round from "open" to its published and corrected official   *)
(* results: app/competition_lifecycle.py, app/round_review.py,              *)
(* app/calculations.py, routes/round_review.py, the parts of app/lineups.py *)
(* that change a submitted lineup, and the completed-season fence.          *)
(*                                                                          *)
(* A scorer's request is a process: it recalculates in one transaction,     *)
(* reads the review in separate unlocked statements, and commits in another *)
(* transaction guarded by compare-and-swap.  Every transaction is one step; *)
(* a calculation takes two, because it fetches AFL facts over the network   *)
(* while it holds its matchup rows.                                         *)
(***************************************************************************)
EXTENDS Integers, Sequences, FiniteSets, SideReview

CONSTANTS
  NumMatchups,    \* matchups of the round, in matchup_order (the code requires five)
  Entries,        \* season entries playing the round
  Draw,           \* [Matchups -> [SideNames -> Entries]]: who plays whom
  TeamSheets,     \* [Entries -> SUBSET TeamSheet]: what each entry may submit
  Contested,      \* the slots <<entry, slot>> the scorers rule on
  Scorers,        \* concurrent scorer requests
  Duties,         \* [Scorers -> SUBSET Kinds]: what each request may be
  Nobody,         \* no lock holder
  NotCalculated,  \* a matchup without a calculation row
  StaleWindow,    \* [Scorers -> Nat]: how many fact revisions a stale cache
                  \* fallback may lag behind the facts a request could have read
  MaxFacts, MaxLineup, MaxReview, MaxOfficial
    \* bounds: fact revisions, versions of each lineup, review versions of each
    \* matchup, official versions

Matchups == 1 .. NumMatchups

\* What a request is: /calculate, /signoff, /correct, or a ruling or override.
Kinds == {"calculate", "signoff", "correct", "ruling"}

SideNames == {"home", "away"}

Sides(m) == {Draw[m][side] : side \in SideNames}

\* What a table keyed by entry holds for the two sides of m.
OfSides(m, table) == [side \in SideNames |-> table[Draw[m][side]]]

ASSUME ShapeAssumption ==
  /\ NumMatchups \in Nat \ {0}
  /\ Draw \in [Matchups -> [SideNames -> Entries]]
  /\ \A m \in Matchups : Draw[m].home # Draw[m].away
  /\ \A m, n \in Matchups : m # n => Sides(m) \cap Sides(n) = {}

ASSUME DataAssumption ==
  /\ TeamSheets \in [Entries -> SUBSET TeamSheet]
  /\ Contested \subseteq Entries \X Slots
  /\ Nobody \notin Scorers
  /\ Duties \in [Scorers -> SUBSET Kinds]
  /\ StaleWindow \in [Scorers -> Nat]
  /\ MaxFacts \in Nat /\ MaxOfficial \in Nat
  /\ MaxLineup \in [Entries -> Nat] /\ MaxReview \in [Matchups -> Nat]

VARIABLES
  season,         \* bbbffl_season.lifecycle_state
  round,          \* bbbffl_round_lifecycle: state and version
  reviewVersion,  \* bbbffl_matchup.review_version
  effective,      \* bbbffl_matchup.effective_official_version, 0 for NULL
  official,       \* bbbffl_official_result rows of each matchup, by version
  lineup,         \* weekly_lineup: effective version (0: none) and its slots
  decisions,      \* current rulings and overrides of each entry
  calculation,    \* bbbffl_matchup_calculation
  facts,          \* revision of the authoritative AFL facts
  lockedBy,       \* row locks a running calculation holds across its fetch
  scorer          \* the state of each scorer request

results == <<round, effective, official>>
evidence == <<lineup, decisions, reviewVersion>>
vars == <<season, round, reviewVersion, effective, official, lineup,
          decisions, calculation, facts, lockedBy, scorer>>

-----------------------------------------------------------------------------
\* Types.

RoundStates == {"open", "live", "review", "final"}

Lineup == [version : Nat, slots : TeamSheet]

NoLineup == [version |-> 0, slots |-> [p \in Slots |-> Vacant]]

\* A stored calculation: its facts and the lineups it scored; as history
\* values, the facts in force when the request that stored it began, and that
\* request if a stale cache answered it.
Calculation == [facts : 0 .. MaxFacts, lineups : [SideNames -> Lineup],
                since : 0 .. MaxFacts, staleFor : Scorers \cup {Nobody}]

ASSUME NullAssumption == NotCalculated \notin Calculation

\* A frozen official version: the calculation it rests on and the decisions
\* applied to it; as a history value, the review version it was frozen from.
Result == [calculation : Calculation,
           decisions   : [SideNames -> Decisions],
           review      : Nat]

\* What a request has read of one matchup so far.
Seen == [reviewVersion : Nat,
         calculation   : Calculation \cup {NotCalculated},
         decisions     : [SideNames -> Decisions],
         versions      : [SideNames -> Nat]]

NothingRead == [reviewVersion |-> 0,
                calculation   |-> NotCalculated,
                decisions     |-> [side \in SideNames |-> NoDecisions],
                versions      |-> [side \in SideNames |-> 0]]

\* Where a request stands: what it does next, and on which matchup.
Phases == {"idle", "persist", "round", "matchups", "calculation", "decisions", "commit"}

Request == [pc : Phases, kind : Kinds, at : Matchups, since : 0 .. MaxFacts,
            fetched : 0 .. MaxFacts, fresh : BOOLEAN,
            roundState : RoundStates, roundVersion : Nat,
            seen : [Matchups -> Seen]]

Idle == [pc |-> "idle", kind |-> "calculate", at |-> 1, since |-> 0,
         fetched |-> 0, fresh |-> FALSE, roundState |-> "open", roundVersion |-> 0,
         seen |-> [m \in Matchups |-> NothingRead]]

\* The matchups a request is about: the whole round, or one of them.
Covered(c) == IF c.kind \in {"calculate", "signoff"} THEN Matchups ELSE {c.at}

-----------------------------------------------------------------------------
Init ==
  /\ season = "active"
  /\ round = [state |-> "open", version |-> 2]
  /\ reviewVersion = [m \in Matchups |-> 1]
  /\ effective = [m \in Matchups |-> 0]
  /\ official = [m \in Matchups |-> <<>>]
  /\ lineup = [e \in Entries |-> NoLineup]
  /\ decisions = [e \in Entries |-> NoDecisions]
  /\ calculation = [m \in Matchups |-> NotCalculated]
  /\ facts = 0
  /\ lockedBy = [m \in Matchups |-> Nobody]
  /\ scorer = [s \in Scorers |-> Idle]

NoRowLocks(m) == lockedBy[m] \in Scorers \cup {Nobody}   \* mutant of Unlocked

Unlocked(m) == lockedBy[m] = Nobody

KeepReviewVersions(ms) == reviewVersion   \* mutant of Bumped

\* review_version + 1 for the matchups ms.
Bumped(ms) ==
  [m \in Matchups |-> IF m \in ms THEN reviewVersion[m] + 1 ELSE reviewVersion[m]]

Release(s) == [m \in Matchups |-> IF lockedBy[m] = s THEN Nobody ELSE lockedBy[m]]

-----------------------------------------------------------------------------
\* The world and the round lifecycle.

\* afl-api publishes newer facts (external).
AflFactsChange ==
  /\ facts < MaxFacts
  /\ facts' = facts + 1
  /\ UNCHANGED <<season, results, evidence, calculation, lockedBy, scorer>>

LegalTransition == [open |-> {"live"}, live |-> {"review"}, review |-> {}, final |-> {}]

Transition ==
  /\ \E target \in LegalTransition[round.state] :
       round' = [state |-> target, version |-> round.version + 1]
  /\ UNCHANGED <<season, effective, official, evidence, calculation, facts, lockedBy, scorer>>

\* complete_season looks at finals and SuperScore rounds only, so an ordinary
\* round may be in any state when it commits.
CompleteSeason ==
  /\ season = "active"
  /\ season' = "completed"
  /\ UNCHANGED <<results, evidence, calculation, facts, lockedBy, scorer>>

-----------------------------------------------------------------------------
\* Submitted lineups.  Position locks are the business of lockouts.py; here a
\* coach may submit any sheet the states allow.

NewVersion(e, sheet) ==
  /\ lineup[e].version < MaxLineup[e]
  /\ lineup' = [lineup EXCEPT ![e] = [version |-> @.version + 1, slots |-> sheet]]

SubmitLineup(e, sheet) ==
  /\ round.state \in {"open", "live"}
  /\ NewVersion(e, sheet)
  /\ UNCHANGED <<season, results, decisions, reviewVersion, calculation, facts, lockedBy, scorer>>

AdjudicateMissedLineup(e, sheet) ==
  /\ lineup[e].version = 0
  /\ round.state \in {"live", "review"}
  /\ NewVersion(e, sheet)
  /\ UNCHANGED <<season, results, decisions, reviewVersion, calculation, facts, lockedBy, scorer>>

\* _invalidate_stale_review_state: what a correction of `changed` leaves of
\* an entry's decisions.
KeptDecisions(d, changed) ==
  [ruling   |-> [p \in Slots |-> IF p \in changed THEN "unruled" ELSE d.ruling[p]],
   target   |-> IF Interchange \in changed \/ d.target \in changed THEN "none" ELSE d.target,
   override |-> d.override \ changed]

\* submit_correction; its UPDATE of the matchup waits for a running calculation.
CorrectLineup(e, sheet) ==
  LET changed == {p \in Slots : lineup[e].slots[p] # sheet[p]}
      playing == {m \in Matchups : e \in Sides(m)}
  IN /\ lineup[e].version > 0
     /\ round.state \in {"open", "live", "review"}
     /\ changed # {}
     /\ \A m \in playing : Unlocked(m) /\ reviewVersion[m] < MaxReview[m]
     /\ NewVersion(e, sheet)
     /\ decisions' = [decisions EXCEPT ![e] = KeptDecisions(@, changed)]
     /\ reviewVersion' = Bumped(playing)
     /\ UNCHANGED <<season, results, calculation, facts, lockedBy, scorer>>

-----------------------------------------------------------------------------
\* Calculation.

\* Requests that recalculate first: /calculate, /signoff (the whole round) and
\* /correct (one matchup).  The matchup rows are locked before any fact is
\* fetched; a failed live read may be answered from a stale cache.
StartCalculation(s, kind, at) ==
  LET started == [Idle EXCEPT !.pc = "persist", !.kind = kind, !.at = at, !.since = facts]
  IN /\ scorer[s].pc = "idle" /\ kind \in Duties[s]
     /\ kind = "correct" \/ at = 1
     /\ \A m \in Covered(started) : Unlocked(m)
     /\ lockedBy' = [m \in Matchups |-> IF m \in Covered(started) THEN s ELSE lockedBy[m]]
     /\ \E lag \in 0 .. StaleWindow[s] :
          /\ lag <= facts
          /\ scorer' = [scorer EXCEPT ![s] =
                          [started EXCEPT !.fetched = facts - lag, !.fresh = (lag = 0)]]
     /\ UNCHANGED <<season, results, evidence, calculation, facts>>

Snapshot(s, m) ==
  [facts |-> scorer[s].fetched, lineups |-> OfSides(m, lineup), since |-> scorer[s].since,
   staleFor |-> IF scorer[s].fresh THEN Nobody ELSE s]

\* Read the effective lineups, persist every snapshot and commit.  An entry
\* without a submission fails the whole calculation (see Abandon).
PersistCalculation(s) ==
  LET c == scorer[s]
      next == CASE c.kind = "signoff" -> "round" [] c.kind = "correct" -> "matchups"
                [] OTHER -> "idle"
  IN /\ c.pc = "persist"
     /\ \A m \in Covered(c) : \A e \in Sides(m) : lineup[e].version > 0
     /\ calculation' = [m \in Matchups |->
          IF m \in Covered(c) THEN Snapshot(s, m) ELSE calculation[m]]
     /\ lockedBy' = Release(s)
     /\ scorer' = [scorer EXCEPT ![s] = IF next = "idle" THEN Idle ELSE [c EXCEPT !.pc = next]]
     /\ UNCHANGED <<season, results, evidence, facts>>

-----------------------------------------------------------------------------
\* Reading the review: build_round_review / build_matchup_review, one step per
\* group of statements that nothing holds together.

\* GET of one matchup's review, ahead of a ruling: only the review version
\* reaches the ruling.
LoadReview(s, m) ==
  /\ scorer[s].pc = "idle" /\ "ruling" \in Duties[s]
  /\ scorer' = [scorer EXCEPT ![s] =
       [Idle EXCEPT !.pc = "commit", !.kind = "ruling", !.at = m,
                    !.seen[m].reviewVersion = reviewVersion[m]]]
  /\ UNCHANGED <<season, results, evidence, calculation, facts, lockedBy>>

ReadRound(s) ==
  LET c == scorer[s]
  IN /\ c.pc = "round"
     /\ scorer' = [scorer EXCEPT ![s] =
          [c EXCEPT !.pc = "matchups", !.roundState = round.state, !.roundVersion = round.version]]
     /\ UNCHANGED <<season, results, evidence, calculation, facts, lockedBy>>

\* list_matchups / get_matchup: every review_version in one statement.
ReadMatchups(s) ==
  LET c == scorer[s]
      listed == [m \in Matchups |->
                   IF m \in Covered(c)
                   THEN [NothingRead EXCEPT !.reviewVersion = reviewVersion[m]]
                   ELSE NothingRead]
  IN /\ c.pc = "matchups"
     /\ scorer' = [scorer EXCEPT ![s] = [c EXCEPT !.pc = "calculation", !.seen = listed]]
     /\ UNCHANGED <<season, results, evidence, calculation, facts, lockedBy>>

ReadCalculation(s) ==
  LET c == scorer[s]
      m == c.at
  IN /\ c.pc = "calculation"
     /\ scorer' = [scorer EXCEPT ![s] =
          [c EXCEPT !.pc = "decisions", !.seen[m].calculation = calculation[m]]]
     /\ UNCHANGED <<season, results, evidence, calculation, facts, lockedBy>>

\* The rulings, overrides and current lineup versions of one matchup; then on
\* to the next matchup, if there is one.
ReadDecisions(s) ==
  LET c == scorer[s]
      m == c.at
      last == c.kind = "correct" \/ m = NumMatchups
      current == [e \in Entries |-> lineup[e].version]
      read == [c.seen[m] EXCEPT !.decisions = OfSides(m, decisions),
                                !.versions = OfSides(m, current)]
  IN /\ c.pc = "decisions"
     /\ scorer' = [scorer EXCEPT ![s] =
          [c EXCEPT !.pc = IF last THEN "commit" ELSE "calculation",
                    !.at = IF last THEN m ELSE m + 1,
                    !.seen[m] = read]]
     /\ UNCHANGED <<season, results, evidence, calculation, facts, lockedBy>>

AnyEvidence(c) == c.fresh \in BOOLEAN   \* mutant of EvidenceFresh

\* No fact of the request's evidence batch came from a stale cache.
EvidenceFresh(c) == c.fresh

\* No blocker for one matchup, as the request saw it.
MatchupReady(c, m) ==
  LET v == c.seen[m]
      calculated == v.calculation.lineups
  IN /\ v.calculation # NotCalculated
     /\ EvidenceFresh(c)
     /\ \A side \in SideNames :
          /\ v.versions[side] = calculated[side].version
          /\ SideReady(calculated[side].slots, v.decisions[side])

Frozen(c, m) ==
  [calculation |-> c.seen[m].calculation,
   decisions   |-> c.seen[m].decisions,
   review      |-> c.seen[m].reviewVersion]

-----------------------------------------------------------------------------
\* Committing.

SeasonNotArchived == season # "archived"   \* mutant of SeasonWritable

SeasonWritable == season # "completed"

StillUnlocked(c, m) == Unlocked(m)   \* mutant of ReviewUnchanged

ReviewUnchanged(c, m) == Unlocked(m) /\ reviewVersion[m] = c.seen[m].reviewVersion

\* attempt_signoff -> publish_results: all five matchups and the final state.
Publish(s) ==
  LET c == scorer[s]
  IN /\ c.pc = "commit" /\ c.kind = "signoff"
     /\ c.roundState = "review"
     /\ \A m \in Matchups : MatchupReady(c, m)
     /\ SeasonWritable
     /\ round.version = c.roundVersion
     /\ round.state = "review"
     /\ \A m \in Matchups : ReviewUnchanged(c, m)
     /\ official' = [m \in Matchups |-> Append(official[m], Frozen(c, m))]
     /\ effective' = [m \in Matchups |-> 1]
     /\ round' = [state |-> "final", version |-> round.version + 1]
     /\ scorer' = [scorer EXCEPT ![s] = Idle]
     /\ UNCHANGED <<season, evidence, calculation, facts, lockedBy>>

\* attempt_correction -> correct_matchup_result: one matchup of a final round.
CorrectMatchup(s) ==
  LET c == scorer[s]
      m == c.at
  IN /\ c.pc = "commit" /\ c.kind = "correct"
     /\ MatchupReady(c, m)
     /\ SeasonWritable
     /\ ReviewUnchanged(c, m)
     /\ round.state = "final"
     /\ effective[m] # 0
     /\ effective[m] < MaxOfficial /\ reviewVersion[m] < MaxReview[m]
     /\ official' = [official EXCEPT ![m] = Append(@, Frozen(c, m))]
     /\ effective' = [effective EXCEPT ![m] = @ + 1]
     /\ reviewVersion' = Bumped({m})
     /\ scorer' = [scorer EXCEPT ![s] = Idle]
     /\ UNCHANGED <<season, round, lineup, decisions, calculation, facts, lockedBy>>

\* record_dnp_ruling / record_interchange_ruling / record_override: any round
\* state, no season guard.
Decide(s, e, d) ==
  LET c == scorer[s]
      m == c.at
  IN /\ c.pc = "commit" /\ c.kind = "ruling"
     /\ ReviewUnchanged(c, m)
     /\ e \in Sides(m)
     /\ reviewVersion[m] < MaxReview[m]
     /\ decisions' = [decisions EXCEPT ![e] = d]
     /\ reviewVersion' = Bumped({m})
     /\ scorer' = [scorer EXCEPT ![s] = Idle]
     /\ UNCHANGED <<season, results, lineup, calculation, facts, lockedBy>>

RecordDnpRuling(s, e, p, dnp) ==
  Decide(s, e, [decisions[e] EXCEPT !.ruling[p] = dnp])

RecordInterchangeRuling(s, e, target) ==
  Decide(s, e, [decisions[e] EXCEPT !.target = target])

RecordOverride(s, e, p) ==
  \E on \in BOOLEAN :
    Decide(s, e, [decisions[e] EXCEPT !.override = IF on THEN @ \cup {p} ELSE @ \ {p}])

\* A refused, failed or lost request: its transaction rolls back, its locks go.
Abandon(s) ==
  /\ scorer[s].pc # "idle"
  /\ lockedBy' = Release(s)
  /\ scorer' = [scorer EXCEPT ![s] = Idle]
  /\ UNCHANGED <<season, results, evidence, calculation, facts>>

-----------------------------------------------------------------------------
CoachStep ==
  \E e \in Entries : \E sheet \in TeamSheets[e] :
    SubmitLineup(e, sheet) \/ AdjudicateMissedLineup(e, sheet) \/ CorrectLineup(e, sheet)

RequestStep(s) ==
  \/ \E kind \in {"calculate", "signoff", "correct"}, m \in Matchups :
       StartCalculation(s, kind, m)
  \/ PersistCalculation(s)
  \/ \E m \in Matchups : LoadReview(s, m)
  \/ ReadRound(s) \/ ReadMatchups(s) \/ ReadCalculation(s) \/ ReadDecisions(s)
  \/ Publish(s) \/ CorrectMatchup(s) \/ Abandon(s)

RulingStep(s) ==
  \E e \in Entries, p \in Slots :
    /\ <<e, p>> \in Contested
    /\ \/ \E dnp \in {"dnp", "played"} : RecordDnpRuling(s, e, p, dnp)
       \/ p \in Starters /\ RecordOverride(s, e, p)
       \/ \E target \in {p, "unused"} \ {Interchange} : RecordInterchangeRuling(s, e, target)

Next ==
  \/ AflFactsChange \/ Transition \/ CompleteSeason \/ CoachStep
  \/ \E s \in Scorers : RequestStep(s) \/ RulingStep(s)

Spec == Init /\ [][Next]_vars

-----------------------------------------------------------------------------
\* Properties.

\* Every table holds rows of its columns' types.
TypeOK ==
  /\ season \in {"active", "completed"}
  /\ round \in [state : RoundStates, version : Nat]
  /\ reviewVersion \in [Matchups -> Nat]
  /\ effective \in [Matchups -> Nat]
  /\ official \in [Matchups -> Seq(Result)]
  /\ lineup \in [Entries -> Lineup]
  /\ decisions \in [Entries -> Decisions]
  /\ calculation \in [Matchups -> Calculation \cup {NotCalculated}]
  /\ facts \in 0 .. MaxFacts
  /\ lockedBy \in [Matchups -> Scorers \cup {Nobody}]
  /\ scorer \in [Scorers -> Request]

\* The round is final exactly when every matchup has an official result, and
\* before that none has one; the result in force is the last version
\* (publish_results commits all five results and the final state, or nothing).
FinalIffPublished ==
  \A m \in Matchups :
    /\ effective[m] = Len(official[m])
    /\ round.state = "final" <=> effective[m] # 0

\* The step publishes or corrects m.
Officiates(m) == Len(official'[m]) > Len(official[m])

Newest(m) == official'[m][Len(official'[m])]

\* No stale decision gets through: an official version is frozen from exactly
\* the rulings and overrides in force when it commits (review_version CAS).
FrozenDecisionsCurrent ==
  [][\A m \in Matchups : Officiates(m) =>
       Newest(m).decisions = OfSides(m, decisions)]_vars

\* A sign-off never publishes a score calculated from a lineup that has been
\* corrected, resubmitted or adjudicated since, nor one with an open blocker.
SignoffOnCurrentLineup ==
  [][\A m \in Matchups : Officiates(m) /\ effective[m] = 0 =>
       /\ Newest(m).calculation.lineups = OfSides(m, lineup)
       /\ \A e \in Sides(m) : SideReady(lineup[e].slots, decisions[e])]_vars

\* A correction freezes the calculation that is current when it commits, as
\* far as the lineups it was calculated from are concerned.
CorrectionFreezesCurrentCalculation ==
  [][\A m \in Matchups : Officiates(m) /\ effective[m] # 0 =>
       Newest(m).calculation.lineups = calculation[m].lineups]_vars

\* Two corrections never rest on the same review: each one but the first is
\* frozen from a later review version than the version it corrects.
CorrectionsFromDistinctReviews ==
  \A m \in Matchups : \A i \in 2 .. Len(official[m]) : \A j \in i + 1 .. Len(official[m]) :
    official[m][i].review < official[m][j].review

\* What becomes official was calculated by the request that publishes it, from
\* facts it read live, or by one that began on facts as new as its own: a
\* calculation begun earlier never gets in between.  Older facts can so come
\* only from another request's stale cache (the freshness blocker and the row
\* locks a calculation holds across its fetch).
OlderFactsOnlyFromOthers ==
  [][\A s \in Scorers, m \in Matchups : Officiates(m) /\ scorer'[s] # scorer[s] =>
       LET k == Newest(m).calculation
       IN /\ k.since >= scorer[s].since
          /\ k.facts < k.since => k.staleFor \in Scorers \ {s}]_vars

\* What the freshness blocker is there for: an official version rests on facts
\* at least as new as those in force when the request that published it began.
\* No run checks it: another request's stale calculation may land between the
\* publisher's own and its read of the review.
OfficialReflectsCurrentFacts ==
  [][\A s \in Scorers, m \in Matchups : Officiates(m) /\ scorer'[s] # scorer[s] =>
       Newest(m).calculation.facts >= scorer[s].since]_vars

\* A slow calculation never overwrites a newer one of the same matchup with
\* older facts (unless its facts came from a stale cache) or an older lineup.
CalculationNeverRegresses ==
  [][\A m \in Matchups : calculation[m] # NotCalculated =>
       /\ calculation'[m] # NotCalculated
       /\ \/ calculation'[m].facts >= calculation[m].facts
          \/ lockedBy[m] # Nobody /\ ~ EvidenceFresh(scorer[lockedBy[m]])
       /\ \A side \in SideNames :
            calculation'[m].lineups[side].version >= calculation[m].lineups[side].version]_vars

\* What the round promises its readers (see OfficialLedger).
Ledger == INSTANCE OfficialLedger
            WITH closed <- season = "completed", history <- official, inForce <- effective

ImplementsLedger == Ledger!Spec
=============================================================================
