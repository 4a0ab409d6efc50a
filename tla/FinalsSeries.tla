---------------------------- MODULE FinalsSeries -----------------------------
(***************************************************************************)
(* The four weeks of finals: pairings derived from official results,       *)
(* weeks opened, played and published, and the correction of a published   *)
(* result with the rewind of what was derived from it (finals.py,          *)
(* finals_review.py).  A finalist is named by its seed position, which the *)
(* bracket freezes.                                                        *)
(*                                                                         *)
(* open_finals_week is a sequence of transactions over pairings it read    *)
(* first; publication and correction calculate and assemble, then commit;  *)
(* a correction's transaction writes the result, reads what depends on it, *)
(* and only then locks the next week's round and looks for play.           *)
(***************************************************************************)
EXTENDS Naturals, Sequences, FiniteSets

CONSTANTS
  None,
  Outcomes,       \* of each slot, what a calculation may find of its matchup
  Submitters,     \* the finalists whose coaches submit lineups
  Ruled,          \* the slots whose matchups rulings are recorded on
  Triggered,      \* the weeks whose lockout triggers fire
  MaxVersion,     \* bound on the official results of one matchup
  MaxReview,      \* of each slot, bound on the reviews rulings and lineup corrections make
  MaxFixes        \* bound on the corrections begun

ASSUME SeriesAssumption ==
  /\ \A s \in DOMAIN Outcomes : Outcomes[s] \subseteq {"home", "away", "tie"}
  /\ MaxVersion \in Nat \ {0} /\ MaxFixes \in Nat

Seed == 1..5

Weeks == 1..4

Slots == {"qf", "ef", "second_semi", "first_semi", "preliminary", "grand_final"}

\* _SLOT_ORDER and EXPECTED_MATCH_COUNTS: the matchups of a week.  The bye of
\* week 1 has none.
SlotsOf(w) ==
  CASE w = 1 -> {"qf", "ef"}
    [] w = 2 -> {"second_semi", "first_semi"}
    [] w = 3 -> {"preliminary"}
    [] w = 4 -> {"grand_final"}

WeekOf(s) == CHOOSE w \in Weeks : s \in SlotsOf(w)

\* _source_matchup_ids: what advancing from week w is derived from.
Sources(w) ==
  CASE w = 1 -> {"qf", "ef"}
    [] w = 2 -> {"second_semi", "first_semi"}
    [] w = 3 -> {"second_semi", "preliminary"}

\* The results a pairing records as its sources.
SourcesOf(s) ==
  CASE s = "second_semi" -> {"qf"}
    [] s = "first_semi" -> {"qf", "ef"}
    [] s = "preliminary" -> {"second_semi", "first_semi"}
    [] s = "grand_final" -> {"second_semi", "preliminary"}
    [] OTHER -> {}

\* The match of week w whose loser is out.
Knockout(w) == IF w = 1 THEN "ef" ELSE IF w = 2 THEN "first_semi" ELSE "preliminary"

\* The rows of the tables and what a request holds of them.
Officials == [home : Seed, away : Seed, outcome : {"home", "away", "tie"}]

PairingsOf(s) ==
  [home : Seed, away : Seed, from : [SourcesOf(s) -> Nat], gen : Nat, made : BOOLEAN]

Matches == [home : 0..5, away : 0..5, review : Nat, ruled : BOOLEAN]

Calculations == [home : Seed, away : Seed, outcome : {"home", "away", "tie"}, rev : Nat]

Reads == [review : Nat, rev : Nat, home : Seed, away : Seed, outcome : {"home", "away", "tie"}]

Listings == [slot : Slots, gen : Nat, home : Seed, away : Seed]

Openings == [week : Weeks, todo : SUBSET Listings]

PublicationsOf(w) == [week : {w}, read : [SlotsOf(w) -> Reads]]

Corrections == [phase : {"assembled", "rewinding"}, slot : Slots, version : Nat, read : Reads,
                seen : SUBSET Slots]

ASSUME ActorsAssumption ==
  /\ Submitters \subseteq Seed /\ Ruled \subseteq Slots /\ Triggered \subseteq Weeks
  /\ MaxReview \in [Slots -> Nat]

ASSUME AbsenceAssumption ==
  /\ None \notin Seed \cup Calculations \cup Openings \cup Corrections
  /\ \A s \in Slots : None \notin PairingsOf(s)
  /\ \A w \in Weeks : None \notin PublicationsOf(w)

VARIABLES
  pairing,     \* the active finals_bracket_pairing of each slot, or None
  out,         \* the active elimination of each week 1-3, or None
  round,       \* state of each week's lifecycle, "none" before it has one
  match,       \* the matchup of each slot: its entries, review_version, rulings
  results,     \* of each slot, its official results in order
  calc,        \* of each slot, its bbbffl_matchup_calculation, or None
  submitted,   \* of each week, the finalists with an effective lineup
  fired,       \* the weeks with an activated trigger
  premier,     \* the latest finals.premier.recorded
  opener,      \* an open_finals_week under way, or None
  publisher,   \* a publish_finals_round under way, or None
  fixer,       \* a correct_finals_result under way, or None
  fixes        \* corrections begun

tables == <<pairing, out, round, match, results, calc, submitted, fired, premier>>
seriesVars == <<tables, opener, publisher, fixer, fixes>>

Entries(r) == {r.home, r.away}

Version(s) == Len(results[s])

Latest(history) == history[Len(history)]

\* Mutant of Winner: an exact tie goes to the home side.
HomeWinsTies(r) == IF r.outcome = "away" THEN r.away ELSE r.home

\* _winner_loser: on equal scores the better seed goes on.
Winner(r) ==
  CASE r.outcome = "home" -> r.home
    [] r.outcome = "away" -> r.away
    [] OTHER -> IF r.home < r.away THEN r.home ELSE r.away

Loser(r) == IF Winner(r) = r.home THEN r.away ELSE r.home

\* _derive: who meets whom in slot s, by the latest of the official results rs.
Derived(s, rs) ==
  LET W(t) == Winner(Latest(rs[t]))
      L(t) == Loser(Latest(rs[t]))
      pair == CASE s = "second_semi" -> <<1, W("qf")>>
                [] s = "first_semi"  -> <<L("qf"), W("ef")>>
                [] s = "preliminary" -> <<L("second_semi"), W("first_semi")>>
                [] s = "grand_final" -> <<W("second_semi"), W("preliminary")>>
  IN  [home |-> pair[1], away |-> pair[2],
       from |-> [t \in SourcesOf(s) |-> Len(rs[t])]]

AsPairing(d, gen, made) ==
  [home |-> d.home, away |-> d.away, from |-> d.from, gen |-> gen, made |-> made]

NoMatch == [home |-> 0, away |-> 0, review |-> 0, ruled |-> FALSE]

SeriesInit ==
  /\ pairing = [s \in Slots |->
       CASE s = "qf" -> AsPairing([home |-> 2, away |-> 3, from |-> <<>>], 1, FALSE)
         [] s = "ef" -> AsPairing([home |-> 4, away |-> 5, from |-> <<>>], 1, FALSE)
         [] OTHER -> None]
  /\ out = [w \in 1..3 |-> None]
  /\ round = [w \in Weeks |-> "none"]
  /\ match = [s \in Slots |-> NoMatch]
  /\ results = [s \in Slots |-> <<>>]
  /\ calc = [s \in Slots |-> None]
  /\ submitted = [w \in Weeks |-> {}] /\ fired = {}
  /\ premier = None
  /\ opener = None /\ publisher = None /\ fixer = None /\ fixes = 0

(***************************************************************************)
(* Row locks a correction's transaction holds between its two halves: the  *)
(* matchups it derives from, and those of the pairings it means to change. *)
(***************************************************************************)
Rewinding == fixer # None /\ fixer.phase = "rewinding"

MatchupFree(s) ==
  Rewinding => s \notin Sources(WeekOf(fixer.slot)) /\ s \notin fixer.seen

(* ----------------------------- open_finals_week ------------------------- *)

OpenWeek(w) ==
  /\ opener = None
  /\ \E s \in SlotsOf(w) : pairing[s] # None
  /\ round[w] \in {"none", "upcoming"}
  /\ opener' = [week |-> w,
                todo |-> {[slot |-> s, gen |-> pairing[s].gen, home |-> pairing[s].home,
                           away |-> pairing[s].away] : s \in
                            {t \in SlotsOf(w) : pairing[t] # None /\ ~pairing[t].made}}]
  /\ round' = [round EXCEPT ![w] = "upcoming"]
  /\ UNCHANGED <<pairing, out, match, results, calc, submitted, fired, premier,
                 publisher, fixer, fixes>>

\* Mutant of IsCurrent: the pairing read before is materialised as it is.
AnyPairing(p) == TRUE

\* The pairing's row, re-read under lock, is still the active one.
IsCurrent(p) == pairing[p.slot].gen = p.gen

\* _materialise_pairing: a superseded pairing ends the request with an error,
\* one another caller materialised is left alone.
Materialise(p) ==
  /\ IF ~IsCurrent(p)
     THEN opener' = None /\ UNCHANGED <<pairing, match>>
     ELSE /\ opener' = [opener EXCEPT !.todo = @ \ {p}]
          /\ IF pairing[p.slot].made
             THEN UNCHANGED <<pairing, match>>
             ELSE /\ pairing' = [pairing EXCEPT ![p.slot].made = (@ \/ pairing[p.slot].gen = p.gen)]
                  /\ match' = [match EXCEPT ![p.slot] = [home |-> p.home, away |-> p.away,
                                                         review |-> 1, ruled |-> FALSE]]
  /\ UNCHANGED <<out, round, results, calc, submitted, fired, premier,
                 publisher, fixer, fixes>>

FinishOpening ==
  /\ opener # None /\ opener.todo = {}
  /\ opener' = None
  /\ round' = [round EXCEPT ![opener.week] = IF @ = "upcoming" THEN "open" ELSE @]
  /\ UNCHANGED <<pairing, out, match, results, calc, submitted, fired, premier,
                 publisher, fixer, fixes>>

\* advance_week_to_review, one transition at a time.
Transition(w) ==
  /\ round[w] \in {"open", "live"}
  /\ round' = [round EXCEPT ![w] = IF @ = "open" THEN "live" ELSE "review"]
  /\ UNCHANGED <<pairing, out, match, results, calc, submitted, fired, premier,
                 opener, publisher, fixer, fixes>>

(* --------------------------- play and review ---------------------------- *)

\* The check every submission makes once it holds the round's row: its entry is
\* still in one of the round's matchups.
StillParticipates(e, w) ==
  \E s \in SlotsOf(w) : pairing[s] # None /\ pairing[s].made /\ e \in Entries(match[s])

\* _finalize_submission of an entry's first lineup.  It takes the rows of the
\* lineup and of the round, and neither a matchup's row nor its review_version.
FirstSubmission(e, w) ==
  /\ e \notin submitted[w] /\ StillParticipates(e, w)
  /\ submitted' = [submitted EXCEPT ![w] = @ \cup {e}]
  /\ UNCHANGED <<pairing, out, round, match, results, calc, fired, premier,
                 opener, publisher, fixer, fixes>>

\* A coach's submission, drafted whenever.
Submit(e, w) == round[w] \in {"open", "live"} /\ FirstSubmission(e, w)

\* submit_adjudicated_first_submission, once a trigger has fired.
SubmitAdjudicated(e, w) ==
  round[w] \in {"live", "review"} /\ w \in fired /\ FirstSubmission(e, w)

\* submit_correction: it moves the review_version of the entry's matchups, and
\* may take their rulings with it.
CorrectLineup(e, w) ==
  LET hit == {s \in SlotsOf(w) : e \in Entries(match[s])} IN
  /\ round[w] \in {"open", "live", "review"} /\ e \in submitted[w]
  /\ StillParticipates(e, w)
  /\ \A s \in hit : MatchupFree(s) /\ match[s].review < MaxReview[s]
  /\ \E cleared \in SUBSET hit :
       match' = [s \in Slots |->
         IF s \in hit THEN [match[s] EXCEPT !.review = @ + 1, !.ruled = @ /\ s \notin cleared]
                      ELSE match[s]]
  /\ UNCHANGED <<pairing, out, round, results, calc, submitted, fired, premier,
                 opener, publisher, fixer, fixes>>

\* The round's plan fires whatever stage the round is at; once it is final that
\* changes nothing any more.
FireTrigger(w) ==
  /\ round[w] \notin {"none", "final"} /\ w \notin fired
  /\ fired' = fired \cup {w}
  /\ UNCHANGED <<pairing, out, round, match, results, calc, submitted, premier,
                 opener, publisher, fixer, fixes>>

Rule(s) ==
  /\ match[s] # NoMatch /\ ~match[s].ruled /\ MatchupFree(s) /\ match[s].review < MaxReview[s]
  /\ match' = [match EXCEPT ![s].ruled = TRUE, ![s].review = @ + 1]
  /\ UNCHANGED <<pairing, out, round, results, calc, submitted, fired, premier,
                 opener, publisher, fixer, fixes>>

Calculation(s, o) ==
  LET m == match[s]
      new == [home |-> m.home, away |-> m.away, outcome |-> o]
      same == calc[s] # None /\ Entries(calc[s]) = Entries(new) /\ calc[s].outcome = o
  IN  [home |-> m.home, away |-> m.away, outcome |-> o,
       rev |-> IF calc[s] = None THEN 1 ELSE IF same THEN calc[s].rev ELSE calc[s].rev + 1]

Evidence(w) ==
  {o \in [SlotsOf(w) -> {"home", "away", "tie"}] : \A s \in SlotsOf(w) : o[s] \in Outcomes[s]}

\* calculate_round over the matchups of week w, the evidence giving outcome o[s].
Calculated(w, o) ==
  [s \in Slots |-> IF s \in SlotsOf(w) THEN Calculation(s, o[s]) ELSE calc[s]]

(* ------------------------------ publication ----------------------------- *)

\* What publication and correction compare again before they commit.
Read(s, c) == [review |-> match[s].review, rev |-> c[s].rev, home |-> c[s].home,
               away |-> c[s].away, outcome |-> c[s].outcome]

\* Calculate and assemble: the week has its matchups and can be signed off.
StartPublication(w) ==
  /\ publisher = None /\ round[w] = "review"
  /\ \A s \in SlotsOf(w) : match[s] # NoMatch /\ MatchupFree(s)
  /\ \E o \in Evidence(w) :
       /\ calc' = Calculated(w, o)
       /\ publisher' = [week |-> w, read |-> [s \in SlotsOf(w) |-> Read(s, Calculated(w, o))]]
  /\ UNCHANGED <<pairing, out, round, match, results, submitted, fired, premier,
                 opener, fixer, fixes>>

Unchanged(s, read) == match[s].review = read.review /\ calc[s].rev = read.rev

Published(history, read) ==
  Append(history, [home |-> read.home, away |-> read.away, outcome |-> read.outcome])

CommitPublication ==
  /\ publisher # None
  /\ LET w == publisher.week IN
     /\ \A s \in SlotsOf(w) : MatchupFree(s)
     /\ IF round[w] = "review" /\ \A s \in SlotsOf(w) : Unchanged(s, publisher.read[s])
        THEN /\ results' = [s \in Slots |-> IF s \in SlotsOf(w)
                              THEN Published(results[s], publisher.read[s]) ELSE results[s]]
             /\ round' = [round EXCEPT ![w] = "final"]
             /\ premier' = IF w = 4 THEN Winner(publisher.read["grand_final"]) ELSE premier
        ELSE UNCHANGED <<results, round, premier>>
  /\ publisher' = None
  /\ UNCHANGED <<pairing, out, match, calc, submitted, fired, opener, fixer, fixes>>

(* ----------------------------- advancing -------------------------------- *)

\* advance_bracket: from published results, into slots nothing was derived for.
Advance(w) ==
  /\ \A s \in SlotsOf(w + 1) : pairing[s] = None
  /\ \A t \in Sources(w) : pairing[t] # None /\ results[t] # <<>> /\ MatchupFree(t)
  /\ pairing' = [s \in Slots |-> IF s \in SlotsOf(w + 1)
                                 THEN AsPairing(Derived(s, results), 1, FALSE) ELSE pairing[s]]
  /\ out' = [out EXCEPT ![w] = Loser(Latest(results[Knockout(w)]))]
  /\ UNCHANGED <<round, match, results, calc, submitted, fired, premier,
                 opener, publisher, fixer, fixes>>

(* ------------------------ correction and rewind -------------------------- *)

\* correct_finals_result up to its transaction: the version to correct, the
\* round recalculated, the matchup's review assembled.
StartCorrection(s) ==
  /\ fixer = None /\ results[s] # <<>> /\ fixes < MaxFixes /\ Version(s) < MaxVersion
  /\ fixes' = fixes + 1
  /\ \A t \in SlotsOf(WeekOf(s)) : MatchupFree(t)
  /\ \E o \in Evidence(WeekOf(s)) :
       /\ calc' = Calculated(WeekOf(s), o)
       /\ fixer' = [phase |-> "assembled", slot |-> s, version |-> Version(s),
                    read |-> Read(s, Calculated(WeekOf(s), o)), seen |-> {}]
  /\ UNCHANGED <<pairing, out, round, match, results, submitted, fired, premier,
                 opener, publisher>>

\* The results as the correction's transaction has written them.
Corrected == [results EXCEPT ![fixer.slot] = Published(@, fixer.read)]

\* Mutant of Affected: pairings whose entries stay are left with the versions
\* they had.
AffectedEntries(w) ==
  {s \in SlotsOf(w + 1) :
     /\ pairing[s] # None
     /\ LET d == Derived(s, Corrected) IN
        <<pairing[s].home, pairing[s].away>> # <<d.home, d.away>>}

\* The next week's pairings that are not what the corrected results derive:
\* other entries, or the same entries from superseded versions.
Affected(w) ==
  {s \in SlotsOf(w + 1) :
     /\ pairing[s] # None
     /\ LET d == Derived(s, Corrected) IN
        <<pairing[s].home, pairing[s].away, pairing[s].from>> # <<d.home, d.away, d.from>>}

CommitCorrection(w, changed) ==
  /\ results' = Corrected
  /\ match' = [s \in Slots |->
       IF s = fixer.slot THEN [match[s] EXCEPT !.review = @ + 1]
       ELSE IF s \in changed /\ pairing[s].made
       THEN LET d == Derived(s, Corrected) IN [match[s] EXCEPT !.home = d.home, !.away = d.away]
       ELSE match[s]]
  /\ pairing' = [s \in Slots |->
       IF s \in changed
       THEN AsPairing(Derived(s, Corrected), pairing[s].gen + 1, pairing[s].made)
       ELSE pairing[s]]
  /\ out' = IF w = 4 \/ out[w] = None THEN out
            ELSE [out EXCEPT ![w] = Loser(Latest(Corrected[Knockout(w)]))]
  /\ premier' = IF w = 4 THEN Winner(Latest(Corrected["grand_final"])) ELSE premier
  /\ fixer' = None

\* The transaction up to the rewind's reading of the next week: refused when the
\* version or what was assembled is stale.  The grand final has no next week.
BeginCorrection ==
  /\ fixer # None /\ fixer.phase = "assembled"
  /\ LET s == fixer.slot
         w == WeekOf(s)
         current == Version(s) = fixer.version /\ Unchanged(s, fixer.read)
     IN \/ /\ ~current
           /\ fixer' = None
           /\ UNCHANGED <<pairing, out, match, results, premier>>
        \/ /\ current /\ w < 4
           /\ fixer' = [fixer EXCEPT !.phase = "rewinding",
                          !.seen = {t \in Affected(w) : pairing[t].made}]
           /\ UNCHANGED <<pairing, out, match, results, premier>>
        \/ current /\ w = 4 /\ CommitCorrection(w, {})
  /\ UNCHANGED <<round, calc, submitted, fired, opener, publisher, fixes>>

\* The pairings to change still have the matchups they were read with.
SeenAsItIs == fixer.seen = {t \in Affected(WeekOf(fixer.slot)) : pairing[t].made}

\* Mutant of Played: a calculation is not taken for play.
PlayedOnTheField(s) ==
  \/ Entries(pairing[s]) \cap submitted[WeekOf(s)] # {}
  \/ WeekOf(s) \in fired
  \/ s \in fixer.seen /\ (match[s].ruled \/ results[s] # <<>>)

\* Mutant of Played: only what belongs to the matchup is looked for.
PlayedMatchups(s) ==
  s \in fixer.seen /\ (match[s].ruled \/ calc[s] # None \/ results[s] # <<>>)

\* _downstream_play_state: a lineup of either entry, a trigger that fired, or a
\* ruling, calculation or result of the matchup.
Played(s) ==
  \/ Entries(pairing[s]) \cap submitted[WeekOf(s)] # {}
  \/ WeekOf(s) \in fired
  \/ s \in fixer.seen /\ (match[s].ruled \/ calc[s] # None \/ results[s] # <<>>)

\* Mutant of Retried: the second half again, on what the first one read.
RetriedHalfway == fixer

\* _StaleMatchupDuringDownstreamCheck: the transaction is rolled back and run
\* again from its beginning.
Retried == [fixer EXCEPT !.phase = "assembled", !.seen = {}]

\* The rest of it, under the next week's locks: over again when a pairing was
\* materialised in between, nothing at all when the next week is played.
FinishCorrection ==
  /\ Rewinding
  /\ LET w == WeekOf(fixer.slot)
         changed == Affected(w)
     IN \/ /\ ~SeenAsItIs
           /\ fixer' = Retried
           /\ UNCHANGED <<pairing, out, match, results, premier>>
        \/ /\ SeenAsItIs /\ \E s \in changed : Played(s)
           /\ fixer' = None
           /\ UNCHANGED <<pairing, out, match, results, premier>>
        \/ /\ SeenAsItIs /\ \A s \in changed : ~Played(s)
           /\ CommitCorrection(w, changed)
  /\ UNCHANGED <<round, calc, submitted, fired, opener, publisher, fixes>>

SeriesNext ==
  \/ \E w \in Weeks : OpenWeek(w) \/ Transition(w)
  \/ opener # None /\ \E p \in opener.todo : Materialise(p)
  \/ FinishOpening
  \/ \E w \in Weeks, e \in Submitters : Submit(e, w) \/ SubmitAdjudicated(e, w) \/ CorrectLineup(e, w)
  \/ \E w \in Triggered : FireTrigger(w)
  \/ \E s \in Ruled : Rule(s)
  \/ \E w \in Weeks : StartPublication(w)
  \/ CommitPublication
  \/ \E w \in 1..3 : Advance(w)
  \/ \E s \in Slots : StartCorrection(s)
  \/ BeginCorrection
  \/ FinishCorrection

\* A request the server has taken up runs to its end.
SeriesSpec ==
  /\ SeriesInit /\ [][SeriesNext]_seriesVars
  /\ WF_seriesVars(BeginCorrection \/ FinishCorrection)

(* ------------------------------ properties ------------------------------ *)

SeriesTypeOK ==
  /\ DOMAIN pairing = Slots /\ \A s \in Slots : pairing[s] \in PairingsOf(s) \cup {None}
  /\ out \in [1..3 -> Seed \cup {None}]
  /\ round \in [Weeks -> {"none", "upcoming", "open", "live", "review", "final"}]
  /\ match \in [Slots -> Matches]
  /\ results \in [Slots -> Seq(Officials)]
  /\ calc \in [Slots -> Calculations \cup {None}]
  /\ submitted \in [Weeks -> SUBSET Seed] /\ fired \subseteq Weeks
  /\ premier \in Seed \cup {None}
  /\ opener \in Openings \cup {None}
  /\ publisher = None \/ \E w \in Weeks : publisher \in PublicationsOf(w)
  /\ fixer \in Corrections \cup {None}
  /\ fixes \in Nat

\* Every pairing of weeks 2-4 is what the official results of its sources say
\* now, and every elimination is the loser they name: a correction is committed
\* together with the rewind it calls for, or not at all.
BracketFollowsResults ==
  /\ \A s \in Slots \ {"qf", "ef"} : pairing[s] # None =>
       LET d == Derived(s, results) IN
       pairing[s].home = d.home /\ pairing[s].away = d.away /\ pairing[s].from = d.from
  /\ \A w \in 1..3 : out[w] # None => out[w] = Loser(Latest(results[Knockout(w)]))
  /\ premier # None => premier = Winner(Latest(results["grand_final"]))

\* A result belongs to the entries its matchup has: it was reviewed for them,
\* and they are the active pairing's.
ResultsOfTheirPairing ==
  \A s \in Slots : results[s] # <<>> =>
    /\ Latest(results[s]).home = match[s].home /\ Latest(results[s]).away = match[s].away
    /\ match[s].home = pairing[s].home /\ match[s].away = pairing[s].away

\* Nobody a result put out has a lineup in a later week, and every lineup of a
\* week is of an entry that plays in it.
LineupsOfFinalists ==
  \A w \in Weeks : submitted[w] \subseteq
    UNION {Entries(pairing[s]) : s \in {t \in SlotsOf(w) : pairing[t] # None}}

\* A week that is open has all its pairings and a matchup for each.
OpenWeeksAreComplete ==
  \A w \in Weeks : round[w] \in {"open", "live", "review", "final"} =>
    \A s \in SlotsOf(w) : pairing[s] # None /\ pairing[s].made /\ match[s] # NoMatch

\* A correction that was begun ends, committed or refused, however often the
\* week it depends on is opened under it.
CorrectionsEnd == fixer # None ~> fixer = None
=============================================================================
