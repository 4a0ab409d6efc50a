------------------------- MODULE RoundResultsProofs -------------------------
(***************************************************************************)
(* Proofs about RoundResults, for every draw, every set of scorer requests, *)
(* every team sheet and every bound: first what is official and from which  *)
(* decisions, then what an official version rests on (the review it was     *)
(* frozen from, the lineups its scores were calculated from).               *)
(***************************************************************************)
EXTENDS RoundResults, TLAPS

USE DEF Matchups, SideNames, results, evidence

LEMMA NoDecisionsTyped == NoDecisions \in Decisions
BY DEF NoDecisions, Decisions

LEMMA KeptDecisionsTyped ==
  ASSUME NEW d \in Decisions, NEW changed
  PROVE  KeptDecisions(d, changed) \in Decisions
BY DEF KeptDecisions, Decisions

LEMMA DecisionsUpdates ==
  ASSUME NEW d \in Decisions
  PROVE  /\ \A p \in Slots, dnp \in {"dnp", "played"} : [d EXCEPT !.ruling[p] = dnp] \in Decisions
         /\ \A target \in Starters \cup {"unused"} : [d EXCEPT !.target = target] \in Decisions
BY DEF Decisions

LEMMA SeenUpdates ==
  ASSUME NEW v \in Seen
  PROVE  /\ \A x \in Calculation \cup {NotCalculated} : [v EXCEPT !.calculation = x] \in Seen
         /\ \A d \in [SideNames -> Decisions], n \in [SideNames -> Nat] :
              [v EXCEPT !.decisions = d, !.versions = n] \in Seen
BY DEF Seen

LEMMA NothingReadTyped == NothingRead \in Seen
BY NoDecisionsTyped DEF NothingRead, Seen

LEMMA IdleTyped == Idle \in Request
<1>1. 1 \in Matchups /\ 0 \in 0 .. MaxFacts
  BY ShapeAssumption, DataAssumption
<1> QED BY <1>1, NothingReadTyped DEF Idle, Request, Phases, Kinds, RoundStates

LEMMA NextMatchup ==
  ASSUME NEW m \in Matchups, m # NumMatchups
  PROVE  m + 1 \in Matchups
<1>1. NumMatchups \in Nat
  BY ShapeAssumption
<1> QED BY <1>1

LEMMA OfSidesTyped ==
  ASSUME NEW T, NEW f \in [Entries -> T], NEW m \in Matchups
  PROVE  OfSides(m, f) \in [SideNames -> T]
BY ShapeAssumption DEF OfSides

\* Every reachable state is well typed.
THEOREM TypeCorrect == Spec => []TypeOK
<1>1. Init => TypeOK
  BY NoDecisionsTyped, IdleTyped, ShapeAssumption, DataAssumption
  DEF Init, TypeOK, Lineup, NoLineup, TeamSheet, RoundStates
<1>2. TypeOK /\ [Next]_vars => TypeOK'
  <2> SUFFICES ASSUME TypeOK, [Next]_vars PROVE TypeOK'
    OBVIOUS
  <2> USE DEF TypeOK
  <2>1. CASE AflFactsChange
    BY <2>1, DataAssumption DEF AflFactsChange
  <2>2. CASE Transition
    BY <2>2 DEF Transition, LegalTransition, RoundStates
  <2>3. CASE CompleteSeason
    BY <2>3 DEF CompleteSeason
  <2>4. CASE CoachStep
    <3> PICK e \in Entries : \E sheet \in TeamSheets[e] :
          SubmitLineup(e, sheet) \/ AdjudicateMissedLineup(e, sheet) \/ CorrectLineup(e, sheet)
      BY <2>4 DEF CoachStep
    <3> PICK sheet \in TeamSheets[e] :
          SubmitLineup(e, sheet) \/ AdjudicateMissedLineup(e, sheet) \/ CorrectLineup(e, sheet)
      OBVIOUS
    <3>1. sheet \in TeamSheet
      BY DataAssumption
    <3>2. NewVersion(e, sheet) => lineup' \in [Entries -> Lineup]
      BY <3>1 DEF NewVersion, Lineup
    <3>3. CASE SubmitLineup(e, sheet)
      BY <3>2, <3>3 DEF SubmitLineup
    <3>4. CASE AdjudicateMissedLineup(e, sheet)
      BY <3>2, <3>4 DEF AdjudicateMissedLineup
    <3>5. CASE CorrectLineup(e, sheet)
      BY <3>2, <3>5, KeptDecisionsTyped DEF CorrectLineup, Bumped
    <3> QED BY <3>3, <3>4, <3>5
  <2>5. ASSUME NEW s \in Scorers, RequestStep(s) PROVE TypeOK'
    <3> DEFINE c == scorer[s]
    <3>c. /\ c \in Request /\ c.kind \in Kinds /\ c.at \in Matchups
          /\ c.fetched \in 0 .. MaxFacts /\ c.since \in 0 .. MaxFacts
          /\ c.seen \in [Matchups -> Seen] /\ c.seen[c.at] \in Seen
      <4>1. c \in Request
        OBVIOUS
      <4> QED BY <4>1 DEF Request
    <3>0. Release(s) \in [Matchups -> Scorers \cup {Nobody}]
      BY DEF Release
    <3>1. ASSUME NEW kind \in Kinds, NEW m \in Matchups, StartCalculation(s, kind, m)
          PROVE TypeOK'
      <4> DEFINE started == [Idle EXCEPT !.pc = "persist", !.kind = kind, !.at = m, !.since = facts]
      <4>1. PICK lag \in 0 .. StaleWindow[s] :
              /\ lag <= facts
              /\ scorer' = [scorer EXCEPT ![s] =
                              [started EXCEPT !.fetched = facts - lag, !.fresh = (lag = 0)]]
        BY <3>1 DEF StartCalculation
      <4>2. facts - lag \in 0 .. MaxFacts
        BY <4>1, DataAssumption
      <4>3. [started EXCEPT !.fetched = facts - lag, !.fresh = (lag = 0)] \in Request
        BY <4>2, IdleTyped DEF Request, Phases
      <4>4. lockedBy' \in [Matchups -> Scorers \cup {Nobody}]
        BY <3>1 DEF StartCalculation
      <4> QED BY <3>1, <4>1, <4>3, <4>4 DEF StartCalculation
    <3>2. CASE PersistCalculation(s)
      <4>1. [c EXCEPT !.pc = "round"] \in Request /\ [c EXCEPT !.pc = "matchups"] \in Request
        BY <3>c DEF Request, Phases
      <4>2. scorer' \in [Scorers -> Request]
        BY <3>2, <4>1, IdleTyped DEF PersistCalculation
      <4>3. \A m \in Matchups : Snapshot(s, m) \in Calculation
        BY <3>c, OfSidesTyped DEF Snapshot, Calculation
      <4>4. calculation' \in [Matchups -> Calculation \cup {NotCalculated}]
        BY <3>2, <4>3 DEF PersistCalculation
      <4> QED BY <3>2, <3>0, <4>2, <4>4 DEF PersistCalculation
    <3>3. ASSUME NEW m \in Matchups, LoadReview(s, m) PROVE TypeOK'
      <4> DEFINE r == [Idle.seen[m] EXCEPT !.reviewVersion = reviewVersion[m]]
      <4>1. Idle.seen \in [Matchups -> Seen]
        BY IdleTyped DEF Request
      <4>2. r \in Seen
        BY ZenonT(60), <4>1 DEF Seen
      <4>3. [Idle.seen EXCEPT ![m] = r] \in [Matchups -> Seen]
        BY <4>1, <4>2
      <4>4. [Idle EXCEPT !.pc = "commit", !.kind = "ruling", !.at = m,
                         !.seen[m].reviewVersion = reviewVersion[m]] \in Request
        BY <4>3, IdleTyped DEF Request, Phases, Kinds
      <4> QED BY <3>3, <4>4 DEF LoadReview
    <3>4. CASE ReadRound(s)
      <4>1. [c EXCEPT !.pc = "matchups", !.roundState = round.state,
                      !.roundVersion = round.version] \in Request
        BY <3>c DEF Request, Phases
      <4> QED BY <3>4, <4>1 DEF ReadRound
    <3>5. CASE ReadMatchups(s)
      <4>1. \A m \in Matchups : [NothingRead EXCEPT !.reviewVersion = reviewVersion[m]] \in Seen
        BY NothingReadTyped DEF Seen
      <4> DEFINE listed == [m \in Matchups |->
                              IF m \in Covered(c)
                              THEN [NothingRead EXCEPT !.reviewVersion = reviewVersion[m]]
                              ELSE NothingRead]
      <4>2. listed \in [Matchups -> Seen]
        BY <4>1, NothingReadTyped
      <4> HIDE DEF listed
      <4>3. [c EXCEPT !.pc = "calculation", !.seen = listed] \in Request
        BY <3>c, <4>2 DEF Request, Phases
      <4> QED BY <3>5, <4>3 DEF ReadMatchups, listed
    <3>6. CASE ReadCalculation(s)
      <4>0. calculation[c.at] \in Calculation \cup {NotCalculated}
        BY <3>c
      <4>1. [c.seen[c.at] EXCEPT !.calculation = calculation[c.at]] \in Seen
        BY <4>0, <3>c, SeenUpdates
      <4>2. [c.seen EXCEPT ![c.at].calculation = calculation[c.at]] \in [Matchups -> Seen]
        BY <3>c, <4>1
      <4>3. [c EXCEPT !.pc = "decisions", !.seen[c.at].calculation = calculation[c.at]] \in Request
        BY <3>c, <4>2 DEF Request, Phases
      <4> QED BY <3>6, <4>3 DEF ReadCalculation
    <3>7. CASE ReadDecisions(s)
      <4> DEFINE current == [e \in Entries |-> lineup[e].version]
                 last == c.kind = "correct" \/ c.at = NumMatchups
                 read == [c.seen[c.at] EXCEPT !.decisions = OfSides(c.at, decisions),
                                              !.versions = OfSides(c.at, current)]
      <4>1. current \in [Entries -> Nat]
        BY DEF Lineup
      <4>b. /\ OfSides(c.at, decisions) \in [SideNames -> Decisions]
            /\ OfSides(c.at, current) \in [SideNames -> Nat]
        BY <3>c, <4>1, OfSidesTyped
      <4>2. read \in Seen
        BY <4>b, <3>c, SeenUpdates
      <4>3. [c.seen EXCEPT ![c.at] = read] \in [Matchups -> Seen]
        BY <3>c, <4>2
      <4>4. ~ last => c.at + 1 \in Matchups
        BY <3>c, NextMatchup
      <4> HIDE DEF read
      <4>5. [c EXCEPT !.pc = IF last THEN "commit" ELSE "calculation",
                      !.at = IF last THEN c.at ELSE c.at + 1,
                      !.seen[c.at] = read] \in Request
        BY <3>c, <4>3, <4>4 DEF Request, Phases
      <4> QED BY <3>7, <4>5 DEF ReadDecisions, read
    <3>8. CASE Publish(s)
      <4>1. \A m \in Matchups : Frozen(c, m) \in Result
        BY <3>8, <3>c DEF Publish, MatchupReady, Frozen, Result, Seen, Request
      <4> QED BY <3>8, <4>1, IdleTyped DEF Publish, RoundStates
    <3>9. CASE CorrectMatchup(s)
      <4>1. Frozen(c, c.at) \in Result
        BY <3>9, <3>c DEF CorrectMatchup, MatchupReady, Frozen, Result, Seen, Request
      <4> QED BY SMTT(40), <3>9, <3>c, <4>1, IdleTyped DEF CorrectMatchup, Bumped
    <3>10. CASE Abandon(s)
      BY <3>10, <3>0, IdleTyped DEF Abandon
    <3> QED BY <2>5, <3>1, <3>2, <3>3, <3>4, <3>5, <3>6, <3>7, <3>8, <3>9, <3>10
            DEF RequestStep, Kinds
  <2>6. ASSUME NEW s \in Scorers, RulingStep(s) PROVE TypeOK'
    <3>1. ASSUME NEW e \in Entries, NEW d \in Decisions, Decide(s, e, d) PROVE TypeOK'
      BY <3>1, IdleTyped DEF Decide, Bumped
    <3>2. PICK e \in Entries, p \in Slots :
            \/ \E dnp \in {"dnp", "played"} : RecordDnpRuling(s, e, p, dnp)
            \/ p \in Starters /\ RecordOverride(s, e, p)
            \/ \E target \in {p, "unused"} \ {Interchange} : RecordInterchangeRuling(s, e, target)
      BY <2>6 DEF RulingStep
    <3>3. ASSUME NEW dnp \in {"dnp", "played"}, RecordDnpRuling(s, e, p, dnp) PROVE TypeOK'
      <4>1. [decisions[e] EXCEPT !.ruling[p] = dnp] \in Decisions
        BY DecisionsUpdates
      <4> QED BY <3>1, <3>3, <4>1 DEF RecordDnpRuling
    <3>4. ASSUME p \in Starters, RecordOverride(s, e, p) PROVE TypeOK'
      <4>1. \A on \in BOOLEAN :
              [decisions[e] EXCEPT !.override = IF on THEN @ \cup {p} ELSE @ \ {p}] \in Decisions
        BY ZenonT(60), <3>4 DEF Decisions
      <4> QED BY <3>1, <3>4, <4>1 DEF RecordOverride
    <3>5. ASSUME NEW target \in {p, "unused"} \ {Interchange}, RecordInterchangeRuling(s, e, target)
          PROVE TypeOK'
      <4>1. [decisions[e] EXCEPT !.target = target] \in Decisions
        BY DecisionsUpdates DEF Slots
      <4> QED BY <3>1, <3>5, <4>1 DEF RecordInterchangeRuling
    <3> QED BY <3>2, <3>3, <3>4, <3>5
  <2>7. CASE UNCHANGED vars
    BY <2>7 DEF vars
  <2> QED BY <2>1, <2>2, <2>3, <2>4, <2>5, <2>6, <2>7 DEF Next
<1> QED BY <1>1, <1>2, PTL DEF Spec

-----------------------------------------------------------------------------
\* What one step does to each table, whoever takes it.

\* A request's record changes only by its own steps.
LEMMA ScorerStep ==
  ASSUME TypeOK, [Next]_vars, NEW s \in Scorers
  PROVE  \/ scorer'[s] = scorer[s]
         \/ scorer'[s] = Idle
         \/ \E kind \in Kinds, m \in Matchups : StartCalculation(s, kind, m)
         \/ PersistCalculation(s)
         \/ \E m \in Matchups : LoadReview(s, m)
         \/ ReadRound(s) \/ ReadMatchups(s) \/ ReadCalculation(s) \/ ReadDecisions(s)
<1> USE DEF TypeOK
<1>1. CASE AflFactsChange \/ Transition \/ CompleteSeason \/ CoachStep \/ UNCHANGED vars
  BY <1>1 DEF AflFactsChange, Transition, CompleteSeason, CoachStep, SubmitLineup,
       AdjudicateMissedLineup, CorrectLineup, vars
<1>2. ASSUME NEW t \in Scorers, RequestStep(t) PROVE t = s \/ scorer'[s] = scorer[s]
  BY <1>2 DEF RequestStep, StartCalculation, PersistCalculation, LoadReview, ReadRound,
       ReadMatchups, ReadCalculation, ReadDecisions, Publish, CorrectMatchup, Abandon
<1>3. CASE RequestStep(s)
  BY <1>3 DEF RequestStep, Kinds, Publish, CorrectMatchup, Abandon
<1>4. ASSUME NEW t \in Scorers, RulingStep(t) PROVE scorer'[s] = scorer[s] \/ scorer'[s] = Idle
  BY <1>4 DEF RulingStep, RecordDnpRuling, RecordOverride, RecordInterchangeRuling, Decide
<1> QED BY <1>1, <1>2, <1>3, <1>4 DEF Next

\* The rulings and overrides of a matchup never change without its review
\* version, which never goes back.
LEMMA ReviewStep ==
  ASSUME TypeOK, [Next]_vars, NEW m \in Matchups
  PROVE  /\ reviewVersion[m] \in Nat /\ reviewVersion'[m] \in Nat
         /\ reviewVersion'[m] >= reviewVersion[m]
         /\ reviewVersion'[m] = reviewVersion[m] => OfSides(m, decisions') = OfSides(m, decisions)
<1> USE DEF TypeOK
<1>1. CASE UNCHANGED <<reviewVersion, decisions>>
  BY <1>1
<1>2. ASSUME NEW e \in Entries, NEW sheet, CorrectLineup(e, sheet)
      PROVE  /\ reviewVersion'[m] \in Nat
             /\ reviewVersion'[m] >= reviewVersion[m]
             /\ reviewVersion'[m] = reviewVersion[m] => OfSides(m, decisions') = OfSides(m, decisions)
  <2>1. CASE e \in Sides(m)
    BY <1>2, <2>1 DEF CorrectLineup, Bumped
  <2>2. CASE e \notin Sides(m)
    BY <1>2, <2>2 DEF CorrectLineup, Bumped, OfSides, Sides
  <2> QED BY <2>1, <2>2
<1>3. ASSUME NEW s \in Scorers, CorrectMatchup(s)
      PROVE  /\ reviewVersion'[m] \in Nat
             /\ reviewVersion'[m] >= reviewVersion[m]
             /\ reviewVersion'[m] = reviewVersion[m] => OfSides(m, decisions') = OfSides(m, decisions)
  BY <1>3 DEF CorrectMatchup, Bumped
<1>4. ASSUME NEW s \in Scorers, NEW e, NEW d, Decide(s, e, d)
      PROVE  /\ reviewVersion'[m] \in Nat
             /\ reviewVersion'[m] >= reviewVersion[m]
             /\ reviewVersion'[m] = reviewVersion[m] => OfSides(m, decisions') = OfSides(m, decisions)
  <2> DEFINE n == scorer[s].at
  <2>1. n \in Matchups
    BY DEF Request
  <2>2. CASE m = n
    BY <1>4, <2>2 DEF Decide, Bumped
  <2>3. CASE m # n
    <3>1. e \notin Sides(m)
      BY <1>4, <2>1, <2>3, ShapeAssumption DEF Decide
    <3>2. reviewVersion'[m] = reviewVersion[m]
      BY <1>4, <2>3 DEF Decide, Bumped
    <3>3. \A side \in SideNames : decisions'[Draw[m][side]] = decisions[Draw[m][side]]
      BY <1>4, <3>1, ShapeAssumption DEF Decide, Sides
    <3> QED BY <3>2, <3>3 DEF OfSides
  <2> QED BY <2>2, <2>3
<1>5. ASSUME NEW s \in Scorers, RulingStep(s)
      PROVE  \E e \in Entries : \E d : Decide(s, e, d)
  BY <1>5 DEF RulingStep, RecordDnpRuling, RecordOverride, RecordInterchangeRuling
<1>6. ASSUME NEW s \in Scorers, RequestStep(s)
      PROVE  CorrectMatchup(s) \/ UNCHANGED <<reviewVersion, decisions>>
  BY <1>6 DEF RequestStep, StartCalculation, PersistCalculation, LoadReview, ReadRound,
       ReadMatchups, ReadCalculation, ReadDecisions, Publish, Abandon
<1>7. CASE AflFactsChange \/ Transition \/ CompleteSeason \/ UNCHANGED vars
  BY <1>1, <1>7 DEF AflFactsChange, Transition, CompleteSeason, vars
<1>8. CASE CoachStep
  BY <1>1, <1>2, <1>8 DEF CoachStep, SubmitLineup, AdjudicateMissedLineup
<1> QED BY <1>1, <1>3, <1>4, <1>5, <1>6, <1>7, <1>8 DEF Next

\* Official results are written by Publish and CorrectMatchup only.
LEMMA OfficialStep ==
  ASSUME [Next]_vars
  PROVE  \/ UNCHANGED results
         \/ Transition
         \/ \E s \in Scorers : Publish(s) \/ CorrectMatchup(s)
<1>1. CASE AflFactsChange \/ CompleteSeason \/ CoachStep \/ UNCHANGED vars
  BY <1>1 DEF AflFactsChange, CompleteSeason, CoachStep, SubmitLineup,
       AdjudicateMissedLineup, CorrectLineup, vars
<1>2. ASSUME NEW s \in Scorers, RequestStep(s)
      PROVE  Publish(s) \/ CorrectMatchup(s) \/ UNCHANGED results
  BY <1>2 DEF RequestStep, StartCalculation, PersistCalculation, LoadReview, ReadRound,
       ReadMatchups, ReadCalculation, ReadDecisions, Abandon
<1>3. ASSUME NEW s \in Scorers, RulingStep(s) PROVE UNCHANGED results
  BY <1>3 DEF RulingStep, RecordDnpRuling, RecordOverride, RecordInterchangeRuling, Decide
<1> QED BY <1>1, <1>2, <1>3 DEF Next

\* The season only moves by CompleteSeason.
LEMMA SeasonStep ==
  ASSUME [Next]_vars
  PROVE  season' = season \/ CompleteSeason
<1>1. CASE AflFactsChange \/ Transition \/ CoachStep \/ UNCHANGED vars
  BY <1>1 DEF AflFactsChange, Transition, CoachStep, SubmitLineup,
       AdjudicateMissedLineup, CorrectLineup, vars
<1>2. ASSUME NEW s \in Scorers, RequestStep(s) PROVE season' = season
  BY <1>2 DEF RequestStep, StartCalculation, PersistCalculation, LoadReview, ReadRound,
       ReadMatchups, ReadCalculation, ReadDecisions, Publish, CorrectMatchup, Abandon
<1>3. ASSUME NEW s \in Scorers, RulingStep(s) PROVE season' = season
  BY <1>3 DEF RulingStep, RecordDnpRuling, RecordOverride, RecordInterchangeRuling, Decide
<1> QED BY <1>1, <1>2, <1>3 DEF Next

-----------------------------------------------------------------------------
\* The official ledger.

LEMMA FrozenTyped ==
  ASSUME TypeOK, NEW s \in Scorers, NEW m \in Matchups, MatchupReady(scorer[s], m)
  PROVE  Frozen(scorer[s], m) \in Result
<1>1. scorer[s] \in Request /\ scorer[s].seen[m] \in Seen
  <2>1. scorer[s] \in Request
    BY DEF TypeOK
  <2> QED BY <2>1 DEF Request
<1> QED BY <1>1 DEF MatchupReady, Frozen, Result, Seen, Request

LEMMA FinalIffPublishedStep ==
  ASSUME TypeOK, FinalIffPublished, [Next]_vars
  PROVE  FinalIffPublished'
<1> USE DEF TypeOK, FinalIffPublished
<1>1. CASE UNCHANGED results
  BY <1>1
<1>2. CASE Transition
  BY <1>2 DEF Transition, LegalTransition, RoundStates
<1>3. ASSUME NEW s \in Scorers, Publish(s) PROVE FinalIffPublished'
  <2> SUFFICES ASSUME NEW m \in Matchups
               PROVE  /\ effective'[m] = Len(official'[m])
                      /\ round'.state = "final" <=> effective'[m] # 0
    OBVIOUS
  <2>1. official[m] \in Seq(Result) /\ Frozen(scorer[s], m) \in Result
    BY <1>3, FrozenTyped DEF Publish
  <2>2. Len(official[m]) = 0 /\ official'[m] = Append(official[m], Frozen(scorer[s], m))
    BY <1>3 DEF Publish
  <2> QED BY <1>3, <2>1, <2>2 DEF Publish
<1>4. ASSUME NEW s \in Scorers, CorrectMatchup(s) PROVE FinalIffPublished'
  <2> SUFFICES ASSUME NEW m \in Matchups
               PROVE  /\ effective'[m] = Len(official'[m])
                      /\ round'.state = "final" <=> effective'[m] # 0
    OBVIOUS
  <2> DEFINE n == scorer[s].at
  <2>1. n \in Matchups
    BY DEF Request
  <2>2. CASE m # n
    BY <1>4, <2>1, <2>2 DEF CorrectMatchup
  <2>3. CASE m = n
    <3>1. official[m] \in Seq(Result) /\ Frozen(scorer[s], m) \in Result
      BY <1>4, <2>3, FrozenTyped DEF CorrectMatchup
    <3>2. official'[m] = Append(official[m], Frozen(scorer[s], m))
      BY <1>4, <2>3 DEF CorrectMatchup
    <3>3. effective'[m] = effective[m] + 1 /\ round' = round /\ round.state = "final"
      BY <1>4, <2>3 DEF CorrectMatchup
    <3> QED BY <3>1, <3>2, <3>3
  <2> QED BY <2>2, <2>3
<1> QED BY <1>1, <1>2, <1>3, <1>4, OfficialStep

\* The round is final exactly when every matchup has a result in force, which
\* is the last of its history: publication is all or nothing.
THEOREM FinalExactlyWhenPublished == Spec => []FinalIffPublished
<1>1. Init => FinalIffPublished
  BY DEF Init, FinalIffPublished
<1>2. TypeOK /\ FinalIffPublished /\ [Next]_vars => FinalIffPublished'
  BY FinalIffPublishedStep
<1> QED BY <1>1, <1>2, TypeCorrect, PTL DEF Spec

\* Every step of the round is a step of the ledger, or changes nothing in it.
LEMMA LedgerStep ==
  ASSUME TypeOK, FinalIffPublished, [Next]_vars
  PROVE  [Ledger!Next]_(Ledger!vars)
<1> USE DEF TypeOK, FinalIffPublished
<1>1. CASE season' = season /\ UNCHANGED results
  BY <1>1 DEF Ledger!vars
<1>2. CASE CompleteSeason
  BY <1>2 DEF CompleteSeason, Ledger!Next, Ledger!Close
<1>3. CASE Transition
  BY <1>3 DEF Transition, Ledger!vars
<1>4. ASSUME NEW s \in Scorers, Publish(s) PROVE Ledger!PublishAll
  <2>1. ASSUME NEW m \in Matchups PROVE effective[m] = 0 /\ Ledger!Extends(m)
    <3>1. official[m] \in Seq(Result) /\ Frozen(scorer[s], m) \in Result
      BY <1>4, FrozenTyped DEF Publish
    <3>2. official'[m] = Append(official[m], Frozen(scorer[s], m))
      BY <1>4 DEF Publish
    <3>3. effective[m] = 0 /\ effective'[m] = 1
      BY <1>4 DEF Publish
    <3> QED BY <3>1, <3>2, <3>3 DEF Ledger!Extends
  <2> QED BY <1>4, <2>1 DEF Publish, SeasonWritable, Ledger!PublishAll
<1>5. ASSUME NEW s \in Scorers, CorrectMatchup(s) PROVE \E m \in Matchups : Ledger!Amend(m)
  <2> DEFINE m == scorer[s].at
  <2>1. m \in Matchups
    BY DEF Request
  <2>2. official[m] \in Seq(Result) /\ Frozen(scorer[s], m) \in Result
    BY <1>5, <2>1, FrozenTyped DEF CorrectMatchup
  <2>3. /\ official' = [official EXCEPT ![m] = Append(official[m], Frozen(scorer[s], m))]
        /\ effective' = [effective EXCEPT ![m] = effective[m] + 1]
    BY <1>5 DEF CorrectMatchup
  <2>4. Ledger!Extends(m)
    BY SMTT(40), <2>1, <2>2, <2>3 DEF Ledger!Extends
  <2>5. \A n \in Matchups : effective[n] # 0
    BY <1>5 DEF CorrectMatchup
  <2> QED BY <1>5, <2>1, <2>3, <2>4, <2>5 DEF CorrectMatchup, SeasonWritable, Ledger!Amend
<1>6. season' = season \/ CompleteSeason
  BY SeasonStep
<1> QED BY <1>1, <1>2, <1>3, <1>4, <1>5, <1>6, OfficialStep DEF Ledger!Next

\* The round implements its abstract ledger: nothing official before
\* everything is, histories that only grow, nothing after completion.
THEOREM LedgerImplemented == Spec => ImplementsLedger
<1>1. Init => Ledger!Init
  BY DEF Init, Ledger!Init
<1>2. TypeOK /\ FinalIffPublished /\ [Next]_vars => [Ledger!Next]_(Ledger!vars)
  BY LedgerStep
<1> QED BY <1>1, <1>2, TypeCorrect, FinalExactlyWhenPublished, PTL
        DEF Spec, ImplementsLedger, Ledger!Spec

-----------------------------------------------------------------------------
\* What each step of a request does to its record.

LEMMA RequestTyped ==
  ASSUME TypeOK, NEW s \in Scorers
  PROVE  /\ scorer[s] \in Request
         /\ scorer[s].at \in Matchups /\ scorer[s].kind \in Kinds
         /\ scorer[s].fetched \in 0 .. MaxFacts /\ scorer[s].since \in 0 .. MaxFacts
         /\ scorer[s].roundVersion \in Nat
         /\ scorer[s].seen \in [Matchups -> Seen]
         /\ \A m \in Matchups : /\ scorer[s].seen[m] \in Seen
                                /\ scorer[s].seen[m].reviewVersion \in Nat
                                /\ scorer[s].seen[m].calculation \in Calculation \cup {NotCalculated}
                                /\ scorer[s].seen[m].versions \in [SideNames -> Nat]
<1>1. scorer[s] \in Request
  BY DEF TypeOK
<1>2. /\ scorer[s].at \in Matchups /\ scorer[s].kind \in Kinds
      /\ scorer[s].fetched \in 0 .. MaxFacts /\ scorer[s].since \in 0 .. MaxFacts
      /\ scorer[s].roundVersion \in Nat
      /\ scorer[s].seen \in [Matchups -> Seen]
  BY <1>1 DEF Request
<1> QED BY <1>1, <1>2 DEF Seen

LEMMA SnapshotTyped ==
  ASSUME TypeOK, NEW s \in Scorers, NEW m \in Matchups
  PROVE  Snapshot(s, m) \in Calculation /\ Snapshot(s, m) # NotCalculated
<1>1. OfSides(m, lineup) \in [SideNames -> Lineup]
  BY OfSidesTyped DEF TypeOK
<1>2. Snapshot(s, m) \in Calculation
  BY <1>1, RequestTyped DEF Snapshot, Calculation
<1> QED BY <1>2, NullAssumption

LEMMA NothingReadFields ==
  /\ NothingRead.reviewVersion = 0 /\ NothingRead.calculation = NotCalculated
  /\ \A r : /\ [NothingRead EXCEPT !.reviewVersion = r].reviewVersion = r
            /\ [NothingRead EXCEPT !.reviewVersion = r].calculation = NotCalculated
BY DEF NothingRead

LEMMA StartEffect ==
  ASSUME TypeOK, NEW s \in Scorers, NEW kind \in Kinds, NEW m \in Matchups,
         StartCalculation(s, kind, m)
  PROVE  LET d == scorer'[s]
         IN /\ d.pc = "persist" /\ d.kind = kind /\ d.at = m /\ d.seen = Idle.seen
            /\ d.roundVersion = 0 /\ d.roundState = "open"
            /\ kind = "signoff" => m = 1
            /\ EvidenceFresh(d) => d.fetched = facts
<1>1. PICK lag \in 0 .. StaleWindow[s] :
        scorer'[s] = [Idle EXCEPT !.pc = "persist", !.kind = kind, !.at = m, !.since = facts,
                                  !.fetched = facts - lag, !.fresh = (lag = 0)]
  BY DEF StartCalculation, TypeOK, Idle
<1>2. /\ scorer'[s].fetched = facts - lag /\ scorer'[s].fresh = (lag = 0)
      /\ scorer'[s].pc = "persist" /\ scorer'[s].kind = kind /\ scorer'[s].at = m
      /\ scorer'[s].seen = Idle.seen
      /\ scorer'[s].roundVersion = 0 /\ scorer'[s].roundState = "open"
  BY <1>1 DEF Idle
<1>3. EvidenceFresh(scorer'[s]) => scorer'[s].fetched = facts
  <2>1. lag = 0 => facts - lag = facts
    BY DataAssumption DEF TypeOK
  <2> QED BY <1>2, <2>1 DEF EvidenceFresh
<1>4. kind = "signoff" => m = 1
  BY DEF StartCalculation
<1> QED BY <1>2, <1>3, <1>4

LEMMA PersistEffect ==
  ASSUME TypeOK, NEW s \in Scorers, PersistCalculation(s)
  PROVE  LET c == scorer[s]
             d == scorer'[s]
         IN \/ d = Idle
            \/ /\ c.pc = "persist" /\ d.pc \in {"round", "matchups"}
               /\ d.pc = "matchups" => d.kind = "correct"
               /\ d.kind = c.kind /\ d.at = c.at /\ d.seen = c.seen
               /\ d.roundVersion = c.roundVersion /\ d.roundState = c.roundState
<1> QED BY RequestTyped DEF PersistCalculation, TypeOK, Request, Idle

LEMMA LoadEffect ==
  ASSUME TypeOK, NEW s \in Scorers, NEW m \in Matchups, LoadReview(s, m)
  PROVE  LET d == scorer'[s]
         IN /\ d.pc = "commit" /\ d.kind = "ruling" /\ d.at = m
            /\ \A n \in Matchups : /\ d.seen[n].reviewVersion \in {0, reviewVersion[n]}
                                   /\ d.seen[n].calculation = NotCalculated
            /\ d.roundVersion = 0 /\ d.roundState = "open"
<1>1. /\ scorer'[s].pc = "commit" /\ scorer'[s].kind = "ruling" /\ scorer'[s].at = m
      /\ scorer'[s].seen = [Idle.seen EXCEPT ![m].reviewVersion = reviewVersion[m]]
      /\ scorer'[s].roundVersion = 0 /\ scorer'[s].roundState = "open"
  BY DEF LoadReview, TypeOK, Idle
<1> DEFINE listed == [NothingRead EXCEPT !.reviewVersion = reviewVersion[m]]
<1>2. \A n \in Matchups : scorer'[s].seen[n] = IF n = m THEN listed ELSE NothingRead
  BY <1>1 DEF Idle
<1>3. listed.reviewVersion = reviewVersion[m] /\ listed.calculation = NotCalculated
  BY NothingReadFields
<1> HIDE DEF listed
<1>4. \A n \in Matchups : /\ scorer'[s].seen[n].reviewVersion \in {0, reviewVersion[n]}
                          /\ scorer'[s].seen[n].calculation = NotCalculated
  BY <1>2, <1>3, NothingReadFields
<1> QED BY <1>1, <1>4

LEMMA RoundEffect ==
  ASSUME TypeOK, NEW s \in Scorers, ReadRound(s)
  PROVE  LET c == scorer[s]
             d == scorer'[s]
         IN /\ c.pc = "round" /\ d.pc = "matchups"
            /\ d.kind = c.kind /\ d.at = c.at /\ d.seen = c.seen
            /\ d.roundVersion = round.version /\ d.roundState = round.state
<1> QED BY RequestTyped DEF ReadRound, TypeOK, Request

LEMMA MatchupsEffect ==
  ASSUME TypeOK, NEW s \in Scorers, ReadMatchups(s)
  PROVE  LET c == scorer[s]
             d == scorer'[s]
         IN /\ c.pc = "matchups" /\ d.pc = "calculation"
            /\ d.kind = c.kind /\ d.at = c.at
            /\ d.roundVersion = c.roundVersion /\ d.roundState = c.roundState
            /\ \A n \in Matchups : /\ d.seen[n].reviewVersion \in {0, reviewVersion[n]}
                                   /\ d.seen[n].calculation = NotCalculated
<1>1. scorer'[s] = [scorer[s] EXCEPT !.pc = "calculation",
                      !.seen = [m \in Matchups |->
                                 IF m \in Covered(scorer[s])
                                 THEN [NothingRead EXCEPT !.reviewVersion = reviewVersion[m]]
                                 ELSE NothingRead]]
  BY DEF ReadMatchups, TypeOK
<1>2. /\ scorer'[s].pc = "calculation" /\ scorer'[s].kind = scorer[s].kind
      /\ scorer'[s].at = scorer[s].at
      /\ scorer'[s].roundVersion = scorer[s].roundVersion
      /\ scorer'[s].roundState = scorer[s].roundState
      /\ scorer'[s].seen = [m \in Matchups |->
                                 IF m \in Covered(scorer[s])
                                 THEN [NothingRead EXCEPT !.reviewVersion = reviewVersion[m]]
                                 ELSE NothingRead]
  BY <1>1, RequestTyped DEF Request
<1>3. scorer[s].pc = "matchups"
  BY DEF ReadMatchups
<1> QED BY <1>2, <1>3, NothingReadFields

LEMMA CalculationEffect ==
  ASSUME TypeOK, NEW s \in Scorers, ReadCalculation(s)
  PROVE  LET c == scorer[s]
             d == scorer'[s]
         IN /\ c.pc = "calculation" /\ d.pc = "decisions"
            /\ d.kind = c.kind /\ d.at = c.at
            /\ d.roundVersion = c.roundVersion /\ d.roundState = c.roundState
            /\ d.seen[c.at].calculation = calculation[c.at]
            /\ \A n \in Matchups \ {c.at} : d.seen[n] = c.seen[n]
            /\ \A n \in Matchups : /\ d.seen[n].reviewVersion = c.seen[n].reviewVersion
                                   /\ d.seen[n].decisions = c.seen[n].decisions
                                   /\ d.seen[n].versions = c.seen[n].versions
<1> DEFINE c == scorer[s]
           made == [c.seen[c.at] EXCEPT !.calculation = calculation[c.at]]
<1>1. scorer'[s] = [c EXCEPT !.pc = "decisions", !.seen = [c.seen EXCEPT ![c.at] = made]]
  BY DEF ReadCalculation, TypeOK
<1>2. /\ made.calculation = calculation[c.at]
      /\ made.reviewVersion = c.seen[c.at].reviewVersion
      /\ made.decisions = c.seen[c.at].decisions
      /\ made.versions = c.seen[c.at].versions
  BY RequestTyped DEF Seen
<1> HIDE DEF made
<1>3. /\ scorer'[s].seen = [c.seen EXCEPT ![c.at] = made] /\ scorer'[s].pc = "decisions"
      /\ scorer'[s].kind = c.kind /\ scorer'[s].at = c.at
      /\ scorer'[s].roundVersion = c.roundVersion /\ scorer'[s].roundState = c.roundState
  BY <1>1, RequestTyped DEF Request
<1>4. c.pc = "calculation"
  BY DEF ReadCalculation
<1> QED BY <1>2, <1>3, <1>4, RequestTyped

LEMMA DecisionsEffect ==
  ASSUME TypeOK, NEW s \in Scorers, ReadDecisions(s)
  PROVE  LET c == scorer[s]
             d == scorer'[s]
             last == c.kind = "correct" \/ c.at = NumMatchups
         IN /\ c.pc = "decisions" /\ d.pc = IF last THEN "commit" ELSE "calculation"
            /\ d.kind = c.kind /\ d.at = IF last THEN c.at ELSE c.at + 1
            /\ d.roundVersion = c.roundVersion /\ d.roundState = c.roundState
            /\ d.seen[c.at].reviewVersion = c.seen[c.at].reviewVersion
            /\ d.seen[c.at].calculation = c.seen[c.at].calculation
            /\ d.seen[c.at].decisions = OfSides(c.at, decisions)
            /\ \A side \in SideNames :
                 d.seen[c.at].versions[side] = lineup[Draw[c.at][side]].version
            /\ \A n \in Matchups \ {c.at} : d.seen[n] = c.seen[n]
<1> DEFINE c == scorer[s]
           last == c.kind = "correct" \/ c.at = NumMatchups
           current == [e \in Entries |-> lineup[e].version]
           made == [c.seen[c.at] EXCEPT !.decisions = OfSides(c.at, decisions),
                                        !.versions = OfSides(c.at, current)]
<1>1. scorer'[s] = [c EXCEPT !.pc = IF last THEN "commit" ELSE "calculation",
                             !.at = IF last THEN c.at ELSE c.at + 1,
                             !.seen = [c.seen EXCEPT ![c.at] = made]]
  BY DEF ReadDecisions, TypeOK
<1>2. /\ made.calculation = c.seen[c.at].calculation
      /\ made.reviewVersion = c.seen[c.at].reviewVersion
      /\ made.decisions = OfSides(c.at, decisions)
      /\ made.versions = OfSides(c.at, current)
  BY RequestTyped DEF Seen
<1>3. \A side \in SideNames : OfSides(c.at, current)[side] = lineup[Draw[c.at][side]].version
  BY RequestTyped, ShapeAssumption DEF OfSides
<1> HIDE DEF made, current
<1>4. /\ scorer'[s].seen = [c.seen EXCEPT ![c.at] = made]
      /\ scorer'[s].pc = IF last THEN "commit" ELSE "calculation"
      /\ scorer'[s].kind = c.kind /\ scorer'[s].at = IF last THEN c.at ELSE c.at + 1
      /\ scorer'[s].roundVersion = c.roundVersion /\ scorer'[s].roundState = c.roundState
  BY <1>1, RequestTyped DEF Request
<1>5. c.pc = "decisions"
  BY DEF ReadDecisions
<1> QED BY <1>2, <1>3, <1>4, <1>5, RequestTyped

-----------------------------------------------------------------------------
\* Decisions: what a request has read is what is in force, as long as the
\* review version it read is.

\* The request has read the calculation, decisions and versions of m.
HasRead(c, m) ==
  /\ c.kind \in {"signoff", "correct"}
  /\ m \in Covered(c)
  /\ \/ c.pc = "commit"
     \/ c.pc \in {"calculation", "decisions"} /\ m < c.at

\* Reading the decisions of one matchup completes the reading of no other.
LEMMA ReadBefore ==
  ASSUME TypeOK, NEW s \in Scorers, ReadDecisions(s),
         NEW n \in Matchups \ {scorer[s].at}, HasRead(scorer'[s], n)
  PROVE  HasRead(scorer[s], n)
<1> DEFINE c == scorer[s]
           d == scorer'[s]
<1>1. c.at \in Matchups /\ NumMatchups \in Nat
  BY RequestTyped, ShapeAssumption
<1>2. c.pc = "decisions" /\ d.kind = c.kind
  BY DecisionsEffect
<1>3. n \in Covered(c) /\ c.kind \in {"signoff", "correct"}
  <2>1. n \in Covered(d) /\ d.kind \in {"signoff", "correct"} /\ n # c.at
    BY DEF HasRead
  <2>2. d.kind = "correct" => d.at = c.at
    BY <1>2, DecisionsEffect
  <2>3. d.kind = "signoff"
    BY <2>1, <2>2 DEF Covered
  <2> QED BY <1>2, <2>3 DEF Covered
<1>4. c.kind = "signoff"
  BY <1>3 DEF Covered
<1>5. n < c.at
  <2>1. CASE c.at = NumMatchups
    BY <1>1, <2>1
  <2>2. CASE c.at # NumMatchups
    <3>1. d.pc = "calculation" /\ d.at = c.at + 1
      BY <1>4, <2>2, DecisionsEffect
    <3>2. n < d.at
      BY <3>1 DEF HasRead
    <3> QED BY <1>1, <3>1, <3>2
  <2> QED BY <2>1, <2>2
<1> QED BY <1>2, <1>3, <1>5 DEF HasRead

\* A sign-off reads the matchups in order, from the first.
StartsAtFirst(c) ==
  c.kind = "signoff" /\ c.pc \in {"persist", "round", "matchups"} => c.at = 1

ReadsCurrent(c) ==
  /\ StartsAtFirst(c)
  /\ \A m \in Matchups :
       /\ c.seen[m].reviewVersion <= reviewVersion[m]
       /\ HasRead(c, m) /\ c.seen[m].reviewVersion = reviewVersion[m] =>
            c.seen[m].decisions = OfSides(m, decisions)

ReviewInv == \A s \in Scorers : ReadsCurrent(scorer[s])

LEMMA IdleReadsCurrent == TypeOK => ReadsCurrent(Idle)
BY DEF TypeOK, ReadsCurrent, Idle, NothingRead, HasRead, StartsAtFirst

LEMMA ReviewInvStep ==
  ASSUME TypeOK, TypeOK', ReviewInv, [Next]_vars
  PROVE  ReviewInv'
<1> SUFFICES ASSUME NEW s \in Scorers PROVE ReadsCurrent(scorer[s])'
  BY DEF ReviewInv
<1> DEFINE c == scorer[s]
<1>c. /\ c.at \in Matchups /\ c.kind \in Kinds
      /\ \A m \in Matchups : c.seen[m].reviewVersion \in Nat
  BY RequestTyped
<1>r. ReadsCurrent(c)
  BY DEF ReviewInv
<1>v. \A m \in Matchups :
        /\ reviewVersion[m] \in Nat /\ reviewVersion'[m] \in Nat
        /\ reviewVersion'[m] >= reviewVersion[m]
        /\ reviewVersion'[m] = reviewVersion[m] => OfSides(m, decisions') = OfSides(m, decisions)
  BY ReviewStep
<1>1. CASE scorer'[s] = c
  BY <1>1, <1>c, <1>r, <1>v DEF ReadsCurrent
<1>2. CASE scorer'[s] = Idle
  BY <1>2, IdleReadsCurrent, TypeOK' DEF ReadsCurrent, Idle, NothingRead, HasRead, StartsAtFirst, TypeOK
<1>i. \A m \in Matchups : Idle.seen[m].reviewVersion = 0
  BY DEF Idle, NothingRead
<1>3. ASSUME NEW kind \in Kinds, NEW m \in Matchups, StartCalculation(s, kind, m)
      PROVE ReadsCurrent(scorer[s])'
  BY <1>3, StartEffect, <1>i, <1>v DEF ReadsCurrent, HasRead, StartsAtFirst
<1>4. CASE PersistCalculation(s)
  BY <1>2, <1>4, PersistEffect, <1>c, <1>r, <1>v DEF ReadsCurrent, HasRead, StartsAtFirst
<1>5. ASSUME NEW m \in Matchups, LoadReview(s, m) PROVE ReadsCurrent(scorer[s])'
  <2>1. \A n \in Matchups : scorer'[s].seen[n].reviewVersion \in {0, reviewVersion[n]}
    BY <1>5, LoadEffect
  <2>2. scorer'[s].kind = "ruling"
    BY <1>5, LoadEffect
  <2> QED BY <2>1, <2>2, <1>v DEF ReadsCurrent, HasRead, StartsAtFirst
<1>6. CASE ReadRound(s)
  BY <1>6, RoundEffect, <1>c, <1>r, <1>v DEF ReadsCurrent, HasRead, StartsAtFirst
<1>7. CASE ReadMatchups(s)
  <2>1. \A n \in Matchups : ~ HasRead(scorer'[s], n)
    BY <1>7, MatchupsEffect, <1>r, <1>c DEF HasRead, Covered, ReadsCurrent, StartsAtFirst
  <2> QED BY <1>7, MatchupsEffect, <2>1, <1>v DEF ReadsCurrent, StartsAtFirst
<1>8. CASE ReadCalculation(s)
  <2>1. \A n \in Matchups : HasRead(scorer'[s], n) => HasRead(c, n)
    BY <1>8, CalculationEffect DEF HasRead, Covered
  <2> QED BY <1>8, CalculationEffect, <2>1, <1>c, <1>r, <1>v DEF ReadsCurrent, StartsAtFirst
<1>9. CASE ReadDecisions(s)
  <2>1. decisions' = decisions
    BY <1>9 DEF ReadDecisions
  <2>2. \A n \in Matchups \ {c.at} : HasRead(scorer'[s], n) => HasRead(c, n)
    BY <1>9, ReadBefore
  <2>3. ASSUME NEW n \in Matchups
        PROVE  /\ scorer'[s].seen[n].reviewVersion <= reviewVersion'[n]
               /\ HasRead(scorer'[s], n) /\ scorer'[s].seen[n].reviewVersion = reviewVersion'[n] =>
                    scorer'[s].seen[n].decisions = OfSides(n, decisions')
    BY <1>9, DecisionsEffect, <2>1, <2>2, <1>c, <1>r, <1>v DEF ReadsCurrent
  <2> QED BY <1>9, DecisionsEffect, <2>3 DEF ReadsCurrent, StartsAtFirst
<1> QED BY <1>1, <1>2, <1>3, <1>4, <1>5, <1>6, <1>7, <1>8, <1>9, ScorerStep

LEMMA ReviewInvariant == Spec => []ReviewInv
<1>1. Init => ReviewInv
  <2> SUFFICES ASSUME Init PROVE ReviewInv
    OBVIOUS
  <2>1. \A s \in Scorers : scorer[s] = Idle
    BY DEF Init
  <2>2. \A m \in Matchups : reviewVersion[m] = 1
    BY DEF Init
  <2>3. ReadsCurrent(Idle)
    <3>1. \A m \in Matchups : Idle.seen[m].reviewVersion = 0
      BY DEF Idle, NothingRead
    <3>2. \A m \in Matchups : ~ HasRead(Idle, m)
      BY DEF Idle, HasRead
    <3>3. StartsAtFirst(Idle)
      BY DEF Idle, StartsAtFirst
    <3> QED BY <2>2, <3>1, <3>2, <3>3 DEF ReadsCurrent
  <2> QED BY <2>1, <2>3 DEF ReviewInv
<1>2. TypeOK /\ TypeOK' /\ ReviewInv /\ [Next]_vars => ReviewInv'
  BY ReviewInvStep
<1> QED BY <1>1, <1>2, TypeCorrect, PTL DEF Spec

\* What an officiating step writes: the request's own frozen reading.
LEMMA Officiating ==
  ASSUME TypeOK, [Next]_vars, NEW m \in Matchups, Officiates(m)
  PROVE  \E s \in Scorers :
           /\ HasRead(scorer[s], m)
           /\ MatchupReady(scorer[s], m)
           /\ ReviewUnchanged(scorer[s], m)
           /\ official'[m] = Append(official[m], Frozen(scorer[s], m))
           /\ Newest(m) = Frozen(scorer[s], m)
           /\ UNCHANGED <<lineup, decisions, calculation>>
           /\ \/ Publish(s)
              \/ CorrectMatchup(s) /\ m = scorer[s].at
<1>0. official[m] \in Seq(Result)
  BY DEF TypeOK
<1>1. ASSUME NEW s \in Scorers, Publish(s) \/ (CorrectMatchup(s) /\ m = scorer[s].at)
      PROVE  /\ HasRead(scorer[s], m)
             /\ MatchupReady(scorer[s], m)
             /\ ReviewUnchanged(scorer[s], m)
             /\ official'[m] = Append(official[m], Frozen(scorer[s], m))
             /\ Newest(m) = Frozen(scorer[s], m)
             /\ UNCHANGED <<lineup, decisions, calculation>>
  <2>1. MatchupReady(scorer[s], m) /\ ReviewUnchanged(scorer[s], m)
    BY <1>1 DEF Publish, CorrectMatchup
  <2>2. official'[m] = Append(official[m], Frozen(scorer[s], m))
    BY <1>1 DEF Publish, CorrectMatchup, TypeOK
  <2>3. Frozen(scorer[s], m) \in Result
    BY <2>1, FrozenTyped
  <2>4. Newest(m) = Frozen(scorer[s], m)
    BY <1>0, <2>2, <2>3 DEF Newest
  <2>5. HasRead(scorer[s], m) /\ UNCHANGED <<lineup, decisions, calculation>>
    BY <1>1 DEF Publish, CorrectMatchup, HasRead, Covered
  <2> QED BY <2>1, <2>2, <2>4, <2>5
<1>2. official'[m] # official[m]
  BY DEF Officiates
<1>3. PICK s \in Scorers : Publish(s) \/ CorrectMatchup(s)
  BY <1>2, OfficialStep DEF Transition
<1>4. Publish(s) \/ (CorrectMatchup(s) /\ m = scorer[s].at)
  <2>1. CorrectMatchup(s) => \E r : official' = [official EXCEPT ![scorer[s].at] = r]
    BY DEF CorrectMatchup
  <2>2. CorrectMatchup(s) /\ m # scorer[s].at => official'[m] = official[m]
    BY <2>1 DEF TypeOK
  <2> QED BY <1>2, <1>3, <2>2
<1> QED BY <1>1, <1>4

\* No stale decision is ever frozen into an official version.
THEOREM FrozenDecisionsAreCurrent == Spec => FrozenDecisionsCurrent
<1>1. ASSUME TypeOK, ReviewInv, [Next]_vars, NEW m \in Matchups, Officiates(m)
      PROVE  Newest(m).decisions = OfSides(m, decisions)
  <2>1. PICK s \in Scorers : /\ HasRead(scorer[s], m)
                             /\ ReviewUnchanged(scorer[s], m)
                             /\ Newest(m) = Frozen(scorer[s], m)
    BY <1>1, Officiating
  <2>2. scorer[s].seen[m].decisions = OfSides(m, decisions)
    BY <1>1, <2>1 DEF ReviewInv, ReadsCurrent, ReviewUnchanged
  <2> QED BY <2>1, <2>2 DEF Frozen
<1>2. TypeOK /\ ReviewInv /\ [Next]_vars =>
        [\A m \in Matchups : Officiates(m) => Newest(m).decisions = OfSides(m, decisions)]_vars
  BY <1>1
<1> QED BY <1>2, TypeCorrect, ReviewInvariant, PTL DEF Spec, FrozenDecisionsCurrent

-----------------------------------------------------------------------------
\* Corrections.

\* The review versions frozen so far lie behind the current one, strictly so
\* once the matchup has been corrected.
CorrectionInv ==
  \A m \in Matchups : \A i \in 1 .. Len(official[m]) :
    /\ official[m][i].review \in Nat
    /\ official[m][i].review <= reviewVersion[m]
    /\ i > 1 => official[m][i].review < reviewVersion[m]

LEMMA CorrectionStep ==
  ASSUME TypeOK, FinalIffPublished, CorrectionInv, CorrectionsFromDistinctReviews, [Next]_vars
  PROVE  CorrectionInv' /\ CorrectionsFromDistinctReviews'
<1> SUFFICES ASSUME NEW m \in Matchups
             PROVE  /\ \A i \in 1 .. Len(official'[m]) :
                         /\ official'[m][i].review \in Nat
                         /\ official'[m][i].review <= reviewVersion'[m]
                         /\ i > 1 => official'[m][i].review < reviewVersion'[m]
                    /\ \A i \in 2 .. Len(official'[m]) : \A j \in i + 1 .. Len(official'[m]) :
                         official'[m][i].review < official'[m][j].review
  BY DEF CorrectionInv, CorrectionsFromDistinctReviews
<1>o. official[m] \in Seq(Result)
  BY DEF TypeOK
<1>v. reviewVersion[m] \in Nat /\ reviewVersion'[m] \in Nat /\ reviewVersion'[m] >= reviewVersion[m]
  BY ReviewStep
<1>i. \A i \in 1 .. Len(official[m]) :
        /\ official[m][i].review \in Nat
        /\ official[m][i].review <= reviewVersion[m]
        /\ i > 1 => official[m][i].review < reviewVersion[m]
  BY DEF CorrectionInv
<1>d. \A i \in 2 .. Len(official[m]) : \A j \in i + 1 .. Len(official[m]) :
        official[m][i].review < official[m][j].review
  BY DEF CorrectionsFromDistinctReviews
<1>1. CASE official'[m] = official[m]
  BY <1>1, <1>o, <1>v, <1>i, <1>d
<1>2. CASE official'[m] # official[m]
  <2>1. PICK s \in Scorers : Publish(s) \/ CorrectMatchup(s)
    BY <1>2, OfficialStep DEF Transition
  <2> DEFINE r == Frozen(scorer[s], m)
  <2>2. ASSUME MatchupReady(scorer[s], m), ReviewUnchanged(scorer[s], m)
        PROVE  r \in Result /\ r.review = reviewVersion[m]
    BY <2>2, FrozenTyped DEF Frozen, ReviewUnchanged
  <2>3. CASE Publish(s)
    <3>1. Len(official[m]) = 0
      BY <2>3 DEF Publish, FinalIffPublished
    <3>2. official'[m] = Append(official[m], r) /\ r \in Result /\ r.review = reviewVersion[m]
      BY <2>2, <2>3 DEF Publish
    <3> HIDE DEF r
    <3>3. Len(official'[m]) = 1 /\ official'[m][1] = r
      BY <3>1, <3>2, <1>o
    <3> QED BY <3>2, <3>3, <1>v
  <2>4. CASE CorrectMatchup(s)
    <3>1. m = scorer[s].at
      <4>1. \E x : official' = [official EXCEPT ![scorer[s].at] = x]
        BY <2>4 DEF CorrectMatchup
      <4> QED BY <1>2, <4>1 DEF TypeOK
    <3>2. official'[m] = Append(official[m], r) /\ r \in Result /\ r.review = reviewVersion[m]
      BY <2>2, <2>4, <3>1 DEF CorrectMatchup, TypeOK
    <3>3. reviewVersion'[m] = reviewVersion[m] + 1
      BY <2>4, <3>1 DEF CorrectMatchup, Bumped
    <3> HIDE DEF r
    <3>4. /\ Len(official'[m]) = Len(official[m]) + 1
          /\ official'[m][Len(official[m]) + 1] = r
          /\ \A i \in 1 .. Len(official[m]) : official'[m][i] = official[m][i]
      BY <3>2, <1>o
    <3>5. Len(official[m]) \in Nat
      BY <1>o
    <3>6. ASSUME NEW i \in 1 .. Len(official'[m])
          PROVE  /\ official'[m][i].review \in Nat
                 /\ official'[m][i].review <= reviewVersion[m]
                 /\ i <= Len(official[m]) /\ i > 1 => official'[m][i].review < reviewVersion[m]
                 /\ i > Len(official[m]) => official'[m][i].review = reviewVersion[m]
      <4>1. CASE i <= Len(official[m])
        <5>1. i \in 1 .. Len(official[m]) /\ official'[m][i] = official[m][i]
          BY <3>4, <3>5, <4>1
        <5> QED BY <5>1, <3>5, <1>i
      <4>2. CASE i > Len(official[m])
        <5>1. i = Len(official[m]) + 1
          BY <3>4, <3>5, <4>2
        <5> QED BY <5>1, <3>2, <3>4, <3>5, <1>v
      <4> QED BY <4>1, <4>2, <3>5
    <3>7. ASSUME NEW i \in 2 .. Len(official'[m]), NEW j \in i + 1 .. Len(official'[m])
          PROVE  official'[m][i].review < official'[m][j].review
      <4>1. i \in 2 .. Len(official[m]) /\ official'[m][i] = official[m][i]
        BY <3>4, <3>5
      <4>2. CASE j <= Len(official[m])
        <5>1. j \in i + 1 .. Len(official[m]) /\ official'[m][j] = official[m][j]
          BY <3>4, <3>5, <4>2
        <5> QED BY <4>1, <5>1, <1>d
      <4>3. CASE j > Len(official[m])
        <5>1. official'[m][j].review = reviewVersion[m]
          BY <3>4, <3>5, <3>6, <4>3
        <5> QED BY <5>1, <4>1, <3>5, <1>i
      <4> QED BY <4>2, <4>3, <3>5
    <3>8. ASSUME NEW i \in 1 .. Len(official'[m])
          PROVE  /\ official'[m][i].review \in Nat
                 /\ official'[m][i].review <= reviewVersion'[m]
                 /\ i > 1 => official'[m][i].review < reviewVersion'[m]
      <4>1. /\ official'[m][i].review \in Nat
            /\ official'[m][i].review <= reviewVersion[m]
        BY <3>6
      <4> QED BY <4>1, <3>3, <1>v
    <3> QED BY <3>7, <3>8
  <2> QED BY <2>1, <2>3, <2>4
<1> QED BY <1>1, <1>2

\* Of two corrections of one matchup, the later was frozen from a later
\* review: two requests that read the same review cannot both correct it.
THEOREM DistinctReviews == Spec => []CorrectionsFromDistinctReviews
<1>1. Init => CorrectionInv /\ CorrectionsFromDistinctReviews
  BY DEF Init, CorrectionInv, CorrectionsFromDistinctReviews
<1>2. TypeOK /\ FinalIffPublished /\ CorrectionInv /\ CorrectionsFromDistinctReviews /\ [Next]_vars
        => CorrectionInv' /\ CorrectionsFromDistinctReviews'
  BY CorrectionStep
<1> QED BY <1>1, <1>2, TypeCorrect, FinalExactlyWhenPublished, PTL DEF Spec

-----------------------------------------------------------------------------
\* Lineups.

\* A submitted lineup changes only with its version, which never goes back;
\* and it changes only while the round is open or live, as an entry's first
\* submission, or together with the review version of its matchup.
LEMMA LineupStep ==
  ASSUME TypeOK, [Next]_vars, NEW e \in Entries
  PROVE  /\ lineup[e].version \in Nat /\ lineup'[e].version \in Nat
         /\ lineup'[e].version >= lineup[e].version
         /\ lineup'[e].version = lineup[e].version => lineup'[e] = lineup[e]
         /\ lineup'[e] # lineup[e] =>
              \/ round.state \in {"open", "live"} /\ round' = round
              \/ lineup[e].version = 0
              \/ \A m \in Matchups : e \in Sides(m) => reviewVersion'[m] > reviewVersion[m]
<1> USE DEF TypeOK
<1>0. lineup[e].version \in Nat
  BY DEF Lineup
<1>1. CASE lineup' = lineup
  BY <1>0, <1>1
<1>2. ASSUME NEW f \in Entries, NEW sheet, NewVersion(f, sheet)
      PROVE  \/ lineup'[e] = lineup[e]
             \/ f = e /\ lineup'[e].version = lineup[e].version + 1
  BY <1>2 DEF NewVersion, Lineup
<1>3. CASE CoachStep
  <2> PICK f \in Entries : \E sheet \in TeamSheets[f] :
             SubmitLineup(f, sheet) \/ AdjudicateMissedLineup(f, sheet) \/ CorrectLineup(f, sheet)
    BY <1>3 DEF CoachStep
  <2> PICK sheet \in TeamSheets[f] :
             SubmitLineup(f, sheet) \/ AdjudicateMissedLineup(f, sheet) \/ CorrectLineup(f, sheet)
    OBVIOUS
  <2>0. NewVersion(f, sheet)
    BY DEF SubmitLineup, AdjudicateMissedLineup, CorrectLineup
  <2>1. CASE lineup'[e] = lineup[e]
    BY <1>0, <2>1
  <2>2. CASE f = e /\ lineup'[e].version = lineup[e].version + 1
    <3>1. CASE SubmitLineup(f, sheet)
      BY <1>0, <2>2, <3>1 DEF SubmitLineup
    <3>2. CASE AdjudicateMissedLineup(f, sheet)
      BY <1>0, <2>2, <3>2 DEF AdjudicateMissedLineup
    <3>3. CASE CorrectLineup(f, sheet)
      <4>1. \A m \in Matchups : e \in Sides(m) => reviewVersion'[m] > reviewVersion[m]
        BY <2>2, <3>3 DEF CorrectLineup, Bumped
      <4> QED BY <1>0, <2>2, <4>1
    <3> QED BY <3>1, <3>2, <3>3
  <2> QED BY <1>2, <2>0, <2>1, <2>2
<1>4. CASE AflFactsChange \/ Transition \/ CompleteSeason \/ UNCHANGED vars
  BY <1>1, <1>4 DEF AflFactsChange, Transition, CompleteSeason, vars
<1>5. ASSUME NEW s \in Scorers, RequestStep(s) PROVE lineup' = lineup
  BY <1>5 DEF RequestStep, StartCalculation, PersistCalculation, LoadReview, ReadRound,
       ReadMatchups, ReadCalculation, ReadDecisions, Publish, CorrectMatchup, Abandon
<1>6. ASSUME NEW s \in Scorers, RulingStep(s) PROVE lineup' = lineup
  BY <1>6 DEF RulingStep, RecordDnpRuling, RecordOverride, RecordInterchangeRuling, Decide
<1> QED BY <1>1, <1>3, <1>4, <1>5, <1>6 DEF Next

\* The round changes only with its version.
LEMMA RoundStep ==
  ASSUME TypeOK, [Next]_vars
  PROVE  round' = round \/ round'.version = round.version + 1
<1>1. ASSUME NEW s \in Scorers, Publish(s) \/ CorrectMatchup(s)
      PROVE  round' = round \/ round'.version = round.version + 1
  BY <1>1 DEF Publish, CorrectMatchup
<1> QED BY <1>1, OfficialStep DEF Transition

\* snap was calculated from submitted lineups of m: each the one the table
\* holds, or an earlier version of it.
SnapshotOf(m, snap, table) ==
  \A side \in SideNames :
    LET then == snap.lineups[side]
        now == table[Draw[m][side]]
    IN /\ then.version \in Nat /\ 0 < then.version /\ then.version <= now.version
       /\ then.version = now.version => then = now

SnapshotInv ==
  /\ \A m \in Matchups : calculation[m] # NotCalculated => SnapshotOf(m, calculation[m], lineup)
  /\ \A s \in Scorers, m \in Matchups :
       LET snap == scorer[s].seen[m].calculation
       IN snap # NotCalculated => SnapshotOf(m, snap, lineup)

LEMMA SnapshotKept ==
  ASSUME TypeOK, [Next]_vars, NEW m \in Matchups, NEW snap, SnapshotOf(m, snap, lineup)
  PROVE  SnapshotOf(m, snap, lineup')
<1> SUFFICES ASSUME NEW side \in SideNames
             PROVE  LET then == snap.lineups[side]
                        now == lineup'[Draw[m][side]]
                    IN /\ then.version \in Nat /\ 0 < then.version /\ then.version <= now.version
                       /\ then.version = now.version => then = now
  BY DEF SnapshotOf
<1>1. Draw[m][side] \in Entries
  BY ShapeAssumption
<1> QED BY <1>1, LineupStep DEF SnapshotOf

\* A matchup's calculation is written by PersistCalculation only.
LEMMA CalculationStep ==
  ASSUME [Next]_vars
  PROVE  calculation' = calculation \/ \E s \in Scorers : PersistCalculation(s)
<1>1. CASE AflFactsChange \/ Transition \/ CompleteSeason \/ CoachStep \/ UNCHANGED vars
  BY <1>1 DEF AflFactsChange, Transition, CompleteSeason, CoachStep, SubmitLineup,
       AdjudicateMissedLineup, CorrectLineup, vars
<1>2. ASSUME NEW s \in Scorers, RequestStep(s)
      PROVE  calculation' = calculation \/ PersistCalculation(s)
  BY <1>2 DEF RequestStep, StartCalculation, LoadReview, ReadRound,
       ReadMatchups, ReadCalculation, ReadDecisions, Publish, CorrectMatchup, Abandon
<1>3. ASSUME NEW s \in Scorers, RulingStep(s) PROVE calculation' = calculation
  BY <1>3 DEF RulingStep, RecordDnpRuling, RecordOverride, RecordInterchangeRuling, Decide
<1> QED BY <1>1, <1>2, <1>3 DEF Next

LEMMA SnapshotTaken ==
  ASSUME TypeOK, [Next]_vars, NEW s \in Scorers, PersistCalculation(s), NEW m \in Matchups
  PROVE  \/ calculation'[m] = calculation[m]
         \/ SnapshotOf(m, calculation'[m], lineup')
<1>1. CASE m \notin Covered(scorer[s])
  BY <1>1 DEF PersistCalculation
<1>2. CASE m \in Covered(scorer[s])
  <2>1. calculation'[m].lineups = OfSides(m, lineup) /\ lineup' = lineup
    BY <1>2 DEF PersistCalculation, Snapshot
  <2>2. ASSUME NEW side \in SideNames
        PROVE  /\ calculation'[m].lineups[side] = lineup[Draw[m][side]]
               /\ lineup[Draw[m][side]].version \in Nat
               /\ lineup[Draw[m][side]].version > 0
    <3>1. Draw[m][side] \in Entries /\ Draw[m][side] \in Sides(m)
      BY ShapeAssumption DEF Sides
    <3>2. lineup[Draw[m][side]].version \in Nat
      BY <3>1 DEF TypeOK, Lineup
    <3> QED BY <1>2, <2>1, <3>1, <3>2 DEF PersistCalculation, OfSides
  <2>3. \A side \in SideNames : lineup'[Draw[m][side]] = lineup[Draw[m][side]]
    BY <2>1
  <2> QED BY <2>2, <2>3 DEF SnapshotOf
<1> QED BY <1>1, <1>2

LEMMA SnapshotInvStep ==
  ASSUME TypeOK, SnapshotInv, [Next]_vars
  PROVE  SnapshotInv'
<1>1. ASSUME NEW m \in Matchups, calculation'[m] # NotCalculated
      PROVE  SnapshotOf(m, calculation'[m], lineup')
  <2>1. CASE calculation'[m] = calculation[m]
    BY <1>1, <2>1, SnapshotKept DEF SnapshotInv
  <2>2. CASE calculation'[m] # calculation[m]
    <3>1. PICK s \in Scorers : PersistCalculation(s)
      BY <2>2, CalculationStep
    <3> QED BY <2>2, <3>1, SnapshotTaken
  <2> QED BY <2>1, <2>2
<1>2. ASSUME NEW s \in Scorers, NEW m \in Matchups,
             scorer'[s].seen[m].calculation # NotCalculated
      PROVE  SnapshotOf(m, scorer'[s].seen[m].calculation, lineup')
  <2> DEFINE c == scorer[s]
  <2>1. CASE scorer'[s].seen[m].calculation = c.seen[m].calculation
    BY <1>2, <2>1, SnapshotKept DEF SnapshotInv
  <2>i. Idle.seen[m].calculation = NotCalculated
    BY DEF Idle, NothingRead
  <2>2. CASE scorer'[s] = Idle
    BY <1>2, <2>2, <2>i
  <2>3. ASSUME NEW kind \in Kinds, NEW n \in Matchups, StartCalculation(s, kind, n) PROVE FALSE
    BY <1>2, <2>3, <2>i, StartEffect
  <2>4. CASE PersistCalculation(s)
    BY <2>1, <2>2, <2>4, PersistEffect
  <2>5. ASSUME NEW n \in Matchups, LoadReview(s, n) PROVE FALSE
    BY <1>2, <2>5, LoadEffect
  <2>6. CASE ReadRound(s)
    BY <2>1, <2>6, RoundEffect
  <2>7. CASE ReadMatchups(s)
    BY <1>2, <2>7, MatchupsEffect
  <2>8. CASE ReadCalculation(s)
    <3>1. CASE m = c.at
      <4>1. scorer'[s].seen[m].calculation = calculation[m]
        BY <2>8, <3>1, CalculationEffect
      <4>2. calculation' = calculation
        BY <2>8 DEF ReadCalculation
      <4> QED BY <4>1, <4>2, <1>1, <1>2
    <3>2. CASE m # c.at
      BY <2>1, <2>8, <3>2, CalculationEffect
    <3> QED BY <3>1, <3>2
  <2>9. CASE ReadDecisions(s)
    BY <2>1, <2>9, DecisionsEffect
  <2> QED BY <2>1, <2>2, <2>3, <2>4, <2>5, <2>6, <2>7, <2>8, <2>9, ScorerStep
<1> QED BY <1>1, <1>2 DEF SnapshotInv

LEMMA SnapshotInvariant == Spec => []SnapshotInv
<1>1. Init => SnapshotInv
  <2>1. Init => /\ \A m \in Matchups : calculation[m] = NotCalculated
                /\ \A s \in Scorers : scorer[s] = Idle
    BY DEF Init
  <2>2. \A m \in Matchups : Idle.seen[m].calculation = NotCalculated
    BY DEF Idle, NothingRead
  <2> QED BY <2>1, <2>2 DEF SnapshotInv
<1>2. TypeOK /\ SnapshotInv /\ [Next]_vars => SnapshotInv'
  BY SnapshotInvStep
<1> QED BY <1>1, <1>2, TypeCorrect, PTL DEF Spec

-----------------------------------------------------------------------------
\* Sign-off.

\* As long as a sign-off's round version and review version are current, so
\* are the lineup versions it has read (or there was no submission to read).
VersionsCurrent(c) ==
  /\ c.roundVersion <= round.version
  /\ c.roundVersion = round.version => c.roundState = round.state
  /\ \A m \in Matchups :
       /\ HasRead(c, m) /\ c.kind = "signoff" /\ c.roundState = "review"
       /\ c.roundVersion = round.version /\ c.seen[m].reviewVersion = reviewVersion[m]
       => \A side \in SideNames :
            c.seen[m].versions[side] \in {0, lineup[Draw[m][side]].version}

SignoffInv ==
  /\ round.version > 0
  /\ \A s \in Scorers : VersionsCurrent(scorer[s])

\* A reading that stays as it was stays current.
LEMMA VersionsKept ==
  ASSUME TypeOK, ReviewInv, SignoffInv, [Next]_vars, NEW s \in Scorers, NEW m \in Matchups,
         LET c == scorer[s]
         IN /\ HasRead(c, m) /\ c.kind = "signoff" /\ c.roundState = "review"
            /\ c.roundVersion = round'.version /\ c.seen[m].reviewVersion = reviewVersion'[m],
         NEW side \in SideNames
  PROVE  scorer[s].seen[m].versions[side] \in {0, lineup'[Draw[m][side]].version}
<1> DEFINE c == scorer[s]
           e == Draw[m][side]
<1>1. e \in Entries /\ e \in Sides(m)
  BY ShapeAssumption DEF Sides
<1>2. c.roundVersion = round.version /\ round' = round
  <2>1. c.roundVersion <= round.version
    BY DEF SignoffInv, VersionsCurrent
  <2>2. c.roundVersion \in Nat /\ round.version \in Nat
    BY RequestTyped DEF TypeOK
  <2> QED BY <2>1, <2>2, RoundStep
<1>3. c.seen[m].reviewVersion = reviewVersion[m] /\ reviewVersion'[m] = reviewVersion[m]
  BY ReviewStep, RequestTyped DEF ReviewInv, ReadsCurrent
<1>4. c.seen[m].versions[side] \in {0, lineup[e].version}
  BY <1>2, <1>3 DEF SignoffInv, VersionsCurrent
<1>5. round.state = "review"
  BY <1>2 DEF SignoffInv, VersionsCurrent
<1>6. CASE lineup'[e] = lineup[e]
  BY <1>4, <1>6
<1>7. CASE lineup'[e] # lineup[e]
  <2>1. lineup[e].version = 0
    BY <1>1, <1>3, <1>5, <1>7, LineupStep, ReviewStep
  <2> QED BY <1>4, <2>1
<1> QED BY <1>6, <1>7

LEMMA SignoffInvStep ==
  ASSUME TypeOK, TypeOK', ReviewInv, SignoffInv, [Next]_vars
  PROVE  SignoffInv'
<1>0. /\ round.version \in Nat /\ round'.version \in Nat
      /\ round' = round \/ round'.version = round.version + 1
  BY RoundStep DEF TypeOK
<1> SUFFICES ASSUME NEW s \in Scorers PROVE VersionsCurrent(scorer[s])'
  BY <1>0 DEF SignoffInv
<1> DEFINE c == scorer[s]
           d == scorer'[s]
<1>c. c.roundVersion \in Nat /\ c.at \in Matchups /\ c.kind \in Kinds
  BY RequestTyped
<1>r. VersionsCurrent(c) /\ round.version > 0
  BY DEF SignoffInv
<1>k. ASSUME NEW m \in Matchups, HasRead(c, m), c.kind = "signoff", c.roundState = "review",
             c.roundVersion = round'.version, c.seen[m].reviewVersion = reviewVersion'[m],
             NEW side \in SideNames
      PROVE  c.seen[m].versions[side] \in {0, lineup'[Draw[m][side]].version}
  BY <1>k, VersionsKept
<1>v. ASSUME /\ d.roundVersion <= round'.version
             /\ d.roundVersion = round'.version => d.roundState = round'.state,
             \A m \in Matchups :
               /\ HasRead(d, m) /\ d.kind = "signoff" /\ d.roundState = "review"
               /\ d.roundVersion = round'.version /\ d.seen[m].reviewVersion = reviewVersion'[m]
               => \A side \in SideNames :
                    d.seen[m].versions[side] \in {0, lineup'[Draw[m][side]].version}
      PROVE  VersionsCurrent(scorer[s])'
  BY <1>v DEF VersionsCurrent, HasRead, Covered
\* A request that has read no round yet.
<1>n. ASSUME d.roundVersion = 0, \A m \in Matchups : ~ (HasRead(d, m) /\ d.kind = "signoff")
      PROVE  VersionsCurrent(scorer[s])'
  <2>1. round'.version \in Nat /\ round'.version > 0
    BY <1>0, <1>r
  <2>2. d.roundVersion <= round'.version /\ d.roundVersion # round'.version
    BY <1>n, <2>1
  <2> QED BY <1>n, <2>2, <1>v
\* A request that keeps what it knows of the round.
<1>m. ASSUME d.roundVersion = c.roundVersion, d.roundState = c.roundState
      PROVE  /\ d.roundVersion <= round'.version
             /\ d.roundVersion = round'.version => d.roundState = round'.state
  <2>1. /\ c.roundVersion <= round.version
        /\ c.roundVersion = round.version => c.roundState = round.state
    BY <1>r DEF VersionsCurrent
  <2>2. CASE round' = round
    BY <1>m, <2>1, <2>2
  <2>3. CASE round'.version = round.version + 1
    BY <1>m, <1>0, <1>c, <2>1, <2>3
  <2> QED BY <1>0, <2>2, <2>3
<1>1. CASE d = c
  <2>1. d.roundVersion = c.roundVersion /\ d.roundState = c.roundState
    BY <1>1
  <2> QED BY <1>1, <2>1, <1>k, <1>m, <1>v
<1>2. CASE d = Idle
  BY <1>2, <1>n DEF Idle, HasRead
<1>3. ASSUME NEW kind \in Kinds, NEW m \in Matchups, StartCalculation(s, kind, m)
      PROVE  VersionsCurrent(scorer[s])'
  BY <1>3, <1>n, StartEffect DEF HasRead
<1>4. CASE PersistCalculation(s)
  BY <1>2, <1>4, <1>m, PersistEffect DEF HasRead, VersionsCurrent
<1>5. ASSUME NEW m \in Matchups, LoadReview(s, m) PROVE VersionsCurrent(scorer[s])'
  BY <1>5, <1>n, LoadEffect DEF HasRead
<1>6. CASE ReadRound(s)
  <2>1. round' = round
    BY <1>6 DEF ReadRound
  <2>2. \A n \in Matchups : ~ HasRead(d, n)
    BY <1>6, RoundEffect DEF HasRead
  <2>3. d.roundVersion = round'.version /\ d.roundState = round'.state
    BY <1>6, <2>1, RoundEffect
  <2>4. d.roundVersion <= round'.version
    BY <2>3, <1>0
  <2> QED BY <2>2, <2>3, <2>4, <1>v
<1>7. CASE ReadMatchups(s)
  <2>1. \A n \in Matchups : HasRead(d, n) /\ d.kind = "signoff" => FALSE
    <3>1. c.kind = "signoff" => c.at = 1
      BY <1>7 DEF ReadMatchups, ReviewInv, ReadsCurrent, StartsAtFirst
    <3> QED BY <3>1, <1>7, MatchupsEffect DEF HasRead
  <2>2. d.roundVersion = c.roundVersion /\ d.roundState = c.roundState
    BY <1>7, MatchupsEffect
  <2> QED BY <2>1, <2>2, <1>m, <1>v
<1>8. CASE ReadCalculation(s)
  <2>1. \A n \in Matchups : HasRead(d, n) => HasRead(c, n)
    BY <1>8, CalculationEffect DEF HasRead, Covered
  <2>2. ASSUME NEW m \in Matchups, HasRead(d, m), d.kind = "signoff", d.roundState = "review",
               d.roundVersion = round'.version, d.seen[m].reviewVersion = reviewVersion'[m],
               NEW side \in SideNames
        PROVE  d.seen[m].versions[side] \in {0, lineup'[Draw[m][side]].version}
    <3>1. /\ d.kind = c.kind /\ d.roundState = c.roundState /\ d.roundVersion = c.roundVersion
          /\ d.seen[m].reviewVersion = c.seen[m].reviewVersion
          /\ d.seen[m].versions = c.seen[m].versions
      BY <1>8, CalculationEffect
    <3> QED BY <2>1, <2>2, <3>1, <1>k
  <2>3. d.roundVersion = c.roundVersion /\ d.roundState = c.roundState
    BY <1>8, CalculationEffect
  <2> QED BY <2>2, <2>3, <1>m, <1>v
<1>9. CASE ReadDecisions(s)
  <2>1. \A n \in Matchups \ {c.at} : HasRead(d, n) => HasRead(c, n)
    BY <1>9, ReadBefore
  <2>2. lineup' = lineup
    BY <1>9 DEF ReadDecisions
  <2>3. ASSUME NEW m \in Matchups, HasRead(d, m), d.kind = "signoff", d.roundState = "review",
               d.roundVersion = round'.version, d.seen[m].reviewVersion = reviewVersion'[m],
               NEW side \in SideNames
        PROVE  d.seen[m].versions[side] \in {0, lineup'[Draw[m][side]].version}
    <3>1. CASE m = c.at
      BY <1>9, <2>2, <3>1, DecisionsEffect
    <3>2. CASE m # c.at
      <4>1. /\ d.seen[m] = c.seen[m] /\ HasRead(c, m) /\ c.kind = "signoff"
            /\ c.roundState = "review" /\ c.roundVersion = round'.version
        <5>1. HasRead(d, m) /\ m \in Matchups \ {c.at}
          BY <2>3, <3>2
        <5>2. HasRead(c, m)
          BY <5>1, <2>1
        <5>3. d.seen[m] = c.seen[m] /\ c.kind = d.kind /\ c.roundState = d.roundState
              /\ c.roundVersion = d.roundVersion
          BY <1>9, <5>1, DecisionsEffect
        <5> QED BY <2>3, <5>2, <5>3
      <4> QED BY <2>3, <4>1, <1>k
    <3> QED BY <3>1, <3>2
  <2>4. d.roundVersion = c.roundVersion /\ d.roundState = c.roundState
    BY <1>9, DecisionsEffect
  <2> QED BY <2>3, <2>4, <1>m, <1>v
<1> QED BY <1>1, <1>2, <1>3, <1>4, <1>5, <1>6, <1>7, <1>8, <1>9, ScorerStep

LEMMA SignoffInvariant == Spec => []SignoffInv
<1>1. Init => SignoffInv
  <2> SUFFICES ASSUME Init PROVE SignoffInv
    OBVIOUS
  <2>1. round.version = 2 /\ \A s \in Scorers : scorer[s] = Idle
    BY DEF Init
  <2>2. /\ Idle.roundVersion = 0
        /\ \A m \in Matchups : ~ (HasRead(Idle, m) /\ Idle.kind = "signoff")
    BY DEF Idle, HasRead
  <2>3. \A s \in Scorers : VersionsCurrent(Idle)
    BY <2>1, <2>2 DEF VersionsCurrent
  <2> QED BY <2>1, <2>3 DEF SignoffInv
<1>2. TypeOK /\ TypeOK' /\ ReviewInv /\ SignoffInv /\ [Next]_vars => SignoffInv'
  BY SignoffInvStep
<1> QED BY <1>1, <1>2, TypeCorrect, ReviewInvariant, PTL DEF Spec

\* A sign-off never publishes scores of a superseded lineup, nor a matchup
\* with an open blocker.
THEOREM SignoffRestsOnCurrentLineup == Spec => SignoffOnCurrentLineup
<1>1. ASSUME TypeOK, FinalIffPublished, ReviewInv, SnapshotInv, SignoffInv, [Next]_vars,
             NEW m \in Matchups, Officiates(m), effective[m] = 0
      PROVE  /\ Newest(m).calculation.lineups = OfSides(m, lineup)
             /\ \A e \in Sides(m) : SideReady(lineup[e].slots, decisions[e])
  <2>1. PICK s \in Scorers : /\ HasRead(scorer[s], m)
                             /\ MatchupReady(scorer[s], m)
                             /\ ReviewUnchanged(scorer[s], m)
                             /\ Newest(m) = Frozen(scorer[s], m)
                             /\ Publish(s) \/ (CorrectMatchup(s) /\ m = scorer[s].at)
    BY <1>1, Officiating
  <2> DEFINE v == scorer[s].seen[m]
  <2>2. Publish(s)
    BY <1>1, <2>1 DEF CorrectMatchup
  <2>3. v.reviewVersion = reviewVersion[m] /\ v.calculation # NotCalculated
    BY <2>1 DEF ReviewUnchanged, MatchupReady
  <2>4. v.decisions = OfSides(m, decisions)
    BY <1>1, <2>1, <2>3 DEF ReviewInv, ReadsCurrent
  <2>5. v.calculation \in Calculation
    BY <1>1, <2>3, RequestTyped
  <2>6. ASSUME NEW side \in SideNames
        PROVE  /\ v.calculation.lineups[side] = lineup[Draw[m][side]]
               /\ SideReady(lineup[Draw[m][side]].slots, decisions[Draw[m][side]])
    <3> DEFINE then == v.calculation.lineups[side]
    <3>1. v.versions[side] \in {0, lineup[Draw[m][side]].version}
      BY <1>1, <2>1, <2>2, <2>3 DEF SignoffInv, VersionsCurrent, Publish
    <3>2. then.version \in Nat /\ then.version > 0 /\ (then.version = lineup[Draw[m][side]].version => then = lineup[Draw[m][side]])
      BY <1>1, <2>3 DEF SnapshotInv, SnapshotOf
    <3>3. v.versions[side] = then.version /\ SideReady(then.slots, v.decisions[side])
      BY <2>1 DEF MatchupReady
    <3>4. then = lineup[Draw[m][side]]
      <4>1. then.version # 0
        BY <3>2
      <4> QED BY <3>1, <3>2, <3>3, <4>1, Zenon
    <3>5. v.decisions[side] = decisions[Draw[m][side]]
      BY <2>4 DEF OfSides
    <3> QED BY <3>3, <3>4, <3>5
  <2>7. v.calculation.lineups = OfSides(m, lineup)
    BY <2>5, <2>6 DEF Calculation, OfSides
  <2>8. Newest(m).calculation = v.calculation
    BY <2>1 DEF Frozen
  <2> QED BY <2>6, <2>7, <2>8 DEF Sides
<1>2. TypeOK /\ FinalIffPublished /\ ReviewInv /\ SnapshotInv /\ SignoffInv /\ [Next]_vars =>
        [\A m \in Matchups : Officiates(m) /\ effective[m] = 0 =>
           /\ Newest(m).calculation.lineups = OfSides(m, lineup)
           /\ \A e \in Sides(m) : SideReady(lineup[e].slots, decisions[e])]_vars
  BY <1>1
<1> QED BY <1>2, TypeCorrect, FinalExactlyWhenPublished, ReviewInvariant, SnapshotInvariant,
        SignoffInvariant, PTL DEF Spec, SignoffOnCurrentLineup

-----------------------------------------------------------------------------
\* Calculations.

\* A running calculation holds its matchups' rows; meanwhile nobody writes
\* their calculations, so fresh facts stay at least as new as theirs.
RowsHeld(s) ==
  scorer[s].pc = "persist" =>
    /\ scorer[s].fetched <= facts
    /\ \A m \in Covered(scorer[s]) :
         /\ lockedBy[m] = s
         /\ EvidenceFresh(scorer[s]) /\ calculation[m] # NotCalculated =>
              calculation[m].facts <= scorer[s].fetched

CalculationInv ==
  /\ \A m \in Matchups : calculation[m] # NotCalculated => calculation[m].facts <= facts
  /\ \A s \in Scorers : RowsHeld(s)

\* What a step of one request does to the rows another one holds.
LEMMA RowsKept ==
  ASSUME TypeOK, CalculationInv, [Next]_vars, NEW s \in Scorers,
         scorer[s].pc = "persist", scorer'[s] = scorer[s], NEW m \in Covered(scorer[s])
  PROVE  lockedBy'[m] = s /\ calculation'[m] = calculation[m]
<1>0. m \in Matchups /\ lockedBy[m] = s /\ s # Nobody
  BY RequestTyped, DataAssumption DEF CalculationInv, RowsHeld, Covered
<1> USE DEF TypeOK
<1>1. CASE UNCHANGED <<lockedBy, calculation>>
  BY <1>0, <1>1
<1>2. CASE AflFactsChange \/ Transition \/ CompleteSeason \/ CoachStep \/ UNCHANGED vars
  BY <1>1, <1>2 DEF AflFactsChange, Transition, CompleteSeason, CoachStep, SubmitLineup,
       AdjudicateMissedLineup, CorrectLineup, vars
<1>3. ASSUME NEW t \in Scorers, RulingStep(t) PROVE UNCHANGED <<lockedBy, calculation>>
  BY <1>3 DEF RulingStep, RecordDnpRuling, RecordOverride, RecordInterchangeRuling, Decide
<1>4. ASSUME NEW t \in Scorers, RequestStep(t)
      PROVE  lockedBy'[m] = s /\ calculation'[m] = calculation[m]
  <2>1. CASE \E kind \in Kinds, n \in Matchups : StartCalculation(t, kind, n)
    <3>1. PICK kind \in Kinds, n \in Matchups : StartCalculation(t, kind, n)
      BY <2>1
    <3> QED BY <1>0, <3>1 DEF StartCalculation, Unlocked
  <2>2. CASE PersistCalculation(t)
    <3>1. scorer[t].pc = "persist"
      BY <2>2 DEF PersistCalculation
    <3>2. t # s
      <4> SUFFICES ASSUME t = s PROVE FALSE
        OBVIOUS
      <4>1. scorer'[s] = Idle \/ scorer'[s].pc \in {"round", "matchups"}
        BY <2>2, PersistEffect
      <4> QED BY <4>1 DEF Idle
    <3>3. m \notin Covered(scorer[t])
      BY <1>0, <3>1, <3>2 DEF CalculationInv, RowsHeld
    <3> QED BY <1>0, <2>2, <3>2, <3>3 DEF PersistCalculation, Release
  <2>3. CASE Abandon(t)
    <3>1. t # s
      BY <2>3 DEF Abandon, Idle
    <3> QED BY <1>0, <2>3, <3>1 DEF Abandon, Release
  <2> QED BY <1>1, <1>4, <2>1, <2>2, <2>3 DEF RequestStep, Kinds, LoadReview, ReadRound,
       ReadMatchups, ReadCalculation, ReadDecisions, Publish, CorrectMatchup
<1> QED BY <1>1, <1>2, <1>3, <1>4 DEF Next

LEMMA FactsStep ==
  ASSUME TypeOK, [Next]_vars
  PROVE  facts \in Nat /\ facts' \in Nat /\ facts' >= facts
<1>0. facts \in Nat
  BY DataAssumption DEF TypeOK
<1>1. Transition \/ CompleteSeason \/ CoachStep \/ UNCHANGED vars => facts' = facts
  BY DEF Transition, CompleteSeason, CoachStep, SubmitLineup,
       AdjudicateMissedLineup, CorrectLineup, vars
<1>2. AflFactsChange => facts' = facts + 1
  BY DEF AflFactsChange
<1>3. ASSUME NEW s \in Scorers, RequestStep(s) PROVE facts' = facts
  BY <1>3 DEF RequestStep, StartCalculation, PersistCalculation, LoadReview, ReadRound,
       ReadMatchups, ReadCalculation, ReadDecisions, Publish, CorrectMatchup, Abandon
<1>4. ASSUME NEW s \in Scorers, RulingStep(s) PROVE facts' = facts
  BY <1>4 DEF RulingStep, RecordDnpRuling, RecordOverride, RecordInterchangeRuling, Decide
<1>5. facts' = facts \/ facts' = facts + 1
  BY <1>1, <1>2, <1>3, <1>4 DEF Next
<1> QED BY <1>0, <1>5

LEMMA CalculationInvStep ==
  ASSUME TypeOK, TypeOK', CalculationInv, [Next]_vars
  PROVE  CalculationInv'
<1>1. ASSUME NEW m \in Matchups, calculation'[m] # NotCalculated
      PROVE  calculation'[m].facts <= facts'
  <2>0. calculation'[m].facts \in Nat
    BY <1>1, DataAssumption DEF TypeOK, Calculation
  <2>1. CASE calculation'[m] = calculation[m]
    BY <1>1, <2>0, <2>1, FactsStep DEF CalculationInv
  <2>2. CASE calculation'[m] # calculation[m]
    <3>1. PICK s \in Scorers : PersistCalculation(s)
      BY <2>2, CalculationStep
    <3>2. calculation'[m].facts = scorer[s].fetched /\ scorer[s].pc = "persist"
      BY <2>2, <3>1 DEF PersistCalculation, Snapshot
    <3> QED BY <2>0, <3>2, FactsStep DEF CalculationInv, RowsHeld
  <2> QED BY <2>1, <2>2
<1>2. ASSUME NEW s \in Scorers, scorer'[s].pc = "persist" PROVE RowsHeld(s)'
  <2> DEFINE c == scorer[s]
             d == scorer'[s]
  <2>1. CASE d = c
    <3>1. \A m \in Covered(c) : lockedBy'[m] = s /\ calculation'[m] = calculation[m]
      BY <1>2, <2>1, RowsKept
    <3>2. c.fetched \in Nat
      BY RequestTyped, DataAssumption
    <3>3. c.fetched <= facts'
      BY <1>2, <2>1, <3>2, FactsStep DEF CalculationInv, RowsHeld
    <3> QED BY <1>2, <2>1, <3>1, <3>3 DEF CalculationInv, RowsHeld
  <2>2. ASSUME NEW kind \in Kinds, NEW n \in Matchups, StartCalculation(s, kind, n)
        PROVE  RowsHeld(s)'
    <3>1. d.fetched <= facts /\ facts' = facts /\ calculation' = calculation
      <4>1. PICK lag \in 0 .. StaleWindow[s] :
              d = [Idle EXCEPT !.pc = "persist", !.kind = kind, !.at = n, !.since = facts,
                               !.fetched = facts - lag, !.fresh = (lag = 0)]
        BY <2>2 DEF StartCalculation, TypeOK, Idle
      <4>2. d.fetched = facts - lag
        BY <4>1 DEF Idle
      <4> QED BY <2>2, <4>2, DataAssumption DEF StartCalculation, TypeOK
    <3>2. \A m \in Covered(d) : m \in Matchups /\ lockedBy'[m] = s
      <4>1. d.kind = kind /\ d.at = n
        BY <2>2, StartEffect
      <4>2. \A m \in Matchups : (kind \in {"calculate", "signoff"} \/ m = n) => lockedBy'[m] = s
        BY <2>2 DEF StartCalculation, Covered, Idle
      <4> QED BY <4>1, <4>2 DEF Covered
    <3>3. EvidenceFresh(d) => d.fetched = facts
      BY <2>2, StartEffect
    <3> QED BY <3>1, <3>2, <3>3 DEF CalculationInv, RowsHeld
  <2>3. d # Idle
    BY <1>2 DEF Idle
  <2> QED BY <1>2, <2>1, <2>2, <2>3, ScorerStep, PersistEffect, LoadEffect, RoundEffect,
       MatchupsEffect, CalculationEffect, DecisionsEffect
<1> QED BY <1>1, <1>2 DEF CalculationInv, RowsHeld

LEMMA CalculationInvariant == Spec => []CalculationInv
<1>1. Init => CalculationInv
  BY DEF Init, CalculationInv, RowsHeld, Idle
<1>2. TypeOK /\ TypeOK' /\ CalculationInv /\ [Next]_vars => CalculationInv'
  BY CalculationInvStep
<1> QED BY <1>1, <1>2, TypeCorrect, PTL DEF Spec

\* No calculation is overwritten by one of older facts, unless they came from
\* a stale cache, or of an older lineup.
THEOREM CalculationsAdvance == Spec => CalculationNeverRegresses
<1>1. ASSUME TypeOK, TypeOK', SnapshotInv, CalculationInv, [Next]_vars,
             NEW m \in Matchups, calculation[m] # NotCalculated
      PROVE  /\ calculation'[m] # NotCalculated
             /\ \/ calculation'[m].facts >= calculation[m].facts
                \/ lockedBy[m] # Nobody /\ ~ EvidenceFresh(scorer[lockedBy[m]])
             /\ \A side \in SideNames :
                  calculation'[m].lineups[side].version >= calculation[m].lineups[side].version
  <2>0. /\ calculation[m].facts \in Nat
        /\ \A side \in SideNames : calculation[m].lineups[side].version \in Nat
    BY <1>1, DataAssumption DEF TypeOK, Calculation, Lineup
  <2>1. CASE calculation'[m] = calculation[m]
    <3>1. /\ calculation'[m].facts >= calculation[m].facts
          /\ \A side \in SideNames :
               calculation'[m].lineups[side].version >= calculation[m].lineups[side].version
      BY <2>0, <2>1
    <3> QED BY <1>1, <2>1, <3>1
  <2>2. CASE calculation'[m] # calculation[m]
    <3>1. PICK s \in Scorers : PersistCalculation(s)
      BY <1>1, <2>2, CalculationStep
    <3>2. m \in Covered(scorer[s]) /\ scorer[s].pc = "persist"
      BY <2>2, <3>1 DEF PersistCalculation
    <3>3. /\ calculation'[m].facts = scorer[s].fetched
          /\ calculation'[m].lineups = OfSides(m, lineup)
      BY <3>1, <3>2 DEF PersistCalculation, Snapshot
    <3>4. lockedBy[m] = s /\ s # Nobody
      BY <1>1, <3>2, DataAssumption DEF CalculationInv, RowsHeld
    <3>5. EvidenceFresh(scorer[s]) => calculation[m].facts <= scorer[s].fetched
      BY <1>1, <3>2 DEF CalculationInv, RowsHeld
    <3>6. scorer[s].fetched \in Nat
      BY <1>1, RequestTyped, DataAssumption
    <3>7. ASSUME NEW side \in SideNames
          PROVE  calculation'[m].lineups[side].version >= calculation[m].lineups[side].version
      <4>1. calculation'[m].lineups[side] = lineup[Draw[m][side]]
        BY <3>3 DEF OfSides
      <4>2. lineup[Draw[m][side]].version \in Nat
        <5>1. Draw[m][side] \in Entries
          BY ShapeAssumption
        <5>2. lineup[Draw[m][side]] \in Lineup
          BY <1>1, <5>1 DEF TypeOK
        <5> QED BY <5>2 DEF Lineup
      <4> QED BY <1>1, <2>0, <4>1, <4>2 DEF SnapshotInv, SnapshotOf
    <3>8. calculation'[m] # NotCalculated
      <4> QED BY <1>1, <3>1, <3>2, SnapshotTyped DEF PersistCalculation
    <3> QED BY <2>0, <3>3, <3>4, <3>5, <3>6, <3>7, <3>8
  <2> QED BY <2>1, <2>2
<1>2. TypeOK /\ TypeOK' /\ SnapshotInv /\ CalculationInv /\ [Next]_vars =>
        [\A m \in Matchups : calculation[m] # NotCalculated =>
           /\ calculation'[m] # NotCalculated
           /\ \/ calculation'[m].facts >= calculation[m].facts
              \/ lockedBy[m] # Nobody /\ ~ EvidenceFresh(scorer[lockedBy[m]])
           /\ \A side \in SideNames :
                calculation'[m].lineups[side].version >= calculation[m].lineups[side].version]_vars
  BY <1>1
<1> QED BY <1>2, TypeCorrect, SnapshotInvariant, CalculationInvariant, PTL
        DEF Spec, CalculationNeverRegresses

-----------------------------------------------------------------------------
\* The facts of official results.


\* k was calculated by a request that began on facts as new as those the
\* request c of s did, and not by s itself from a stale cache if c is fresh.
Sound(k, s, c) ==
  /\ k # NotCalculated
  /\ k.since >= c.since
  /\ k.staleFor = Nobody => k.facts = k.since
  /\ EvidenceFresh(c) => k.staleFor # s

\* A live read returns the facts in force.  What a request that may publish has
\* calculated is sound, whoever calculates it again; so is what it has read of
\* it; and whoever holds its rows now began after it had calculated.
SinceOf(s) ==
  LET c == scorer[s]
  IN /\ c.since \in Nat /\ c.since <= facts
     /\ c.pc = "persist" /\ EvidenceFresh(c) => c.fetched = c.since
     /\ c.kind \in {"signoff", "correct"} =>
          /\ c.pc # "persist" =>
               \A m \in Covered(c) :
                 /\ Sound(calculation[m], s, c)
                 /\ lockedBy[m] # Nobody => scorer[lockedBy[m]].since >= c.since
          /\ \A m \in Matchups : c.seen[m].calculation # NotCalculated =>
                                   Sound(c.seen[m].calculation, s, c)

\* Only a running calculation holds rows.
LocksHeld ==
  \A m \in Matchups : lockedBy[m] # Nobody => scorer[lockedBy[m]].pc = "persist"

SinceInv == LocksHeld /\ \A s \in Scorers : SinceOf(s)

\* Until it ends, a request keeps its kind, its facts and when it began.
LEMMA SinceStep ==
  ASSUME TypeOK, [Next]_vars, NEW s \in Scorers
  PROVE  LET c == scorer[s]
             d == scorer'[s]
         IN \/ d = Idle
            \/ \E kind \in Kinds, m \in Matchups : StartCalculation(s, kind, m)
            \/ \E m \in Matchups : LoadReview(s, m)
            \/ /\ d.kind = c.kind /\ d.fetched = c.fetched
               /\ d.fresh = c.fresh /\ d.since = c.since
<1> DEFINE c == scorer[s]
           d == scorer'[s]
           Same == /\ d.kind = c.kind /\ d.fetched = c.fetched
                   /\ d.fresh = c.fresh /\ d.since = c.since
<1>0. c \in Request
  BY RequestTyped
<1>1. CASE d = c
  BY <1>1
<1>2. CASE PersistCalculation(s)
  BY <1>0, <1>2 DEF PersistCalculation, TypeOK, Request
<1>3. CASE ReadRound(s)
  BY <1>0, <1>3 DEF ReadRound, TypeOK, Request
<1>4. CASE ReadMatchups(s)
  <2>1. \E x : d = [c EXCEPT !.pc = "calculation", !.seen = x]
    BY <1>4 DEF ReadMatchups, TypeOK
  <2> QED BY <1>0, <2>1 DEF Request
<1>5. CASE ReadCalculation(s)
  <2>1. \E x : d = [c EXCEPT !.pc = "decisions", !.seen = x]
    BY <1>5 DEF ReadCalculation, TypeOK
  <2> QED BY <1>0, <2>1 DEF Request
<1>6. CASE ReadDecisions(s)
  <2> DEFINE last == c.kind = "correct" \/ c.at = NumMatchups
             current == [e \in Entries |-> lineup[e].version]
             made == [c.seen[c.at] EXCEPT !.decisions = OfSides(c.at, decisions),
                                          !.versions = OfSides(c.at, current)]
  <2>1. d = [c EXCEPT !.pc = IF last THEN "commit" ELSE "calculation",
                      !.at = IF last THEN c.at ELSE c.at + 1,
                      !.seen = [c.seen EXCEPT ![c.at] = made]]
    BY <1>6 DEF ReadDecisions, TypeOK
  <2> HIDE DEF last, made
  <2> QED BY <1>0, <2>1 DEF Request
<1> QED BY <1>1, <1>2, <1>3, <1>4, <1>5, <1>6, ScorerStep

\* A row changes hands only by the end and the start of a calculation.
LEMMA LockStep ==
  ASSUME TypeOK, LocksHeld, [Next]_vars, NEW m \in Matchups, lockedBy'[m] # Nobody
  PROVE  /\ lockedBy'[m] \in Scorers
         /\ \/ /\ lockedBy'[m] = lockedBy[m]
               /\ scorer'[lockedBy[m]] = scorer[lockedBy[m]]
            \/ \E kind \in Kinds, n \in Matchups : StartCalculation(lockedBy'[m], kind, n)
<1> USE DEF TypeOK
<1>0. lockedBy[m] # Nobody => lockedBy[m] \in Scorers /\ scorer[lockedBy[m]].pc = "persist"
  BY DEF LocksHeld
<1>1. CASE AflFactsChange \/ Transition \/ CompleteSeason \/ CoachStep \/ UNCHANGED vars
  BY <1>0, <1>1 DEF AflFactsChange, Transition, CompleteSeason, CoachStep, SubmitLineup,
       AdjudicateMissedLineup, CorrectLineup, vars
<1>2. ASSUME NEW t \in Scorers, RulingStep(t)
      PROVE  lockedBy' = lockedBy /\ lockedBy[m] # t /\ \A u \in Scorers \ {t} : scorer'[u] = scorer[u]
  BY <1>0, <1>2 DEF RulingStep, RecordDnpRuling, RecordOverride, RecordInterchangeRuling, Decide
<1>3. ASSUME NEW t \in Scorers, NEW kind \in Kinds, NEW n \in Matchups, StartCalculation(t, kind, n)
      PROVE  \/ lockedBy'[m] = t
             \/ lockedBy'[m] = lockedBy[m] /\ (lockedBy[m] # Nobody => scorer'[lockedBy[m]] = scorer[lockedBy[m]])
  <2>1. lockedBy[m] # t
    BY <1>0, <1>3, DataAssumption DEF StartCalculation
  <2>2. \A u \in Scorers \ {t} : scorer'[u] = scorer[u]
    BY <1>3 DEF StartCalculation
  <2> QED BY <1>0, <1>3, <2>1, <2>2 DEF StartCalculation
<1>4. ASSUME NEW t \in Scorers, PersistCalculation(t) \/ Abandon(t)
      PROVE  lockedBy'[m] = lockedBy[m] /\ lockedBy[m] # t
  BY <1>4 DEF PersistCalculation, Abandon, Release
<1>5. ASSUME NEW t \in Scorers, PersistCalculation(t) \/ Abandon(t)
      PROVE  \A u \in Scorers \ {t} : scorer'[u] = scorer[u]
  BY <1>5 DEF PersistCalculation, Abandon
<1>6. ASSUME NEW t \in Scorers,
             \/ \E n \in Matchups : LoadReview(t, n)
             \/ ReadRound(t) \/ ReadMatchups(t) \/ ReadCalculation(t) \/ ReadDecisions(t)
             \/ Publish(t) \/ CorrectMatchup(t)
      PROVE  /\ lockedBy' = lockedBy /\ scorer[t].pc # "persist"
             /\ \A u \in Scorers \ {t} : scorer'[u] = scorer[u]
  BY <1>6 DEF LoadReview, ReadRound, ReadMatchups, ReadCalculation, ReadDecisions, Publish,
       CorrectMatchup
<1>7. ASSUME NEW t \in Scorers, RequestStep(t)
      PROVE  \/ \E kind \in Kinds, n \in Matchups : StartCalculation(t, kind, n)
             \/ lockedBy'[m] = lockedBy[m] /\ scorer'[lockedBy[m]] = scorer[lockedBy[m]]
  <2>1. CASE PersistCalculation(t) \/ Abandon(t)
    BY <1>0, <1>4, <1>5, <2>1
  <2>2. CASE \E kind \in Kinds, n \in Matchups : StartCalculation(t, kind, n)
    BY <2>2
  <2> QED BY <1>0, <1>6, <1>7, <2>1, <2>2 DEF RequestStep, Kinds
<1> QED BY <1>0, <1>1, <1>2, <1>3, <1>7 DEF Next

\* A start reads the facts in force, and a live read returns them.
LEMMA StartReads ==
  ASSUME TypeOK, NEW s \in Scorers, NEW kind \in Kinds, NEW m \in Matchups,
         StartCalculation(s, kind, m)
  PROVE  /\ scorer'[s].since = facts /\ facts' = facts /\ calculation' = calculation
         /\ EvidenceFresh(scorer'[s]) => scorer'[s].fetched = facts
<1>1. PICK lag \in 0 .. StaleWindow[s] :
        scorer'[s] = [Idle EXCEPT !.pc = "persist", !.kind = kind, !.at = m, !.since = facts,
                                  !.fetched = facts - lag, !.fresh = (lag = 0)]
  BY DEF StartCalculation, TypeOK, Idle
<1>2. scorer'[s].since = facts
  BY <1>1 DEF Idle
<1> QED BY <1>2, StartEffect DEF StartCalculation

LEMMA LocksHeldStep ==
  ASSUME TypeOK, LocksHeld, [Next]_vars
  PROVE  LocksHeld'
<1> SUFFICES ASSUME NEW m \in Matchups, lockedBy'[m] # Nobody
             PROVE  scorer'[lockedBy'[m]].pc = "persist"
  BY DEF LocksHeld
<1> QED BY LockStep, StartEffect DEF LocksHeld

\* While a request that may publish has its calculation behind it, its rows
\* hold what a later request has calculated, if not what it has itself, and
\* none that began before it holds them.
LEMMA PublisherUndisturbed ==
  ASSUME TypeOK, TypeOK', CalculationInv, SinceInv, [Next]_vars,
         NEW s \in Scorers, scorer[s].kind \in {"signoff", "correct"}, scorer[s].pc # "persist",
         scorer'[s].since = scorer[s].since, scorer'[s].fresh = scorer[s].fresh,
         scorer'[s].pc # "persist", NEW m \in Covered(scorer[s])
  PROVE  /\ Sound(calculation'[m], s, scorer'[s])
         /\ lockedBy'[m] # Nobody => scorer'[lockedBy'[m]].since >= scorer'[s].since
<1>0. m \in Matchups /\ scorer[s].since \in Nat /\ scorer[s].since <= facts /\ facts \in Nat
  BY RequestTyped, DataAssumption DEF Covered, SinceInv, SinceOf, TypeOK
<1>1. Sound(calculation[m], s, scorer[s]) /\ (lockedBy[m] # Nobody => scorer[lockedBy[m]].since >= scorer[s].since)
  BY DEF SinceInv, SinceOf
<1>2. Sound(calculation'[m], s, scorer'[s])
  <2>1. CASE calculation'[m] = calculation[m]
    BY <1>1, <2>1 DEF Sound, EvidenceFresh
  <2>2. CASE calculation'[m] # calculation[m]
    <3>1. PICK t \in Scorers : PersistCalculation(t)
      BY <2>2, CalculationStep
    <3>2. scorer[t].pc = "persist" /\ m \in Covered(scorer[t]) /\ t # s
      BY <1>0, <2>2, <3>1 DEF PersistCalculation
    <3>3. lockedBy[m] = t /\ t # Nobody /\ s # Nobody
      BY <3>2, DataAssumption DEF CalculationInv, RowsHeld
    <3>4. calculation'[m] = Snapshot(t, m) /\ calculation'[m] # NotCalculated
      BY <1>0, <3>1, <3>2, SnapshotTyped DEF PersistCalculation
    <3>5. scorer[t].since >= scorer[s].since
      BY <1>1, <3>3
    <3>6. EvidenceFresh(scorer[t]) => scorer[t].fetched = scorer[t].since
      BY <3>2 DEF SinceInv, SinceOf
    <3>7. /\ calculation'[m].since = scorer[t].since /\ calculation'[m].facts = scorer[t].fetched
          /\ calculation'[m].staleFor = IF scorer[t].fresh THEN Nobody ELSE t
      BY <3>4 DEF Snapshot
    <3> QED BY <3>2, <3>3, <3>4, <3>5, <3>6, <3>7 DEF Sound, EvidenceFresh
  <2> QED BY <2>1, <2>2
<1>3. ASSUME lockedBy'[m] # Nobody PROVE scorer'[lockedBy'[m]].since >= scorer'[s].since
  <2>1. CASE lockedBy'[m] = lockedBy[m] /\ scorer'[lockedBy[m]] = scorer[lockedBy[m]]
    BY <1>1, <1>3, <2>1
  <2>2. CASE \E kind \in Kinds, n \in Matchups : StartCalculation(lockedBy'[m], kind, n)
    <3>1. scorer'[lockedBy'[m]].since = facts
      BY <1>0, <1>3, <2>2, LockStep, StartReads DEF SinceInv
    <3> QED BY <1>0, <3>1
  <2> QED BY <1>0, <1>3, <2>1, <2>2, LockStep DEF SinceInv
<1> QED BY <1>2, <1>3

LEMMA SinceInvStep ==
  ASSUME TypeOK, TypeOK', CalculationInv, SinceInv, [Next]_vars
  PROVE  SinceInv'
<1> SUFFICES ASSUME NEW s \in Scorers PROVE SinceOf(s)'
  BY LocksHeldStep DEF SinceInv
<1> DEFINE c == scorer[s]
           d == scorer'[s]
<1>f. facts \in Nat /\ facts' \in Nat /\ facts' >= facts
  BY FactsStep
<1>c. SinceOf(s)
  BY DEF SinceInv
<1>1. CASE d = Idle
  BY <1>1, <1>f DEF SinceOf, Idle
<1>2. ASSUME NEW kind \in Kinds, NEW m \in Matchups, StartCalculation(s, kind, m)
      PROVE  SinceOf(s)'
  <2>1. /\ d.pc = "persist" /\ d.since = facts /\ facts' = facts
        /\ EvidenceFresh(d) => d.fetched = facts
    BY <1>2, StartEffect, StartReads
  <2>2. \A n \in Matchups : d.seen[n].calculation = NotCalculated
    <3>1. d.seen = Idle.seen
      BY <1>2, StartEffect
    <3> QED BY <3>1 DEF Idle, NothingRead
  <2> QED BY <1>f, <2>1, <2>2 DEF SinceOf
<1>3. ASSUME NEW m \in Matchups, LoadReview(s, m) PROVE SinceOf(s)'
  <2>1. d.kind = "ruling" /\ d.pc = "commit"
    BY <1>3, LoadEffect
  <2>2. d.since = 0
    <3>1. \E x : d = [Idle EXCEPT !.pc = "commit", !.kind = "ruling", !.at = m, !.seen = x]
      BY <1>3 DEF LoadReview, TypeOK
    <3> QED BY <3>1 DEF Idle
  <2> QED BY <1>f, <2>1, <2>2 DEF SinceOf
<1>4. CASE /\ d.kind = c.kind /\ d.fetched = c.fetched
           /\ d.fresh = c.fresh /\ d.since = c.since
           /\ d # Idle
           /\ ~ \E kind \in Kinds, m \in Matchups : StartCalculation(s, kind, m)
           /\ ~ \E m \in Matchups : LoadReview(s, m)
  <2> DEFINE May == c.kind \in {"signoff", "correct"}
  <2>0. /\ d.since \in Nat /\ d.since <= facts'
        /\ EvidenceFresh(d) <=> EvidenceFresh(c)
        /\ \A k : Sound(k, s, c) <=> Sound(k, s, d)
    BY <1>c, <1>f, <1>4 DEF SinceOf, EvidenceFresh, Sound
  <2>u. ASSUME May, c.pc # "persist", d.pc # "persist", NEW m \in Covered(c)
        PROVE  /\ Sound(calculation'[m], s, d)
               /\ lockedBy'[m] # Nobody => scorer'[lockedBy'[m]].since >= d.since
    BY <1>4, <2>u, PublisherUndisturbed
  <2>1. CASE d = c
    BY <1>c, <2>0, <2>1, <2>u DEF SinceOf
  <2>2. CASE PersistCalculation(s)
    <3>1. /\ c.pc = "persist" /\ d.pc \in {"round", "matchups"}
          /\ d.at = c.at /\ d.seen = c.seen
      BY <1>4, <2>2, PersistEffect
    <3>2. Covered(d) = Covered(c) /\ Covered(c) \subseteq Matchups
      BY <1>4, <3>1, RequestTyped DEF Covered
    <3>3. ASSUME NEW m \in Covered(c)
          PROVE  Sound(calculation'[m], s, d) /\ lockedBy'[m] = Nobody
      <4>1. lockedBy[m] = s /\ s # Nobody
        BY <3>1, <3>3, DataAssumption DEF CalculationInv, RowsHeld
      <4>2. lockedBy'[m] = Nobody
        BY <2>2, <3>2, <3>3, <4>1 DEF PersistCalculation, Release
      <4>3. calculation'[m] = Snapshot(s, m) /\ calculation'[m] # NotCalculated
        BY <2>2, <3>2, <3>3, SnapshotTyped DEF PersistCalculation
      <4>4. /\ calculation'[m].since = c.since /\ calculation'[m].facts = c.fetched
            /\ calculation'[m].staleFor = IF c.fresh THEN Nobody ELSE s
        BY <4>3 DEF Snapshot
      <4>5. EvidenceFresh(c) => c.fetched = c.since
        BY <1>c, <3>1 DEF SinceOf
      <4> QED BY <1>4, <2>0, <4>1, <4>2, <4>3, <4>4, <4>5 DEF Sound, EvidenceFresh
    <3> QED BY <1>c, <1>4, <2>0, <3>1, <3>2, <3>3 DEF SinceOf
  <2>3. CASE ReadRound(s) \/ ReadMatchups(s)
    <3>1. /\ d.pc # "persist" /\ c.pc # "persist" /\ d.at = c.at
          /\ \/ d.seen = c.seen
             \/ \A m \in Matchups : d.seen[m].calculation = NotCalculated
      BY <2>3, RoundEffect, MatchupsEffect
    <3>2. Covered(d) = Covered(c)
      BY <1>4, <3>1 DEF Covered
    <3> QED BY <1>c, <1>4, <2>0, <2>u, <3>1, <3>2 DEF SinceOf
  <2>4. CASE ReadCalculation(s)
    <3>1. /\ d.pc # "persist" /\ c.pc # "persist" /\ d.at = c.at
          /\ d.seen[c.at].calculation = calculation[c.at]
          /\ \A n \in Matchups \ {c.at} : d.seen[n] = c.seen[n]
      BY <2>4, CalculationEffect
    <3>2. Covered(d) = Covered(c)
      BY <1>4, <3>1 DEF Covered
    <3>3. May => c.at \in Covered(c)
      BY RequestTyped DEF Covered
    <3>4. ASSUME May, NEW m \in Matchups, d.seen[m].calculation # NotCalculated
          PROVE  Sound(d.seen[m].calculation, s, d)
      <4>1. CASE m = c.at
        BY <1>c, <2>0, <3>1, <3>3, <3>4, <4>1 DEF SinceOf
      <4>2. CASE m # c.at
        BY <1>c, <2>0, <3>1, <3>4, <4>2 DEF SinceOf
      <4> QED BY <4>1, <4>2
    <3> QED BY <1>4, <2>0, <2>u, <3>1, <3>2, <3>4 DEF SinceOf
  <2>5. CASE ReadDecisions(s)
    <3>1. /\ d.pc # "persist" /\ c.pc # "persist"
          /\ c.kind = "correct" => d.at = c.at
          /\ \A n \in Matchups : d.seen[n].calculation = c.seen[n].calculation
      BY <2>5, DecisionsEffect, RequestTyped
    <3>2. May => Covered(d) = Covered(c)
      BY <1>4, <3>1 DEF Covered
    <3> QED BY <1>c, <1>4, <2>0, <2>u, <3>1, <3>2 DEF SinceOf
  <2> QED BY <1>4, <2>1, <2>2, <2>3, <2>4, <2>5, ScorerStep
<1> QED BY <1>1, <1>2, <1>3, <1>4, SinceStep

\* An official version rests on a calculation no older than the publishing
\* request, and on facts older than that calculation's request only if a stale
\* cache answered another one.
THEOREM OlderFactsComeFromOthers == Spec => OlderFactsOnlyFromOthers
<1>1. Init => SinceInv
  BY DataAssumption DEF Init, SinceInv, SinceOf, LocksHeld, Idle
<1>2. TypeOK /\ TypeOK' /\ CalculationInv /\ SinceInv /\ [Next]_vars => SinceInv'
  BY SinceInvStep
<1>3. ASSUME TypeOK, SinceInv, [Next]_vars, NEW s \in Scorers, NEW m \in Matchups,
             Officiates(m), scorer'[s] # scorer[s]
      PROVE  LET k == Newest(m).calculation
             IN /\ k.since >= scorer[s].since
                /\ k.facts < k.since => k.staleFor \in Scorers \ {s}
  <2>1. PICK t \in Scorers : /\ MatchupReady(scorer[t], m)
                             /\ Newest(m) = Frozen(scorer[t], m)
                             /\ Publish(t) \/ CorrectMatchup(t)
    BY <1>3, Officiating
  <2>2. t = s
    BY <1>3, <2>1 DEF Publish, CorrectMatchup, TypeOK
  <2> DEFINE k == scorer[s].seen[m].calculation
  <2>3. /\ Newest(m).calculation = k /\ k # NotCalculated /\ EvidenceFresh(scorer[s])
        /\ scorer[s].kind \in {"signoff", "correct"}
    <3>1. Frozen(scorer[s], m).calculation = k
      BY DEF Frozen
    <3>2. k # NotCalculated /\ EvidenceFresh(scorer[s])
      BY <2>1, <2>2 DEF MatchupReady
    <3>3. scorer[s].kind \in {"signoff", "correct"}
      BY <2>1, <2>2 DEF Publish, CorrectMatchup
    <3> QED BY <2>1, <2>2, <3>1, <3>2, <3>3
  <2>4. Sound(k, s, scorer[s])
    BY <1>3, <2>3 DEF SinceInv, SinceOf
  <2>5. k.facts \in Nat /\ k.since \in Nat /\ k.staleFor \in Scorers \cup {Nobody}
    <3>1. k \in Calculation
      BY <1>3, <2>3, RequestTyped
    <3> QED BY <3>1, DataAssumption DEF Calculation
  <2> HIDE DEF k
  <2> QED BY <2>3, <2>4, <2>5 DEF Sound
<1>4. TypeOK /\ SinceInv /\ [Next]_vars =>
        [\A s \in Scorers, m \in Matchups : Officiates(m) /\ scorer'[s] # scorer[s] =>
           LET k == Newest(m).calculation
           IN /\ k.since >= scorer[s].since
              /\ k.facts < k.since => k.staleFor \in Scorers \ {s}]_vars
  BY <1>3
<1> QED BY <1>1, <1>2, <1>4, TypeCorrect, CalculationInvariant, PTL
        DEF Spec, OlderFactsOnlyFromOthers
=============================================================================
