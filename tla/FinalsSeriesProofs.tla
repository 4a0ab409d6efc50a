-------------------------- MODULE FinalsSeriesProofs --------------------------
(***************************************************************************)
(* Proofs about the finals weeks, for every outcome the evidence may give   *)
(* and any number of corrections: the bracket follows the official results, *)
(* a result belongs to the entries it was reviewed for, nobody plays who is *)
(* not in the week's pairings, and an open week has all its matchups.       *)
(***************************************************************************)
EXTENDS FinalsSeries, TLAPS

-----------------------------------------------------------------------------
\* The inductive invariant: what the properties rest on, part by part.

Made(s) == pairing[s] # None /\ pairing[s].made

\* The pairings of a week are derived together or not at all.
DrawnTogether ==
  \A w \in Weeks : \A s, t \in SlotsOf(w) : pairing[s] # None => pairing[t] # None

\* A matchup exists exactly for a materialised pairing, and has its entries.
MatchesOfPairings ==
  \A s \in Slots :
    /\ match[s] # NoMatch <=> Made(s)
    /\ Made(s) => match[s].home = pairing[s].home /\ match[s].away = pairing[s].away

\* A calculation pins its matchup's entries: a rewind takes it for play.
CalculationsOfMatches ==
  \A s \in Slots : calc[s] # None =>
    Made(s) /\ calc[s].home = match[s].home /\ calc[s].away = match[s].away

\* Results are published with their whole week, and from calculations.
ResultsAreFinal ==
  \A s \in Slots : results[s] # <<>> =>
    /\ round[WeekOf(s)] = "final" /\ calc[s] # None
    /\ Latest(results[s]).home = match[s].home /\ Latest(results[s]).away = match[s].away

\* Nothing is derived from a result that does not exist.
DerivedFromResults ==
  /\ \A w \in 1..3 :
       /\ \A s \in SlotsOf(w + 1) : pairing[s] # None => \A t \in Sources(w) : results[t] # <<>>
       /\ out[w] # None => results[Knockout(w)] # <<>>
  /\ premier # None => results["grand_final"] # <<>>

\* What an opening lists it lists of pairings that are there, and a listed
\* pairing of the current generation has the listed entries.
OpeningHolds ==
  opener # None =>
    /\ \A s \in SlotsOf(opener.week) :
         pairing[s] # None /\ (Made(s) \/ \E p \in opener.todo : p.slot = s)
    /\ \A p \in opener.todo :
         /\ p.slot \in SlotsOf(opener.week) /\ p.gen <= pairing[p.slot].gen
         /\ IsCurrent(p) => p.home = pairing[p.slot].home /\ p.away = pairing[p.slot].away

\* What publication and correction read is calculated, and of the entries the
\* matchup still has; a rewind has a next week to rewind.
ReadsHold ==
  /\ publisher # None => \A s \in SlotsOf(publisher.week) :
       /\ calc[s] # None
       /\ publisher.read[s].home = match[s].home /\ publisher.read[s].away = match[s].away
  /\ fixer # None =>
       /\ results[fixer.slot] # <<>> /\ (Rewinding => WeekOf(fixer.slot) # 4)
       /\ fixer.read.home = match[fixer.slot].home /\ fixer.read.away = match[fixer.slot].away

SeriesInv ==
  /\ SeriesTypeOK
  /\ DrawnTogether /\ MatchesOfPairings /\ CalculationsOfMatches /\ ResultsAreFinal
  /\ DerivedFromResults /\ OpeningHolds /\ ReadsHold
  /\ BracketFollowsResults /\ LineupsOfFinalists /\ OpenWeeksAreComplete

-----------------------------------------------------------------------------
\* The bracket's tables.

LEMMA SlotTable ==
  /\ SlotsOf(1) = {"qf", "ef"} /\ SlotsOf(2) = {"second_semi", "first_semi"}
  /\ SlotsOf(3) = {"preliminary"} /\ SlotsOf(4) = {"grand_final"}
  /\ Sources(1) = {"qf", "ef"} /\ Sources(2) = {"second_semi", "first_semi"}
  /\ Sources(3) = {"second_semi", "preliminary"}
  /\ Knockout(1) = "ef" /\ Knockout(2) = "first_semi" /\ Knockout(3) = "preliminary"
BY DEF SlotsOf, Sources, Knockout

LEMMA SourceTable ==
  /\ SourcesOf("qf") = {} /\ SourcesOf("ef") = {}
  /\ SourcesOf("second_semi") = {"qf"} /\ SourcesOf("first_semi") = {"qf", "ef"}
  /\ SourcesOf("preliminary") = {"second_semi", "first_semi"}
  /\ SourcesOf("grand_final") = {"second_semi", "preliminary"}
BY DEF SourcesOf

LEMMA WeekTable ==
  /\ WeekOf("qf") = 1 /\ WeekOf("ef") = 1 /\ WeekOf("second_semi") = 2
  /\ WeekOf("first_semi") = 2 /\ WeekOf("preliminary") = 3 /\ WeekOf("grand_final") = 4
<1>1. \A s \in Slots : \A w \in Weeks : s \in SlotsOf(w) <=>
        CASE s = "qf" -> w = 1 [] s = "ef" -> w = 1 [] s = "second_semi" -> w = 2
          [] s = "first_semi" -> w = 2 [] s = "preliminary" -> w = 3 [] OTHER -> w = 4
  BY SlotTable DEF Weeks, Slots
<1> QED BY <1>1 DEF WeekOf, Weeks, Slots

LEMMA SlotsOfWeeks ==
  /\ \A s \in Slots : WeekOf(s) \in Weeks /\ s \in SlotsOf(WeekOf(s))
  /\ \A w \in Weeks : SlotsOf(w) \subseteq Slots
  /\ \A w \in Weeks : \A s \in SlotsOf(w) : WeekOf(s) = w
  /\ \A w \in Weeks : SlotsOf(w) # {}
BY SlotTable, WeekTable DEF Slots, Weeks

LEMMA SourcesOfWeeks ==
  /\ \A w \in 1..3 : w \in Weeks /\ w + 1 \in Weeks /\ Sources(w) \subseteq Slots
  /\ \A w \in 1..3 : Knockout(w) \in SlotsOf(w) /\ Knockout(w) \in Sources(w)
  /\ \A w \in 1..3 : \A s \in SlotsOf(w + 1) :
       s \notin {"qf", "ef"} /\ SourcesOf(s) \subseteq Sources(w)
  /\ \A s \in Slots : SourcesOf(s) \subseteq Slots
  /\ \A s \in Slots \ {"qf", "ef"} : WeekOf(s) - 1 \in 1..3 /\ SourcesOf(s) # {}
BY SlotTable, SourceTable, WeekTable DEF Slots, Weeks

\* Where a slot's sources are: in the week before, or week 2's for the grand
\* final.
LEMMA FeedsOnly ==
  ASSUME NEW s \in Slots, NEW t \in SourcesOf(s)
  PROVE  /\ t \in Slots /\ WeekOf(t) < WeekOf(s) /\ t # s
         /\ s \in SlotsOf(WeekOf(t) + 1) \/ (s = "grand_final" /\ t = "second_semi")
<1>1. WeekOf(t) < WeekOf(s) /\ t \in Slots /\ t # s
  BY SourceTable, WeekTable DEF Slots
<1>2. /\ t \in {"qf", "ef"} => s \in SlotsOf(2) /\ WeekOf(t) = 1
      /\ t = "first_semi" => s \in SlotsOf(3) /\ WeekOf(t) = 2
      /\ t = "second_semi" => (s \in SlotsOf(3) /\ WeekOf(t) = 2) \/ s = "grand_final"
      /\ t = "preliminary" => s \in SlotsOf(4) /\ WeekOf(t) = 3
      /\ t # "grand_final"
  BY SourceTable, WeekTable, SlotTable DEF Slots
<1>3. /\ WeekOf(t) = 1 => SlotsOf(WeekOf(t) + 1) = SlotsOf(2)
      /\ WeekOf(t) = 2 => SlotsOf(WeekOf(t) + 1) = SlotsOf(3)
      /\ WeekOf(t) = 3 => SlotsOf(WeekOf(t) + 1) = SlotsOf(4)
  OBVIOUS
<1>4. t \in {"qf", "ef", "first_semi", "second_semi", "preliminary"}
  BY <1>1, <1>2 DEF Slots
<1>5. CASE t = "second_semi"
  BY <1>1, <1>2, <1>3, <1>5
<1>6. CASE t # "second_semi"
  BY <1>1, <1>2, <1>3, <1>4, <1>6
<1> QED BY <1>5, <1>6

LEMMA WinnersAreEntries ==
  ASSUME NEW r \in [home : Seed, away : Seed, outcome : {"home", "away", "tie"}]
  PROVE  Winner(r) \in Seed /\ Loser(r) \in Seed
BY DEF Winner, Loser, Seed

LEMMA LatestOfAppended ==
  ASSUME NEW h \in Seq(Officials), NEW r \in Officials
  PROVE  /\ Append(h, r) \in Seq(Officials) /\ Latest(Append(h, r)) = r
         /\ Append(h, r) # <<>> /\ Len(Append(h, r)) = Len(h) + 1
BY DEF Latest

LEMMA LatestIsOfficial ==
  ASSUME NEW h \in Seq(Officials), h # <<>>
  PROVE  Latest(h) \in Officials
BY DEF Latest

\* What a pairing is derived from decides what is derived.
LEMMA DerivedIsLocal ==
  ASSUME NEW s \in Slots \ {"qf", "ef"}, NEW rs, NEW qs,
         \A t \in SourcesOf(s) : rs[t] = qs[t]
  PROVE  Derived(s, rs) = Derived(s, qs)
<1>1. [t \in SourcesOf(s) |-> Len(rs[t])] = [t \in SourcesOf(s) |-> Len(qs[t])]
  OBVIOUS
<1>2. CASE s = "second_semi"
  BY <1>1, <1>2, SourceTable DEF Derived
<1>3. CASE s = "first_semi"
  BY <1>1, <1>3, SourceTable DEF Derived
<1>4. CASE s = "preliminary"
  BY <1>1, <1>4, SourceTable DEF Derived
<1>5. CASE s = "grand_final"
  BY <1>1, <1>5, SourceTable DEF Derived
<1> QED BY <1>2, <1>3, <1>4, <1>5 DEF Slots

LEMMA DerivedTyped ==
  ASSUME NEW s \in Slots \ {"qf", "ef"}, NEW rs \in [Slots -> Seq(Officials)],
         \A t \in SourcesOf(s) : rs[t] # <<>>
  PROVE  /\ Derived(s, rs).home \in Seed /\ Derived(s, rs).away \in Seed
         /\ Derived(s, rs).from \in [SourcesOf(s) -> Nat]
         /\ \A t \in SourcesOf(s) : Derived(s, rs).from[t] = Len(rs[t])
<1>1. \A t \in SourcesOf(s) : Winner(Latest(rs[t])) \in Seed /\ Loser(Latest(rs[t])) \in Seed
  <2> TAKE t \in SourcesOf(s)
  <2>1. rs[t] \in Seq(Officials) /\ rs[t] # <<>>
    BY SourcesOfWeeks
  <2> QED BY <2>1, LatestIsOfficial, WinnersAreEntries DEF Officials
<1>2. /\ Derived(s, rs).from = [t \in SourcesOf(s) |-> Len(rs[t])]
      /\ \A t \in SourcesOf(s) : Len(rs[t]) \in Nat
  BY SourcesOfWeeks DEF Derived
<1>3. CASE s = "second_semi"
  BY <1>1, <1>2, <1>3, SourceTable DEF Derived, Seed
<1>4. CASE s = "first_semi"
  BY <1>1, <1>2, <1>4, SourceTable DEF Derived
<1>5. CASE s = "preliminary"
  BY <1>1, <1>2, <1>5, SourceTable DEF Derived
<1>6. CASE s = "grand_final"
  BY <1>1, <1>2, <1>6, SourceTable DEF Derived
<1> QED BY <1>3, <1>4, <1>5, <1>6 DEF Slots

-----------------------------------------------------------------------------
\* The invariant holds at first.

LEMMA SeriesStarts == SeriesInit => SeriesInv
<1> SUFFICES ASSUME SeriesInit PROVE SeriesInv
  OBVIOUS
<1>1. /\ pairing["qf"] = AsPairing([home |-> 2, away |-> 3, from |-> <<>>], 1, FALSE)
      /\ pairing["ef"] = AsPairing([home |-> 4, away |-> 5, from |-> <<>>], 1, FALSE)
      /\ \A s \in Slots \ {"qf", "ef"} : pairing[s] = None
      /\ DOMAIN pairing = Slots
  BY DEF SeriesInit, Slots
<1>2. <<>> \in [{} -> Nat]
  OBVIOUS
<1>3. \A s \in {"qf", "ef"} : pairing[s] \in PairingsOf(s) /\ ~pairing[s].made /\ pairing[s] # None
  <2>1. /\ AsPairing([home |-> 2, away |-> 3, from |-> <<>>], 1, FALSE)
             = [home |-> 2, away |-> 3, from |-> <<>>, gen |-> 1, made |-> FALSE]
        /\ AsPairing([home |-> 4, away |-> 5, from |-> <<>>], 1, FALSE)
             = [home |-> 4, away |-> 5, from |-> <<>>, gen |-> 1, made |-> FALSE]
    BY DEF AsPairing
  <2>2. \A s \in {"qf", "ef"} : s \in Slots /\ <<>> \in [SourcesOf(s) -> Nat]
    BY <1>2, SourceTable DEF Slots
  <2>3. \A s \in {"qf", "ef"} : pairing[s] \in PairingsOf(s) /\ ~pairing[s].made
    <3>1. pairing["qf"] \in PairingsOf("qf") /\ ~pairing["qf"].made
      <4>1. pairing["qf"] = [home |-> 2, away |-> 3, from |-> <<>>, gen |-> 1, made |-> FALSE]
        BY <1>1, <2>1
      <4> QED BY <2>2, <4>1 DEF PairingsOf, Seed
    <3>2. pairing["ef"] \in PairingsOf("ef") /\ ~pairing["ef"].made
      <4>1. pairing["ef"] = [home |-> 4, away |-> 5, from |-> <<>>, gen |-> 1, made |-> FALSE]
        BY <1>1, <2>1
      <4> QED BY <2>2, <4>1 DEF PairingsOf, Seed
    <3> QED BY <3>1, <3>2
  <2> QED BY <2>2, <2>3, AbsenceAssumption
<1>4. \A s \in Slots : ~Made(s)
  BY <1>1, <1>3 DEF Made
<1>11. /\ match = [s \in Slots |-> NoMatch] /\ results = [s \in Slots |-> <<>>]
       /\ calc = [s \in Slots |-> None] /\ out = [w \in 1..3 |-> None]
       /\ round = [w \in Weeks |-> "none"] /\ submitted = [w \in Weeks |-> {}]
       /\ fired = {} /\ premier = None /\ opener = None /\ publisher = None /\ fixer = None
       /\ fixes = 0
  BY DEF SeriesInit
<1>12. NoMatch \in Matches /\ <<>> \in Seq(Officials)
  BY DEF NoMatch, Matches
<1>5. SeriesTypeOK
  BY <1>1, <1>3, <1>11, <1>12 DEF SeriesTypeOK
<1>6. DrawnTogether
  BY <1>1, <1>3, SlotTable DEF DrawnTogether, Weeks, Slots
<1>7. MatchesOfPairings /\ CalculationsOfMatches /\ ResultsAreFinal
  BY <1>4, <1>11 DEF MatchesOfPairings, CalculationsOfMatches, ResultsAreFinal
<1>8. DerivedFromResults
  BY <1>1, <1>11, SourcesOfWeeks, SlotsOfWeeks DEF DerivedFromResults
<1>9. OpeningHolds /\ ReadsHold
  BY DEF SeriesInit, OpeningHolds, ReadsHold
<1>10. BracketFollowsResults /\ LineupsOfFinalists /\ OpenWeeksAreComplete
  BY <1>1 DEF SeriesInit, BracketFollowsResults, LineupsOfFinalists, OpenWeeksAreComplete, Weeks
<1> QED BY <1>5, <1>6, <1>7, <1>8, <1>9, <1>10 DEF SeriesInv

-----------------------------------------------------------------------------
\* Opening a week.

LEMMA OpenWeekHolds ==
  ASSUME SeriesInv, NEW w \in Weeks, OpenWeek(w)
  PROVE  SeriesInv'
<1> USE DEF SeriesInv
<1> DEFINE open(s) == pairing[s] # None /\ ~pairing[s].made
           row(s) == [slot |-> s, gen |-> pairing[s].gen, home |-> pairing[s].home,
                      away |-> pairing[s].away]
<1>1. opener' = [week |-> w, todo |-> {row(s) : s \in {t \in SlotsOf(w) : open(t)}}]
  BY DEF OpenWeek
<1>2. \A s \in SlotsOf(w) : s \in Slots /\ pairing[s] # None /\ pairing[s] \in PairingsOf(s)
  BY SlotsOfWeeks DEF OpenWeek, DrawnTogether, SeriesTypeOK
<1>3. \A s \in SlotsOf(w) : row(s) \in Listings
  BY <1>2 DEF Listings, PairingsOf
<1>4. opener' \in Openings
  BY <1>1, <1>3 DEF Openings
<1>5. /\ round' = [round EXCEPT ![w] = "upcoming"] /\ round[w] \in {"none", "upcoming"}
      /\ UNCHANGED <<pairing, out, match, results, calc, submitted, fired, premier,
                     publisher, fixer, fixes>>
  BY DEF OpenWeek
<1>6. SeriesTypeOK'
  BY <1>4, <1>5 DEF SeriesTypeOK
<1>7. OpeningHolds'
  <2>1. opener'.week = w /\ opener'.todo = {row(s) : s \in {t \in SlotsOf(w) : open(t)}}
    BY <1>1
  <2>2. \A s \in SlotsOf(w) : pairing[s] # None /\ (Made(s) \/ \E p \in opener'.todo : p.slot = s)
    <3> TAKE s \in SlotsOf(w)
    <3>1. CASE open(s)
      <4>1. row(s) \in opener'.todo /\ row(s).slot = s
        BY <2>1, <3>1
      <4> QED BY <1>2, <4>1
    <3> QED BY <1>2, <3>1 DEF Made
  <2>3. \A p \in opener'.todo :
          /\ p.slot \in SlotsOf(w) /\ p.gen = pairing[p.slot].gen
          /\ p.home = pairing[p.slot].home /\ p.away = pairing[p.slot].away
    BY <2>1
  <2>4. \A s \in SlotsOf(w) : pairing[s].gen \in Nat
    BY <1>2 DEF PairingsOf
  <2> QED BY <1>5, <2>1, <2>2, <2>3, <2>4 DEF OpeningHolds, Made, IsCurrent
<1>8. ResultsAreFinal'
  BY <1>5, SlotsOfWeeks DEF ResultsAreFinal, SeriesTypeOK
<1>9. OpenWeeksAreComplete'
  BY <1>5 DEF OpenWeeksAreComplete, SeriesTypeOK
<1>10. /\ DrawnTogether' /\ MatchesOfPairings' /\ CalculationsOfMatches'
       /\ DerivedFromResults' /\ BracketFollowsResults' /\ LineupsOfFinalists'
  BY <1>5 DEF DrawnTogether, MatchesOfPairings, CalculationsOfMatches, DerivedFromResults,
              BracketFollowsResults, LineupsOfFinalists, Made
<1>11. ReadsHold'
  BY <1>5 DEF ReadsHold, Rewinding
<1> QED BY <1>6, <1>7, <1>8, <1>9, <1>10, <1>11

\* Materialising what is current makes a matchup of a pairing that had none.
LEMMA MaterialiseHolds ==
  ASSUME SeriesInv, opener # None, NEW p \in opener.todo, Materialise(p)
  PROVE  SeriesInv'
<1> USE DEF SeriesInv
<1> DEFINE s0 == p.slot
<1>1. /\ opener \in Openings /\ s0 \in SlotsOf(opener.week) /\ s0 \in Slots /\ p \in Listings
      /\ pairing[s0] # None /\ pairing[s0] \in PairingsOf(s0)
      /\ IsCurrent(p) => p.home = pairing[s0].home /\ p.away = pairing[s0].away
  BY SlotsOfWeeks DEF OpeningHolds, SeriesTypeOK, Openings
<1>2. UNCHANGED <<out, round, results, calc, submitted, fired, premier, publisher, fixer, fixes>>
  BY DEF Materialise
<1>3. opener' \in Openings \cup {None}
  BY <1>1 DEF Materialise, Openings
<1>4. CASE ~IsCurrent(p) \/ pairing[s0].made
  <2>1. UNCHANGED <<pairing, match>>
    BY <1>4 DEF Materialise
  <2>2. opener' # None => /\ opener'.week = opener.week /\ opener'.todo = opener.todo \ {p}
                          /\ IsCurrent(p)
    BY <1>1 DEF Materialise, Openings
  <2>3. OpeningHolds'
    <3> SUFFICES ASSUME opener' # None
                 PROVE  /\ \A s \in SlotsOf(opener.week) :
                             pairing[s] # None /\ (Made(s) \/ \E q \in opener.todo \ {p} : q.slot = s)
      BY <2>1, <2>2 DEF OpeningHolds, Made, IsCurrent
    <3>1. Made(s0)
      BY <1>1, <1>4, <2>2 DEF Made
    <3> QED BY <3>1 DEF OpeningHolds
  <2>4. SeriesTypeOK'
    BY <1>2, <1>3, <2>1 DEF SeriesTypeOK
  <2>5. /\ DrawnTogether' /\ MatchesOfPairings' /\ CalculationsOfMatches' /\ ResultsAreFinal'
        /\ DerivedFromResults' /\ BracketFollowsResults' /\ LineupsOfFinalists' /\ OpenWeeksAreComplete'
        /\ ReadsHold'
    BY <1>2, <2>1 DEF DrawnTogether, MatchesOfPairings, CalculationsOfMatches, DerivedFromResults,
              BracketFollowsResults, LineupsOfFinalists, Made, ReadsHold, Rewinding, ResultsAreFinal,
              OpenWeeksAreComplete
  <2> QED BY <2>3, <2>4, <2>5
<1>5. CASE IsCurrent(p) /\ ~pairing[s0].made
  <2> DEFINE made == [pairing[s0] EXCEPT !.made = TRUE]
             row == [home |-> p.home, away |-> p.away, review |-> 1, ruled |-> FALSE]
  <2>1. /\ pairing' = [pairing EXCEPT ![s0] = made]
        /\ match' = [match EXCEPT ![s0] = row]
        /\ opener' = [opener EXCEPT !.todo = @ \ {p}]
    <3>1. (pairing[s0].made \/ pairing[s0].gen = p.gen) = TRUE
      BY <1>5 DEF IsCurrent
    <3> QED BY <1>5, <3>1 DEF Materialise
  <2>2. /\ made \in PairingsOf(s0) /\ made # None /\ made.made
        /\ made.home = pairing[s0].home /\ made.away = pairing[s0].away
        /\ made.from = pairing[s0].from /\ made.gen = pairing[s0].gen
    BY <1>1, AbsenceAssumption DEF PairingsOf
  <2>3. row \in Matches /\ row # NoMatch /\ row.home = pairing[s0].home /\ row.away = pairing[s0].away
    BY <1>1, <1>5 DEF Matches, NoMatch, Listings, Seed
  <2> HIDE DEF made, row
  <2>4. /\ DOMAIN pairing' = Slots
        /\ pairing'[s0] = made /\ \A s \in Slots \ {s0} : pairing'[s] = pairing[s]
        /\ match'[s0] = row /\ \A s \in Slots \ {s0} : match'[s] = match[s]
    BY <1>1, <2>1 DEF SeriesTypeOK
  <2>5. /\ Made(s0)' /\ \A s \in Slots \ {s0} : Made(s)' <=> Made(s)
        /\ \A s \in Slots : Made(s) => s # s0
        /\ \A s \in Slots : (pairing'[s] # None <=> pairing[s] # None)
        /\ \A s \in Slots : pairing[s] # None =>
             /\ pairing'[s].home = pairing[s].home /\ pairing'[s].away = pairing[s].away
             /\ pairing'[s].from = pairing[s].from /\ pairing'[s].gen = pairing[s].gen
    BY <1>1, <1>5, <2>2, <2>4 DEF Made
  <2>6. SeriesTypeOK'
    <3>1. \A s \in Slots : pairing'[s] \in PairingsOf(s) \cup {None}
      BY <2>2, <2>4 DEF SeriesTypeOK
    <3>2. match' \in [Slots -> Matches]
      BY <1>1, <2>1, <2>3 DEF SeriesTypeOK
    <3> QED BY <1>2, <1>3, <2>4, <3>1, <3>2 DEF SeriesTypeOK
  <2>7. OpeningHolds'
    <3>1. opener'.week = opener.week /\ opener'.todo = opener.todo \ {p}
      BY <1>1, <2>1 DEF Openings
    <3>2. \A s \in SlotsOf(opener.week) :
            pairing'[s] # None /\ (Made(s)' \/ \E q \in opener.todo \ {p} : q.slot = s)
      <4> TAKE s \in SlotsOf(opener.week)
      <4>1. s \in Slots /\ pairing[s] # None /\ (Made(s) \/ \E q \in opener.todo : q.slot = s)
        BY <1>1, SlotsOfWeeks DEF OpeningHolds, Openings
      <4>2. CASE s = s0
        BY <2>5, <4>1, <4>2
      <4>3. CASE s # s0
        BY <2>5, <4>1, <4>3
      <4> QED BY <4>2, <4>3
    <3>3. \A q \in opener.todo \ {p} : q.slot \in Slots
      BY <1>1 DEF Openings, Listings
    <3>4. \A q \in opener.todo \ {p} :
            /\ q.slot \in SlotsOf(opener.week) /\ q.gen <= pairing'[q.slot].gen
            /\ IsCurrent(q)' => q.home = pairing'[q.slot].home /\ q.away = pairing'[q.slot].away
      <4> TAKE q \in opener.todo \ {p}
      <4>1. q.slot \in SlotsOf(opener.week) /\ q.slot \in Slots /\ pairing[q.slot] # None
        BY <3>3 DEF OpeningHolds
      <4> QED BY <2>5, <4>1 DEF OpeningHolds, IsCurrent
    <3> QED BY <3>1, <3>2, <3>4 DEF OpeningHolds
  <2>8. DrawnTogether' /\ OpenWeeksAreComplete'
    BY <1>2, <2>3, <2>4, <2>5, SlotsOfWeeks DEF DrawnTogether, OpenWeeksAreComplete, Made
  <2>9. MatchesOfPairings'
    BY <2>2, <2>3, <2>4, <2>5 DEF MatchesOfPairings
  <2>10. \A s \in Slots : calc[s] # None => s # s0
    BY <2>5 DEF CalculationsOfMatches
  <2>11. CalculationsOfMatches' /\ ResultsAreFinal'
    BY <1>2, <2>4, <2>5, <2>10 DEF CalculationsOfMatches, ResultsAreFinal
  <2>12. DerivedFromResults'
    BY <1>2, <2>5, SlotsOfWeeks, SourcesOfWeeks DEF DerivedFromResults
  <2>13. ReadsHold'
    <3>1. publisher' # None => \A s \in SlotsOf(publisher.week) : s \in Slots
      BY <1>2, SlotsOfWeeks DEF SeriesTypeOK, PublicationsOf
    <3>2. fixer' # None => fixer.slot \in Slots
      BY <1>2 DEF SeriesTypeOK, Corrections
    <3> QED BY <1>2, <2>4, <2>10, <3>1, <3>2 DEF ReadsHold, Rewinding, ResultsAreFinal
  <2>14. BracketFollowsResults'
    BY <1>2, <2>5 DEF BracketFollowsResults
  <2>15. LineupsOfFinalists'
    <3>1. \A s \in Slots : pairing[s] # None => Entries(pairing'[s]) = Entries(pairing[s])
      BY <2>5 DEF Entries
    <3>2. \A w \in Weeks :
            {Entries(pairing'[s]) : s \in {t \in SlotsOf(w) : pairing'[t] # None}}
              = {Entries(pairing[s]) : s \in {t \in SlotsOf(w) : pairing[t] # None}}
      BY <2>5, <3>1, SlotsOfWeeks
    <3> QED BY <1>2, <3>2 DEF LineupsOfFinalists
  <2> QED BY <2>6, <2>7, <2>8, <2>9, <2>11, <2>12, <2>13, <2>14, <2>15
<1> QED BY <1>4, <1>5

\* What a step keeps that moves no pairing, result or calculation, takes no
\* week out of "final" and leaves the matchups their entries.
LEMMA KeptRows ==
  ASSUME SeriesInv, UNCHANGED <<pairing, out, results, calc, premier, publisher, fixer>>,
         \A s \in Slots : /\ match'[s].home = match[s].home /\ match'[s].away = match[s].away
                          /\ match'[s] # NoMatch <=> match[s] # NoMatch,
         \A w \in Weeks : round[w] = "final" => round'[w] = "final"
  PROVE  /\ DrawnTogether' /\ MatchesOfPairings' /\ CalculationsOfMatches' /\ ResultsAreFinal'
         /\ DerivedFromResults' /\ ReadsHold' /\ BracketFollowsResults'
<1> USE DEF SeriesInv
<1>1. DrawnTogether' /\ DerivedFromResults' /\ BracketFollowsResults'
  BY DEF DrawnTogether, DerivedFromResults, BracketFollowsResults
<1>2. MatchesOfPairings' /\ CalculationsOfMatches'
  BY DEF MatchesOfPairings, CalculationsOfMatches, Made
<1>3. ResultsAreFinal'
  BY SlotsOfWeeks DEF ResultsAreFinal
<1>4. publisher # None => \A s \in SlotsOf(publisher.week) : s \in Slots
  BY SlotsOfWeeks DEF SeriesTypeOK, PublicationsOf
<1>5. fixer # None => fixer.slot \in Slots
  BY DEF SeriesTypeOK, Corrections
<1>6. ReadsHold'
  BY <1>4, <1>5 DEF ReadsHold, Rewinding
<1> QED BY <1>1, <1>2, <1>3, <1>6

\* An opening that listed everything has materialised everything.
LEMMA FinishOpeningHolds ==
  ASSUME SeriesInv, FinishOpening
  PROVE  SeriesInv'
<1> USE DEF SeriesInv
<1>1. /\ opener # None /\ opener \in Openings /\ opener.week \in Weeks /\ opener.todo = {}
      /\ opener' = None
      /\ round' = [round EXCEPT ![opener.week] = IF @ = "upcoming" THEN "open" ELSE @]
      /\ UNCHANGED <<pairing, out, match, results, calc, submitted, fired, premier,
                     publisher, fixer, fixes>>
  BY DEF FinishOpening, SeriesTypeOK, Openings
<1>2. SeriesTypeOK'
  BY <1>1 DEF SeriesTypeOK
<1>3. OpenWeeksAreComplete'
  <2>1. \A s \in SlotsOf(opener.week) : s \in Slots /\ Made(s)
    BY <1>1, SlotsOfWeeks DEF OpeningHolds
  <2>2. \A s \in SlotsOf(opener.week) : pairing[s] # None /\ pairing[s].made /\ match[s] # NoMatch
    BY <2>1 DEF MatchesOfPairings, Made
  <2> QED BY <1>1, <2>2 DEF OpenWeeksAreComplete, SeriesTypeOK
<1>4. OpeningHolds' /\ LineupsOfFinalists'
  BY <1>1 DEF OpeningHolds, LineupsOfFinalists
<1>5. \A w \in Weeks : round[w] = "final" => round'[w] = "final"
  BY <1>1 DEF SeriesTypeOK
<1> QED BY <1>1, <1>2, <1>3, <1>4, <1>5, KeptRows

LEMMA TransitionHolds ==
  ASSUME SeriesInv, NEW w \in Weeks, Transition(w)
  PROVE  SeriesInv'
<1> USE DEF SeriesInv
<1>1. /\ round[w] \in {"open", "live"} /\ round' = [round EXCEPT ![w] = IF @ = "open" THEN "live" ELSE "review"]
      /\ UNCHANGED <<pairing, out, match, results, calc, submitted, fired, premier,
                     opener, publisher, fixer, fixes>>
  BY DEF Transition
<1>2. SeriesTypeOK'
  BY <1>1 DEF SeriesTypeOK
<1>3. OpenWeeksAreComplete'
  BY <1>1 DEF OpenWeeksAreComplete, SeriesTypeOK
<1>4. OpeningHolds' /\ LineupsOfFinalists'
  BY <1>1 DEF OpeningHolds, LineupsOfFinalists, Made, IsCurrent
<1>5. \A v \in Weeks : round[v] = "final" => round'[v] = "final"
  BY <1>1 DEF SeriesTypeOK
<1> QED BY <1>1, <1>2, <1>3, <1>4, <1>5, KeptRows

-----------------------------------------------------------------------------
\* Play and review.

LEMMA FirstSubmissionHolds ==
  ASSUME SeriesInv, NEW w \in Weeks, NEW e \in Submitters, FirstSubmission(e, w)
  PROVE  SeriesInv'
<1> USE DEF SeriesInv
<1>1. /\ submitted' = [submitted EXCEPT ![w] = @ \cup {e}]
      /\ UNCHANGED <<pairing, out, round, match, results, calc, fired, premier, opener, publisher, fixer, fixes>>
  BY DEF FirstSubmission
<1>2. SeriesTypeOK'
  <2>1. e \in Seed
    BY ActorsAssumption
  <2>2. submitted' \in [Weeks -> SUBSET Seed]
    BY <1>1, <2>1 DEF SeriesTypeOK
  <2> QED BY <1>1, <2>2 DEF SeriesTypeOK
<1>3. LineupsOfFinalists'
  <2>1. PICK s \in SlotsOf(w) : pairing[s] # None /\ pairing[s].made /\ e \in Entries(match[s])
    BY DEF FirstSubmission, StillParticipates
  <2>2. Entries(match[s]) = Entries(pairing[s])
    BY <2>1, SlotsOfWeeks DEF MatchesOfPairings, Made, Entries
  <2>3. e \in UNION {Entries(pairing[t]) : t \in {t \in SlotsOf(w) : pairing[t] # None}}
    BY <2>1, <2>2
  <2> QED BY <1>1, <2>3 DEF LineupsOfFinalists, SeriesTypeOK
<1>4. OpenWeeksAreComplete' /\ OpeningHolds'
  BY <1>1 DEF OpenWeeksAreComplete, OpeningHolds, Made, IsCurrent
<1> QED BY <1>1, <1>2, <1>3, <1>4, KeptRows

LEMMA CorrectLineupHolds ==
  ASSUME SeriesInv, NEW w \in Weeks, NEW e \in Submitters, CorrectLineup(e, w)
  PROVE  SeriesInv'
<1> USE DEF SeriesInv
<1> DEFINE hit == {s \in SlotsOf(w) : e \in Entries(match[s])}
<1>1. PICK cleared \in SUBSET hit :
        match' = [s \in Slots |->
          IF s \in hit THEN [match[s] EXCEPT !.review = @ + 1, !.ruled = @ /\ s \notin cleared]
                       ELSE match[s]]
  BY DEF CorrectLineup
<1>2. UNCHANGED <<pairing, out, round, results, calc, submitted, fired, premier, opener, publisher, fixer, fixes>>
  BY DEF CorrectLineup
<1>3. e \in Seed
  BY ActorsAssumption
<1>4. \A s \in Slots :
        /\ match'[s] \in Matches
        /\ match'[s].home = match[s].home /\ match'[s].away = match[s].away
        /\ match'[s] # NoMatch <=> match[s] # NoMatch
  <2> TAKE s \in Slots
  <2>1. match[s] \in Matches
    BY DEF SeriesTypeOK
  <2>2. CASE s \in hit
    <3> DEFINE stays == match[s].ruled /\ s \notin cleared
    <3>1. stays \in BOOLEAN
      OBVIOUS
    <3>2. match'[s] = [match[s] EXCEPT !.review = @ + 1, !.ruled = stays]
      BY <1>1, <2>2
    <3> HIDE DEF stays
    <3>3. match'[s] \in Matches /\ match'[s].home = match[s].home /\ match'[s].away = match[s].away
      <4> DEFINE n == match[s].review + 1
      <4>1. n \in Nat
        BY <2>1 DEF Matches
      <4>2. match'[s] = [match[s] EXCEPT !.review = n, !.ruled = stays]
        BY <3>2
      <4> HIDE DEF n
      <4> QED BY <2>1, <3>1, <4>1, <4>2, Zenon DEF Matches
    <3>4. match[s].home # 0 \/ match[s].away # 0
      BY <1>3, <2>2 DEF Entries, Seed
    <3> QED BY <3>3, <3>4 DEF NoMatch
  <2>3. CASE s \notin hit
    BY <1>1, <2>1, <2>3
  <2> QED BY <2>2, <2>3
<1> HIDE DEF hit
<1>5. SeriesTypeOK'
  <2>1. match' \in [Slots -> Matches]
    BY <1>1, <1>4
  <2> QED BY <1>2, <2>1 DEF SeriesTypeOK
<1>6. LineupsOfFinalists' /\ OpeningHolds'
  BY <1>2 DEF LineupsOfFinalists, OpeningHolds, Made, IsCurrent
<1>7. OpenWeeksAreComplete'
  BY <1>2, <1>4, SlotsOfWeeks DEF OpenWeeksAreComplete
<1> QED BY <1>2, <1>4, <1>5, <1>6, <1>7, KeptRows

LEMMA FireTriggerHolds ==
  ASSUME SeriesInv, NEW w \in Weeks, FireTrigger(w)
  PROVE  SeriesInv'
<1> USE DEF SeriesInv
<1>1. /\ fired' = fired \cup {w}
      /\ UNCHANGED <<pairing, out, round, match, results, calc, submitted, premier,
                     opener, publisher, fixer, fixes>>
  BY DEF FireTrigger
<1>2. SeriesTypeOK'
  BY <1>1 DEF SeriesTypeOK
<1>3. OpeningHolds' /\ LineupsOfFinalists' /\ OpenWeeksAreComplete'
  BY <1>1 DEF OpeningHolds, LineupsOfFinalists, OpenWeeksAreComplete, Made, IsCurrent
<1> QED BY <1>1, <1>2, <1>3, KeptRows

LEMMA RuleHolds ==
  ASSUME SeriesInv, NEW s0 \in Slots, Rule(s0)
  PROVE  SeriesInv'
<1> USE DEF SeriesInv
<1>1. /\ match[s0] # NoMatch
      /\ match' = [match EXCEPT ![s0].ruled = TRUE, ![s0].review = @ + 1]
      /\ UNCHANGED <<pairing, out, round, results, calc, submitted, fired, premier,
                     opener, publisher, fixer, fixes>>
  BY DEF Rule
<1>2. match \in [Slots -> Matches]
  BY DEF SeriesTypeOK
<1>3. /\ match'[s0] \in Matches /\ match'[s0] # NoMatch
      /\ match'[s0].home = match[s0].home /\ match'[s0].away = match[s0].away
      /\ \A s \in Slots \ {s0} : match'[s] = match[s]
  BY <1>1, <1>2 DEF Matches, NoMatch
<1>4. SeriesTypeOK'
  <2>1. match' \in [Slots -> Matches]
    BY <1>1, <1>2, <1>3
  <2> QED BY <1>1, <2>1 DEF SeriesTypeOK
<1>5. OpeningHolds' /\ LineupsOfFinalists'
  BY <1>1 DEF OpeningHolds, LineupsOfFinalists, Made, IsCurrent
<1>6. \A s \in Slots : /\ match'[s].home = match[s].home /\ match'[s].away = match[s].away
                       /\ match'[s] # NoMatch <=> match[s] # NoMatch
  BY <1>1, <1>3
<1>7. OpenWeeksAreComplete'
  BY <1>1, <1>6, SlotsOfWeeks DEF OpenWeeksAreComplete
<1>8. \A v \in Weeks : round[v] = "final" => round'[v] = "final"
  BY <1>1
<1> QED BY <1>1, <1>4, <1>5, <1>6, <1>7, <1>8, KeptRows

-----------------------------------------------------------------------------
\* Calculations and publication.

\* A recalculation of a week whose matchups exist gives each of them one, for
\* the entries it has, and loses none.
LEMMA RecalculatedWeek ==
  ASSUME SeriesInv, NEW w \in Weeks, NEW o \in Evidence(w),
         \A s \in SlotsOf(w) : match[s] # NoMatch
  PROVE  /\ Calculated(w, o) \in [Slots -> Calculations \cup {None}]
         /\ \A s \in Slots : calc[s] # None => Calculated(w, o)[s] # None
         /\ \A s \in Slots : Calculated(w, o)[s] # None =>
              Made(s) /\ Calculated(w, o)[s].home = match[s].home
                      /\ Calculated(w, o)[s].away = match[s].away
         /\ \A s \in SlotsOf(w) :
              /\ Calculated(w, o)[s] # None /\ Read(s, Calculated(w, o)) \in Reads
              /\ Read(s, Calculated(w, o)).home = match[s].home
              /\ Read(s, Calculated(w, o)).away = match[s].away
<1> USE DEF SeriesInv
<1>1. \A s \in SlotsOf(w) : /\ s \in Slots /\ Made(s) /\ Calculation(s, o[s]) \in Calculations
                            /\ Calculation(s, o[s]).home = match[s].home
                            /\ Calculation(s, o[s]).away = match[s].away
  <2> TAKE s \in SlotsOf(w)
  <2>1. s \in Slots /\ Made(s) /\ o[s] \in {"home", "away", "tie"} /\ match[s] \in Matches
    BY SlotsOfWeeks DEF MatchesOfPairings, SeriesTypeOK, Evidence
  <2>2. match[s].home \in Seed /\ match[s].away \in Seed
    BY <2>1 DEF MatchesOfPairings, Made, SeriesTypeOK, PairingsOf
  <2>3. calc[s] # None => calc[s] \in Calculations
    BY <2>1 DEF SeriesTypeOK
  <2>4. calc[s] # None => calc[s].rev \in Nat
    BY <2>3 DEF Calculations
  <2>5. PICK n \in Nat : Calculation(s, o[s]) =
          [home |-> match[s].home, away |-> match[s].away, outcome |-> o[s], rev |-> n]
    BY <2>4 DEF Calculation
  <2> QED BY <2>1, <2>2, <2>5 DEF Calculations
<1>2. \A s \in Slots : Calculated(w, o)[s] = IF s \in SlotsOf(w) THEN Calculation(s, o[s]) ELSE calc[s]
  BY DEF Calculated
<1>3. Calculated(w, o) = [s \in Slots |-> Calculated(w, o)[s]]
  BY DEF Calculated
<1>4. \A s \in Slots : calc[s] \in Calculations \cup {None}
  BY DEF SeriesTypeOK
<1>5. \A s \in Slots : match[s].review \in Nat
  BY DEF SeriesTypeOK, Matches
<1>6. \A s \in SlotsOf(w) : /\ Read(s, Calculated(w, o)) \in Reads
                            /\ Read(s, Calculated(w, o)).home = match[s].home
                            /\ Read(s, Calculated(w, o)).away = match[s].away
  <2> TAKE s \in SlotsOf(w)
  <2>1. Calculated(w, o)[s] = Calculation(s, o[s])
    BY <1>1, <1>2
  <2> QED BY <1>1, <1>5, <2>1 DEF Read, Reads, Calculations
<1>7. \A s \in SlotsOf(w) : Calculated(w, o)[s] # None
  BY <1>1, <1>2, AbsenceAssumption
<1>8. \A s \in Slots : Calculated(w, o)[s] \in Calculations \cup {None}
  BY <1>1, <1>2, <1>4
<1>9. \A s \in Slots : Calculated(w, o)[s] # None =>
        Made(s) /\ Calculated(w, o)[s].home = match[s].home /\ Calculated(w, o)[s].away = match[s].away
  BY <1>1, <1>2 DEF CalculationsOfMatches
<1>10. \A s \in Slots : calc[s] # None => Calculated(w, o)[s] # None
  BY <1>2, <1>7
<1> QED BY <1>3, <1>6, <1>7, <1>8, <1>9, <1>10

\* What calculating alone keeps.
LEMMA RecalculationHolds ==
  ASSUME SeriesInv, NEW w \in Weeks, NEW o \in Evidence(w),
         \A s \in SlotsOf(w) : match[s] # NoMatch,
         calc' = Calculated(w, o),
         UNCHANGED <<pairing, out, round, match, results, submitted, fired, premier, opener>>
  PROVE  /\ DrawnTogether' /\ MatchesOfPairings' /\ CalculationsOfMatches' /\ ResultsAreFinal'
         /\ DerivedFromResults' /\ OpeningHolds' /\ BracketFollowsResults'
         /\ LineupsOfFinalists' /\ OpenWeeksAreComplete'
<1> USE DEF SeriesInv
<1>1. CalculationsOfMatches' /\ ResultsAreFinal'
  BY RecalculatedWeek DEF CalculationsOfMatches, ResultsAreFinal, Made
<1>2. DrawnTogether' /\ MatchesOfPairings' /\ DerivedFromResults' /\ BracketFollowsResults'
  BY DEF DrawnTogether, MatchesOfPairings, DerivedFromResults, BracketFollowsResults, Made
<1>3. OpeningHolds' /\ LineupsOfFinalists' /\ OpenWeeksAreComplete'
  BY DEF OpeningHolds, LineupsOfFinalists, OpenWeeksAreComplete, Made, IsCurrent
<1> QED BY <1>1, <1>2, <1>3

LEMMA StartPublicationHolds ==
  ASSUME SeriesInv, NEW w \in Weeks, StartPublication(w)
  PROVE  SeriesInv'
<1> USE DEF SeriesInv
<1>1. PICK o \in Evidence(w) :
        /\ calc' = Calculated(w, o)
        /\ publisher' = [week |-> w, read |-> [s \in SlotsOf(w) |-> Read(s, Calculated(w, o))]]
  BY DEF StartPublication
<1>2. /\ \A s \in SlotsOf(w) : match[s] # NoMatch
      /\ UNCHANGED <<pairing, out, round, match, results, submitted, fired, premier, opener, fixer, fixes>>
  BY DEF StartPublication
<1>3. publisher' \in PublicationsOf(w)
  BY <1>1, <1>2, RecalculatedWeek DEF PublicationsOf
<1>4. SeriesTypeOK'
  BY <1>1, <1>2, <1>3, RecalculatedWeek DEF SeriesTypeOK
<1>5. ReadsHold'
  <2>1. \A s \in SlotsOf(w) : /\ calc'[s] # None /\ publisher'.read[s].home = match[s].home
                              /\ publisher'.read[s].away = match[s].away
    BY <1>1, <1>2, RecalculatedWeek
  <2> QED BY <1>1, <1>2, <2>1 DEF ReadsHold, Rewinding
<1> QED BY <1>1, <1>2, <1>4, <1>5, RecalculationHolds

\* A published matchup has a result for the first time: nothing was derived
\* from it yet.
LEMMA CommitPublicationHolds ==
  ASSUME SeriesInv, CommitPublication
  PROVE  SeriesInv'
<1> USE DEF SeriesInv
<1> DEFINE w == publisher.week
           read == publisher.read
<1>1. /\ w \in Weeks /\ read \in [SlotsOf(w) -> Reads]
      /\ \A s \in SlotsOf(w) : /\ s \in Slots /\ calc[s] # None
                               /\ read[s].home = match[s].home /\ read[s].away = match[s].away
  BY SlotsOfWeeks DEF CommitPublication, SeriesTypeOK, PublicationsOf, ReadsHold
<1>2. publisher' = None /\ UNCHANGED <<pairing, out, match, calc, submitted, fired, opener, fixer, fixes>>
  BY DEF CommitPublication
<1>3. CASE ~(round[w] = "review" /\ \A s \in SlotsOf(w) : Unchanged(s, read[s]))
  <2>1. UNCHANGED <<results, round, premier>>
    BY <1>3 DEF CommitPublication
  <2>2. SeriesTypeOK'
    BY <1>2, <2>1 DEF SeriesTypeOK
  <2>3. ReadsHold'
    BY <1>2, <2>1 DEF ReadsHold, Rewinding
  <2>4. /\ DrawnTogether' /\ MatchesOfPairings' /\ CalculationsOfMatches' /\ ResultsAreFinal'
        /\ DerivedFromResults' /\ BracketFollowsResults' /\ OpeningHolds' /\ LineupsOfFinalists'
        /\ OpenWeeksAreComplete'
    BY <1>2, <2>1 DEF DrawnTogether, MatchesOfPairings, CalculationsOfMatches, ResultsAreFinal,
         DerivedFromResults, BracketFollowsResults, OpeningHolds, LineupsOfFinalists,
         OpenWeeksAreComplete, Made, IsCurrent
  <2> QED BY <2>2, <2>3, <2>4
<1>4. CASE round[w] = "review" /\ \A s \in SlotsOf(w) : Unchanged(s, read[s])
  <2>1. /\ results' = [s \in Slots |-> IF s \in SlotsOf(w) THEN Published(results[s], read[s])
                                       ELSE results[s]]
        /\ round' = [round EXCEPT ![w] = "final"]
        /\ premier' = IF w = 4 THEN Winner(read["grand_final"]) ELSE premier
    BY <1>4 DEF CommitPublication
  <2>2. \A s \in SlotsOf(w) : results[s] = <<>>
    BY <1>1, <1>4, SlotsOfWeeks DEF ResultsAreFinal
  <2>3. \A s \in Slots \ SlotsOf(w) : results'[s] = results[s]
    BY <2>1
  <2>4. \A s \in SlotsOf(w) :
          /\ results'[s] \in Seq(Officials) /\ results'[s] # <<>>
          /\ Latest(results'[s]).home = read[s].home /\ Latest(results'[s]).away = read[s].away
          /\ Latest(results'[s]).outcome = read[s].outcome
    <3> TAKE s \in SlotsOf(w)
    <3>1. read[s] \in Reads /\ results[s] \in Seq(Officials)
      BY <1>1 DEF SeriesTypeOK
    <3> DEFINE row == [home |-> read[s].home, away |-> read[s].away, outcome |-> read[s].outcome]
    <3>2. row \in Officials
      BY <3>1 DEF Officials, Reads
    <3>3. results'[s] = Append(results[s], row)
      BY <1>1, <2>1 DEF Published
    <3> HIDE DEF row
    <3>4. results'[s] \in Seq(Officials) /\ results'[s] # <<>> /\ Latest(results'[s]) = row
      BY <3>1, <3>2, <3>3, LatestOfAppended
    <3> QED BY <3>4 DEF row
  <2>5. \A s \in Slots : results[s] # <<>> => results'[s] = results[s]
    BY <2>2, <2>3
  <2>6. SeriesTypeOK'
    <3>1. results' \in [Slots -> Seq(Officials)]
      BY <2>1, <2>3, <2>4 DEF SeriesTypeOK
    <3>2. round' \in [Weeks -> {"none", "upcoming", "open", "live", "review", "final"}]
      BY <2>1 DEF SeriesTypeOK
    <3>3. premier' \in Seed \cup {None}
      <4>1. CASE w = 4
        <5>1. "grand_final" \in SlotsOf(w)
          BY <4>1, SlotTable
        <5>2. read["grand_final"] \in Reads
          BY <1>1, <5>1
        <5>3. Winner(read["grand_final"]) \in Seed
          BY <5>2 DEF Winner, Reads
        <5> QED BY <2>1, <4>1, <5>3
      <4>2. CASE w # 4
        BY <2>1, <4>2 DEF SeriesTypeOK
      <4> QED BY <4>1, <4>2
    <3> QED BY <1>2, <3>1, <3>2, <3>3 DEF SeriesTypeOK
  <2>7. DrawnTogether' /\ MatchesOfPairings' /\ CalculationsOfMatches'
    BY <1>2 DEF DrawnTogether, MatchesOfPairings, CalculationsOfMatches, Made
  <2>8. OpeningHolds' /\ LineupsOfFinalists'
    BY <1>2 DEF OpeningHolds, LineupsOfFinalists, Made, IsCurrent
  <2>9. ResultsAreFinal'
    <3> SUFFICES ASSUME NEW s \in Slots, results'[s] # <<>>
                 PROVE  /\ round'[WeekOf(s)] = "final" /\ calc'[s] # None
                        /\ Latest(results'[s]).home = match'[s].home
                        /\ Latest(results'[s]).away = match'[s].away
      BY DEF ResultsAreFinal
    <3>1. CASE s \in SlotsOf(w)
      BY <1>1, <1>2, <2>1, <2>4, <3>1, SlotsOfWeeks DEF SeriesTypeOK
    <3>2. CASE s \notin SlotsOf(w)
      BY <1>2, <2>1, <2>3, <3>2, SlotsOfWeeks DEF ResultsAreFinal, SeriesTypeOK
    <3> QED BY <3>1, <3>2
  <2>10. DerivedFromResults'
    <3>1. \A s \in Slots : results[s] # <<>> => results'[s] # <<>>
      BY <2>5
    <3>2. premier' # None => results'["grand_final"] # <<>>
      <4>1. CASE w = 4
        BY <2>4, <4>1, SlotTable
      <4>2. CASE w # 4
        BY <2>1, <3>1, <4>2 DEF DerivedFromResults, Slots
      <4> QED BY <4>1, <4>2
    <3>3. \A v \in 1..3 :
            /\ \A s \in SlotsOf(v + 1) : pairing'[s] # None => \A t \in Sources(v) : results'[t] # <<>>
            /\ out'[v] # None => results'[Knockout(v)] # <<>>
      BY <1>2, <3>1, SourcesOfWeeks, SlotsOfWeeks DEF DerivedFromResults
    <3> QED BY <3>2, <3>3 DEF DerivedFromResults
  <2>11. ReadsHold'
    BY <1>2, <2>5 DEF ReadsHold, Rewinding, SeriesTypeOK, Corrections
  <2>12. OpenWeeksAreComplete'
    <3>1. \A v \in Weeks : round'[v] \in {"open", "live", "review", "final"} =>
                           round[v] \in {"open", "live", "review", "final"}
      BY <1>1, <1>4, <2>1 DEF SeriesTypeOK
    <3> QED BY <1>2, <3>1 DEF OpenWeeksAreComplete
  <2>13. BracketFollowsResults'
    <3>1. \A s \in Slots \ {"qf", "ef"} : pairing[s] # None => Derived(s, results') = Derived(s, results)
      <4> SUFFICES ASSUME NEW s \in Slots \ {"qf", "ef"}, pairing[s] # None
                   PROVE  \A t \in SourcesOf(s) : results'[t] = results[t]
        BY DerivedIsLocal
      <4>1. \A t \in SourcesOf(s) : t \in Slots /\ results[t] # <<>>
        <5>1. WeekOf(s) - 1 \in 1..3 /\ s \in SlotsOf((WeekOf(s) - 1) + 1)
          BY SourcesOfWeeks, SlotsOfWeeks DEF Weeks
        <5> QED BY <5>1, SourcesOfWeeks DEF DerivedFromResults
      <4> QED BY <2>5, <4>1
    <3>2. \A v \in 1..3 : out[v] # None => results'[Knockout(v)] = results[Knockout(v)]
      BY <2>5, SourcesOfWeeks DEF DerivedFromResults
    <3>3. premier' # None => premier' = Winner(Latest(results'["grand_final"]))
      <4>1. CASE w = 4
        <5>1. "grand_final" \in SlotsOf(w)
          BY <4>1, SlotTable
        <5>2. Winner(Latest(results'["grand_final"])) = Winner(read["grand_final"])
          BY <2>4, <5>1 DEF Winner
        <5> QED BY <2>1, <4>1, <5>2
      <4>2. CASE w # 4
        <5>1. premier # None => results'["grand_final"] = results["grand_final"]
          BY <2>5 DEF DerivedFromResults, Slots
        <5> QED BY <2>1, <4>2, <5>1 DEF BracketFollowsResults
      <4> QED BY <4>1, <4>2
    <3> QED BY <1>2, <3>1, <3>2, <3>3 DEF BracketFollowsResults
  <2> QED BY <2>6, <2>7, <2>8, <2>9, <2>10, <2>11, <2>12, <2>13
<1> QED BY <1>3, <1>4

-----------------------------------------------------------------------------
\* Advancing: what was not there is derived from results that are.

LEMMA AdvanceHolds ==
  ASSUME SeriesInv, NEW w \in 1..3, Advance(w)
  PROVE  SeriesInv'
<1> USE DEF SeriesInv
<1>1. /\ \A s \in SlotsOf(w + 1) : s \in Slots \ {"qf", "ef"} /\ pairing[s] = None
      /\ \A t \in Sources(w) : t \in Slots /\ results[t] # <<>>
      /\ w \in Weeks /\ w + 1 \in Weeks
  BY SlotsOfWeeks, SourcesOfWeeks DEF Advance
<1>2. /\ pairing' = [s \in Slots |-> IF s \in SlotsOf(w + 1)
                                     THEN AsPairing(Derived(s, results), 1, FALSE) ELSE pairing[s]]
      /\ out' = [out EXCEPT ![w] = Loser(Latest(results[Knockout(w)]))]
      /\ UNCHANGED <<round, match, results, calc, submitted, fired, premier, opener, publisher, fixer, fixes>>
  BY DEF Advance
<1>3. \A s \in SlotsOf(w + 1) :
        /\ pairing'[s] \in PairingsOf(s) /\ pairing'[s] # None /\ ~pairing'[s].made
        /\ pairing'[s].home = Derived(s, results).home /\ pairing'[s].away = Derived(s, results).away
        /\ pairing'[s].from = Derived(s, results).from
  <2> TAKE s \in SlotsOf(w + 1)
  <2>1. \A t \in SourcesOf(s) : results[t] # <<>>
    BY <1>1, SourcesOfWeeks
  <2>2. pairing'[s] = AsPairing(Derived(s, results), 1, FALSE)
    BY <1>1, <1>2
  <2>3. results \in [Slots -> Seq(Officials)]
    BY DEF SeriesTypeOK
  <2>4. /\ Derived(s, results).home \in Seed /\ Derived(s, results).away \in Seed
        /\ Derived(s, results).from \in [SourcesOf(s) -> Nat]
    BY <1>1, <2>1, <2>3, DerivedTyped
  <2>5. pairing'[s] \in PairingsOf(s)
    BY <2>2, <2>4 DEF AsPairing, PairingsOf
  <2>6. pairing'[s] # None
    BY <1>1, <2>5, AbsenceAssumption
  <2> QED BY <2>2, <2>5, <2>6 DEF AsPairing
<1>4. \A s \in Slots \ SlotsOf(w + 1) : pairing'[s] = pairing[s]
  BY <1>2
<1>5. \A s \in Slots : Made(s)' <=> Made(s)
  BY <1>1, <1>3, <1>4 DEF Made
<1>6. \A s \in Slots : pairing[s] # None => pairing'[s] = pairing[s]
  BY <1>1, <1>4
<1>7. out'[w] = Loser(Latest(results[Knockout(w)])) /\ \A v \in (1..3) \ {w} : out'[v] = out[v]
  BY <1>2 DEF SeriesTypeOK
<1>8. SeriesTypeOK'
  <2>1. DOMAIN pairing' = Slots
    BY <1>2
  <2>2. \A s \in Slots : pairing'[s] \in PairingsOf(s) \cup {None}
    BY <1>3, <1>4 DEF SeriesTypeOK
  <2>3. out' \in [1..3 -> Seed \cup {None}]
    <3>1. Knockout(w) \in Slots /\ results[Knockout(w)] # <<>> /\ results[Knockout(w)] \in Seq(Officials)
      BY <1>1, SourcesOfWeeks DEF SeriesTypeOK
    <3>2. Loser(Latest(results[Knockout(w)])) \in Seed
      BY <3>1, LatestIsOfficial, WinnersAreEntries DEF Officials
    <3> QED BY <1>2, <3>2 DEF SeriesTypeOK
  <2> QED BY <1>2, <2>1, <2>2, <2>3 DEF SeriesTypeOK
<1>9. DrawnTogether'
  <2> SUFFICES ASSUME NEW v \in Weeks, NEW s \in SlotsOf(v), NEW t \in SlotsOf(v), pairing'[s] # None
               PROVE  pairing'[t] # None
    BY DEF DrawnTogether
  <2>1. CASE v = w + 1
    BY <1>3, <2>1
  <2>2. CASE v # w + 1
    <3>1. s \in Slots \ SlotsOf(w + 1) /\ t \in Slots \ SlotsOf(w + 1)
      BY <1>1, <2>2, SlotsOfWeeks
    <3> QED BY <1>4, <3>1 DEF DrawnTogether
  <2> QED BY <2>1, <2>2
<1>10. MatchesOfPairings' /\ CalculationsOfMatches' /\ ResultsAreFinal' /\ ReadsHold'
  <2>1. UNCHANGED <<round, match, results, calc, publisher, fixer>>
    BY <1>2
  <2>2. \A s \in Slots : Made(s) => pairing'[s] = pairing[s]
    BY <1>6 DEF Made
  <2> HIDE DEF Made
  <2>3. MatchesOfPairings'
    BY <1>5, <2>1, <2>2 DEF MatchesOfPairings
  <2>4. CalculationsOfMatches'
    BY <1>5, <2>1 DEF CalculationsOfMatches
  <2>5. ResultsAreFinal'
    BY <2>1 DEF ResultsAreFinal
  <2>6. ReadsHold'
    BY <2>1 DEF ReadsHold, Rewinding
  <2> QED BY <2>3, <2>4, <2>5, <2>6
<1>11. DerivedFromResults'
  <2> SUFFICES ASSUME NEW v \in 1..3
               PROVE  /\ \A s \in SlotsOf(v + 1) : pairing'[s] # None =>
                           \A t \in Sources(v) : results[t] # <<>>
                      /\ out'[v] # None => results[Knockout(v)] # <<>>
    BY <1>2 DEF DerivedFromResults
  <2>1. CASE v = w
    BY <1>1, <2>1, SourcesOfWeeks
  <2>2. CASE v # w
    <3>1. \A s \in SlotsOf(v + 1) : s \in Slots \ SlotsOf(w + 1)
      BY <1>1, <2>2, SlotsOfWeeks, SourcesOfWeeks
    <3>2. \A s \in SlotsOf(v + 1) : pairing'[s] = pairing[s]
      BY <1>4, <3>1
    <3>3. out'[v] = out[v]
      BY <1>7, <2>2
    <3>4. /\ \A s \in SlotsOf(v + 1) : pairing[s] # None => \A t \in Sources(v) : results[t] # <<>>
          /\ out[v] # None => results[Knockout(v)] # <<>>
      BY DEF DerivedFromResults
    <3> QED BY <3>2, <3>3, <3>4
  <2> QED BY <2>1, <2>2
<1>12. OpeningHolds'
  <2>1. opener # None => opener.week \in Weeks /\ \A p \in opener.todo : p.slot \in SlotsOf(opener.week)
    BY DEF SeriesTypeOK, Openings, OpeningHolds
  <2>2. opener # None => \A s \in SlotsOf(opener.week) : s \in Slots /\ pairing'[s] = pairing[s]
    BY <1>6, <2>1, SlotsOfWeeks DEF OpeningHolds
  <2>3. opener' = opener
    BY <1>2
  <2>4. CASE opener # None
    <3>1. \A s \in SlotsOf(opener.week) :
            pairing'[s] # None /\ (Made(s)' \/ \E p \in opener.todo : p.slot = s)
      BY <1>5, <2>2, <2>4 DEF OpeningHolds
    <3>2. \A p \in opener.todo :
            /\ p.slot \in SlotsOf(opener.week) /\ p.gen <= pairing'[p.slot].gen
            /\ IsCurrent(p)' => p.home = pairing'[p.slot].home /\ p.away = pairing'[p.slot].away
      BY <2>1, <2>2, <2>4 DEF OpeningHolds, IsCurrent
    <3> QED BY <2>3, <3>1, <3>2 DEF OpeningHolds
  <2> QED BY <2>3, <2>4 DEF OpeningHolds
<1>13. BracketFollowsResults'
  <2>1. \A s \in Slots \ {"qf", "ef"} : pairing'[s] # None =>
          LET d == Derived(s, results) IN
          pairing'[s].home = d.home /\ pairing'[s].away = d.away /\ pairing'[s].from = d.from
    BY <1>3, <1>4 DEF BracketFollowsResults
  <2>2. \A v \in 1..3 : out'[v] # None => out'[v] = Loser(Latest(results[Knockout(v)]))
    BY <1>7 DEF BracketFollowsResults
  <2> QED BY <1>2, <2>1, <2>2 DEF BracketFollowsResults
<1>14. LineupsOfFinalists'
  <2> SUFFICES ASSUME NEW v \in Weeks, NEW e \in submitted[v]
               PROVE  \E s \in SlotsOf(v) : pairing'[s] # None /\ e \in Entries(pairing'[s])
    BY <1>2 DEF LineupsOfFinalists
  <2>1. PICK s \in SlotsOf(v) : pairing[s] # None /\ e \in Entries(pairing[s])
    BY DEF LineupsOfFinalists
  <2> QED BY <1>6, <2>1, SlotsOfWeeks
<1>15. OpenWeeksAreComplete'
  BY <1>2, <1>6, SlotsOfWeeks DEF OpenWeeksAreComplete
<1> QED BY <1>8, <1>9, <1>10, <1>11, <1>12, <1>13, <1>14, <1>15

-----------------------------------------------------------------------------
\* Corrections.

LEMMA StartCorrectionHolds ==
  ASSUME SeriesInv, NEW s0 \in Slots, StartCorrection(s0)
  PROVE  SeriesInv'
<1> USE DEF SeriesInv
<1> DEFINE w == WeekOf(s0)
<1>1. /\ results[s0] # <<>> /\ fixes' = fixes + 1
      /\ UNCHANGED <<pairing, out, round, match, results, submitted, fired, premier, opener, publisher>>
  BY DEF StartCorrection
<1>2. w \in Weeks /\ s0 \in SlotsOf(w) /\ \A s \in SlotsOf(w) : s \in Slots
  BY SlotsOfWeeks
<1>3. \A s \in SlotsOf(w) : match[s] # NoMatch
  <2>1. round[w] = "final"
    BY <1>1 DEF ResultsAreFinal
  <2> QED BY <1>2, <2>1 DEF OpenWeeksAreComplete
<1>4. PICK o \in Evidence(w) :
        /\ calc' = Calculated(w, o)
        /\ fixer' = [phase |-> "assembled", slot |-> s0, version |-> Version(s0),
                     read |-> Read(s0, Calculated(w, o)), seen |-> {}]
  BY DEF StartCorrection
<1> HIDE DEF w
<1>5. Version(s0) \in Nat
  BY DEF Version, SeriesTypeOK
<1>6. fixer' \in Corrections
  BY <1>2, <1>3, <1>4, <1>5, RecalculatedWeek DEF Corrections
<1>7. SeriesTypeOK'
  BY <1>1, <1>2, <1>3, <1>4, <1>6, RecalculatedWeek DEF SeriesTypeOK
<1>8. ReadsHold'
  <2>1. publisher # None => \A s \in SlotsOf(publisher.week) : s \in Slots
    BY SlotsOfWeeks DEF SeriesTypeOK, PublicationsOf
  <2>2. \A s \in Slots : calc[s] # None => calc'[s] # None
    BY <1>2, <1>3, <1>4, RecalculatedWeek
  <2>3. fixer' # None => ~Rewinding'
    BY <1>4 DEF Rewinding
  <2>4. fixer'.slot = s0 /\ fixer'.read.home = match[s0].home /\ fixer'.read.away = match[s0].away
    BY <1>2, <1>3, <1>4, RecalculatedWeek
  <2> QED BY <1>1, <2>1, <2>2, <2>3, <2>4 DEF ReadsHold
<1> QED BY <1>1, <1>2, <1>3, <1>4, <1>7, <1>8, RecalculationHolds

\* The results as a correction writes them.
LEMMA CorrectedResults ==
  ASSUME SeriesInv, fixer # None
  PROVE  /\ fixer.slot \in Slots /\ WeekOf(fixer.slot) \in Weeks /\ fixer.slot \in SlotsOf(WeekOf(fixer.slot))
         /\ Corrected \in [Slots -> Seq(Officials)]
         /\ \A s \in Slots \ {fixer.slot} : Corrected[s] = results[s]
         /\ Corrected[fixer.slot] # <<>> /\ results[fixer.slot] # <<>>
         /\ Len(Corrected[fixer.slot]) = Len(results[fixer.slot]) + 1
         /\ Latest(Corrected[fixer.slot]).home = match[fixer.slot].home
         /\ Latest(Corrected[fixer.slot]).away = match[fixer.slot].away
<1> USE DEF SeriesInv
<1> DEFINE c == fixer.slot
           row == [home |-> fixer.read.home, away |-> fixer.read.away, outcome |-> fixer.read.outcome]
<1>1. c \in Slots /\ fixer.read \in Reads /\ results \in [Slots -> Seq(Officials)]
  BY DEF SeriesTypeOK, Corrections
<1>2. row \in Officials /\ row.home = match[c].home /\ row.away = match[c].away /\ results[c] # <<>>
  BY <1>1 DEF Reads, Officials, ReadsHold
<1>3. Corrected = [results EXCEPT ![c] = Append(@, row)]
  BY DEF Corrected, Published
<1> HIDE DEF row
<1>4. /\ Append(results[c], row) \in Seq(Officials) /\ Latest(Append(results[c], row)) = row
      /\ Append(results[c], row) # <<>> /\ Len(Append(results[c], row)) = Len(results[c]) + 1
  BY <1>1, <1>2, LatestOfAppended
<1>5. WeekOf(c) \in Weeks /\ c \in SlotsOf(WeekOf(c))
  BY <1>1, SlotsOfWeeks
<1> QED BY <1>1, <1>2, <1>3, <1>4, <1>5

LEMMA RepairedMatch ==
  ASSUME NEW m \in Matches, NEW home \in Seed, NEW away \in Seed
  PROVE  [m EXCEPT !.home = home, !.away = away] \in Matches
<1> DEFINE new == [m EXCEPT !.home = home, !.away = away]
<1>1. /\ new.home = home /\ new.away = away
      /\ new.review = m.review /\ new.ruled = m.ruled
  BY DEF Matches
<1>2. DOMAIN new = {"home", "away", "review", "ruled"} /\ new = [x \in DOMAIN m |-> new[x]]
  BY DEF Matches
<1> HIDE DEF new
<1>3. new = [home |-> home, away |-> away, review |-> m.review, ruled |-> m.ruled]
  BY <1>1, <1>2 DEF Matches
<1>4. home \in 0..5 /\ away \in 0..5 /\ m.review \in Nat /\ m.ruled \in BOOLEAN
  BY DEF Matches, Seed
<1>5. [home |-> home, away |-> away, review |-> m.review, ruled |-> m.ruled] \in Matches
  BY <1>4 DEF Matches
<1> QED BY <1>3, <1>5 DEF new

\* What a correction's transaction may change, given that it leaves no pairing
\* behind that the corrected results derive otherwise, and changes none that
\* is played.
LEMMA CommitCorrectionHolds ==
  ASSUME SeriesInv, fixer # None, NEW changed \in SUBSET Slots,
         CommitCorrection(WeekOf(fixer.slot), changed),
         UNCHANGED <<round, calc, submitted, fired, opener, publisher, fixes>>,
         \A s \in changed : /\ s \in Slots \ {"qf", "ef", fixer.slot} /\ pairing[s] # None
                            /\ calc[s] = None
                            /\ Entries(pairing[s]) \cap submitted[WeekOf(s)] = {},
         \A s \in Slots \ ({"qf", "ef"} \cup changed) : pairing[s] # None =>
           LET d == Derived(s, Corrected) IN
           pairing[s].home = d.home /\ pairing[s].away = d.away /\ pairing[s].from = d.from
  PROVE  SeriesInv'
<1> USE DEF SeriesInv
<1> DEFINE c == fixer.slot
           w == WeekOf(c)
           d(s) == Derived(s, Corrected)
<1>1. /\ c \in Slots /\ w \in Weeks /\ c \in SlotsOf(w) /\ Corrected \in [Slots -> Seq(Officials)]
      /\ \A s \in Slots \ {c} : Corrected[s] = results[s]
      /\ Corrected[c] # <<>> /\ results[c] # <<>>
      /\ Latest(Corrected[c]).home = match[c].home /\ Latest(Corrected[c]).away = match[c].away
  BY CorrectedResults
<1>2. /\ results' = Corrected /\ fixer' = None
      /\ match' = [s \in Slots |->
           IF s = c THEN [match[s] EXCEPT !.review = @ + 1]
           ELSE IF s \in changed /\ pairing[s].made
           THEN [match[s] EXCEPT !.home = d(s).home, !.away = d(s).away]
           ELSE match[s]]
      /\ pairing' = [s \in Slots |->
           IF s \in changed THEN AsPairing(d(s), pairing[s].gen + 1, pairing[s].made) ELSE pairing[s]]
      /\ out' = IF w = 4 \/ out[w] = None THEN out
                ELSE [out EXCEPT ![w] = Loser(Latest(Corrected[Knockout(w)]))]
      /\ premier' = IF w = 4 THEN Winner(Latest(Corrected["grand_final"])) ELSE premier
      /\ UNCHANGED <<round, calc, submitted, fired, opener, publisher, fixes>>
  BY DEF CommitCorrection
<1> HIDE DEF c, w, d
<1>26. /\ results' = Corrected /\ fixer' = None
       /\ UNCHANGED <<round, calc, submitted, fired, opener, publisher, fixes>>
  BY <1>2
<1>3. \A s \in Slots : Corrected[s] # <<>> <=> results[s] # <<>>
  BY <1>1
<1>4. \A s \in changed : /\ s \in Slots \ {"qf", "ef"} /\ s # c /\ pairing[s] \in PairingsOf(s)
                         /\ pairing[s] # None /\ calc[s] = None /\ results[s] = <<>>
  BY DEF SeriesTypeOK, ResultsAreFinal, c
<1>5. \A s \in changed :
        /\ pairing'[s] \in PairingsOf(s) /\ pairing'[s] # None
        /\ pairing'[s].made = pairing[s].made /\ pairing'[s].gen = pairing[s].gen + 1
        /\ pairing'[s].home = d(s).home /\ pairing'[s].away = d(s).away /\ pairing'[s].from = d(s).from
        /\ d(s).home \in Seed /\ d(s).away \in Seed
  <2> TAKE s \in changed
  <2>1. \A t \in SourcesOf(s) : t \in Slots /\ Corrected[t] # <<>>
    <3>1. WeekOf(s) - 1 \in 1..3 /\ s \in SlotsOf((WeekOf(s) - 1) + 1)
      BY <1>4, SourcesOfWeeks, SlotsOfWeeks DEF Weeks
    <3> QED BY <1>3, <1>4, <3>1, SourcesOfWeeks DEF DerivedFromResults
  <2>2. d(s).home \in Seed /\ d(s).away \in Seed /\ d(s).from \in [SourcesOf(s) -> Nat]
    BY <1>1, <1>4, <2>1, DerivedTyped DEF d
  <2>3. pairing[s].gen \in Nat /\ pairing[s].made \in BOOLEAN
    BY <1>4 DEF PairingsOf
  <2>4. pairing'[s] = AsPairing(d(s), pairing[s].gen + 1, pairing[s].made)
    BY <1>2, <1>4
  <2>5. pairing'[s] \in PairingsOf(s)
    BY <2>2, <2>3, <2>4 DEF AsPairing, PairingsOf
  <2>6. pairing'[s] # None
    BY <1>4, <2>5, AbsenceAssumption
  <2> QED BY <2>2, <2>4, <2>5, <2>6 DEF AsPairing
<1>6. \A s \in Slots \ changed : pairing'[s] = pairing[s]
  BY <1>2
<1>7. /\ \A s \in Slots : pairing'[s] # None <=> pairing[s] # None
      /\ \A s \in Slots : Made(s)' <=> Made(s)
  BY <1>4, <1>5, <1>6 DEF Made
<1>8. Made(c)
  BY <1>1 DEF ResultsAreFinal, CalculationsOfMatches
<1>9. \A s \in Slots :
        /\ match'[s] \in Matches
        /\ match'[s] # NoMatch <=> Made(s)
        /\ calc[s] # None => match'[s].home = match[s].home /\ match'[s].away = match[s].away
        /\ Made(s) => match'[s].home = pairing'[s].home /\ match'[s].away = pairing'[s].away
  <2> TAKE s \in Slots
  <2>1. match[s] \in Matches /\ (match[s] # NoMatch <=> Made(s))
        /\ (Made(s) => match[s].home = pairing[s].home /\ match[s].away = pairing[s].away)
    BY DEF SeriesTypeOK, MatchesOfPairings
  <2>2. CASE s = c
    <3>1. match'[s] = [match[s] EXCEPT !.review = @ + 1] /\ pairing'[s] = pairing[s] /\ Made(s)
      BY <1>2, <1>4, <1>6, <1>8, <2>2
    <3>2. /\ match'[s] \in Matches /\ match'[s] # NoMatch
          /\ match'[s].home = match[s].home /\ match'[s].away = match[s].away
      BY <2>1, <3>1 DEF Matches, NoMatch
    <3> QED BY <2>1, <3>1, <3>2
  <2>3. CASE s \in changed /\ pairing[s].made
    <3>1. /\ match'[s] = [match[s] EXCEPT !.home = d(s).home, !.away = d(s).away]
          /\ Made(s) /\ calc[s] = None
      BY <1>2, <1>4, <2>3 DEF Made
    <3>2. d(s).home \in Seed /\ d(s).away \in Seed
      BY <1>5, <2>3
    <3>3. /\ match'[s] \in Matches /\ match'[s] # NoMatch
          /\ match'[s].home = d(s).home /\ match'[s].away = d(s).away
      <4> DEFINE home == d(s).home
                 away == d(s).away
                 old == match[s]
                 new == match'[s]
      <4>1. home \in Seed /\ away \in Seed /\ old \in Matches
        BY <2>1, <3>2
      <4>2. new = [old EXCEPT !.home = home, !.away = away]
        BY <3>1
      <4> HIDE DEF home, away, old, new
      <4>3. [old EXCEPT !.home = home, !.away = away] \in Matches
        BY <4>1, RepairedMatch
      <4>4. new.home = home /\ new.away = away
        BY <4>1, <4>2 DEF Matches
      <4>5. new # NoMatch
        <5>1. NoMatch.home = 0 /\ home # 0
          BY <4>1 DEF NoMatch, Seed
        <5> QED BY <4>4, <5>1
      <4> QED BY <4>2, <4>3, <4>4, <4>5 DEF home, away, new
    <3> QED BY <1>5, <2>3, <3>1, <3>3
  <2>4. CASE s # c /\ ~(s \in changed /\ pairing[s].made)
    <3>1. match'[s] = match[s] /\ (Made(s) => pairing'[s] = pairing[s])
      BY <1>2, <1>6, <2>4 DEF Made
    <3> QED BY <2>1, <3>1
  <2> QED BY <2>2, <2>3, <2>4
<1>27. \A s \in Slots : match'[s] \in Matches
  BY <1>9
<1>28. \A s \in Slots : match'[s] # NoMatch <=> Made(s)
  BY <1>9
<1>29. \A s \in Slots : calc[s] # None =>
         match'[s].home = match[s].home /\ match'[s].away = match[s].away
  BY <1>9
<1>30. \A s \in Slots : Made(s) =>
         match'[s].home = pairing'[s].home /\ match'[s].away = pairing'[s].away
  BY <1>9
<1>10. /\ \A v \in 1..3 : v # w => out'[v] = out[v]
       /\ \A v \in 1..3 : v = w /\ out[v] # None => out'[v] = Loser(Latest(Corrected[Knockout(v)]))
       /\ \A v \in 1..3 : out'[v] # None => out[v] # None
  <2>1. /\ DOMAIN out = 1..3
        /\ out' = IF w = 4 \/ out[w] = None THEN out
                  ELSE [out EXCEPT ![w] = Loser(Latest(Corrected[Knockout(w)]))]
    BY <1>2 DEF SeriesTypeOK
  <2> QED BY <2>1
<1>11. \A v \in 1..3 : v # w => Knockout(v) \in Slots \ {c}
  <2> SUFFICES ASSUME NEW v \in 1..3, v # w PROVE Knockout(v) \in Slots /\ Knockout(v) # c
    OBVIOUS
  <2>1. v \in Weeks /\ Knockout(v) \in SlotsOf(v)
    BY SourcesOfWeeks
  <2>2. Knockout(v) \in Slots /\ WeekOf(Knockout(v)) = v
    BY <2>1, SlotsOfWeeks
  <2>3. WeekOf(c) = w
    BY <1>1, SlotsOfWeeks
  <2> QED BY <2>2, <2>3
<1>12. w # 4 => c # "grand_final"
  BY <1>1, WeekTable DEF w
<1>13. w = 4 => c = "grand_final"
  BY <1>1, SlotTable
<1>14. DOMAIN out' = 1..3 /\ \A v \in 1..3 : out'[v] \in Seed \cup {None}
  <2>1. \A v \in 1..3 : out[v] # None => Loser(Latest(Corrected[Knockout(v)])) \in Seed
    <3> TAKE v \in 1..3
    <3> HAVE out[v] # None
    <3>1. Knockout(v) \in Slots /\ Corrected[Knockout(v)] # <<>>
      BY <1>3, SourcesOfWeeks DEF DerivedFromResults
    <3> QED BY <1>1, <3>1, LatestIsOfficial, WinnersAreEntries DEF Officials
  <2>2. \A v \in 1..3 : out'[v] \in Seed \cup {None}
    BY <1>10, <2>1 DEF SeriesTypeOK
  <2>3. DOMAIN out' = 1..3
    BY <1>2 DEF SeriesTypeOK
  <2> QED BY <2>2, <2>3
<1>15. premier' \in Seed \cup {None}
  <2>1. CASE w = 4
    <3>1. Latest(Corrected["grand_final"]) \in Officials
      BY <1>1, <1>13, <2>1, LatestIsOfficial
    <3> QED BY <1>2, <2>1, <3>1, WinnersAreEntries DEF Officials
  <2>2. CASE w # 4
    BY <1>2, <2>2 DEF SeriesTypeOK
  <2> QED BY <2>1, <2>2
<1>16. SeriesTypeOK'
  <2>1. out' \in [1..3 -> Seed \cup {None}]
    <3>1. out' = [v \in 1..3 |-> out'[v]]
      BY <1>2 DEF SeriesTypeOK
    <3> QED BY <1>14, <3>1
  <2>2. match' \in [Slots -> Matches]
    <3>1. match' = [s \in Slots |-> match'[s]]
      BY <1>2
    <3> QED BY <1>27, <3>1
  <2>3. DOMAIN pairing' = Slots /\ \A s \in Slots : pairing'[s] \in PairingsOf(s) \cup {None}
    BY <1>2, <1>5, <1>6 DEF SeriesTypeOK
  <2> QED BY <1>1, <1>26, <1>15, <2>1, <2>2, <2>3 DEF SeriesTypeOK
<1>17. DrawnTogether' /\ MatchesOfPairings'
  BY <1>7, <1>28, <1>30, SlotsOfWeeks DEF DrawnTogether, MatchesOfPairings
<1>18. CalculationsOfMatches'
  BY <1>26, <1>7, <1>29 DEF CalculationsOfMatches
<1>19. ResultsAreFinal'
  <2> SUFFICES ASSUME NEW s \in Slots, Corrected[s] # <<>>
               PROVE  /\ round[WeekOf(s)] = "final" /\ calc[s] # None
                      /\ Latest(Corrected[s]).home = match[s].home
                      /\ Latest(Corrected[s]).away = match[s].away
    <3>1. \A s \in Slots : calc[s] # None => match'[s].home = match[s].home /\ match'[s].away = match[s].away
      BY <1>29
    <3> QED BY <1>26, <3>1 DEF ResultsAreFinal
  <2> QED BY <1>1, <1>3 DEF ResultsAreFinal
<1>20. DerivedFromResults'
  <2>1. \A v \in 1..3 :
          /\ \A s \in SlotsOf(v + 1) : pairing'[s] # None => \A t \in Sources(v) : results'[t] # <<>>
          /\ out'[v] # None => results'[Knockout(v)] # <<>>
    BY <1>2, <1>3, <1>7, <1>10, SlotsOfWeeks, SourcesOfWeeks DEF DerivedFromResults
  <2>2. premier' # None => results'["grand_final"] # <<>>
    BY <1>1, <1>2, <1>3, <1>12, <1>13 DEF DerivedFromResults, Slots
  <2> QED BY <2>1, <2>2 DEF DerivedFromResults
<1>21. OpeningHolds'
  <2> SUFFICES ASSUME opener # None
               PROVE  /\ \A s \in SlotsOf(opener.week) :
                           pairing'[s] # None /\ (Made(s)' \/ \E p \in opener.todo : p.slot = s)
                      /\ \A p \in opener.todo :
                           /\ p.slot \in SlotsOf(opener.week) /\ p.gen <= pairing'[p.slot].gen
                           /\ IsCurrent(p)' => p.home = pairing'[p.slot].home /\ p.away = pairing'[p.slot].away
    BY <1>2 DEF OpeningHolds
  <2>1. opener.week \in Weeks /\ \A s \in SlotsOf(opener.week) : s \in Slots
    BY SlotsOfWeeks DEF SeriesTypeOK, Openings
  <2>2. \A s \in SlotsOf(opener.week) :
          pairing'[s] # None /\ (Made(s)' \/ \E p \in opener.todo : p.slot = s)
    BY <1>7, <2>1 DEF OpeningHolds
  <2>3. ASSUME NEW p \in opener.todo
        PROVE  /\ p.slot \in SlotsOf(opener.week) /\ p.gen <= pairing'[p.slot].gen
               /\ IsCurrent(p)' => p.home = pairing'[p.slot].home /\ p.away = pairing'[p.slot].away
    <3>1. /\ p.slot \in SlotsOf(opener.week) /\ p.slot \in Slots /\ p.gen <= pairing[p.slot].gen
          /\ IsCurrent(p) => p.home = pairing[p.slot].home /\ p.away = pairing[p.slot].away
      BY <2>1 DEF OpeningHolds
    <3>2. p.gen \in Nat
      BY DEF SeriesTypeOK, Openings, Listings
    <3>3. CASE p.slot \in changed
      <4>1. pairing[p.slot].gen \in Nat /\ pairing'[p.slot].gen = pairing[p.slot].gen + 1
        BY <1>4, <1>5, <3>3 DEF PairingsOf
      <4> QED BY <3>1, <3>2, <4>1 DEF IsCurrent
    <3>4. CASE p.slot \notin changed
      BY <1>6, <3>1, <3>4 DEF IsCurrent
    <3> QED BY <3>3, <3>4
  <2> QED BY <2>2, <2>3
<1>22. ReadsHold'
  <2>1. publisher # None => \A s \in SlotsOf(publisher.week) : s \in Slots
    BY SlotsOfWeeks DEF SeriesTypeOK, PublicationsOf
  <2> QED BY <1>26, <1>29, <2>1 DEF ReadsHold
<1>23. BracketFollowsResults'
  <2>1. \A s \in Slots \ {"qf", "ef"} : pairing'[s] # None =>
          pairing'[s].home = d(s).home /\ pairing'[s].away = d(s).away /\ pairing'[s].from = d(s).from
    BY <1>5, <1>6 DEF d
  <2>2. \A v \in 1..3 : out'[v] # None => out'[v] = Loser(Latest(Corrected[Knockout(v)]))
    BY <1>1, <1>10, <1>11 DEF BracketFollowsResults
  <2>3. premier' # None => premier' = Winner(Latest(Corrected["grand_final"]))
    <3>1. w # 4 => Corrected["grand_final"] = results["grand_final"]
      BY <1>1, <1>12 DEF Slots
    <3>2. premier' = IF w = 4 THEN Winner(Latest(Corrected["grand_final"])) ELSE premier
      BY <1>2
    <3> QED BY <3>1, <3>2 DEF BracketFollowsResults
  <2> QED BY <1>26, <2>1, <2>2, <2>3 DEF BracketFollowsResults, d
<1>24. LineupsOfFinalists'
  <2> SUFFICES ASSUME NEW v \in Weeks, NEW e \in submitted[v]
               PROVE  \E s \in SlotsOf(v) : pairing'[s] # None /\ e \in Entries(pairing'[s])
    BY <1>2 DEF LineupsOfFinalists
  <2>1. PICK s \in SlotsOf(v) : pairing[s] # None /\ e \in Entries(pairing[s])
    BY DEF LineupsOfFinalists
  <2>2. s \in Slots /\ WeekOf(s) = v
    BY SlotsOfWeeks
  <2>3. s \notin changed
    BY <2>1, <2>2
  <2> QED BY <1>6, <2>1, <2>2, <2>3
<1>25. OpenWeeksAreComplete'
  <2>1. \A s \in Slots : Made(s) => pairing'[s] # None /\ pairing'[s].made /\ match'[s] # NoMatch
    BY <1>7, <1>28 DEF Made
  <2> QED BY <1>26, <2>1, SlotsOfWeeks DEF OpenWeeksAreComplete, Made
<1> QED BY <1>16, <1>17, <1>18, <1>19, <1>20, <1>21, <1>22, <1>23, <1>24, <1>25

\* A step that only moves the correction along.
LEMMA OnlyTheFixer ==
  ASSUME SeriesInv, fixer # None,
         UNCHANGED <<tables, opener, publisher, fixes>>,
         fixer' \in Corrections \cup {None},
         fixer' # None => /\ fixer'.slot = fixer.slot /\ fixer'.read = fixer.read
                          /\ (Rewinding' => WeekOf(fixer.slot) # 4)
  PROVE  SeriesInv'
<1> USE DEF SeriesInv
<1>1. UNCHANGED <<pairing, out, round, match, results, calc, submitted, fired, premier,
                  opener, publisher, fixes>>
  BY DEF tables
<1>2. SeriesTypeOK'
  BY <1>1 DEF SeriesTypeOK
<1>3. /\ DrawnTogether' /\ MatchesOfPairings' /\ CalculationsOfMatches' /\ ResultsAreFinal'
      /\ DerivedFromResults' /\ OpeningHolds'
  BY <1>1 DEF DrawnTogether, MatchesOfPairings, CalculationsOfMatches, ResultsAreFinal,
              DerivedFromResults, OpeningHolds, Made, IsCurrent
<1>4. BracketFollowsResults' /\ LineupsOfFinalists' /\ OpenWeeksAreComplete'
  BY <1>1 DEF BracketFollowsResults, LineupsOfFinalists, OpenWeeksAreComplete
<1>5. ReadsHold'
  BY <1>1 DEF ReadsHold
<1> QED BY <1>2, <1>3, <1>4, <1>5

\* A pairing the corrected result is no source of is what it was derived as.
LEMMA UntouchedFollow ==
  ASSUME SeriesInv, fixer # None, NEW s \in Slots \ {"qf", "ef"},
         fixer.slot \notin SourcesOf(s), pairing[s] # None
  PROVE  /\ pairing[s].home = Derived(s, Corrected).home
         /\ pairing[s].away = Derived(s, Corrected).away
         /\ pairing[s].from = Derived(s, Corrected).from
<1>1. \A t \in SourcesOf(s) : Corrected[t] = results[t]
  BY CorrectedResults, SourcesOfWeeks
<1>2. Derived(s, Corrected) = Derived(s, results)
  BY <1>1, DerivedIsLocal
<1> QED BY <1>2 DEF SeriesInv, BracketFollowsResults

LEMMA BeginCorrectionHolds ==
  ASSUME SeriesInv, BeginCorrection
  PROVE  SeriesInv'
<1> DEFINE c == fixer.slot
           w == WeekOf(c)
           current == Version(c) = fixer.version /\ Unchanged(c, fixer.read)
<1>1. /\ fixer # None /\ fixer.phase = "assembled" /\ fixer \in Corrections
      /\ UNCHANGED <<round, calc, submitted, fired, opener, publisher, fixes>>
      /\ c \in Slots /\ w \in Weeks
  BY SlotsOfWeeks DEF BeginCorrection, SeriesInv, SeriesTypeOK, Corrections
<1>2. CASE fixer' = None /\ UNCHANGED <<pairing, out, match, results, premier>>
  <2>1. UNCHANGED <<tables, opener, publisher, fixes>>
    BY <1>1, <1>2 DEF tables
  <2> QED BY <1>1, <1>2, <2>1, OnlyTheFixer
<1>3. CASE /\ w < 4
           /\ fixer' = [fixer EXCEPT !.phase = "rewinding",
                          !.seen = {t \in Affected(w) : pairing[t].made}]
           /\ UNCHANGED <<pairing, out, match, results, premier>>
  <2>1. Affected(w) \subseteq Slots
    <3>1. w + 1 \in Weeks
      BY <1>1, <1>3 DEF Weeks
    <3> QED BY <3>1, SlotsOfWeeks DEF Affected
  <2> DEFINE seen == {t \in Affected(w) : pairing[t].made}
  <2>2. seen \in SUBSET Slots
    BY <2>1
  <2>3. fixer' = [fixer EXCEPT !.phase = "rewinding", !.seen = seen]
    BY <1>3
  <2> HIDE DEF seen
  <2>4. fixer' \in Corrections
    BY <1>1, <2>2, <2>3 DEF Corrections
  <2>5. fixer'.slot = c /\ fixer'.read = fixer.read
    BY <1>1, <2>3 DEF Corrections
  <2>6. UNCHANGED <<tables, opener, publisher, fixes>>
    BY <1>1, <1>3 DEF tables
  <2> HIDE DEF c
  <2>7. fixer.slot = c
    BY DEF c
  <2> QED BY <1>1, <1>3, <2>4, <2>5, <2>6, <2>7, OnlyTheFixer
<1>4. CASE w = 4 /\ CommitCorrection(w, {})
  <2>1. c = "grand_final"
    BY <1>1, <1>4, SlotsOfWeeks, SlotTable
  <2>2. \A s \in Slots : c \notin SourcesOf(s)
    BY <2>1, SourceTable DEF Slots
  <2>3. \A s \in Slots \ {"qf", "ef"} : pairing[s] # None =>
          LET d == Derived(s, Corrected) IN
          pairing[s].home = d.home /\ pairing[s].away = d.away /\ pairing[s].from = d.from
    BY <1>1, <2>2, UntouchedFollow
  <2>4. CommitCorrection(WeekOf(fixer.slot), {})
    BY <1>4
  <2> HIDE DEF c, w
  <2>5. \A s \in Slots \ ({"qf", "ef"} \cup {}) : pairing[s] # None =>
          LET d == Derived(s, Corrected) IN
          pairing[s].home = d.home /\ pairing[s].away = d.away /\ pairing[s].from = d.from
    BY <2>3
  <2> QED BY <1>1, <2>4, <2>5, CommitCorrectionHolds
<1> QED BY <1>2, <1>3, <1>4 DEF BeginCorrection

\* The corrected result is a source of next week's pairings, or, from the
\* second semi-final, of the grand final as well: then the preliminary final it
\* also feeds has been played, and the rewind is refused.
LEMMA FinishCorrectionHolds ==
  ASSUME SeriesInv, FinishCorrection
  PROVE  SeriesInv'
<1> DEFINE c == fixer.slot
           w == WeekOf(c)
           changed == Affected(w)
<1>1. /\ fixer # None /\ fixer.phase = "rewinding" /\ fixer \in Corrections /\ Rewinding
      /\ UNCHANGED <<round, calc, submitted, fired, opener, publisher, fixes>>
      /\ c \in Slots /\ w \in Weeks /\ w # 4
  BY SlotsOfWeeks DEF FinishCorrection, Rewinding, SeriesInv, SeriesTypeOK, ReadsHold, Corrections
<1>2. CASE fixer' = None /\ UNCHANGED <<pairing, out, match, results, premier>>
  <2>1. UNCHANGED <<tables, opener, publisher, fixes>>
    BY <1>1, <1>2 DEF tables
  <2> QED BY <1>1, <1>2, <2>1, OnlyTheFixer
<1>3. CASE fixer' = Retried /\ UNCHANGED <<pairing, out, match, results, premier>>
  <2>1. fixer' = [fixer EXCEPT !.phase = "assembled", !.seen = {}]
    BY <1>3 DEF Retried
  <2>2. fixer' \in Corrections /\ fixer'.slot = fixer.slot /\ fixer'.read = fixer.read
    BY <1>1, <2>1 DEF Corrections
  <2>3. UNCHANGED <<tables, opener, publisher, fixes>>
    BY <1>1, <1>3 DEF tables
  <2> QED BY <1>1, <2>2, <2>3, OnlyTheFixer
<1>4. CASE /\ SeenAsItIs /\ \A s \in changed : ~Played(s)
           /\ CommitCorrection(w, changed)
  <2>1. w \in 1..3 /\ w + 1 \in Weeks
    BY <1>1 DEF Weeks
  <2>2. \A s \in SlotsOf(w + 1) : /\ s \in Slots \ {"qf", "ef"} /\ s # c /\ WeekOf(s) = w + 1
    BY <2>1, SlotsOfWeeks, SourcesOfWeeks
  <2>3. \A s \in changed : s \in SlotsOf(w + 1) /\ pairing[s] # None
    BY DEF Affected
  <2>4. \A s \in changed : calc[s] = None
    <3> SUFFICES ASSUME NEW s \in changed, calc[s] # None PROVE FALSE
      OBVIOUS
    <3>1. Made(s)
      BY <2>2, <2>3 DEF SeriesInv, CalculationsOfMatches
    <3>2. s \in fixer.seen
      BY <1>4, <3>1 DEF SeenAsItIs, Made
    <3> QED BY <1>4, <3>2 DEF Played
  <2>5. \A s \in changed : Entries(pairing[s]) \cap submitted[WeekOf(s)] = {}
    BY <1>4 DEF Played
  <2>6. \A s \in SlotsOf(w + 1) \ changed : pairing[s] # None =>
          /\ pairing[s].home = Derived(s, Corrected).home
          /\ pairing[s].away = Derived(s, Corrected).away
          /\ pairing[s].from = Derived(s, Corrected).from
    BY DEF Affected
  <2>7. ASSUME c = "second_semi" PROVE pairing["grand_final"] = None
    <3> SUFFICES ASSUME pairing["grand_final"] # None PROVE FALSE
      OBVIOUS
    <3> DEFINE p == "preliminary"
    <3>1. w = 2 /\ p \in Slots /\ p \in SlotsOf(w + 1)
      <4>1. w = 2
        BY <2>7, WeekTable
      <4>2. w + 1 = 3
        BY <4>1
      <4> QED BY <4>1, <4>2, SlotTable DEF Slots
    <3>2. results[p] # <<>>
      <4>1. \A s \in SlotsOf(3 + 1) : pairing[s] # None => \A t \in Sources(3) : results[t] # <<>>
        BY DEF SeriesInv, DerivedFromResults
      <4>2. "grand_final" \in SlotsOf(3 + 1) /\ p \in Sources(3)
        BY SlotTable
      <4> QED BY <4>1, <4>2
    <3>3. calc[p] # None /\ Made(p)
      BY <3>1, <3>2 DEF SeriesInv, ResultsAreFinal, CalculationsOfMatches
    <3>4. p \in changed
      <4>1. /\ c \in SourcesOf(p) /\ p \in Slots \ {"qf", "ef"}
            /\ SourcesOf(p) = {"second_semi", "first_semi"}
        BY <2>7, SourceTable DEF Slots
      <4>3. results \in [Slots -> Seq(Officials)] /\ Corrected \in [Slots -> Seq(Officials)]
        BY <1>1, CorrectedResults DEF SeriesInv, SeriesTypeOK
      <4>4. Derived(p, results).from[c] = Len(results[c])
        BY <4>1 DEF Derived
      <4>5. Derived(p, Corrected).from[c] = Len(Corrected[c])
        BY <4>1 DEF Derived
      <4>6. Len(Corrected[c]) # Len(results[c])
        <5>1. Len(results[c]) \in Nat /\ Len(Corrected[c]) = Len(results[c]) + 1
          BY <1>1, <4>3, CorrectedResults
        <5> QED BY <5>1
      <4>7. pairing[p].from = Derived(p, results).from
        BY <3>3, <4>1 DEF SeriesInv, BracketFollowsResults, Made
      <4>8. pairing[p].from # Derived(p, Corrected).from
        BY <4>4, <4>5, <4>6, <4>7
      <4> QED BY <2>6, <3>1, <3>3, <4>8 DEF Made
    <3>5. p \in fixer.seen
      BY <1>4, <3>3, <3>4 DEF SeenAsItIs, Made
    <3> QED BY <1>4, <3>3, <3>4, <3>5 DEF Played
  <2>8. \A s \in Slots \ ({"qf", "ef"} \cup changed) : pairing[s] # None =>
          /\ pairing[s].home = Derived(s, Corrected).home
          /\ pairing[s].away = Derived(s, Corrected).away
          /\ pairing[s].from = Derived(s, Corrected).from
    <3> SUFFICES ASSUME NEW s \in Slots \ ({"qf", "ef"} \cup changed), pairing[s] # None
                 PROVE  /\ pairing[s].home = Derived(s, Corrected).home
                        /\ pairing[s].away = Derived(s, Corrected).away
                        /\ pairing[s].from = Derived(s, Corrected).from
      OBVIOUS
    <3>1. CASE s \in SlotsOf(w + 1)
      BY <2>6, <3>1
    <3>2. CASE s \notin SlotsOf(w + 1)
      <4>1. c \notin SourcesOf(s)
        <5> SUFFICES ASSUME c \in SourcesOf(s) PROVE FALSE
          OBVIOUS
        <5>1. s = "grand_final" /\ c = "second_semi"
          BY <3>2, FeedsOnly
        <5> QED BY <2>7, <5>1
      <4> QED BY <1>1, <4>1, UntouchedFollow
    <3> QED BY <3>1, <3>2
  <2>9. changed \in SUBSET Slots /\ \A s \in changed : s \in Slots \ {"qf", "ef", fixer.slot}
    BY <2>2, <2>3
  <2>10. CommitCorrection(WeekOf(fixer.slot), changed)
    BY <1>4
  <2> HIDE DEF c, w, changed
  <2> QED BY <1>1, <2>3, <2>4, <2>5, <2>8, <2>9, <2>10, CommitCorrectionHolds
<1> QED BY <1>2, <1>3, <1>4 DEF FinishCorrection

-----------------------------------------------------------------------------
\* Every step of a series, and what follows.

LEMMA SeriesStep == SeriesInv /\ [SeriesNext]_seriesVars => SeriesInv'
<1> SUFFICES ASSUME SeriesInv, [SeriesNext]_seriesVars PROVE SeriesInv'
  OBVIOUS
<1>1. CASE \E w \in Weeks : OpenWeek(w) \/ Transition(w)
  BY <1>1, OpenWeekHolds, TransitionHolds
<1>2. CASE opener # None /\ \E p \in opener.todo : Materialise(p)
  BY <1>2, MaterialiseHolds
<1>3. CASE FinishOpening
  BY <1>3, FinishOpeningHolds
<1>4. CASE \E w \in Weeks, e \in Submitters : Submit(e, w) \/ SubmitAdjudicated(e, w) \/ CorrectLineup(e, w)
  BY <1>4, FirstSubmissionHolds, CorrectLineupHolds DEF Submit, SubmitAdjudicated
<1>5. CASE \E w \in Triggered : FireTrigger(w)
  BY <1>5, FireTriggerHolds, ActorsAssumption
<1>6. CASE \E s \in Ruled : Rule(s)
  BY <1>6, RuleHolds, ActorsAssumption
<1>7. CASE \E w \in Weeks : StartPublication(w)
  BY <1>7, StartPublicationHolds
<1>8. CASE CommitPublication
  BY <1>8, CommitPublicationHolds
<1>9. CASE \E w \in 1..3 : Advance(w)
  BY <1>9, AdvanceHolds
<1>10. CASE \E s \in Slots : StartCorrection(s)
  BY <1>10, StartCorrectionHolds
<1>11. CASE BeginCorrection
  BY <1>11, BeginCorrectionHolds
<1>12. CASE FinishCorrection
  BY <1>12, FinishCorrectionHolds
<1>13. CASE UNCHANGED seriesVars
  <2>1. UNCHANGED <<pairing, out, round, match, results, calc, submitted, fired, premier,
                    opener, publisher, fixer, fixes>>
    BY <1>13 DEF seriesVars, tables
  <2>2. SeriesTypeOK'
    BY <2>1 DEF SeriesInv, SeriesTypeOK
  <2>3. /\ DrawnTogether' /\ MatchesOfPairings' /\ CalculationsOfMatches' /\ ResultsAreFinal'
        /\ DerivedFromResults' /\ OpeningHolds'
    BY <2>1 DEF SeriesInv, DrawnTogether, MatchesOfPairings, CalculationsOfMatches, ResultsAreFinal,
                DerivedFromResults, OpeningHolds, Made, IsCurrent
  <2>4. /\ ReadsHold' /\ BracketFollowsResults' /\ LineupsOfFinalists' /\ OpenWeeksAreComplete'
    BY <2>1 DEF SeriesInv, ReadsHold, Rewinding, BracketFollowsResults, LineupsOfFinalists,
                OpenWeeksAreComplete
  <2> QED BY <2>2, <2>3, <2>4 DEF SeriesInv
<1> QED BY <1>1, <1>2, <1>3, <1>4, <1>5, <1>6, <1>7, <1>8, <1>9, <1>10, <1>11, <1>12, <1>13
        DEF SeriesNext

LEMMA SeriesHolds == SeriesSpec => []SeriesInv
BY SeriesStarts, SeriesStep, PTL DEF SeriesSpec

\* The tables and the requests' working data have the types their columns and
\* dataclasses give them, whatever is opened, published or corrected.
THEOREM SeriesIsTyped == SeriesSpec => []SeriesTypeOK
<1>1. SeriesInv => SeriesTypeOK
  BY DEF SeriesInv
<1> QED BY <1>1, SeriesHolds, PTL

\* Pairings, eliminations and the premier are those of the official results as
\* they stand (finals.py advance_bracket, finals_review.py
\* correct_finals_result): a correction commits with its whole rewind.
THEOREM BracketIsDerived == SeriesSpec => []BracketFollowsResults
<1>1. SeriesInv => BracketFollowsResults
  BY DEF SeriesInv
<1> QED BY <1>1, SeriesHolds, PTL

\* A result's entries are its matchup's and its pairing's, though a rewind
\* rewrites both (finals_review.py: what is played is never rewound).
THEOREM ResultsStayWithPairings == SeriesSpec => []ResultsOfTheirPairing
<1>1. SeriesInv => ResultsOfTheirPairing
  BY DEF SeriesInv, ResultsOfTheirPairing, ResultsAreFinal, CalculationsOfMatches, MatchesOfPairings
<1> QED BY <1>1, SeriesHolds, PTL

\* Every lineup of a week is of an entry paired in it (finals.py submission's
\* check under the round's lock, and the rewind's refusal where lineups are in).
THEOREM LineupsStayWithPairings == SeriesSpec => []LineupsOfFinalists
<1>1. SeriesInv => LineupsOfFinalists
  BY DEF SeriesInv
<1> QED BY <1>1, SeriesHolds, PTL

\* A week is open only with all its pairings materialised, though they are
\* read before they are locked (finals.py open_finals_week).
THEOREM OpenWeeksHaveMatchups == SeriesSpec => []OpenWeeksAreComplete
<1>1. SeriesInv => OpenWeeksAreComplete
  BY DEF SeriesInv
<1> QED BY <1>1, SeriesHolds, PTL

-----------------------------------------------------------------------------
\* Who is out stays out.

FirstWeek ==
  /\ pairing["qf"] # None /\ pairing["qf"].home = 2 /\ pairing["qf"].away = 3
  /\ pairing["ef"] # None /\ pairing["ef"].home = 4 /\ pairing["ef"].away = 5

\* Nobody a knockout match put out is paired in a later week.
EliminatedAreOut ==
  \A w \in 1..3 : out[w] # None =>
    \A s \in Slots : WeekOf(s) > w /\ pairing[s] # None => out[w] \notin Entries(pairing[s])

\* No finalist is paired with itself.
NobodyMeetsHimself == \A s \in Slots : pairing[s] # None => pairing[s].home # pairing[s].away

LEMMA FirstWeekStarts == SeriesInit => FirstWeek
<1> SUFFICES ASSUME SeriesInit PROVE FirstWeek
  OBVIOUS
<1>1. /\ pairing["qf"] = AsPairing([home |-> 2, away |-> 3, from |-> <<>>], 1, FALSE)
      /\ pairing["ef"] = AsPairing([home |-> 4, away |-> 5, from |-> <<>>], 1, FALSE)
  BY DEF SeriesInit, Slots
<1>2. pairing["qf"] # None /\ pairing["ef"] # None
  <2>1. <<>> \in [SourcesOf("qf") -> Nat] /\ <<>> \in [SourcesOf("ef") -> Nat]
    BY SourceTable
  <2>2. pairing["qf"] = [home |-> 2, away |-> 3, from |-> <<>>, gen |-> 1, made |-> FALSE]
    BY <1>1 DEF AsPairing
  <2>3. pairing["ef"] = [home |-> 4, away |-> 5, from |-> <<>>, gen |-> 1, made |-> FALSE]
    BY <1>1 DEF AsPairing
  <2>4. pairing["qf"] \in PairingsOf("qf")
    BY <2>1, <2>2 DEF PairingsOf, Seed
  <2>5. pairing["ef"] \in PairingsOf("ef")
    BY <2>1, <2>3 DEF PairingsOf, Seed
  <2> QED BY <2>4, <2>5, AbsenceAssumption DEF Slots
<1> QED BY <1>1, <1>2 DEF FirstWeek, AsPairing

\* No step derives week 1's pairings, nor rewinds them.
LEMMA FirstWeekStep ==
  ASSUME SeriesInv, FirstWeek, [SeriesNext]_seriesVars
  PROVE  FirstWeek'
<1>1. CASE pairing' = pairing
  BY <1>1 DEF FirstWeek
<1>2. ASSUME \A s \in {"qf", "ef"} : pairing'[s] = pairing[s]
      PROVE  FirstWeek'
  BY <1>2 DEF FirstWeek
<1>3. CASE opener # None /\ \E p \in opener.todo : Materialise(p)
  <2>1. PICK p \in opener.todo : Materialise(p)
    BY <1>3
  <2> DEFINE s0 == p.slot
             made == [pairing[s0] EXCEPT !.made = TRUE]
  <2>2. pairing' = pairing \/ pairing' = [pairing EXCEPT ![s0] = made]
    <3>1. IsCurrent(p) => (pairing[s0].made \/ pairing[s0].gen = p.gen) = TRUE
      BY DEF IsCurrent
    <3> QED BY <2>1, <3>1 DEF Materialise
  <2>3. s0 \in Slots /\ pairing[s0] # None /\ pairing[s0] \in PairingsOf(s0)
    BY <1>3, SlotsOfWeeks DEF SeriesInv, SeriesTypeOK, OpeningHolds, Openings
  <2>4. /\ made \in PairingsOf(s0) /\ made # None
        /\ made.home = pairing[s0].home /\ made.away = pairing[s0].away
    BY <2>3, AbsenceAssumption DEF PairingsOf
  <2> HIDE DEF made
  <2>5. \A s \in {"qf", "ef"} : s \in Slots /\ pairing[s] # None
    BY DEF FirstWeek, Slots
  <2>6. \A s \in {"qf", "ef"} :
          /\ pairing'[s] # None
          /\ pairing'[s].home = pairing[s].home /\ pairing'[s].away = pairing[s].away
    BY <2>2, <2>3, <2>4, <2>5 DEF SeriesInv, SeriesTypeOK
  <2> QED BY <2>6 DEF FirstWeek
<1>4. CASE \E w \in 1..3 : Advance(w)
  <2>1. PICK w \in 1..3 : Advance(w)
    BY <1>4
  <2>2. \A s \in {"qf", "ef"} : s \in Slots /\ s \notin SlotsOf(w + 1)
    BY SourcesOfWeeks DEF Slots
  <2> QED BY <1>2, <2>1, <2>2 DEF Advance
<1>5. CASE BeginCorrection
  BY <1>2, <1>5 DEF BeginCorrection, CommitCorrection, Slots
<1>6. CASE FinishCorrection
  <2> DEFINE w == WeekOf(fixer.slot)
  <2>1. w \in 1..3
    BY <1>6, SlotsOfWeeks DEF FinishCorrection, Rewinding, SeriesInv, SeriesTypeOK, ReadsHold, Corrections, Weeks
  <2>2. \A s \in {"qf", "ef"} : s \in Slots /\ s \notin Affected(w)
    BY <2>1, SourcesOfWeeks DEF Slots, Affected
  <2>3. pairing' = pairing \/ CommitCorrection(w, Affected(w))
    BY <1>6 DEF FinishCorrection
  <2> QED BY <1>1, <1>2, <2>2, <2>3 DEF CommitCorrection
<1>7. CASE ~(\/ opener # None /\ \E p \in opener.todo : Materialise(p)
             \/ \E w \in 1..3 : Advance(w)
             \/ BeginCorrection \/ FinishCorrection)
  <2>1. pairing' = pairing
    BY <1>7 DEF SeriesNext, seriesVars, tables, OpenWeek, Transition, FinishOpening, Submit,
                SubmitAdjudicated, FirstSubmission, CorrectLineup, FireTrigger, Rule, StartPublication, CommitPublication, StartCorrection
  <2> QED BY <1>1, <2>1
<1> QED BY <1>3, <1>4, <1>5, <1>6, <1>7

\* Who goes on from a match and who does not, by its official result.
WinnerOf(s) == Winner(Latest(results[s]))
LoserOf(s) == Loser(Latest(results[s]))

\* One of the two goes on, the other is out.
LEMMA OneGoesOn ==
  ASSUME SeriesInv, NEW s \in Slots, results[s] # <<>>
  PROVE  /\ pairing[s] # None
         /\ WinnerOf(s) \in Entries(pairing[s]) /\ LoserOf(s) \in Entries(pairing[s])
         /\ pairing[s].home # pairing[s].away => WinnerOf(s) # LoserOf(s)
<1> DEFINE r == Latest(results[s])
<1>1. /\ pairing[s] # None /\ r.home = pairing[s].home /\ r.away = pairing[s].away
  BY DEF SeriesInv, ResultsAreFinal, CalculationsOfMatches, MatchesOfPairings, Made
<1> HIDE DEF r
<1>2. Winner(r) \in {r.home, r.away}
  BY DEF Winner
<1>3. Loser(r) = IF Winner(r) = r.home THEN r.away ELSE r.home
  BY DEF Loser
<1>4. Entries(pairing[s]) = {r.home, r.away}
  BY <1>1 DEF Entries
<1> QED BY <1>1, <1>2, <1>3, <1>4 DEF r, WinnerOf, LoserOf

\* The bracket, spelled out.
LEMMA BracketRows ==
  ASSUME SeriesInv
  PROVE  /\ pairing["second_semi"] # None =>
              /\ results["qf"] # <<>>
              /\ pairing["second_semi"].home = 1 /\ pairing["second_semi"].away = WinnerOf("qf")
         /\ pairing["first_semi"] # None =>
              /\ results["qf"] # <<>> /\ results["ef"] # <<>>
              /\ pairing["first_semi"].home = LoserOf("qf") /\ pairing["first_semi"].away = WinnerOf("ef")
         /\ pairing["preliminary"] # None =>
              /\ results["second_semi"] # <<>> /\ results["first_semi"] # <<>>
              /\ pairing["preliminary"].home = LoserOf("second_semi")
              /\ pairing["preliminary"].away = WinnerOf("first_semi")
         /\ pairing["grand_final"] # None =>
              /\ results["second_semi"] # <<>> /\ results["preliminary"] # <<>>
              /\ pairing["grand_final"].home = WinnerOf("second_semi")
              /\ pairing["grand_final"].away = WinnerOf("preliminary")
<1>1. \A s \in Slots \ {"qf", "ef"} : pairing[s] # None =>
        pairing[s].home = Derived(s, results).home /\ pairing[s].away = Derived(s, results).away
  BY DEF SeriesInv, BracketFollowsResults
<1>2. /\ Derived("second_semi", results).home = 1 /\ Derived("second_semi", results).away = WinnerOf("qf")
      /\ Derived("first_semi", results).home = LoserOf("qf") /\ Derived("first_semi", results).away = WinnerOf("ef")
  BY DEF Derived, WinnerOf, LoserOf
<1>3. /\ Derived("preliminary", results).home = LoserOf("second_semi")
      /\ Derived("preliminary", results).away = WinnerOf("first_semi")
      /\ Derived("grand_final", results).home = WinnerOf("second_semi")
      /\ Derived("grand_final", results).away = WinnerOf("preliminary")
  BY DEF Derived, WinnerOf, LoserOf
<1>4. /\ \A s \in SlotsOf(1 + 1) : pairing[s] # None => \A t \in Sources(1) : results[t] # <<>>
      /\ \A s \in SlotsOf(2 + 1) : pairing[s] # None => \A t \in Sources(2) : results[t] # <<>>
      /\ \A s \in SlotsOf(3 + 1) : pairing[s] # None => \A t \in Sources(3) : results[t] # <<>>
  BY DEF SeriesInv, DerivedFromResults
<1>5. /\ pairing["second_semi"] # None => results["qf"] # <<>>
      /\ pairing["first_semi"] # None => results["qf"] # <<>> /\ results["ef"] # <<>>
      /\ pairing["preliminary"] # None => results["second_semi"] # <<>> /\ results["first_semi"] # <<>>
      /\ pairing["grand_final"] # None => results["second_semi"] # <<>> /\ results["preliminary"] # <<>>
  BY <1>4, SlotTable
<1>6. {"second_semi", "first_semi", "preliminary", "grand_final"} \subseteq Slots \ {"qf", "ef"}
  BY DEF Slots
<1>7. /\ pairing["second_semi"] # None =>
           /\ results["qf"] # <<>>
           /\ pairing["second_semi"].home = 1 /\ pairing["second_semi"].away = WinnerOf("qf")
      /\ pairing["first_semi"] # None =>
           /\ results["qf"] # <<>> /\ results["ef"] # <<>>
           /\ pairing["first_semi"].home = LoserOf("qf") /\ pairing["first_semi"].away = WinnerOf("ef")
  BY <1>1, <1>2, <1>5, <1>6
<1>8. /\ pairing["preliminary"] # None =>
           /\ results["second_semi"] # <<>> /\ results["first_semi"] # <<>>
           /\ pairing["preliminary"].home = LoserOf("second_semi")
           /\ pairing["preliminary"].away = WinnerOf("first_semi")
      /\ pairing["grand_final"] # None =>
           /\ results["second_semi"] # <<>> /\ results["preliminary"] # <<>>
           /\ pairing["grand_final"].home = WinnerOf("second_semi")
           /\ pairing["grand_final"].away = WinnerOf("preliminary")
  BY <1>1, <1>3, <1>5, <1>6
<1> QED BY <1>7, <1>8

\* Week by week: the entries of a week are told apart, and the losers of the
\* knockout matches before are not among them.
LEMMA OutIsOut == SeriesInv /\ FirstWeek => EliminatedAreOut /\ NobodyMeetsHimself
<1> SUFFICES ASSUME SeriesInv, FirstWeek PROVE EliminatedAreOut /\ NobodyMeetsHimself
  OBVIOUS
<1> DEFINE e(t) == Entries(pairing[t])
           p(t) == pairing[t] # None
           d(t) == pairing[t].home # pairing[t].away
<1>1. \A t \in Slots : results[t] # <<>> =>
        p(t) /\ WinnerOf(t) \in e(t) /\ LoserOf(t) \in e(t) /\ (d(t) => WinnerOf(t) # LoserOf(t))
  BY OneGoesOn
<1>2. /\ e("qf") = {2, 3} /\ e("ef") = {4, 5} /\ d("qf") /\ d("ef")
  BY DEF FirstWeek, Entries
<1>3. /\ p("second_semi") => results["qf"] # <<>> /\ e("second_semi") = {1, WinnerOf("qf")}
                             /\ (1 # WinnerOf("qf") => d("second_semi"))
      /\ p("first_semi") => /\ results["qf"] # <<>> /\ results["ef"] # <<>>
                            /\ e("first_semi") = {LoserOf("qf"), WinnerOf("ef")}
                            /\ (LoserOf("qf") # WinnerOf("ef") => d("first_semi"))
  BY BracketRows DEF Entries
<1>4. /\ p("preliminary") => /\ results["second_semi"] # <<>> /\ results["first_semi"] # <<>>
                             /\ e("preliminary") = {LoserOf("second_semi"), WinnerOf("first_semi")}
                             /\ (LoserOf("second_semi") # WinnerOf("first_semi") => d("preliminary"))
      /\ p("grand_final") => /\ results["second_semi"] # <<>> /\ results["preliminary"] # <<>>
                             /\ e("grand_final") = {WinnerOf("second_semi"), WinnerOf("preliminary")}
                             /\ (WinnerOf("second_semi") # WinnerOf("preliminary") => d("grand_final"))
  BY BracketRows DEF Entries
<1>5. \A w \in 1..3 : out[w] # None => out[w] = LoserOf(Knockout(w)) /\ results[Knockout(w)] # <<>>
  BY DEF SeriesInv, BracketFollowsResults, DerivedFromResults, LoserOf
<1>6. {"qf", "ef", "second_semi", "first_semi", "preliminary", "grand_final"} = Slots
  BY DEF Slots
<1> HIDE DEF e, p, d
<1>7. /\ p("second_semi") => d("second_semi")
      /\ p("first_semi") => d("first_semi")
      /\ p("second_semi") /\ p("first_semi") => e("second_semi") \cap e("first_semi") = {}
  BY <1>1, <1>2, <1>3, <1>6
<1>8. /\ p("second_semi") /\ results["ef"] # <<>> => LoserOf("ef") \notin e("second_semi")
      /\ p("first_semi") => LoserOf("ef") \notin e("first_semi")
  BY <1>1, <1>2, <1>3, <1>6
<1>9. p("preliminary") => /\ p("second_semi") /\ p("first_semi")
                          /\ e("preliminary") \subseteq e("second_semi") \cup e("first_semi")
                          /\ d("preliminary")
                          /\ LoserOf("first_semi") \notin e("preliminary") \cup e("second_semi")
                          /\ WinnerOf("second_semi") \notin e("preliminary") \cup e("first_semi")
                          /\ WinnerOf("second_semi") \in e("second_semi")
  BY <1>1, <1>4, <1>6, <1>7
<1>10. p("grand_final") => /\ p("preliminary") /\ d("grand_final")
                           /\ e("grand_final") \subseteq e("preliminary") \cup e("second_semi")
                           /\ LoserOf("preliminary") \notin e("grand_final")
  BY <1>1, <1>4, <1>6, <1>9
<1>11. EliminatedAreOut
  <2> SUFFICES ASSUME NEW w \in 1..3, out[w] # None, NEW s \in Slots, WeekOf(s) > w, p(s)
               PROVE  out[w] \notin e(s)
    BY DEF EliminatedAreOut, p, e
  <2>1. out[w] = LoserOf(Knockout(w)) /\ results[Knockout(w)] # <<>>
    BY <1>5
  <2>2. \/ w = 1 /\ s \in {"second_semi", "first_semi", "preliminary", "grand_final"}
        \/ w = 2 /\ s \in {"preliminary", "grand_final"}
        \/ w = 3 /\ s = "grand_final"
    BY WeekTable, <1>6
  <2>3. CASE w = 1
    <3>1. out[w] = LoserOf("ef") /\ results["ef"] # <<>>
      BY <2>1, <2>3, SlotTable
    <3> QED BY <1>8, <1>9, <1>10, <2>2, <2>3, <3>1
  <2>4. CASE w = 2
    <3>1. out[w] = LoserOf("first_semi")
      BY <2>1, <2>4, SlotTable
    <3> QED BY <1>9, <1>10, <2>2, <2>4, <3>1
  <2>5. CASE w = 3
    <3>1. out[w] = LoserOf("preliminary")
      BY <2>1, <2>5, SlotTable
    <3> QED BY <1>10, <2>2, <2>5, <3>1
  <2> QED BY <2>3, <2>4, <2>5
<1>12. NobodyMeetsHimself
  <2>1. \A s \in Slots : p(s) => d(s)
    BY <1>2, <1>6, <1>7, <1>9, <1>10
  <2> QED BY <2>1 DEF NobodyMeetsHimself, p, d
<1> QED BY <1>11, <1>12

\* Nobody who lost a knockout match is paired again, and no finalist meets
\* itself, however often results are corrected and weeks rewound
\* (finals.py _derive, finals_review.py correct_finals_result).
THEOREM OutForGood == SeriesSpec => [](EliminatedAreOut /\ NobodyMeetsHimself)
<1>1. SeriesInv /\ FirstWeek /\ [SeriesNext]_seriesVars => (SeriesInv /\ FirstWeek)'
  BY SeriesStep, FirstWeekStep
<1> QED BY <1>1, SeriesStarts, FirstWeekStarts, OutIsOut, PTL DEF SeriesSpec
=============================================================================
