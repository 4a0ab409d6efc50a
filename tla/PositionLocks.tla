---------------------------- MODULE PositionLocks ----------------------------
(***************************************************************************)
(* One entry's weekly lineup under the lockout plan of its round: the       *)
(* lineup half of LockoutRepository in app/lockouts.py and the submission   *)
(* and correction paths of app/lineups.py.  Every request first observes    *)
(* the triggers (LockoutPlan), then records lock evidence for the effective *)
(* lineup, and only then opens the transaction that accepts or refuses its  *)
(* own change.                                                              *)
(*                                                                          *)
(* The evidence transaction reads the effective lineup without a lock and   *)
(* fetches the matches before it inserts, so it takes two steps; a guarded  *)
(* submission takes two, because the guard fetches the matches while the    *)
(* rows of the lineup and of the round's lifecycle are held.                *)
(***************************************************************************)
EXTENDS LockoutPlan

CONSTANTS
  Slots,         \* positions of the lineup
  Players, Vacant,
  Sheets,        \* the sheets a request may propose, in [Slots -> Players or Vacant]
  NoMatch,       \* a player whose club has no match in the AFL round
  PlaysIn,       \* [AflRounds -> [Players -> Matches or NoMatch]]
  Roles,         \* [Observers -> SUBSET RoleNames]: what each request may end as
  InitialPlan,   \* the plan when the round opened
  MaxLineup      \* bound: versions of the lineup

RoleNames == {"view", "submit", "correct"}

Occupant == Players \cup {Vacant}
Sheet == [Slots -> Occupant]
EmptySheet == [p \in Slots |-> Vacant]

ASSUME LineupAssumption ==
  /\ Vacant \notin Players /\ NoMatch \notin Matches
  /\ Sheets \subseteq Sheet
  /\ PlaysIn \in [AflRounds -> [Players -> Matches \cup {NoMatch}]]
  /\ Roles \in [Observers -> SUBSET RoleNames]
  /\ InitialPlan \in [Keys -> Header] /\ MaxLineup \in Nat

VARIABLES
  lineup,       \* [version, slots]: the effective submission
  evidence,     \* weekly_lineup_lock: [Slots -> the player it names, or Vacant]
  corrections,  \* weekly_lineup_correction: the positions each marks was_locked
  rowLock,      \* who holds the lineup's row (and the round's lifecycle row)
  entry         \* [Observers -> a lineup request under way]

lineupVars == <<lineup, evidence, corrections, rowLock, entry>>
vars == <<planVars, lineupVars>>

\* What a request holds: the version its page showed, the sheet it read or
\* proposes, and the triggers that had fired when its own observation ended.
NoEntry == [phase |-> "idle", expected |-> 0, sheet |-> EmptySheet, since |-> {}]

Entry == [phase : {"idle", "observing", "recording", "ready", "guarded"},
          expected : Nat, sheet : Sheet, since : SUBSET Keys]

Init ==
  /\ stage = "open" /\ frozen = 1
  /\ mapping \in [revision : {1}, round : AflRounds]
  /\ begun = {}
  /\ plan = InitialPlan
  /\ activated = [k \in Keys |-> 0]
  /\ roundLock = Nobody
  /\ decision = [o \in Operators |-> Idle]
  /\ observation = [b \in Observers |-> NoObservation]
  /\ lineup = [version |-> 0, slots |-> EmptySheet]
  /\ evidence = EmptySheet
  /\ corrections = <<>>
  /\ rowLock = Nobody
  /\ entry = [b \in Observers |-> NoEntry]
-----------------------------------------------------------------------------
(***************************************************************************)
(* How a position evaluates.  A trigger covers what its configuration at    *)
(* the activated revision names.                                            *)
(***************************************************************************)
Fired == {k \in Keys : activated[k] # 0}
HasPlan == \E k \in Keys : Listed(k)
At(k) == plan[k].history[activated[k]]

LockedMatches(fired) == UNION {At(k).matches : k \in {j \in fired : At(j).kind = "selective"}}
MainActivated(fired) == \E k \in fired : At(k).kind = "main"

MatchOf(player) == PlaysIn[mapping.round][player]

Covered(player, fired) ==
  \/ MainActivated(fired)
  \/ player # Vacant /\ MatchOf(player) \in LockedMatches(fired)

\* The immutable row wins over anything computed afresh.
Evidenced(p, player) == evidence[p] # Vacant /\ player \in {evidence[p], Vacant}

\* A club without a match is a bye only when afl-api confirms it.
Indeterminate(player, byes) ==
  player # Vacant /\ (~HasPlan \/ (MatchOf(player) = NoMatch /\ ~byes))

Fixed(p, player, byes) ==
  Evidenced(p, player) \/ Indeterminate(player, byes) \/ Covered(player, Fired)

Invalid(p, player, byes) ==
  player # Vacant /\ MatchOf(player) = NoMatch /\ ~Fixed(p, player, byes)

OldOnlyGuard(old, new, byes) ==   \* mutant of GuardTransition
  \A p \in Slots : old[p] # new[p] => ~Fixed(p, old[p], byes)

GuardTransition(old, new, byes) ==
  \A p \in Slots :
    /\ old[p] # new[p] => ~Fixed(p, old[p], byes)
    /\ old[p] = new[p] => ~Invalid(p, old[p], byes)
    /\ new[p] \notin {old[p], Vacant} =>
         ~Fixed(p, new[p], byes) /\ ~Invalid(p, new[p], byes)
-----------------------------------------------------------------------------
(***************************************************************************)
(* Requests on the lineup.                                                  *)
(***************************************************************************)
Begin(b) ==
  /\ entry[b].phase = "idle"
  /\ entry' = [entry EXCEPT ![b].phase = "observing", ![b].expected = lineup.version]
  /\ Fetch(b)
  /\ UNCHANGED <<lineup, evidence, corrections, rowLock>>

Observe(b) == (ReadTriggers(b) \/ FireTriggers(b)) /\ UNCHANGED lineupVars

\* A lineup that was never submitted has nothing to record.
ReadEffective(b) ==
  /\ entry[b].phase = "observing" /\ observation[b].phase = "done"
  /\ entry' = [entry EXCEPT ![b].phase = IF lineup.version = 0 THEN "ready" ELSE "recording",
                            ![b].sheet = lineup.slots, ![b].since = Fired]
  /\ UNCHANGED <<lineup, evidence, corrections, rowLock, planVars>>

\* The positions whose lock is recorded now; a position keeps its first row.
Materialized(sheet) ==
  {p \in Slots : /\ evidence[p] = Vacant /\ sheet[p] # Vacant
                 /\ HasPlan /\ MatchOf(sheet[p]) # NoMatch
                 /\ Covered(sheet[p], Fired)}

NoForeignKey == TRUE   \* mutant of RowFree

\* An inserted row refers to the lineup's row, so the insert waits for it.
RowFree == rowLock = Nobody

RecordEvidence(b) ==
  LET recorded == Materialized(entry[b].sheet) IN
  /\ entry[b].phase = "recording"
  /\ recorded = {} \/ RowFree
  /\ evidence' = [p \in Slots |-> IF p \in recorded THEN entry[b].sheet[p] ELSE evidence[p]]
  /\ entry' = [entry EXCEPT ![b].phase = "ready", ![b].sheet = EmptySheet]
  /\ UNCHANGED <<lineup, corrections, rowLock, planVars>>

EndRequest(b) ==
  /\ entry' = [entry EXCEPT ![b] = NoEntry]
  /\ rowLock' = IF rowLock = b THEN Nobody ELSE rowLock

Answer(b) ==
  /\ entry[b].phase = "ready" /\ "view" \in Roles[b]
  /\ Return(b) /\ EndRequest(b)
  /\ UNCHANGED <<lineup, evidence, corrections>>

\* A write takes the lineup's row and compares the version.
Writable(b) ==
  /\ rowLock = Nobody
  /\ lineup.version = entry[b].expected /\ lineup.version < MaxLineup

Guard(b) ==
  /\ entry[b].phase = "ready" /\ "submit" \in Roles[b]
  /\ Writable(b) /\ stage \in {"open", "live"}
  /\ \E new \in Sheets, byes \in BOOLEAN :
       /\ GuardTransition(lineup.slots, new, byes)
       /\ entry' = [entry EXCEPT ![b].phase = "guarded", ![b].sheet = new]
  /\ rowLock' = b
  /\ UNCHANGED <<lineup, evidence, corrections, planVars>>

NewVersion(sheet) == lineup' = [version |-> lineup.version + 1, slots |-> sheet]

Commit(b) ==
  /\ entry[b].phase = "guarded"
  /\ NewVersion(entry[b].sheet)
  /\ Return(b) /\ EndRequest(b)
  /\ UNCHANGED <<evidence, corrections>>

MarkedByOccupant(changed) ==   \* mutant of Marked
  {p \in changed : \/ evidence[p] # Vacant /\ evidence[p] = lineup.slots[p]
                   \/ lineup.slots[p] = Vacant /\ MainActivated(Fired)}

\* The changed positions recorded as was_locked: those with evidence, and the
\* vacancies an activated main trigger closed.
Marked(changed) ==
  {p \in changed : \/ evidence[p] # Vacant
                   \/ lineup.slots[p] = Vacant /\ MainActivated(Fired)}

\* An authorised correction is not guarded; what it overrides is recorded.
CorrectLineup(b) ==
  /\ entry[b].phase = "ready" /\ "correct" \in Roles[b]
  /\ Writable(b) /\ lineup.version > 0 /\ stage \in {"open", "live", "review"}
  /\ \E new \in Sheets :
       LET changed == {p \in Slots : new[p] # lineup.slots[p]} IN
       /\ changed # {}
       /\ NewVersion(new)
       /\ corrections' = Append(corrections, Marked(changed))
  /\ Return(b) /\ EndRequest(b)
  /\ UNCHANGED evidence

\* A refusal, an afl-api failure or a lost connection, at any point.
DropEntry(b) ==
  /\ entry[b].phase # "idle"
  /\ EndRequest(b)
  /\ observation' = [observation EXCEPT ![b] = NoObservation]
  /\ roundLock' = IF roundLock = b THEN Nobody ELSE roundLock
  /\ UNCHANGED <<lineup, evidence, corrections, stage, frozen, mapping, begun, plan,
                 activated, decision>>

\* The lifecycle row is held by whoever holds the lineup's row.
Advance ==
  /\ rowLock = Nobody
  /\ \/ stage = "open" /\ stage' = "live"
     \/ stage = "live" /\ stage' = "review"
  /\ UNCHANGED <<lineupVars, frozen, mapping, begun, plan, activated, roundLock, decision,
                 observation>>

\* What an operator's decision does to the plan, from a page that is current
\* (LockoutPlan has the decision itself).
PlanEdited ==
  /\ roundLock = Nobody
  /\ \E k \in Keys :
       /\ activated[k] = 0 /\ Revision(k) < MaxRevision
       /\ \/ Listed(k) /\ plan' = [plan EXCEPT ![k] = Removed(k)]
          \/ \E c \in Configs : WellPlaced(c, Others(k)) /\ plan' = [plan EXCEPT ![k] = Configured(k, c)]
  /\ UNCHANGED <<lineupVars, stage, frozen, mapping, begun, activated, roundLock, decision,
                 observation>>
-----------------------------------------------------------------------------
RequestStep(b) ==
  \/ Begin(b) \/ Observe(b) \/ ReadEffective(b) \/ RecordEvidence(b) \/ Answer(b)
  \/ Guard(b) \/ Commit(b) \/ CorrectLineup(b) \/ DropEntry(b)

Next ==
  \/ AflStep /\ UNCHANGED lineupVars
  \/ Advance \/ PlanEdited
  \/ \E b \in Observers : RequestStep(b)

Spec == Init /\ [][Next]_vars
-----------------------------------------------------------------------------
(***************************************************************************)
(* Properties.                                                              *)
(***************************************************************************)
\* Types, and the row of the lineup is held exactly from a guard to its commit.
LockTypeOK ==
  /\ PlanTypeOK
  /\ lineup \in [version : Nat, slots : Sheet]
  /\ evidence \in Sheet
  /\ corrections \in Seq(SUBSET Slots)
  /\ rowLock \in Observers \cup {Nobody}
  /\ entry \in [Observers -> Entry]
  /\ \A b \in Observers : rowLock = b <=> entry[b].phase = "guarded"

\* The submission b commits in this step, if it does.
Commits(b) == entry[b].phase = "guarded" /\ lineup' # lineup

Changes(p) == lineup'.slots[p] # lineup.slots[p]

\* An ordinary submission never moves a player whose lock has been recorded,
\* even by a request that records it between the guard and the commit
\* (guard_transition under the row of weekly_lineup, _insert_lock).
SubmissionKeepsEvidence ==
  [][\A b \in Observers, p \in Slots :
       Commits(b) /\ Changes(p) => ~Evidenced(p, lineup.slots[p])]_vars

\* An ordinary submission neither changes a position nor adds a player that a
\* trigger covered when the submission's own observation ended, whatever was
\* submitted, corrected or fired since (lockouts.py "Concurrency", the
\* new-player rule of guard_transition).
SubmissionKeepsEarlierLocks ==
  [][\A b \in Observers, p \in Slots :
       Commits(b) /\ Changes(p) =>
         /\ ~Covered(lineup.slots[p], entry[b].since)
         /\ lineup'.slots[p] # Vacant => ~Covered(lineup'.slots[p], entry[b].since)]_vars

\* What the correction that this step commits must have recorded.
CorrectionMarks(governed(_, _)) ==
  \A b \in Observers, p \in Slots :
    corrections' # corrections /\ entry'[b] # entry[b] /\ Changes(p)
      /\ governed(p, entry[b].since)
    => p \in corrections'[Len(corrections')]

\* A correction records as was_locked every position it changes that a
\* trigger covered when the correction's own observation ended, a position
\* corrected before and a vacancy included, unless the player's club has no
\* match (submit_correction).
ResolvedAndCovered(p, fired) ==
  /\ Covered(lineup.slots[p], fired)
  /\ lineup.slots[p] # Vacant => MatchOf(lineup.slots[p]) # NoMatch

LockedCorrectionsMarked == [][CorrectionMarks(ResolvedAndCovered)]_vars

\* docs/weekly-lineups.md: a correction records "whether the position was
\* locked"; a position the main trigger closed is locked whoever holds it.
EveryCovered(p, fired) == Covered(lineup.slots[p], fired)

EveryLockedCorrectionMarked == [][CorrectionMarks(EveryCovered)]_vars
=============================================================================
