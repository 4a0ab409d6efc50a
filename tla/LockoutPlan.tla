----------------------------- MODULE LockoutPlan -----------------------------
(***************************************************************************)
(* The lockout plan of one ordinary round: its accepted AFL mapping, its    *)
(* triggers and their activations, from before the round exists to the end  *)
(* of its lineups: LockoutTriggerRepository and the trigger half of         *)
(* LockoutRepository in app/lockouts.py, app/round_mapping.py, the writes   *)
(* of app/round_preflight.py, and the opening of a round in                 *)
(* app/competition_lifecycle.py.                                            *)
(*                                                                          *)
(* An operator's decision is a process: a page that shows the plan, checks  *)
(* made before any lock (they call afl-api), and one guarded transaction.   *)
(* An observation is a process too: it fetches match facts without a lock,  *)
(* then takes the row of bbbffl_round and fires the triggers.  Every writer *)
(* takes that row first, so a decision is one step; an observation keeps    *)
(* the row over two, because it reads the plan and fires it one trigger at  *)
(* a time.                                                                  *)
(***************************************************************************)
EXTENDS Integers, Sequences, LockoutRules

CONSTANTS
  Keys,          \* trigger keys
  Matches,       \* AFL matches
  AflRounds,     \* AFL rounds the round may be mapped to
  RoundMatches,  \* [AflRounds -> SUBSET Matches]
  Configs,       \* the trigger configurations an operator may submit
  Operators,     \* concurrent operator decisions
  Tasks,         \* [Operators -> SUBSET TaskNames]: what each decision may be
  Observers,     \* concurrent observations
  Nobody,        \* no lock holder
  MaxMapping, MaxRevision
    \* bounds: mapping revisions, revisions of each trigger

TaskNames == {"map", "configure", "remove"}

Config == [kind : {"selective", "main"}, sequence : Nat,
           matches : SUBSET Matches \ {{}}]

ASSUME PlanAssumption ==
  /\ AflRounds # {} /\ RoundMatches \in [AflRounds -> SUBSET Matches]
  /\ Configs \subseteq Config
  /\ Tasks \in [Operators -> SUBSET TaskNames]
  /\ Nobody \notin Observers
  /\ MaxMapping \in Nat /\ MaxRevision \in Nat

VARIABLES
  stage,        \* bbbffl_round_lifecycle.state, "none" before the row exists
  frozen,       \* the mapping revision snapshotted in that row
  mapping,      \* the accepted mapping: [revision, round], revision 0 for none
  begun,        \* matches past their lock boundary, by status or by the clock
  plan,         \* [Keys -> header]: revisions of a trigger and its removal
  activated,    \* [Keys -> Nat]: the revision an activation row names, 0 for none
  roundLock,    \* who holds the row of bbbffl_round
  decision,     \* [Operators -> a decision under way]
  observation   \* [Observers -> an observation under way]

planVars == <<stage, frozen, mapping, begun, plan, activated, roundLock,
              decision, observation>>

Stages == {"none", "upcoming", "open", "live", "review"}

\* A trigger's header row with its revisions; it was never created while it
\* has none, and current_revision is their number.
Header == [history : Seq(Configs), removed : BOOLEAN]

Revision(k) == Len(plan[k].history)
Current(k) == plan[k].history[Revision(k)]
Listed(k) == Revision(k) > 0 /\ ~plan[k].removed

Mapping == [revision : Nat, round : AflRounds]

\* What a decision holds: the header or the mapping its page showed, and once
\* checked the mapping revision and the matches its checks were made against.
Idle == [phase |-> "idle"]

Decision ==
  {Idle} \cup
  [phase : {"loaded"}, task : {"map"}, key : Keys, seen : Mapping] \cup
  [phase : {"loaded"}, task : {"configure", "remove"}, key : Keys, seen : Header] \cup
  [phase : {"checked"}, task : {"map"}, key : Keys, seen : Mapping,
   mapping : Nat, members : SUBSET Matches] \cup
  [phase : {"checked"}, task : {"configure"}, key : Keys, seen : Header,
   mapping : Nat, members : SUBSET Matches]

\* What an observation holds: the mapping revision its facts came from, the
\* mapped matches it saw begun, and the triggers it read under the round lock.
Observation == [phase : {"idle", "fetched", "reading", "done"}, mapping : Nat,
                facts : SUBSET Matches, triggers : SUBSET Keys]

NoObservation == [phase |-> "idle", mapping |-> 0, facts |-> {}, triggers |-> {}]

PlanInit ==
  /\ stage = "none" /\ frozen = 0
  /\ mapping = [revision |-> 0, round |-> CHOOSE r \in AflRounds : TRUE]
  /\ begun = {}
  /\ plan = [k \in Keys |-> [history |-> <<>>, removed |-> FALSE]]
  /\ activated = [k \in Keys |-> 0]
  /\ roundLock = Nobody
  /\ decision = [o \in Operators |-> Idle]
  /\ observation = [b \in Observers |-> NoObservation]
-----------------------------------------------------------------------------
(***************************************************************************)
(* AFL matches: a match begins by status or by its scheduled start; one     *)
(* that has not been played may be rescheduled.                             *)
(***************************************************************************)
MatchBegins(m) ==
  /\ m \notin begun
  /\ begun' = begun \cup {m}
  /\ UNCHANGED <<stage, frozen, mapping, plan, activated, roundLock, decision, observation>>

MatchRescheduled(m) ==
  /\ m \in begun
  /\ begun' = begun \ {m}
  /\ UNCHANGED <<stage, frozen, mapping, plan, activated, roundLock, decision, observation>>

(***************************************************************************)
(* The round: its creation snapshots the accepted mapping under the round   *)
(* row, its opening checks that the snapshot is still the accepted one.     *)
(***************************************************************************)
CreateRound ==
  /\ roundLock = Nobody /\ stage = "none" /\ mapping.revision > 0
  /\ stage' = "upcoming"
  /\ frozen' = mapping.revision
  /\ UNCHANGED <<mapping, begun, plan, activated, roundLock, decision, observation>>

FrozenContextValid == mapping.revision = frozen

OpenRound ==
  /\ stage = "upcoming" /\ FrozenContextValid
  /\ stage' = "open"
  /\ UNCHANGED <<frozen, mapping, begun, plan, activated, roundLock, decision, observation>>
-----------------------------------------------------------------------------
(***************************************************************************)
(* Operator decisions.  The page sends back the revision it showed.         *)
(***************************************************************************)
LoadPage(o) ==
  /\ decision[o] = Idle
  /\ \E t \in Tasks[o], k \in Keys :
       decision' = [decision EXCEPT ![o] =
         [phase |-> "loaded", task |-> t, key |-> k,
          seen |-> IF t = "map" THEN mapping ELSE plan[k]]]
  /\ UNCHANGED <<stage, frozen, mapping, begun, plan, activated, roundLock, observation>>

\* accept_preflight_mapping asks, without a lock, that the round has no
\* lifecycle row, and then asks afl-api for the new AFL round;
\* configure_preflight_trigger reads the accepted mapping and its matches.
Check(o) ==
  /\ decision[o].phase = "loaded" /\ decision[o].task # "remove"
  /\ IF decision[o].task = "map" THEN stage = "none" ELSE mapping.revision > 0
  /\ decision' = [decision EXCEPT ![o] =
       [phase |-> "checked", task |-> @.task, key |-> @.key, seen |-> @.seen,
        mapping |-> mapping.revision, members |-> RoundMatches[mapping.round]]]
  /\ UNCHANGED <<stage, frozen, mapping, begun, plan, activated, roundLock, observation>>

DecideUnlocked(o) ==   \* mutant of Decide
  /\ decision' = [decision EXCEPT ![o] = Idle]
  /\ UNCHANGED <<stage, frozen, begun, activated, roundLock, observation>>

\* Every transaction below takes the round row first and ends its decision.
Decide(o) ==
  /\ roundLock = Nobody
  /\ decision' = [decision EXCEPT ![o] = Idle]
  /\ UNCHANGED <<stage, frozen, begun, activated, roundLock, observation>>

\* The optimistic concurrency check compares revision numbers.
SameRevision(header, k) == Len(header.history) = Revision(k)

ActivateMapping(o) ==
  /\ decision[o].phase = "checked" /\ decision[o].task = "map"
  /\ decision[o].seen.revision = mapping.revision
  /\ mapping.revision < MaxMapping
  /\ \E r \in AflRounds : mapping' = [revision |-> mapping.revision + 1, round |-> r]
  /\ Decide(o)
  /\ UNCHANGED plan

AnyMapping(d) == TRUE   \* mutant of SameMapping

\* The mapping revision compared again under the lock.
SameMapping(d) == d.mapping = mapping.revision

\* What a configuration is checked against: the other triggers of the plan.
Others(k) == {Current(j) : j \in {i \in Keys \ {k} : Listed(i)}}

\* A configuration is a new revision, and takes a removed trigger back.
Configured(k, c) == [history |-> Append(plan[k].history, c), removed |-> FALSE]

ConfigureTrigger(o) ==
  LET d == decision[o] k == d.key IN
  /\ d.phase = "checked" /\ d.task = "configure"
  /\ SameMapping(d) /\ SameRevision(d.seen, k)
  /\ activated[k] = 0
  /\ Revision(k) < MaxRevision
  /\ \E c \in Configs :
       /\ c.matches \subseteq d.members
       /\ WellPlaced(c, Others(k))
       /\ plan' = [plan EXCEPT ![k] = Configured(k, c)]
  /\ Decide(o)
  /\ UNCHANGED mapping

RemovedInPlace(k) ==   \* mutant of Removed
  [history |-> plan[k].history, removed |-> TRUE]

\* Removal is a revision of its own, with the configuration it removes.
Removed(k) == [history |-> Append(plan[k].history, Current(k)), removed |-> TRUE]

RemoveTrigger(o) ==
  LET d == decision[o] k == d.key IN
  /\ d.phase = "loaded" /\ d.task = "remove"
  /\ SameRevision(d.seen, k)
  /\ Listed(k) /\ activated[k] = 0
  /\ Revision(k) < MaxRevision
  /\ plan' = [plan EXCEPT ![k] = Removed(k)]
  /\ Decide(o)
  /\ UNCHANGED mapping

\* A refusal, an afl-api failure, a page closed or a lost connection.
DropDecision(o) ==
  /\ decision[o] # Idle
  /\ decision' = [decision EXCEPT ![o] = Idle]
  /\ UNCHANGED <<stage, frozen, mapping, begun, plan, activated, roundLock, observation>>
-----------------------------------------------------------------------------
(***************************************************************************)
(* Observations: every page and every lineup request makes one.             *)
(***************************************************************************)
Fetch(b) ==
  /\ observation[b].phase = "idle" /\ mapping.revision > 0
  /\ observation' = [observation EXCEPT ![b] =
       [phase |-> "fetched", mapping |-> mapping.revision,
        facts |-> begun \cap RoundMatches[mapping.round], triggers |-> {}]]
  /\ UNCHANGED <<stage, frozen, mapping, begun, plan, activated, roundLock, decision>>

RoundFree(b) == roundLock \in {Nobody, b}

ReadTriggers(b) ==
  /\ observation[b].phase = "fetched" /\ RoundFree(b) /\ SameMapping(observation[b])
  /\ roundLock' = b
  /\ observation' = [observation EXCEPT ![b].phase = "reading",
                                        ![b].triggers = {k \in Keys : Listed(k)}]
  /\ UNCHANGED <<stage, frozen, mapping, begun, plan, activated, decision>>

Fires(k, b) ==
  /\ k \in observation[b].triggers /\ activated[k] = 0
  /\ Current(k).matches \cap observation[b].facts # {}

FireTriggers(b) ==
  /\ observation[b].phase = "reading"
  /\ activated' = [k \in Keys |-> IF Fires(k, b) THEN Revision(k) ELSE activated[k]]
  /\ roundLock' = Nobody
  /\ observation' = [observation EXCEPT ![b] = [NoObservation EXCEPT !.phase = "done"]]
  /\ UNCHANGED <<stage, frozen, mapping, begun, plan, decision>>

Return(b) ==
  /\ observation[b].phase = "done"
  /\ observation' = [observation EXCEPT ![b] = NoObservation]
  /\ UNCHANGED <<stage, frozen, mapping, begun, plan, activated, roundLock, decision>>

\* The mapping moved, afl-api failed or the connection was lost.
DropObservation(b) ==
  /\ observation[b].phase \in {"fetched", "reading"}
  /\ observation' = [observation EXCEPT ![b] = NoObservation]
  /\ roundLock' = IF roundLock = b THEN Nobody ELSE roundLock
  /\ UNCHANGED <<stage, frozen, mapping, begun, plan, activated, decision>>
-----------------------------------------------------------------------------
AflStep == \E m \in Matches : MatchBegins(m) \/ MatchRescheduled(m)

DecisionStep(o) ==
  \/ LoadPage(o) \/ Check(o) \/ ActivateMapping(o)
  \/ ConfigureTrigger(o) \/ RemoveTrigger(o) \/ DropDecision(o)

ObservationStep(b) ==
  \/ Fetch(b) \/ ReadTriggers(b) \/ FireTriggers(b) \/ Return(b) \/ DropObservation(b)

PlanNext ==
  \/ AflStep \/ CreateRound \/ OpenRound
  \/ \E o \in Operators : DecisionStep(o)
  \/ \E b \in Observers : ObservationStep(b)

PlanSpec == PlanInit /\ [][PlanNext]_planVars
-----------------------------------------------------------------------------
(***************************************************************************)
(* Properties.                                                              *)
(***************************************************************************)
PlanTypeOK ==
  /\ stage \in Stages /\ frozen \in Nat
  /\ mapping \in Mapping
  /\ begun \subseteq Matches
  /\ plan \in [Keys -> Header]
  /\ activated \in [Keys -> Nat]
  /\ roundLock \in Observers \cup {Nobody}
  /\ decision \in [Operators -> Decision]
  /\ observation \in [Observers -> Observation]

\* What a trigger locked can never change afterwards: an activated trigger is
\* neither reconfigured nor removed, whichever of an operator and an
\* observation comes first (lockouts.py "Historical irreversibility" and
\* _remove_locked).
ActivatedPlanFrozen ==
  \A k \in Keys : activated[k] # 0 => activated[k] = Revision(k) /\ ~plan[k].removed

\* The plan has one main trigger at most, every selective trigger precedes it
\* and no sequence is used twice, across configurations, removals and
\* reconfigurations of removed triggers (_configure_locked).
PlanWellOrdered ==
  \A j, k \in Keys :
    j # k /\ Listed(j) /\ Listed(k) =>
      /\ Current(j).sequence # Current(k).sequence
      /\ Current(j).kind = "main" => Current(k).kind = "selective"
      /\ Current(j).kind = "main" => Current(k).sequence < Current(j).sequence

\* A decision changes a trigger only from the state its operator was shown:
\* never a trigger created and removed, or removed and created again, behind
\* the page (the ABA comments of _configure_locked and _remove_locked).
Shown(k) ==
  \E o \in Operators : decision[o] # Idle /\ decision'[o] = Idle
                       /\ decision[o].key = k /\ decision[o].seen = plan[k]

DecisionsSeeTheirTrigger == [][\A k \in Keys : plan'[k] # plan[k] => Shown(k)]_planVars

\* A trigger is configured from matches of the AFL round accepted at that
\* moment, although membership was checked before the lock was taken
\* (configure_preflight_trigger, expected_mapping_revision).
ConfiguredFromMapping ==
  [][\A k \in Keys :
       plan'[k] # plan[k] /\ ~plan'[k].removed =>
         Current(k)'.matches \subseteq RoundMatches[mapping'.round]]_planVars

\* A trigger fires on a match of the configuration in force that belongs to
\* the AFL round accepted at that moment: facts fetched under a superseded
\* mapping fire nothing (_materialize_round_triggers).
TriggersFireOnTheirRound ==
  [][\A k \in Keys :
       activated'[k] # activated[k] =>
         Current(k).matches \cap RoundMatches[mapping.round] # {}]_planVars

\* What is configured and what fires belongs to the accepted mapping, although
\* both were decided on what was fetched before the round's row was taken.
FollowsMapping == ConfiguredFromMapping /\ TriggersFireOnTheirRound

\* docs/competition-lifecycle.md: the mapping revision a round was created
\* from is frozen in it, and opening is serialised against corrections; so an
\* open round keeps the mapping it froze (accept_preflight_mapping).
FrozenMappingStands == stage = "open" => FrozenContextValid
=============================================================================
