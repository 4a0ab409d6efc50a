-------------------------- MODULE LockoutPlanProofs --------------------------
(***************************************************************************)
(* Proofs about the lockout plan, for any triggers, matches, operators,     *)
(* observers and bounds, and about an entry's lineup under it (PositionLocks *)
(* composes the plan's observations with the requests on the lineup).       *)
(***************************************************************************)
EXTENDS PositionLocks, TLAPS

-----------------------------------------------------------------------------
\* Types.

LEMMA DecisionShape ==
  ASSUME PlanTypeOK, NEW o \in Operators, decision[o] # Idle
  PROVE  /\ decision[o].phase \in {"loaded", "checked"}
         /\ decision[o].key \in Keys
         /\ decision[o].task \in TaskNames
         /\ decision[o].task = "map" => decision[o].seen \in Mapping
         /\ decision[o].task # "map" => decision[o].seen \in Header
         /\ decision[o].phase = "checked" =>
              decision[o].mapping \in Nat /\ decision[o].members \in SUBSET Matches
BY DEF PlanTypeOK, Decision, TaskNames

LEMMA NotIdle ==
  ASSUME NEW d, d.phase \in {"loaded", "checked"}
  PROVE  d # Idle
BY DEF Idle

LEMMA PlanInitTyped == PlanInit => PlanTypeOK
<1> SUFFICES ASSUME PlanInit PROVE PlanTypeOK
  OBVIOUS
<1>1. mapping \in Mapping
  <2>1. AflRounds # {}
    BY PlanAssumption
  <2>2. (CHOOSE r \in AflRounds : TRUE) \in AflRounds
    BY <2>1
  <2> QED BY <2>2 DEF PlanInit, Mapping
<1>2. plan \in [Keys -> Header] /\ activated \in [Keys -> Nat]
  BY DEF PlanInit, Header
<1>3. decision \in [Operators -> Decision]
  BY DEF PlanInit, Decision
<1>4. observation \in [Observers -> Observation]
  BY DEF PlanInit, Observation, NoObservation
<1> QED BY <1>1, <1>2, <1>3, <1>4 DEF PlanInit, PlanTypeOK, Stages

LEMMA HeaderGrows ==
  ASSUME PlanTypeOK, NEW k \in Keys
  PROVE  /\ Revision(k) \in Nat
         /\ \A c \in Configs :
              /\ Configured(k, c) \in Header
              /\ Len(Configured(k, c).history) = Revision(k) + 1
              /\ Configured(k, c).history[Revision(k) + 1] = c
              /\ ~Configured(k, c).removed
         /\ Listed(k) =>
              /\ Current(k) \in Configs
              /\ Removed(k) \in Header
              /\ Len(Removed(k).history) = Revision(k) + 1
              /\ Removed(k).removed
<1>1. plan[k].history \in Seq(Configs)
  BY DEF PlanTypeOK, Header
<1>2. Revision(k) \in Nat
  BY <1>1 DEF Revision
<1>3. ASSUME NEW c \in Configs
      PROVE  /\ Append(plan[k].history, c) \in Seq(Configs)
             /\ Len(Append(plan[k].history, c)) = Revision(k) + 1
             /\ Append(plan[k].history, c)[Revision(k) + 1] = c
  BY <1>1, <1>3 DEF Revision
<1>4. Listed(k) => Current(k) \in Configs
  BY <1>1, <1>2 DEF Listed, Current, Revision
<1>5. \A c \in Configs : /\ Configured(k, c) \in Header
                         /\ Len(Configured(k, c).history) = Revision(k) + 1
                         /\ Configured(k, c).history[Revision(k) + 1] = c
                         /\ ~Configured(k, c).removed
  BY <1>3 DEF Configured, Header
<1>6. Listed(k) => /\ Removed(k) \in Header
                   /\ Len(Removed(k).history) = Revision(k) + 1
                   /\ Removed(k).removed
  BY <1>3, <1>4 DEF Removed, Header
<1> QED BY <1>2, <1>4, <1>5, <1>6

\* Only a decision about k changes its header, by one revision more.
LEMMA PlanStep ==
  ASSUME PlanTypeOK, [PlanNext]_planVars, NEW k \in Keys, plan'[k] # plan[k]
  PROVE  \E o \in Operators :
           /\ ConfigureTrigger(o) \/ RemoveTrigger(o)
           /\ decision[o].key = k
<1>1. PICK o \in Operators : ConfigureTrigger(o) \/ RemoveTrigger(o)
  <2>1. plan' # plan
    OBVIOUS
  <2> QED BY <2>1 DEF PlanNext, planVars, AflStep, MatchBegins, MatchRescheduled, CreateRound,
        OpenRound, DecisionStep, LoadPage, Check, ActivateMapping, DropDecision,
        ObservationStep, Fetch, ReadTriggers, FireTriggers, Return, DropObservation
<1>2. \E x : plan' = [plan EXCEPT ![decision[o].key] = x]
  BY <1>1 DEF ConfigureTrigger, RemoveTrigger
<1> QED BY <1>1, <1>2 DEF PlanTypeOK

LEMMA PlanNextTyped == PlanTypeOK /\ [PlanNext]_planVars => PlanTypeOK'
<1> SUFFICES ASSUME PlanTypeOK, [PlanNext]_planVars PROVE PlanTypeOK'
  OBVIOUS
<1> USE PlanAssumption
<1>1. CASE UNCHANGED planVars
  BY <1>1 DEF PlanTypeOK, planVars
<1>2. CASE AflStep
  BY <1>2 DEF PlanTypeOK, AflStep, MatchBegins, MatchRescheduled
<1>3. CASE CreateRound
  BY <1>3 DEF PlanTypeOK, CreateRound, Stages, Mapping
<1>4. CASE OpenRound
  BY <1>4 DEF PlanTypeOK, OpenRound, Stages
<1>5. ASSUME NEW o \in Operators, DecisionStep(o) PROVE PlanTypeOK'
  <2>1. CASE LoadPage(o)
    <3>1. PICK t \in Tasks[o], k \in Keys :
            decision' = [decision EXCEPT ![o] =
              [phase |-> "loaded", task |-> t, key |-> k,
               seen |-> IF t = "map" THEN mapping ELSE plan[k]]]
      BY <2>1 DEF LoadPage
    <3>2. t \in TaskNames /\ plan[k] \in Header /\ mapping \in Mapping
      BY DEF PlanTypeOK
    <3>3. [phase |-> "loaded", task |-> t, key |-> k,
           seen |-> IF t = "map" THEN mapping ELSE plan[k]] \in Decision
      BY <3>2 DEF Decision, TaskNames
    <3>4. decision' \in [Operators -> Decision]
      BY <3>1, <3>3 DEF PlanTypeOK
    <3> QED BY <2>1, <3>4 DEF LoadPage, PlanTypeOK
  <2>2. CASE Check(o)
    <3> DEFINE d == decision[o]
               c == [phase |-> "checked", task |-> d.task, key |-> d.key, seen |-> d.seen,
                     mapping |-> mapping.revision, members |-> RoundMatches[mapping.round]]
    <3>1. decision[o] # Idle /\ d.task # "remove"
      BY <2>2, NotIdle DEF Check
    <3>2. mapping.revision \in Nat /\ RoundMatches[mapping.round] \in SUBSET Matches
      BY DEF PlanTypeOK, Mapping
    <3>3. c \in Decision
      BY <3>1, <3>2, DecisionShape DEF Decision, TaskNames
    <3>4. decision' = [decision EXCEPT ![o] = c]
      BY <2>2 DEF Check
    <3> HIDE DEF c, d
    <3>5. decision' \in [Operators -> Decision]
      BY <3>3, <3>4 DEF PlanTypeOK
    <3> QED BY <2>2, <3>5 DEF Check, PlanTypeOK
  <2>3. CASE ActivateMapping(o)
    <3>1. mapping' \in Mapping
      BY <2>3 DEF ActivateMapping, Mapping, PlanTypeOK
    <3> QED BY <2>3, <3>1 DEF ActivateMapping, Decide, PlanTypeOK, Decision
  <2>4. CASE ConfigureTrigger(o)
    <3>1. decision[o].key \in Keys
      BY <2>4, NotIdle, DecisionShape DEF ConfigureTrigger
    <3>2. plan' \in [Keys -> Header]
      BY <2>4, <3>1, HeaderGrows DEF ConfigureTrigger, PlanTypeOK
    <3> QED BY <2>4, <3>2 DEF ConfigureTrigger, Decide, PlanTypeOK, Decision
  <2>5. CASE RemoveTrigger(o)
    <3>1. decision[o].key \in Keys
      BY <2>5, NotIdle, DecisionShape DEF RemoveTrigger
    <3>2. plan' \in [Keys -> Header]
      BY <2>5, <3>1, HeaderGrows DEF RemoveTrigger, PlanTypeOK
    <3> QED BY <2>5, <3>2 DEF RemoveTrigger, Decide, PlanTypeOK, Decision
  <2>6. CASE DropDecision(o)
    BY <2>6 DEF DropDecision, PlanTypeOK, Decision
  <2> QED BY <1>5, <2>1, <2>2, <2>3, <2>4, <2>5, <2>6 DEF DecisionStep
<1>6. ASSUME NEW b \in Observers, ObservationStep(b) PROVE PlanTypeOK'
  <2>0. NoObservation \in Observation /\ [NoObservation EXCEPT !.phase = "done"] \in Observation
    BY DEF NoObservation, Observation
  <2>1. CASE Fetch(b)
    <3>1. mapping.revision \in Nat /\ begun \cap RoundMatches[mapping.round] \in SUBSET Matches
      BY DEF PlanTypeOK, Mapping
    <3> QED BY <2>1, <3>1 DEF Fetch, PlanTypeOK, Observation
  <2>2. CASE ReadTriggers(b)
    <3>1. observation' \in [Observers -> Observation]
      <4> DEFINE row == [observation[b] EXCEPT !.phase = "reading", !.triggers = {k \in Keys : Listed(k)}]
      <4>1. observation \in [Observers -> Observation] /\ observation' = [observation EXCEPT ![b] = row]
        BY <2>2 DEF ReadTriggers, PlanTypeOK
      <4>2. {k \in Keys : Listed(k)} \in SUBSET Keys
        OBVIOUS
      <4>3. row \in Observation
        BY <4>1, <4>2 DEF Observation
      <4> HIDE DEF row
      <4> QED BY <4>1, <4>3
    <3> QED BY <2>2, <3>1 DEF ReadTriggers, PlanTypeOK
  <2>3. CASE FireTriggers(b)
    <3>1. activated' \in [Keys -> Nat]
      BY <2>3, HeaderGrows DEF FireTriggers, PlanTypeOK
    <3> QED BY <2>0, <2>3, <3>1 DEF FireTriggers, PlanTypeOK
  <2>4. CASE Return(b)
    BY <2>0, <2>4 DEF Return, PlanTypeOK
  <2>5. CASE DropObservation(b)
    BY <2>0, <2>5 DEF DropObservation, PlanTypeOK
  <2> QED BY <1>6, <2>1, <2>2, <2>3, <2>4, <2>5 DEF ObservationStep
<1> QED BY <1>1, <1>2, <1>3, <1>4, <1>5, <1>6 DEF PlanNext

\* Every reachable state of the plan is well typed.
THEOREM PlanTypeCorrect == PlanSpec => []PlanTypeOK
<1>1. PlanInit => PlanTypeOK
  BY PlanInitTyped
<1>2. PlanTypeOK /\ [PlanNext]_planVars => PlanTypeOK'
  BY PlanNextTyped
<1> QED BY <1>1, <1>2, PTL DEF PlanSpec

-----------------------------------------------------------------------------
(***************************************************************************)
(* An activated trigger is frozen.  ActivatedPlanFrozen is not inductive by *)
(* itself: an observation fires the triggers it listed in an earlier step,  *)
(* and only the round row keeps a removal from falling in between.          *)
(***************************************************************************)
Held ==
  \A b \in Observers : observation[b].phase = "reading" =>
    roundLock = b /\ \A k \in observation[b].triggers : Listed(k)

FrozenInv == PlanTypeOK /\ ActivatedPlanFrozen /\ Held

\* While the round row is free nobody is firing.
LEMMA FreeRowNoReader ==
  ASSUME Held, NEW b \in Observers, NEW h, roundLock = h, h # b
  PROVE  observation[b].phase # "reading"
BY DEF Held

LEMMA HeldNext == FrozenInv /\ [PlanNext]_planVars => Held'
<1> SUFFICES ASSUME FrozenInv, [PlanNext]_planVars,
                    NEW c \in Observers, observation'[c].phase = "reading"
             PROVE  roundLock' = c /\ \A k \in observation'[c].triggers : Listed(k)'
  BY DEF Held
<1> USE PlanAssumption
<1>0. PlanTypeOK /\ Held
  BY DEF FrozenInv
<1>1. ASSUME UNCHANGED <<plan, roundLock, observation>>
      PROVE  roundLock' = c /\ \A k \in observation'[c].triggers : Listed(k)'
  BY <1>0, <1>1 DEF Held, Listed, Revision
<1>2. ASSUME NEW o \in Operators, DecisionStep(o)
      PROVE  roundLock' = c /\ \A k \in observation'[c].triggers : Listed(k)'
  <2>1. ASSUME Decide(o), UNCHANGED observation PROVE FALSE
    <3>1. roundLock = Nobody /\ Nobody # c
      BY <2>1 DEF Decide
    <3> QED BY <1>0, <2>1, <3>1, FreeRowNoReader
  <2>2. CASE ActivateMapping(o) \/ ConfigureTrigger(o) \/ RemoveTrigger(o)
    BY <2>1, <2>2 DEF ActivateMapping, ConfigureTrigger, RemoveTrigger, Decide
  <2>3. CASE LoadPage(o) \/ Check(o) \/ DropDecision(o)
    BY <1>1, <2>3 DEF LoadPage, Check, DropDecision
  <2> QED BY <1>2, <2>2, <2>3 DEF DecisionStep
<1>3. ASSUME NEW b \in Observers, ObservationStep(b)
      PROVE  roundLock' = c /\ \A k \in observation'[c].triggers : Listed(k)'
  <2>0. UNCHANGED plan /\ \A k \in Keys : Listed(k)' = Listed(k)
    BY <1>3 DEF ObservationStep, Fetch, ReadTriggers, FireTriggers, Return, DropObservation,
                Listed, Revision
  <2>1. observation[c].triggers \subseteq Keys
    BY <1>0 DEF PlanTypeOK, Observation
  <2>2. ASSUME b # c
        PROVE  /\ observation'[c] = observation[c]
               /\ roundLock = c /\ \A k \in observation[c].triggers : Listed(k)
    <3>1. observation'[c] = observation[c]
      BY <1>0, <1>3, <2>2 DEF PlanTypeOK, ObservationStep, Fetch, ReadTriggers, FireTriggers,
                              Return, DropObservation
    <3> QED BY <1>0, <3>1 DEF Held
  <2>3. CASE ReadTriggers(b)
    <3>1. b = c
      BY <2>2, <2>3 DEF ReadTriggers, RoundFree
    <3>2. observation'[c].triggers = {k \in Keys : Listed(k)} /\ roundLock' = c
      BY <1>0, <2>3, <3>1 DEF ReadTriggers, PlanTypeOK, Observation
    <3> QED BY <2>0, <3>2
  <2>4. CASE Fetch(b) \/ Return(b)
    <3>1. b # c
      BY <1>0, <2>4 DEF Fetch, Return, PlanTypeOK, NoObservation
    <3> QED BY <2>0, <2>1, <2>2, <2>4, <3>1 DEF Fetch, Return
  <2>5. CASE DropObservation(b)
    <3>1. b # c
      BY <1>0, <2>5 DEF DropObservation, PlanTypeOK, NoObservation
    <3> QED BY <2>0, <2>1, <2>2, <2>5, <3>1 DEF DropObservation
  <2>6. CASE FireTriggers(b)
    <3>1. b # c
      BY <1>0, <2>6 DEF FireTriggers, PlanTypeOK, NoObservation
    <3>2. roundLock = b
      BY <1>0, <2>6 DEF FireTriggers, Held
    <3> QED BY <2>2, <3>1, <3>2
  <2> QED BY <1>3, <2>3, <2>4, <2>5, <2>6 DEF ObservationStep
<1>4. CASE AflStep \/ CreateRound \/ OpenRound \/ UNCHANGED planVars
  BY <1>1, <1>4 DEF AflStep, MatchBegins, MatchRescheduled, CreateRound, OpenRound, planVars
<1> QED BY <1>2, <1>3, <1>4 DEF PlanNext

LEMMA FrozenNext == FrozenInv /\ [PlanNext]_planVars => ActivatedPlanFrozen'
<1> SUFFICES ASSUME FrozenInv, [PlanNext]_planVars, NEW k \in Keys, activated'[k] # 0
             PROVE  activated'[k] = Revision(k)' /\ ~plan'[k].removed
  BY DEF ActivatedPlanFrozen
<1>0. PlanTypeOK /\ Held /\ ActivatedPlanFrozen
  BY DEF FrozenInv
<1>1. CASE plan'[k] # plan[k]
  <2>1. PICK o \in Operators :
          (ConfigureTrigger(o) \/ RemoveTrigger(o)) /\ decision[o].key = k
    BY <1>0, <1>1, PlanStep
  <2>2. activated[k] = 0 /\ activated' = activated
    BY <2>1 DEF ConfigureTrigger, RemoveTrigger, Decide
  <2> QED BY <2>2
<1>2. CASE plan'[k] = plan[k]
  <2>1. Revision(k)' = Revision(k)
    BY <1>2 DEF Revision
  <2>2. CASE activated' = activated
    BY <1>0, <1>2, <2>1, <2>2 DEF ActivatedPlanFrozen
  <2>3. CASE activated' # activated
    <3>1. PICK b \in Observers : FireTriggers(b)
      BY <2>3 DEF PlanNext, planVars, AflStep, MatchBegins, MatchRescheduled, CreateRound,
         OpenRound, DecisionStep, LoadPage, Check, ActivateMapping, ConfigureTrigger,
         RemoveTrigger, Decide, DropDecision, ObservationStep, Fetch, ReadTriggers, Return,
         DropObservation
    <3>2. activated'[k] = IF Fires(k, b) THEN Revision(k) ELSE activated[k]
      BY <3>1 DEF FireTriggers
    <3>3. CASE Fires(k, b)
      <4>1. Listed(k)
        BY <1>0, <3>1, <3>3 DEF Fires, FireTriggers, Held
      <4> QED BY <1>2, <2>1, <3>2, <3>3, <4>1 DEF Listed
    <3>4. CASE ~Fires(k, b)
      BY <1>0, <1>2, <2>1, <3>2, <3>4 DEF ActivatedPlanFrozen
    <3> QED BY <3>3, <3>4
  <2> QED BY <2>2, <2>3
<1> QED BY <1>1, <1>2

\* No operator, however its decision interleaves with observations, changes
\* or removes a trigger once it has been activated.
THEOREM ActivatedPlanIsFrozen == PlanSpec => []ActivatedPlanFrozen
<1>1. PlanInit => FrozenInv
  <2>1. PlanInit => ActivatedPlanFrozen /\ Held
    BY DEF PlanInit, ActivatedPlanFrozen, Held, NoObservation
  <2> QED BY <2>1, PlanInitTyped DEF FrozenInv
<1>2. FrozenInv /\ [PlanNext]_planVars => FrozenInv'
  BY PlanNextTyped, HeldNext, FrozenNext DEF FrozenInv
<1>3. FrozenInv => ActivatedPlanFrozen
  BY DEF FrozenInv
<1> QED BY <1>1, <1>2, <1>3, PTL DEF PlanSpec

-----------------------------------------------------------------------------
(***************************************************************************)
(* What a decision was shown.  A page's header may be behind the plan, but  *)
(* a trigger's revisions only grow, so one of the same length is the same.  *)
(***************************************************************************)
SeenOf(d) ==
  d # Idle /\ d.task # "map" =>
    /\ Len(d.seen.history) <= Revision(d.key)
    /\ Len(d.seen.history) = Revision(d.key) => d.seen = plan[d.key]

SeenInv == PlanTypeOK /\ \A o \in Operators : SeenOf(decision[o])

LEMMA RevisionGrows ==
  ASSUME PlanTypeOK, [PlanNext]_planVars, NEW k \in Keys, plan'[k] # plan[k]
  PROVE  Revision(k)' = Revision(k) + 1
<1>1. PICK o \in Operators :
        (ConfigureTrigger(o) \/ RemoveTrigger(o)) /\ decision[o].key = k
  BY PlanStep
<1>2. CASE ConfigureTrigger(o)
  <2>1. PICK c \in Configs : plan' = [plan EXCEPT ![k] = Configured(k, c)]
    BY <1>1, <1>2 DEF ConfigureTrigger
  <2>2. plan'[k] = Configured(k, c)
    BY <2>1 DEF PlanTypeOK
  <2> QED BY <2>2, HeaderGrows DEF Revision
<1>3. CASE RemoveTrigger(o)
  <2>1. plan' = [plan EXCEPT ![k] = Removed(k)] /\ Listed(k)
    BY <1>1, <1>3 DEF RemoveTrigger
  <2>2. plan'[k] = Removed(k)
    BY <2>1 DEF PlanTypeOK
  <2> QED BY <2>1, <2>2, HeaderGrows DEF Revision
<1> QED BY <1>1, <1>2, <1>3

\* A decision stays what it was, is dropped, loads a page, or is checked.
LEMMA DecisionMoves ==
  ASSUME PlanTypeOK, [PlanNext]_planVars, NEW o \in Operators, decision'[o] # decision[o]
  PROVE  \/ decision'[o] = Idle
         \/ LoadPage(o)
         \/ Check(o)
<1>1. PICK p \in Operators : DecisionStep(p)
  BY DEF PlanNext, planVars, AflStep, MatchBegins, MatchRescheduled, CreateRound, OpenRound,
         ObservationStep, Fetch, ReadTriggers, FireTriggers, Return, DropObservation
<1>2. p = o
  BY <1>1 DEF PlanTypeOK, DecisionStep, LoadPage, Check, ActivateMapping, ConfigureTrigger,
              RemoveTrigger, Decide, DropDecision
<1>3. CASE ActivateMapping(o) \/ ConfigureTrigger(o) \/ RemoveTrigger(o) \/ DropDecision(o)
  BY <1>3 DEF PlanTypeOK, ActivateMapping, ConfigureTrigger, RemoveTrigger, Decide, DropDecision
<1> QED BY <1>1, <1>2, <1>3 DEF DecisionStep

LEMMA SeenNext == SeenInv /\ [PlanNext]_planVars => SeenInv'
<1> SUFFICES ASSUME SeenInv, [PlanNext]_planVars, NEW o \in Operators
             PROVE  SeenOf(decision[o])'
  BY PlanNextTyped DEF SeenInv
<1>0. PlanTypeOK /\ SeenOf(decision[o])
  BY DEF SeenInv
<1>1. CASE decision'[o] = decision[o]
  <2> SUFFICES ASSUME decision[o] # Idle, decision[o].task # "map"
               PROVE  SeenOf(decision[o])'
    BY <1>1 DEF SeenOf
  <2>1. PICK k \in Keys, h \in Header : k = decision[o].key /\ h = decision[o].seen
    BY <1>0, DecisionShape
  <2>2. Len(h.history) <= Revision(k) /\ (Len(h.history) = Revision(k) => h = plan[k])
    BY <1>0, <2>1 DEF SeenOf
  <2>3. Len(h.history) <= Revision(k)' /\ (Len(h.history) = Revision(k)' => h = plan'[k])
    <3>1. CASE plan'[k] = plan[k]
      BY <2>2, <3>1 DEF Revision
    <3>2. CASE plan'[k] # plan[k]
      <4>1. Revision(k)' = Revision(k) + 1 /\ Revision(k) \in Nat
        BY <1>0, <3>2, RevisionGrows, HeaderGrows
      <4>2. Len(h.history) \in Nat
        BY DEF Header
      <4> QED BY <2>2, <4>1, <4>2
    <3> QED BY <3>1, <3>2
  <2> QED BY <1>1, <2>1, <2>3 DEF SeenOf, Revision
<1>2. CASE decision'[o] = Idle
  BY <1>2 DEF SeenOf
<1>3. CASE LoadPage(o)
  <2>1. PICK t \in Tasks[o], k \in Keys :
          decision'[o] = [phase |-> "loaded", task |-> t, key |-> k,
                          seen |-> IF t = "map" THEN mapping ELSE plan[k]]
    BY <1>0, <1>3 DEF LoadPage, PlanTypeOK
  <2>2. plan' = plan /\ Revision(k) \in Nat
    BY <1>0, <1>3, HeaderGrows DEF LoadPage
  <2> QED BY <2>1, <2>2 DEF SeenOf, Revision
<1>4. CASE Check(o)
  <2>1. /\ decision[o] # Idle
        /\ decision'[o].task = decision[o].task
        /\ decision'[o].key = decision[o].key
        /\ decision'[o].seen = decision[o].seen
        /\ plan' = plan
    BY <1>0, <1>4, NotIdle DEF Check, PlanTypeOK
  <2> QED BY <1>0, <2>1 DEF SeenOf, Revision
<1> QED BY <1>0, <1>1, <1>2, <1>3, <1>4, DecisionMoves

LEMMA SeenIsCurrent ==
  SeenInv /\ [PlanNext]_planVars => \A k \in Keys : plan'[k] # plan[k] => Shown(k)
<1> SUFFICES ASSUME SeenInv, [PlanNext]_planVars, NEW k \in Keys, plan'[k] # plan[k]
             PROVE  Shown(k)
  OBVIOUS
<1>0. PlanTypeOK
  BY DEF SeenInv
<1>1. PICK o \in Operators :
        (ConfigureTrigger(o) \/ RemoveTrigger(o)) /\ decision[o].key = k
  BY <1>0, PlanStep
<1>2. /\ decision[o] # Idle /\ decision[o].task # "map"
      /\ SameRevision(decision[o].seen, k)
  BY <1>1, NotIdle DEF ConfigureTrigger, RemoveTrigger
<1>3. decision'[o] = Idle
  BY <1>0, <1>1 DEF ConfigureTrigger, RemoveTrigger, Decide, PlanTypeOK
<1>4. decision[o].seen = plan[k]
  BY <1>1, <1>2 DEF SeenInv, SeenOf, SameRevision
<1> QED BY <1>1, <1>2, <1>3, <1>4 DEF Shown

\* A trigger only ever changes by a decision whose operator was shown the
\* very header that the change replaces.
THEOREM DecisionsAreInformed == PlanSpec => DecisionsSeeTheirTrigger
<1>1. PlanInit => SeenInv
  <2>1. PlanInit => \A o \in Operators : SeenOf(decision[o])
    BY DEF PlanInit, SeenOf
  <2> QED BY <2>1, PlanInitTyped DEF SeenInv
<1>2. SeenInv /\ [PlanNext]_planVars => SeenInv'
  BY SeenNext
<1>3. SeenInv /\ [PlanNext]_planVars => [\A k \in Keys : plan'[k] # plan[k] => Shown(k)]_planVars
  BY SeenIsCurrent
<1> QED BY <1>1, <1>2, <1>3, PTL DEF PlanSpec, DecisionsSeeTheirTrigger

-----------------------------------------------------------------------------
(***************************************************************************)
(* What was fetched from afl-api without a lock, by a decision or by an     *)
(* observation, belongs to the AFL round accepted now if the mapping        *)
(* revision it was fetched for is still the accepted one.                   *)
(***************************************************************************)
CheckedOf(d) ==
  d.phase = "checked" /\ d.task = "configure" =>
    /\ d.mapping <= mapping.revision
    /\ d.mapping = mapping.revision => d.members = RoundMatches[mapping.round]

FetchedOf(x) ==
  x.phase \in {"fetched", "reading"} =>
    /\ x.mapping <= mapping.revision
    /\ x.mapping = mapping.revision => x.facts \subseteq RoundMatches[mapping.round]
    /\ x.phase = "reading" => x.mapping = mapping.revision

CheckedInv == PlanTypeOK /\ \A o \in Operators : CheckedOf(decision[o])

FetchedInv == PlanTypeOK /\ Held /\ \A b \in Observers : FetchedOf(observation[b])

LEMMA MappingStep ==
  ASSUME PlanTypeOK, [PlanNext]_planVars
  PROVE  /\ mapping.revision \in Nat
         /\ \/ mapping' = mapping
            \/ mapping'.revision = mapping.revision + 1 /\ roundLock = Nobody
<1>1. CASE \E o \in Operators : ActivateMapping(o)
  BY <1>1 DEF ActivateMapping, Decide, PlanTypeOK, Mapping
<1>2. CASE ~\E o \in Operators : ActivateMapping(o)
  <2>1. mapping' = mapping
    BY <1>2 DEF PlanNext, planVars, AflStep, MatchBegins, MatchRescheduled, CreateRound,
       OpenRound, DecisionStep, LoadPage, Check, ConfigureTrigger, RemoveTrigger, DropDecision,
       ObservationStep, Fetch, ReadTriggers, FireTriggers, Return, DropObservation
  <2> QED BY <2>1 DEF PlanTypeOK, Mapping
<1> QED BY <1>1, <1>2

LEMMA CheckedNext == CheckedInv /\ [PlanNext]_planVars => CheckedInv'
<1> SUFFICES ASSUME CheckedInv, [PlanNext]_planVars, NEW o \in Operators
             PROVE  CheckedOf(decision[o])'
  BY PlanNextTyped DEF CheckedInv
<1>0. PlanTypeOK /\ CheckedOf(decision[o])
  BY DEF CheckedInv
<1>1. CASE decision'[o] = decision[o]
  <2> SUFFICES ASSUME decision[o].phase = "checked", decision[o].task = "configure"
               PROVE  CheckedOf(decision[o])'
    BY <1>1 DEF CheckedOf
  <2>1. PICK n \in Nat : n = decision[o].mapping
    BY <1>0, NotIdle, DecisionShape
  <2>2. /\ n <= mapping.revision
        /\ n = mapping.revision => decision[o].members = RoundMatches[mapping.round]
    BY <1>0, <2>1 DEF CheckedOf
  <2>3. /\ n <= mapping'.revision
        /\ n = mapping'.revision => mapping' = mapping
    BY <1>0, <2>2, MappingStep
  <2> QED BY <1>1, <2>1, <2>2, <2>3 DEF CheckedOf
<1>2. CASE decision'[o] = Idle
  BY <1>2 DEF CheckedOf, Idle
<1>3. CASE LoadPage(o)
  <2>1. decision'[o].phase = "loaded"
    BY <1>0, <1>3 DEF LoadPage, PlanTypeOK
  <2> QED BY <2>1 DEF CheckedOf
<1>4. CASE Check(o)
  <2>1. /\ decision'[o].mapping = mapping.revision
        /\ decision'[o].members = RoundMatches[mapping.round]
        /\ mapping' = mapping
        /\ mapping.revision \in Nat
    BY <1>0, <1>4 DEF Check, PlanTypeOK, Mapping
  <2> QED BY <2>1 DEF CheckedOf
<1> QED BY <1>0, <1>1, <1>2, <1>3, <1>4, DecisionMoves

LEMMA ConfigureInMapping ==
  CheckedInv /\ [PlanNext]_planVars =>
    \A k \in Keys : plan'[k] # plan[k] /\ ~plan'[k].removed =>
      Current(k)'.matches \subseteq RoundMatches[mapping'.round]
<1> SUFFICES ASSUME CheckedInv, [PlanNext]_planVars, NEW k \in Keys,
                    plan'[k] # plan[k], ~plan'[k].removed
             PROVE  Current(k)'.matches \subseteq RoundMatches[mapping'.round]
  OBVIOUS
<1>0. PlanTypeOK
  BY DEF CheckedInv
<1>1. PICK o \in Operators :
        (ConfigureTrigger(o) \/ RemoveTrigger(o)) /\ decision[o].key = k
  BY <1>0, PlanStep
<1>2. ConfigureTrigger(o)
  <2>1. ASSUME RemoveTrigger(o) PROVE FALSE
    <3>1. plan'[k] = Removed(k)
      BY <1>0, <1>1, <2>1 DEF RemoveTrigger, PlanTypeOK
    <3> QED BY <3>1 DEF Removed
  <2> QED BY <1>1, <2>1
<1>3. PICK c \in Configs : /\ c.matches \subseteq decision[o].members
                           /\ plan' = [plan EXCEPT ![k] = Configured(k, c)]
  BY <1>1, <1>2 DEF ConfigureTrigger
<1>4. decision[o].members = RoundMatches[mapping.round] /\ mapping' = mapping
  BY <1>2 DEF ConfigureTrigger, CheckedInv, CheckedOf, SameMapping
<1>5. Current(k)' = c
  <2>1. plan'[k] = Configured(k, c)
    BY <1>0, <1>3 DEF PlanTypeOK
  <2>2. Len(plan'[k].history) = Revision(k) + 1 /\ plan'[k].history[Revision(k) + 1] = c
    BY <1>0, <2>1, HeaderGrows
  <2> QED BY <2>2 DEF Current, Revision
<1> QED BY <1>3, <1>4, <1>5

\* However the mapping is corrected meanwhile, a trigger is configured only
\* from matches of the AFL round that is accepted when it is written.
THEOREM ConfiguresFromMapping == PlanSpec => ConfiguredFromMapping
<1>1. PlanInit => CheckedInv
  <2>1. PlanInit => \A o \in Operators : CheckedOf(decision[o])
    BY DEF PlanInit, CheckedOf, Idle
  <2> QED BY <2>1, PlanInitTyped DEF CheckedInv
<1>2. CheckedInv /\ [PlanNext]_planVars => CheckedInv'
  BY CheckedNext
<1>3. CheckedInv /\ [PlanNext]_planVars =>
        [\A k \in Keys : plan'[k] # plan[k] /\ ~plan'[k].removed =>
           Current(k)'.matches \subseteq RoundMatches[mapping'.round]]_planVars
  BY ConfigureInMapping
<1> QED BY <1>1, <1>2, <1>3, PTL DEF PlanSpec, ConfiguredFromMapping

\* An observation stays what it was, is reset, fetches, or takes the row.
LEMMA ObservationMoves ==
  ASSUME PlanTypeOK, [PlanNext]_planVars, NEW b \in Observers,
         observation'[b] # observation[b]
  PROVE  \/ observation'[b].phase \in {"idle", "done"}
         \/ Fetch(b)
         \/ ReadTriggers(b)
<1>1. PICK c \in Observers : ObservationStep(c)
  BY DEF PlanNext, planVars, AflStep, MatchBegins, MatchRescheduled, CreateRound, OpenRound,
         DecisionStep, LoadPage, Check, ActivateMapping, ConfigureTrigger, RemoveTrigger,
         Decide, DropDecision
<1>2. c = b
  BY <1>1 DEF PlanTypeOK, ObservationStep, Fetch, ReadTriggers, FireTriggers, Return,
              DropObservation
<1>3. CASE FireTriggers(b) \/ Return(b) \/ DropObservation(b)
  BY <1>3 DEF PlanTypeOK, FireTriggers, Return, DropObservation, NoObservation
<1> QED BY <1>1, <1>2, <1>3 DEF ObservationStep

LEMMA FetchedNext == FetchedInv /\ FrozenInv /\ [PlanNext]_planVars => FetchedInv'
<1> SUFFICES ASSUME FetchedInv, FrozenInv, [PlanNext]_planVars, NEW b \in Observers
             PROVE  FetchedOf(observation[b])'
  BY PlanNextTyped, HeldNext DEF FetchedInv
<1>0. PlanTypeOK /\ Held /\ FetchedOf(observation[b]) /\ b # Nobody
  BY PlanAssumption DEF FetchedInv
<1>1. CASE observation'[b] = observation[b]
  <2> SUFFICES ASSUME observation[b].phase \in {"fetched", "reading"}
               PROVE  FetchedOf(observation[b])'
    BY <1>1 DEF FetchedOf
  <2>1. PICK n \in Nat : n = observation[b].mapping
    BY <1>0 DEF PlanTypeOK, Observation
  <2>2. /\ n <= mapping.revision
        /\ n = mapping.revision => observation[b].facts \subseteq RoundMatches[mapping.round]
        /\ observation[b].phase = "reading" => n = mapping.revision
    BY <1>0, <2>1 DEF FetchedOf
  <2>3. /\ n <= mapping'.revision
        /\ n = mapping'.revision => mapping' = mapping
    BY <1>0, <2>2, MappingStep
  <2>4. observation[b].phase = "reading" => mapping' = mapping
    BY <1>0, MappingStep, FreeRowNoReader
  <2> QED BY <1>1, <2>1, <2>2, <2>3, <2>4 DEF FetchedOf
<1>2. CASE observation'[b].phase \in {"idle", "done"}
  BY <1>2 DEF FetchedOf
<1>3. CASE Fetch(b)
  <2>1. /\ observation'[b].phase = "fetched"
        /\ observation'[b].mapping = mapping.revision
        /\ observation'[b].facts \subseteq RoundMatches[mapping.round]
        /\ mapping' = mapping /\ mapping.revision \in Nat
    BY <1>0, <1>3 DEF Fetch, PlanTypeOK, Mapping
  <2> QED BY <2>1 DEF FetchedOf
<1>4. CASE ReadTriggers(b)
  <2>1. /\ observation'[b].mapping = observation[b].mapping
        /\ observation'[b].facts = observation[b].facts
        /\ observation[b].phase = "fetched" /\ observation[b].mapping = mapping.revision
        /\ mapping' = mapping /\ mapping.revision \in Nat
    BY <1>0, <1>4 DEF ReadTriggers, SameMapping, PlanTypeOK, Observation, Mapping
  <2> QED BY <1>0, <2>1 DEF FetchedOf
<1> QED BY <1>0, <1>1, <1>2, <1>3, <1>4, ObservationMoves

LEMMA FiringInRound ==
  FetchedInv /\ [PlanNext]_planVars =>
    \A k \in Keys : activated'[k] # activated[k] =>
      Current(k).matches \cap RoundMatches[mapping.round] # {}
<1> SUFFICES ASSUME FetchedInv, [PlanNext]_planVars, NEW k \in Keys,
                    activated'[k] # activated[k]
             PROVE  Current(k).matches \cap RoundMatches[mapping.round] # {}
  OBVIOUS
<1>1. PICK b \in Observers : FireTriggers(b)
  BY DEF PlanNext, planVars, AflStep, MatchBegins, MatchRescheduled, CreateRound,
     OpenRound, DecisionStep, LoadPage, Check, ActivateMapping, ConfigureTrigger,
     RemoveTrigger, Decide, DropDecision, ObservationStep, Fetch, ReadTriggers, Return,
     DropObservation
<1>2. Fires(k, b)
  BY <1>1 DEF FireTriggers
<1>3. observation[b].facts \subseteq RoundMatches[mapping.round]
  BY <1>1 DEF FireTriggers, FetchedInv, FetchedOf
<1> QED BY <1>2, <1>3 DEF Fires

\* Facts fetched for an AFL round that is no longer the accepted one fire no
\* trigger, whatever configuration the trigger has by then.
THEOREM TriggersFireOnTheirMatches == PlanSpec => TriggersFireOnTheirRound
<1>1. PlanInit => FetchedInv /\ FrozenInv
  <2>1. PlanInit => ActivatedPlanFrozen /\ Held /\ \A b \in Observers : FetchedOf(observation[b])
    BY DEF PlanInit, ActivatedPlanFrozen, Held, FetchedOf, NoObservation
  <2> QED BY <2>1, PlanInitTyped DEF FetchedInv, FrozenInv
<1>2. FetchedInv /\ FrozenInv /\ [PlanNext]_planVars => (FetchedInv /\ FrozenInv)'
  BY PlanNextTyped, HeldNext, FrozenNext, FetchedNext DEF FrozenInv
<1>3. FetchedInv /\ [PlanNext]_planVars =>
        [\A k \in Keys : activated'[k] # activated[k] =>
           Current(k).matches \cap RoundMatches[mapping.round] # {}]_planVars
  BY FiringInRound
<1> QED BY <1>1, <1>2, <1>3, PTL DEF PlanSpec, TriggersFireOnTheirRound

\* What is configured and what fires belongs to the AFL round accepted at that
\* moment, although both were decided on what was fetched before the lock.
THEOREM PlanFollowsMapping == PlanSpec => FollowsMapping
BY ConfiguresFromMapping, TriggersFireOnTheirMatches DEF FollowsMapping

-----------------------------------------------------------------------------
(***************************************************************************)
(* The plan stays well ordered: a configuration is placed among the listed  *)
(* triggers of that moment, a removal only takes one away.                  *)
(***************************************************************************)
Ordered(c, d) ==
  /\ c.sequence # d.sequence
  /\ c.kind = "main" => d.kind = "selective"
  /\ c.kind = "main" => d.sequence < c.sequence

LEMMA PlacedIsOrdered ==
  ASSUME NEW c \in Configs, NEW others \in SUBSET Configs, WellPlaced(c, others),
         NEW d \in others
  PROVE  Ordered(c, d) /\ Ordered(d, c)
<1>1. c \in Config /\ d \in Config
  BY PlanAssumption
<1>2. /\ c.sequence # d.sequence
      /\ c.kind = "selective" /\ d.kind = "main" => c.sequence < d.sequence
      /\ c.kind = "main" /\ d.kind = "selective" => c.sequence > d.sequence
      /\ ~(c.kind = "main" /\ d.kind = "main")
  BY DEF WellPlaced
<1> QED BY <1>1, <1>2 DEF Ordered, Config

LEMMA OrderNext == PlanTypeOK /\ PlanWellOrdered /\ [PlanNext]_planVars => PlanWellOrdered'
<1> SUFFICES ASSUME PlanTypeOK, PlanWellOrdered, [PlanNext]_planVars,
                    NEW j \in Keys, NEW k \in Keys, j # k, Listed(j)', Listed(k)'
             PROVE  Ordered(Current(j)', Current(k)')
  BY DEF PlanWellOrdered, Ordered
<1>1. ASSUME NEW i \in Keys, plan'[i] = plan[i], Listed(i)'
      PROVE  Listed(i) /\ Current(i)' = Current(i)
  BY <1>1 DEF Listed, Current, Revision
<1>2. ASSUME NEW i \in Keys, NEW h \in Keys, i # h, plan'[i] # plan[i], Listed(i)', Listed(h)'
      PROVE  Ordered(Current(i)', Current(h)') /\ Ordered(Current(h)', Current(i)')
  <2>1. PICK o \in Operators :
          (ConfigureTrigger(o) \/ RemoveTrigger(o)) /\ decision[o].key = i
    BY <1>2, PlanStep
  <2>2. CASE RemoveTrigger(o)
    <3>1. plan'[i] = Removed(i)
      BY <2>1, <2>2 DEF RemoveTrigger, PlanTypeOK
    <3> QED BY <1>2, <3>1 DEF Removed, Listed
  <2>3. CASE ConfigureTrigger(o)
    <3>1. PICK c \in Configs : /\ WellPlaced(c, Others(i))
                               /\ plan' = [plan EXCEPT ![i] = Configured(i, c)]
      BY <2>1, <2>3 DEF ConfigureTrigger
    <3>2. plan'[i] = Configured(i, c) /\ plan'[h] = plan[h]
      BY <1>2, <3>1 DEF PlanTypeOK
    <3>3. Current(i)' = c
      <4>1. Len(plan'[i].history) = Revision(i) + 1 /\ plan'[i].history[Revision(i) + 1] = c
        BY <3>2, HeaderGrows
      <4> QED BY <4>1 DEF Current, Revision
    <3>4. Listed(h) /\ Current(h)' = Current(h)
      BY <1>1, <1>2, <3>2
    <3>5. Others(i) \in SUBSET Configs /\ Current(h) \in Others(i)
      BY <1>2, <3>4, HeaderGrows DEF Others
    <3> QED BY <3>1, <3>3, <3>4, <3>5, PlacedIsOrdered
  <2> QED BY <2>1, <2>2, <2>3
<1>3. CASE plan'[j] = plan[j] /\ plan'[k] = plan[k]
  <2>1. /\ Listed(j) /\ Current(j)' = Current(j)
        /\ Listed(k) /\ Current(k)' = Current(k)
    BY <1>1, <1>3
  <2> QED BY <2>1 DEF PlanWellOrdered, Ordered
<1>4. CASE plan'[j] # plan[j]
  BY <1>2, <1>4
<1>5. CASE plan'[k] # plan[k]
  BY <1>2, <1>5
<1> QED BY <1>3, <1>4, <1>5

\* One main trigger at most, every selective trigger before it and no two
\* with one sequence, after any history of configurations and removals.
THEOREM PlanStaysOrdered == PlanSpec => []PlanWellOrdered
<1>1. PlanInit => PlanTypeOK /\ PlanWellOrdered
  <2>1. PlanInit => PlanWellOrdered
    BY DEF PlanInit, PlanWellOrdered, Listed, Revision
  <2> QED BY <2>1, PlanInitTyped
<1>2. PlanTypeOK /\ PlanWellOrdered /\ [PlanNext]_planVars => (PlanTypeOK /\ PlanWellOrdered)'
  BY PlanNextTyped, OrderNext
<1> QED BY <1>1, <1>2, PTL DEF PlanSpec

-----------------------------------------------------------------------------
(***************************************************************************)
(* The lineup under its locks (PositionLocks).  The plan half of a step is  *)
(* a step of the plan, an operator's edit, or the end of a request.         *)
(***************************************************************************)
LEMMA PlanHalf ==
  ASSUME [Next]_vars
  PROVE  \/ [PlanNext]_planVars
         \/ Advance \/ PlanEdited
         \/ \E b \in Observers : DropEntry(b)
<1>1. CASE UNCHANGED vars
  BY <1>1 DEF vars
<1>2. CASE AflStep /\ UNCHANGED lineupVars
  BY <1>2 DEF PlanNext
<1>3. ASSUME NEW b \in Observers, RequestStep(b)
      PROVE  [PlanNext]_planVars \/ DropEntry(b)
  <2>1. Fetch(b) \/ ReadTriggers(b) \/ FireTriggers(b) \/ Return(b) => PlanNext
    BY DEF PlanNext, ObservationStep
  <2>2. CASE Begin(b) \/ Observe(b) \/ Answer(b) \/ Commit(b) \/ CorrectLineup(b)
    BY <2>1, <2>2 DEF Begin, Observe, Answer, Commit, CorrectLineup
  <2>3. CASE ReadEffective(b) \/ RecordEvidence(b) \/ Guard(b)
    BY <2>3 DEF ReadEffective, RecordEvidence, Guard
  <2> QED BY <1>3, <2>2, <2>3 DEF RequestStep
<1> QED BY <1>1, <1>2, <1>3 DEF Next

LEMMA LocksFrozenStart == Init => FrozenInv
<1> SUFFICES ASSUME Init PROVE FrozenInv
  OBVIOUS
<1>1. mapping \in Mapping
  BY DEF Init, Mapping
<1>2. plan \in [Keys -> Header] /\ activated \in [Keys -> Nat]
  BY LineupAssumption DEF Init
<1>3. decision \in [Operators -> Decision]
  BY DEF Init, Decision
<1>4. observation \in [Observers -> Observation]
  BY DEF Init, Observation, NoObservation
<1>5. PlanTypeOK
  BY <1>1, <1>2, <1>3, <1>4 DEF Init, PlanTypeOK, Stages
<1>6. ActivatedPlanFrozen /\ Held
  BY DEF Init, ActivatedPlanFrozen, Held, NoObservation
<1> QED BY <1>5, <1>6 DEF FrozenInv

LEMMA LocksFrozenNext == FrozenInv /\ [Next]_vars => FrozenInv'
<1> SUFFICES ASSUME FrozenInv, [Next]_vars PROVE FrozenInv'
  OBVIOUS
<1>0. PlanTypeOK /\ Held /\ ActivatedPlanFrozen
  BY DEF FrozenInv
<1>1. CASE [PlanNext]_planVars
  BY <1>0, <1>1, PlanNextTyped, HeldNext, FrozenNext DEF FrozenInv
<1>2. CASE Advance
  <2>1. PlanTypeOK'
    BY <1>0, <1>2 DEF Advance, PlanTypeOK, Stages
  <2>2. Held' /\ ActivatedPlanFrozen'
    BY <1>0, <1>2 DEF Advance, Held, ActivatedPlanFrozen, Listed, Revision
  <2> QED BY <2>1, <2>2 DEF FrozenInv
<1>3. CASE PlanEdited
  <2>1. PICK k \in Keys :
          /\ activated[k] = 0
          /\ \/ Listed(k) /\ plan' = [plan EXCEPT ![k] = Removed(k)]
             \/ \E c \in Configs : plan' = [plan EXCEPT ![k] = Configured(k, c)]
    BY <1>3 DEF PlanEdited
  <2>2. plan' \in [Keys -> Header] /\ \A j \in Keys \ {k} : plan'[j] = plan[j]
    BY <1>0, <2>1, HeaderGrows DEF PlanTypeOK
  <2>3. /\ roundLock = Nobody
        /\ UNCHANGED <<stage, frozen, mapping, begun, activated, roundLock, decision, observation>>
    BY <1>3 DEF PlanEdited
  <2>4. PlanTypeOK'
    BY <1>0, <2>2, <2>3 DEF PlanTypeOK
  <2>5. \A b \in Observers : observation[b].phase # "reading"
    BY <1>0, <2>3, PlanAssumption, FreeRowNoReader
  <2>6. Held'
    BY <2>3, <2>5 DEF Held
  <2>7. ActivatedPlanFrozen'
    <3> SUFFICES ASSUME NEW j \in Keys, activated[j] # 0
                 PROVE  activated[j] = Revision(j)' /\ ~plan'[j].removed
      BY <2>3 DEF ActivatedPlanFrozen
    <3> QED BY <1>0, <2>1, <2>2 DEF ActivatedPlanFrozen, Revision
  <2> QED BY <2>4, <2>6, <2>7 DEF FrozenInv
<1>4. ASSUME NEW b \in Observers, DropEntry(b) PROVE FrozenInv'
  <2>1. /\ observation' = [observation EXCEPT ![b] = NoObservation]
        /\ roundLock' = IF roundLock = b THEN Nobody ELSE roundLock
        /\ UNCHANGED <<stage, frozen, mapping, begun, plan, activated, decision>>
    BY <1>4 DEF DropEntry
  <2>2. observation' \in [Observers -> Observation]
    <3>1. NoObservation \in Observation
      BY DEF NoObservation, Observation
    <3> QED BY <1>0, <2>1, <3>1 DEF PlanTypeOK
  <2>3. PlanTypeOK'
    BY <1>0, <2>1, <2>2 DEF PlanTypeOK
  <2>4. \A c \in Observers : observation'[c].phase = "reading" =>
          /\ c # b /\ observation'[c] = observation[c] /\ roundLock = c /\ roundLock' = c
    BY <1>0, <2>1 DEF PlanTypeOK, Held, NoObservation
  <2>5. Held' /\ ActivatedPlanFrozen'
    BY <1>0, <2>1, <2>4 DEF Held, ActivatedPlanFrozen, Listed, Revision
  <2> QED BY <2>3, <2>5 DEF FrozenInv
<1> QED BY <1>1, <1>2, <1>3, <1>4, PlanHalf

\* What has fired stays as it fired, and the round keeps its mapping.
LEMMA FiredIsSettled ==
  ASSUME FrozenInv, [Next]_vars
  PROVE  /\ mapping' = mapping
         /\ \A k \in Keys : activated[k] # 0 =>
              activated'[k] = activated[k] /\ plan'[k] = plan[k]
<1>0. PlanTypeOK
  BY DEF FrozenInv
<1>1. CASE AflStep \/ Advance \/ UNCHANGED vars
  BY <1>1 DEF AflStep, MatchBegins, MatchRescheduled, Advance, vars, planVars
<1>2. CASE PlanEdited
  BY <1>0, <1>2 DEF PlanEdited, PlanTypeOK
<1>3. ASSUME NEW b \in Observers, RequestStep(b)
      PROVE  /\ mapping' = mapping
             /\ \A k \in Keys : activated[k] # 0 =>
                  activated'[k] = activated[k] /\ plan'[k] = plan[k]
  <2>1. CASE FireTriggers(b)
    BY <2>1 DEF FireTriggers, Fires
  <2>2. CASE ~FireTriggers(b)
    BY <1>3, <2>2 DEF RequestStep, Begin, Observe, ReadEffective, RecordEvidence, Answer, Guard,
                      Commit, CorrectLineup, DropEntry, Fetch, ReadTriggers, Return, planVars
  <2> QED BY <2>1, <2>2
<1> QED BY <1>1, <1>2, <1>3 DEF Next

\* So what a set of fired triggers covers stays covered, and nothing else.
LEMMA CoverIsSettled ==
  ASSUME FrozenInv, [Next]_vars
  PROVE  \A fired : fired \subseteq Fired =>
           /\ fired \subseteq Fired'
           /\ \A player : Covered(player, fired)' <=> Covered(player, fired)
<1> SUFFICES ASSUME NEW fired, fired \subseteq Fired
             PROVE  /\ fired \subseteq Fired'
                    /\ \A player : Covered(player, fired)' <=> Covered(player, fired)
  OBVIOUS
<1>1. \A k \in fired : /\ k \in Keys /\ activated[k] # 0
                       /\ activated'[k] = activated[k] /\ plan'[k] = plan[k]
  BY FiredIsSettled DEF Fired
<1>2. \A k \in fired : At(k)' = At(k)
  BY <1>1 DEF At
<1>3. LockedMatches(fired)' = LockedMatches(fired) /\ MainActivated(fired)' = MainActivated(fired)
  BY <1>2 DEF LockedMatches, MainActivated
<1>4. \A player : MatchOf(player)' = MatchOf(player)
  BY FiredIsSettled DEF MatchOf
<1> QED BY <1>1, <1>3, <1>4 DEF Covered, Fired

LEMMA CoverGrows ==
  ASSUME NEW fired, NEW more, fired \subseteq more, NEW player, Covered(player, fired)
  PROVE  Covered(player, more)
BY DEF Covered, MainActivated, LockedMatches

\* A trigger that fired is listed.
LEMMA CoverNeedsPlan ==
  ASSUME FrozenInv, NEW fired, fired \subseteq Fired, NEW player, Covered(player, fired)
  PROVE  HasPlan
<1>1. PICK k \in fired : TRUE
  BY DEF Covered, MainActivated, LockedMatches
<1>2. k \in Keys /\ activated[k] # 0
  BY <1>1 DEF Fired
<1>3. activated[k] = Revision(k) /\ ~plan[k].removed /\ Revision(k) \in Nat
  BY <1>2, HeaderGrows DEF FrozenInv, ActivatedPlanFrozen
<1> QED BY <1>2, <1>3 DEF HasPlan, Listed

-----------------------------------------------------------------------------
(***************************************************************************)
(* What the requests on a lineup hold.  SubmissionKeepsEvidence rests on    *)
(* the row a guarded submission holds: evidence is inserted under it.       *)
(* LockedCorrectionsMarked rests on the version: what a request recorded    *)
(* evidence for is the lineup it corrects when the version still matches.   *)
(***************************************************************************)
SinceFired == \A b \in Observers : entry[b].since \subseteq Fired

\* What a guarded submission changes was neither recorded nor covered.
GuardedKeeps(b) ==
  entry[b].phase = "guarded" => \A p \in Slots : entry[b].sheet[p] # lineup.slots[p] =>
    /\ ~Evidenced(p, lineup.slots[p])
    /\ ~Covered(lineup.slots[p], entry[b].since)
    /\ entry[b].sheet[p] # Vacant => ~Covered(entry[b].sheet[p], entry[b].since)

\* A request that comes to its turn with the version it began with has read,
\* and recorded evidence for, the lineup in force.
Recorded(b) ==
  /\ entry[b].phase # "idle" => entry[b].expected <= lineup.version
  /\ entry[b].phase = "recording" /\ entry[b].expected = lineup.version =>
       entry[b].sheet = lineup.slots
  /\ entry[b].phase = "ready" /\ entry[b].expected = lineup.version /\ lineup.version > 0 =>
       \A p \in Slots : lineup.slots[p] # Vacant /\ ResolvedAndCovered(p, entry[b].since) =>
         evidence[p] # Vacant

LockInv ==
  /\ LockTypeOK /\ FrozenInv /\ SinceFired
  /\ \A b \in Observers : GuardedKeeps(b) /\ Recorded(b)

LEMMA LocksStart == Init => LockInv
<1> SUFFICES ASSUME Init PROVE LockInv
  OBVIOUS
<1>1. NoEntry \in Entry /\ EmptySheet \in Sheet /\ NoEntry.phase = "idle" /\ NoEntry.since = {}
  BY DEF NoEntry, Entry, EmptySheet, Sheet, Occupant
<1>2. \A b \in Observers : entry[b] = NoEntry
  BY DEF Init
<1>3. FrozenInv
  BY LocksFrozenStart
<1>4. LockTypeOK
  <2>1. lineup \in [version : Nat, slots : Sheet] /\ evidence \in Sheet
    BY <1>1 DEF Init
  <2>2. corrections \in Seq(SUBSET Slots) /\ rowLock = Nobody
    BY DEF Init
  <2>3. entry \in [Observers -> Entry]
    BY <1>1 DEF Init
  <2>4. \A b \in Observers : rowLock = b <=> entry[b].phase = "guarded"
    BY <1>1, <1>2, <2>2, PlanAssumption
  <2> QED BY <1>3, <2>1, <2>2, <2>3, <2>4 DEF LockTypeOK, FrozenInv
<1>5. SinceFired /\ \A b \in Observers : GuardedKeeps(b) /\ Recorded(b)
  BY <1>1, <1>2 DEF SinceFired, GuardedKeeps, Recorded
<1> QED BY <1>3, <1>4, <1>5 DEF LockInv

\* A step that leaves the lineup and its evidence alone leaves alone what the
\* requests it does not touch hold.
LEMMA OthersKeep ==
  ASSUME LockInv, [Next]_vars, NEW b \in Observers, entry'[b] = entry[b],
         lineup' = lineup,
         \A p \in Slots : evidence[p] # Vacant => evidence'[p] # Vacant,
         entry[b].phase = "guarded" => evidence' = evidence
  PROVE  GuardedKeeps(b)' /\ Recorded(b)' /\ entry'[b].since \subseteq Fired'
<1>1. entry[b].since \subseteq Fired
  BY DEF LockInv, SinceFired
<1>2. /\ entry'[b].since \subseteq Fired'
      /\ \A player : Covered(player, entry[b].since)' <=> Covered(player, entry[b].since)
  <2>1. FrozenInv
    BY DEF LockInv
  <2>2. PICK fired : fired = entry[b].since
    OBVIOUS
  <2>3. fired \subseteq Fired' /\ \A player : Covered(player, fired)' <=> Covered(player, fired)
    BY <1>1, <2>1, <2>2, CoverIsSettled
  <2> QED BY <2>2, <2>3
<1>3. GuardedKeeps(b)'
  BY <1>2 DEF LockInv, GuardedKeeps, Evidenced
<1>4. \A p \in Slots : ResolvedAndCovered(p, entry[b].since)' <=> ResolvedAndCovered(p, entry[b].since)
  <2>1. mapping' = mapping
    BY FiredIsSettled DEF LockInv
  <2> QED BY <1>2, <2>1 DEF ResolvedAndCovered, MatchOf
<1>5. Recorded(b)'
  BY <1>4 DEF LockInv, Recorded
<1> QED BY <1>2, <1>3, <1>5

\* The requests whose entry a step leaves alone keep what they hold.
LEMMA ElsewhereKept ==
  ASSUME LockInv, [Next]_vars, NEW b \in Observers, \A c \in Observers \ {b} : entry'[c] = entry[c],
         lineup' = lineup,
         \A p \in Slots : evidence[p] # Vacant => evidence'[p] # Vacant,
         rowLock # Nobody => evidence' = evidence
  PROVE  \A c \in Observers \ {b} : GuardedKeeps(c)' /\ Recorded(c)' /\ entry'[c].since \subseteq Fired'
<1> SUFFICES ASSUME NEW c \in Observers \ {b}
             PROVE  GuardedKeeps(c)' /\ Recorded(c)' /\ entry'[c].since \subseteq Fired'
  OBVIOUS
<1>1. entry[c].phase = "guarded" => rowLock = c /\ c # Nobody
  BY PlanAssumption DEF LockInv, LockTypeOK
<1> QED BY <1>1, OthersKeep

LEMMA EntryKept ==
  ASSUME LockInv, NEW b \in Observers, NEW e \in Entry, entry' = [entry EXCEPT ![b] = e]
  PROVE  /\ entry' \in [Observers -> Entry] /\ entry'[b] = e
         /\ \A c \in Observers \ {b} : entry'[c] = entry[c]
BY DEF LockInv, LockTypeOK

\* A request that ends, or that only begins.
LEMMA QuietSteps ==
  ASSUME LockInv, [Next]_vars, NEW b \in Observers,
         Begin(b) \/ Observe(b) \/ Answer(b) \/ DropEntry(b)
  PROVE  LockInv'
<1>1. FrozenInv' /\ PlanTypeOK'
  BY LocksFrozenNext DEF LockInv, FrozenInv
<1>2. UNCHANGED <<lineup, evidence, corrections>>
  BY DEF Begin, Observe, Answer, DropEntry, lineupVars
<1>3. NoEntry \in Entry /\ NoEntry.phase = "idle" /\ NoEntry.since = {}
  BY DEF NoEntry, Entry, EmptySheet, Sheet, Occupant
<1>4. lineup \in [version : Nat, slots : Sheet] /\ entry \in [Observers -> Entry] /\ entry[b] \in Entry
  BY DEF LockInv, LockTypeOK
<1>5. CASE Observe(b)
  <2>1. UNCHANGED <<lineup, evidence, corrections, rowLock, entry>>
    BY <1>5 DEF Observe, lineupVars
  <2>2. LockTypeOK'
    BY <1>1, <2>1 DEF LockInv, LockTypeOK
  <2>3. \A c \in Observers : GuardedKeeps(c)' /\ Recorded(c)' /\ entry'[c].since \subseteq Fired'
    BY <2>1, OthersKeep
  <2> QED BY <1>1, <2>2, <2>3 DEF LockInv, SinceFired
<1>6. CASE Begin(b)
  <2> DEFINE e == [entry[b] EXCEPT !.phase = "observing", !.expected = lineup.version]
  <2>1. e \in Entry /\ e.phase = "observing" /\ e.expected = lineup.version /\ e.since = entry[b].since
    BY <1>4 DEF Entry
  <2>2. entry' = [entry EXCEPT ![b] = e] /\ rowLock' = rowLock /\ entry[b].phase = "idle"
    BY <1>6 DEF Begin
  <2> HIDE DEF e
  <2>3. /\ entry' \in [Observers -> Entry] /\ entry'[b] = e
        /\ \A c \in Observers \ {b} : entry'[c] = entry[c]
    BY <2>1, <2>2, EntryKept
  <2>4. LockTypeOK'
    BY <1>1, <1>2, <2>1, <2>2, <2>3 DEF LockInv, LockTypeOK
  <2>5. \A c \in Observers \ {b} : GuardedKeeps(c)' /\ Recorded(c)' /\ entry'[c].since \subseteq Fired'
    BY <1>2, <2>3, ElsewhereKept
  <2>6. GuardedKeeps(b)' /\ Recorded(b)'
    BY <1>2, <1>4, <2>1, <2>3 DEF GuardedKeeps, Recorded
  <2>7. entry'[b].since \subseteq Fired'
    <3>1. e.since \subseteq Fired
      BY <2>1 DEF LockInv, SinceFired
    <3>2. e.since \subseteq Fired'
      BY <3>1, CoverIsSettled DEF LockInv
    <3> QED BY <2>3, <3>2
  <2> QED BY <1>1, <2>4, <2>5, <2>6, <2>7 DEF LockInv, SinceFired
<1>7. CASE Answer(b) \/ DropEntry(b)
  <2>1. entry' = [entry EXCEPT ![b] = NoEntry] /\ rowLock' = IF rowLock = b THEN Nobody ELSE rowLock
    BY <1>7 DEF Answer, DropEntry, EndRequest
  <2>2. /\ entry' \in [Observers -> Entry] /\ entry'[b] = NoEntry
        /\ \A c \in Observers \ {b} : entry'[c] = entry[c]
    BY <1>3, <2>1, EntryKept
  <2>3. LockTypeOK'
    BY <1>1, <1>2, <1>3, <2>1, <2>2, PlanAssumption DEF LockInv, LockTypeOK
  <2>4. \A c \in Observers \ {b} : GuardedKeeps(c)' /\ Recorded(c)' /\ entry'[c].since \subseteq Fired'
    BY <1>2, <2>2, ElsewhereKept
  <2>5. GuardedKeeps(b)' /\ Recorded(b)' /\ entry'[b].since \subseteq Fired'
    BY <1>3, <2>2 DEF GuardedKeeps, Recorded
  <2> QED BY <1>1, <2>3, <2>4, <2>5 DEF LockInv, SinceFired
<1> QED BY <1>5, <1>6, <1>7

LEMMA ReadEffectiveKeeps ==
  ASSUME LockInv, [Next]_vars, NEW b \in Observers, ReadEffective(b)
  PROVE  LockInv'
<1>1. FrozenInv' /\ PlanTypeOK'
  BY LocksFrozenNext DEF LockInv, FrozenInv
<1>2. UNCHANGED <<lineup, evidence, corrections, rowLock, planVars>>
  BY DEF ReadEffective
<1>3. lineup \in [version : Nat, slots : Sheet] /\ entry \in [Observers -> Entry] /\ entry[b] \in Entry
  BY DEF LockInv, LockTypeOK
<1> DEFINE e == [entry[b] EXCEPT !.phase = IF lineup.version = 0 THEN "ready" ELSE "recording",
                                 !.sheet = lineup.slots, !.since = Fired]
<1>4. Fired \in SUBSET Keys /\ lineup.slots \in Sheet /\ lineup.version \in Nat
  BY <1>3 DEF Fired
<1>5. /\ e \in Entry /\ e.expected = entry[b].expected /\ e.sheet = lineup.slots /\ e.since = Fired
      /\ lineup.version = 0 => e.phase = "ready"
      /\ lineup.version # 0 => e.phase = "recording"
  BY <1>3, <1>4 DEF Entry
<1>6. entry' = [entry EXCEPT ![b] = e] /\ entry[b].phase = "observing"
  BY DEF ReadEffective
<1> HIDE DEF e
<1>7. /\ entry' \in [Observers -> Entry] /\ entry'[b] = e
      /\ \A c \in Observers \ {b} : entry'[c] = entry[c]
  BY <1>5, <1>6, EntryKept
<1>8. LockTypeOK'
  BY <1>1, <1>2, <1>4, <1>5, <1>6, <1>7 DEF LockInv, LockTypeOK
<1>9. \A c \in Observers \ {b} : GuardedKeeps(c)' /\ Recorded(c)' /\ entry'[c].since \subseteq Fired'
  BY <1>2, <1>7, ElsewhereKept
<1>10. entry[b].expected <= lineup.version
  BY <1>6 DEF LockInv, Recorded
<1>11. GuardedKeeps(b)' /\ Recorded(b)'
  BY <1>2, <1>4, <1>5, <1>7, <1>10 DEF GuardedKeeps, Recorded
<1>12. entry'[b].since \subseteq Fired'
  BY <1>2, <1>5, <1>7 DEF Fired, planVars
<1> QED BY <1>1, <1>8, <1>9, <1>11, <1>12 DEF LockInv, SinceFired

\* Evidence is recorded for every covered position of the lineup read.
LEMMA RecordEvidenceKeeps ==
  ASSUME LockInv, [Next]_vars, NEW b \in Observers, RecordEvidence(b)
  PROVE  LockInv'
<1>1. FrozenInv' /\ PlanTypeOK'
  BY LocksFrozenNext DEF LockInv, FrozenInv
<1>2. UNCHANGED <<lineup, corrections, rowLock, planVars>>
  BY DEF RecordEvidence
<1>3. /\ lineup \in [version : Nat, slots : Sheet] /\ entry \in [Observers -> Entry] /\ entry[b] \in Entry
      /\ evidence \in Sheet /\ EmptySheet \in Sheet /\ entry[b].sheet \in Sheet
  BY DEF LockInv, LockTypeOK, EmptySheet, Sheet, Occupant, Entry
<1> DEFINE e == [entry[b] EXCEPT !.phase = "ready", !.sheet = EmptySheet]
           recorded == Materialized(entry[b].sheet)
<1>4. /\ e \in Entry /\ e.expected = entry[b].expected /\ e.since = entry[b].since
      /\ e.phase = "ready"
  BY <1>3 DEF Entry
<1>5. /\ entry' = [entry EXCEPT ![b] = e] /\ entry[b].phase = "recording"
      /\ recorded = {} \/ rowLock = Nobody
      /\ evidence' = [p \in Slots |-> IF p \in recorded THEN entry[b].sheet[p] ELSE evidence[p]]
  BY DEF RecordEvidence, RowFree
<1>6. \A p \in recorded : p \in Slots /\ evidence[p] = Vacant /\ entry[b].sheet[p] # Vacant
  BY DEF Materialized
<1> HIDE DEF e, recorded
<1>7. /\ entry' \in [Observers -> Entry] /\ entry'[b] = e
      /\ \A c \in Observers \ {b} : entry'[c] = entry[c]
  BY <1>4, <1>5, EntryKept
<1>8. evidence' \in Sheet /\ \A p \in Slots : evidence[p] # Vacant => evidence'[p] # Vacant
  BY <1>3, <1>5, <1>6 DEF Sheet
<1>9. rowLock # Nobody => evidence' = evidence
  BY <1>3, <1>5 DEF Sheet
<1>10. LockTypeOK'
  BY <1>1, <1>2, <1>4, <1>5, <1>7, <1>8 DEF LockInv, LockTypeOK
<1>11. \A c \in Observers \ {b} : GuardedKeeps(c)' /\ Recorded(c)' /\ entry'[c].since \subseteq Fired'
  BY <1>2, <1>7, <1>8, <1>9, ElsewhereKept
<1>12. e.since \subseteq Fired /\ Fired' = Fired /\ FrozenInv
  BY <1>2, <1>4 DEF LockInv, SinceFired, Fired, planVars
<1>13. ASSUME entry[b].expected = lineup.version, NEW p \in Slots, lineup.slots[p] # Vacant,
              ResolvedAndCovered(p, e.since)
       PROVE  evidence'[p] # Vacant
  <2>1. entry[b].sheet = lineup.slots
    BY <1>5, <1>13 DEF LockInv, Recorded
  <2>2. Covered(lineup.slots[p], Fired) /\ HasPlan /\ MatchOf(lineup.slots[p]) # NoMatch
    BY <1>12, <1>13, CoverGrows, CoverNeedsPlan DEF ResolvedAndCovered
  <2>3. evidence[p] = Vacant => p \in recorded
    BY <1>13, <2>1, <2>2 DEF recorded, Materialized
  <2> QED BY <1>5, <1>6, <1>8, <1>13, <2>3
<1>14. Recorded(b)'
  <2>1. entry[b].expected <= lineup.version
    BY <1>5 DEF LockInv, Recorded
  <2>2. UNCHANGED <<lineup, plan, activated, mapping>>
    BY <1>2 DEF planVars
  <2>3. \A p \in Slots : ResolvedAndCovered(p, entry[b].since)' => ResolvedAndCovered(p, e.since)
    <3>1. entry'[b].since = e.since
      BY <1>7
    <3> QED BY <2>2, <3>1 DEF ResolvedAndCovered, Covered, MatchOf, MainActivated, LockedMatches, At
  <2> QED BY <1>2, <1>4, <1>7, <1>13, <2>1, <2>3 DEF Recorded
<1>15. GuardedKeeps(b)' /\ entry'[b].since \subseteq Fired'
  BY <1>4, <1>7, <1>12 DEF GuardedKeeps
<1> QED BY <1>1, <1>10, <1>11, <1>14, <1>15 DEF LockInv, SinceFired

LEMMA GuardKeeps ==
  ASSUME LockInv, [Next]_vars, NEW b \in Observers, Guard(b)
  PROVE  LockInv'
<1>1. FrozenInv' /\ PlanTypeOK'
  BY LocksFrozenNext DEF LockInv, FrozenInv
<1>2. /\ UNCHANGED <<lineup, evidence, corrections, planVars>>
      /\ entry[b].phase = "ready" /\ rowLock = Nobody /\ rowLock' = b
  BY DEF Guard, Writable
<1>3. PICK new \in Sheets, byes \in BOOLEAN :
        /\ GuardTransition(lineup.slots, new, byes)
        /\ entry' = [entry EXCEPT ![b].phase = "guarded", ![b].sheet = new]
  BY DEF Guard
<1>4. new \in Sheet /\ entry \in [Observers -> Entry] /\ entry[b] \in Entry
  BY LineupAssumption DEF LockInv, LockTypeOK
<1> DEFINE e == [entry[b] EXCEPT !.phase = "guarded", !.sheet = new]
<1>5. /\ e \in Entry /\ e.expected = entry[b].expected /\ e.since = entry[b].since
      /\ e.phase = "guarded" /\ e.sheet = new
  BY <1>4 DEF Entry
<1>6. entry' = [entry EXCEPT ![b] = e]
  BY <1>3
<1> HIDE DEF e
<1>7. /\ entry' \in [Observers -> Entry] /\ entry'[b] = e
      /\ \A c \in Observers \ {b} : entry'[c] = entry[c]
  BY <1>5, <1>6, EntryKept
<1>8. LockTypeOK'
  <2>1. \A c \in Observers : rowLock' = c <=> entry'[c].phase = "guarded"
    <3>1. \A c \in Observers \ {b} : entry[c].phase # "guarded"
      BY <1>2, PlanAssumption DEF LockInv, LockTypeOK
    <3> QED BY <1>2, <1>5, <1>7, <3>1
  <2> QED BY <1>1, <1>2, <1>7, <2>1 DEF LockInv, LockTypeOK
<1>9. \A c \in Observers \ {b} : GuardedKeeps(c)' /\ Recorded(c)' /\ entry'[c].since \subseteq Fired'
  BY <1>2, <1>7, ElsewhereKept
<1>10. e.since \subseteq Fired /\ Fired' = Fired
  BY <1>2, <1>5 DEF LockInv, SinceFired, Fired, planVars
<1>11. ASSUME NEW p \in Slots, new[p] # lineup.slots[p]
       PROVE  /\ ~Evidenced(p, lineup.slots[p])
              /\ ~Covered(lineup.slots[p], e.since)
              /\ new[p] # Vacant => ~Covered(new[p], e.since)
  <2>1. /\ ~Fixed(p, lineup.slots[p], byes)
        /\ new[p] # Vacant => ~Fixed(p, new[p], byes)
    BY <1>3, <1>11 DEF GuardTransition
  <2>2. \A player : ~Covered(player, Fired) => ~Covered(player, e.since)
    BY <1>10, CoverGrows
  <2> QED BY <2>1, <2>2 DEF Fixed
<1>12. GuardedKeeps(b)'
  <2>1. UNCHANGED <<lineup, evidence, plan, activated, mapping>>
    BY <1>2 DEF planVars
  <2>2. \A player : Covered(player, entry[b].since)' <=> Covered(player, e.since)
    <3>1. entry'[b].since = e.since
      BY <1>7
    <3> QED BY <2>1, <3>1 DEF Covered, MatchOf, MainActivated, LockedMatches, At
  <2> QED BY <1>5, <1>7, <1>11, <2>1, <2>2 DEF GuardedKeeps, Evidenced
<1>13. Recorded(b)'
  BY <1>2, <1>5, <1>7 DEF LockInv, Recorded
<1> QED BY <1>1, <1>7, <1>8, <1>9, <1>10, <1>12, <1>13 DEF LockInv, SinceFired

\* A new version of the lineup: nobody else holds the row, and what the others
\* recorded is of an earlier version.
LEMMA NewVersionKeeps ==
  ASSUME LockInv, [Next]_vars, NEW b \in Observers, NEW sheet \in Sheet, NewVersion(sheet),
         entry' = [entry EXCEPT ![b] = NoEntry], rowLock \in {Nobody, b}, rowLock' = Nobody,
         evidence' = evidence, corrections' \in Seq(SUBSET Slots)
  PROVE  LockInv'
<1>1. FrozenInv' /\ PlanTypeOK'
  BY LocksFrozenNext DEF LockInv, FrozenInv
<1>2. NoEntry \in Entry /\ NoEntry.phase = "idle" /\ NoEntry.since = {}
  BY DEF NoEntry, Entry, EmptySheet, Sheet, Occupant
<1>3. /\ entry' \in [Observers -> Entry] /\ entry'[b] = NoEntry
      /\ \A c \in Observers \ {b} : entry'[c] = entry[c] /\ entry[c] \in Entry
  BY <1>2, EntryKept DEF LockInv, LockTypeOK
<1>4. /\ lineup.version \in Nat /\ lineup' = [version |-> lineup.version + 1, slots |-> sheet]
      /\ lineup'.version = lineup.version + 1
  BY DEF LockInv, LockTypeOK, NewVersion
<1>5. \A c \in Observers \ {b} : entry[c].phase # "guarded"
  BY PlanAssumption DEF LockInv, LockTypeOK
<1>6. LockTypeOK'
  <2>1. lineup' \in [version : Nat, slots : Sheet]
    BY <1>4
  <2>2. \A c \in Observers : rowLock' = c <=> entry'[c].phase = "guarded"
    BY <1>2, <1>3, <1>5, PlanAssumption
  <2> QED BY <1>1, <1>3, <2>1, <2>2 DEF LockInv, LockTypeOK
<1>7. ASSUME NEW c \in Observers \ {b}
      PROVE  GuardedKeeps(c)' /\ Recorded(c)' /\ entry'[c].since \subseteq Fired'
  <2>1. GuardedKeeps(c)'
    BY <1>3, <1>5 DEF GuardedKeeps
  <2>2. entry[c].expected \in Nat
    BY <1>3 DEF Entry
  <2>3. entry[c].phase # "idle" => entry[c].expected <= lineup.version
    BY DEF LockInv, Recorded
  <2>4. Recorded(c)'
    BY <1>3, <1>4, <2>2, <2>3 DEF Recorded
  <2>5. entry[c].since \subseteq Fired'
    BY CoverIsSettled DEF LockInv, SinceFired
  <2> QED BY <1>3, <2>1, <2>4, <2>5
<1>8. GuardedKeeps(b)' /\ Recorded(b)' /\ entry'[b].since \subseteq Fired'
  BY <1>2, <1>3 DEF GuardedKeeps, Recorded
<1> QED BY <1>1, <1>6, <1>7, <1>8 DEF LockInv, SinceFired

LEMMA CommitKeeps ==
  ASSUME LockInv, [Next]_vars, NEW b \in Observers, Commit(b) \/ CorrectLineup(b)
  PROVE  LockInv'
<1>1. entry[b] \in Entry /\ corrections \in Seq(SUBSET Slots)
  BY DEF LockInv, LockTypeOK
<1>2. CASE Commit(b)
  <2>1. rowLock = b
    BY <1>2 DEF Commit, LockInv, LockTypeOK
  <2>2. /\ entry[b].sheet \in Sheet /\ NewVersion(entry[b].sheet) /\ UNCHANGED <<evidence, corrections>>
        /\ entry' = [entry EXCEPT ![b] = NoEntry] /\ rowLock' = Nobody
    BY <1>1, <1>2, <2>1 DEF Commit, EndRequest, Entry
  <2> QED BY <1>1, <2>1, <2>2, NewVersionKeeps
<1>3. CASE CorrectLineup(b)
  <2>1. rowLock = Nobody
    BY <1>3 DEF CorrectLineup, Writable
  <2>2. /\ evidence' = evidence
        /\ entry' = [entry EXCEPT ![b] = NoEntry] /\ rowLock' = Nobody
    BY <1>3, <2>1 DEF CorrectLineup, EndRequest
  <2>3. PICK new \in Sheets :
          /\ NewVersion(new)
          /\ corrections' = Append(corrections, Marked({p \in Slots : new[p] # lineup.slots[p]}))
    BY <1>3 DEF CorrectLineup
  <2>4. corrections' \in Seq(SUBSET Slots)
    <3>1. Marked({p \in Slots : new[p] # lineup.slots[p]}) \in SUBSET Slots
      BY DEF Marked
    <3> QED BY <1>1, <2>3, <3>1
  <2>5. new \in Sheet
    BY LineupAssumption
  <2> QED BY <2>1, <2>2, <2>3, <2>4, <2>5, NewVersionKeeps
<1> QED BY <1>2, <1>3

LEMMA LocksStep == LockInv /\ [Next]_vars => LockInv'
<1> SUFFICES ASSUME LockInv, [Next]_vars PROVE LockInv'
  OBVIOUS
<1>1. CASE \E b \in Observers : RequestStep(b)
  BY <1>1, QuietSteps, ReadEffectiveKeeps, RecordEvidenceKeeps, GuardKeeps, CommitKeeps DEF RequestStep
<1>2. CASE UNCHANGED lineupVars
  <2>1. UNCHANGED <<lineup, evidence, corrections, rowLock, entry>>
    BY <1>2 DEF lineupVars
  <2>2. FrozenInv' /\ PlanTypeOK'
    BY LocksFrozenNext DEF LockInv, FrozenInv
  <2>3. LockTypeOK'
    BY <2>1, <2>2 DEF LockInv, LockTypeOK
  <2>4. \A b \in Observers : GuardedKeeps(b)' /\ Recorded(b)' /\ entry'[b].since \subseteq Fired'
    BY <2>1, OthersKeep
  <2> QED BY <2>2, <2>3, <2>4 DEF LockInv, SinceFired
<1>3. UNCHANGED lineupVars \/ \E b \in Observers : RequestStep(b)
  BY DEF Next, Advance, PlanEdited, vars
<1> QED BY <1>1, <1>2, <1>3

LEMMA LocksHold == Spec => []LockInv
BY LocksStart, LocksStep, PTL DEF Spec

\* The lineup's rows and the requests' working data keep their types, and the
\* row is held exactly from a guard to its commit.
THEOREM LocksAreTyped == Spec => []LockTypeOK
<1>1. LockInv => LockTypeOK
  BY DEF LockInv
<1> QED BY <1>1, LocksHold, PTL

\* The one who commits held the row, and commits what it was guarded for.
LEMMA CommitsItsSheet ==
  ASSUME LockInv, [Next]_vars, NEW b \in Observers, Commits(b)
  PROVE  lineup'.slots = entry[b].sheet
<1>1. rowLock = b /\ b # Nobody
  BY PlanAssumption DEF Commits, LockInv, LockTypeOK
<1>2. PICK c \in Observers : Commit(c) \/ CorrectLineup(c)
  BY DEF Commits, Next, vars, lineupVars, Advance, PlanEdited, RequestStep, Begin, Observe,
         ReadEffective, RecordEvidence, Answer, Guard, DropEntry
<1>3. Commit(b)
  BY <1>1, <1>2 DEF Commit, CorrectLineup, Writable, LockInv, LockTypeOK
<1> QED BY <1>3 DEF Commit, NewVersion

\* An ordinary submission never moves a player whose lock is recorded, though
\* others record evidence between its guard and its commit (lockouts.py
\* guard_transition, _insert_lock).
THEOREM SubmissionsKeepEvidence == Spec => SubmissionKeepsEvidence
<1>1. LockInv /\ [Next]_vars =>
        [\A b \in Observers, p \in Slots :
           Commits(b) /\ Changes(p) => ~Evidenced(p, lineup.slots[p])]_vars
  <2> SUFFICES ASSUME LockInv, [Next]_vars, NEW b \in Observers, NEW p \in Slots,
                      Commits(b), Changes(p)
               PROVE  ~Evidenced(p, lineup.slots[p])
    OBVIOUS
  <2> QED BY CommitsItsSheet DEF Commits, Changes, LockInv, GuardedKeeps
<1> QED BY <1>1, LocksHold, PTL DEF Spec, SubmissionKeepsEvidence

\* An ordinary submission changes nothing a trigger covered when its own
\* observation ended, and adds no player one covered then (lockouts.py
\* "Concurrency" and the new-player rule of guard_transition).
THEOREM SubmissionsKeepEarlierLocks == Spec => SubmissionKeepsEarlierLocks
<1>1. LockInv /\ [Next]_vars =>
        [\A b \in Observers, p \in Slots :
           Commits(b) /\ Changes(p) =>
             /\ ~Covered(lineup.slots[p], entry[b].since)
             /\ lineup'.slots[p] # Vacant => ~Covered(lineup'.slots[p], entry[b].since)]_vars
  <2> SUFFICES ASSUME LockInv, [Next]_vars, NEW b \in Observers, NEW p \in Slots,
                      Commits(b), Changes(p)
               PROVE  /\ ~Covered(lineup.slots[p], entry[b].since)
                      /\ lineup'.slots[p] # Vacant => ~Covered(lineup'.slots[p], entry[b].since)
    OBVIOUS
  <2> QED BY CommitsItsSheet DEF Commits, Changes, LockInv, GuardedKeeps
<1> QED BY <1>1, LocksHold, PTL DEF Spec, SubmissionKeepsEarlierLocks

\* A correction marks as locked every position it changes that a trigger
\* covered when the correction's observation ended, unless the player's club
\* has no match (lockouts.py submit_correction).
THEOREM CorrectionsAreMarked == Spec => LockedCorrectionsMarked
<1>1. LockInv /\ [Next]_vars => [CorrectionMarks(ResolvedAndCovered)]_vars
  <2> SUFFICES ASSUME LockInv, [Next]_vars, NEW b \in Observers, NEW p \in Slots,
                      corrections' # corrections, entry'[b] # entry[b], Changes(p),
                      ResolvedAndCovered(p, entry[b].since)
               PROVE  p \in corrections'[Len(corrections')]
    BY DEF CorrectionMarks
  <2>1. PICK c \in Observers : CorrectLineup(c)
    BY DEF Next, vars, lineupVars, Advance, PlanEdited, RequestStep, Begin, Observe,
           ReadEffective, RecordEvidence, Answer, Guard, Commit, DropEntry
  <2>2. entry \in [Observers -> Entry] /\ corrections \in Seq(SUBSET Slots)
    BY DEF LockInv, LockTypeOK
  <2>3. CorrectLineup(b)
    BY <2>1, <2>2 DEF CorrectLineup, EndRequest
  <2>4. PICK new \in Sheets :
          /\ NewVersion(new)
          /\ corrections' = Append(corrections, Marked({q \in Slots : new[q] # lineup.slots[q]}))
    BY <2>3 DEF CorrectLineup
  <2> DEFINE marked == Marked({q \in Slots : new[q] # lineup.slots[q]})
  <2>5. p \in {q \in Slots : new[q] # lineup.slots[q]}
    BY <2>4 DEF Changes, NewVersion
  <2>6. evidence[p] # Vacant \/ (lineup.slots[p] = Vacant /\ MainActivated(Fired))
    <3>1. CASE lineup.slots[p] = Vacant
      <4>1. MainActivated(entry[b].since) /\ entry[b].since \subseteq Fired
        BY <3>1 DEF ResolvedAndCovered, Covered, LockInv, SinceFired
      <4> QED BY <3>1, <4>1 DEF MainActivated
    <3>2. CASE lineup.slots[p] # Vacant
      <4>1. entry[b].phase = "ready" /\ entry[b].expected = lineup.version /\ lineup.version > 0
        BY <2>3 DEF CorrectLineup, Writable
      <4> QED BY <3>2, <4>1 DEF LockInv, Recorded
    <3> QED BY <3>1, <3>2
  <2>7. p \in marked
    BY <2>5, <2>6 DEF Marked
  <2>8. marked \in SUBSET Slots
    BY DEF Marked
  <2> HIDE DEF marked
  <2>9. corrections'[Len(corrections')] = marked
    <3>1. corrections' = Append(corrections, marked)
      BY <2>4 DEF marked
    <3> QED BY <2>2, <2>8, <3>1
  <2> QED BY <2>7, <2>9
<1> QED BY <1>1, LocksHold, PTL DEF Spec, LockedCorrectionsMarked
=============================================================================
