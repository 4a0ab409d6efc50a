----------------------------- MODULE PairedWeek ------------------------------
(***************************************************************************)
(* A finals week and the SuperScore round that runs beside it, opened by   *)
(* one operator action (finals_superscore_open.py): the finals week opens, *)
(* the SuperScore round takes over its AFL round and its lockout plan, and *)
(* opens too.  Each of these steps is a transaction of its own; operators  *)
(* edit either plan, triggers fire and either round is opened by itself in *)
(* between, and the action may end after any of them and be called again.  *)
(***************************************************************************)
EXTENDS LockoutRules, SequencesExt

CONSTANTS
  Keys,        \* trigger keys, in the order of the alphabet
  Configs,     \* the configurations an operator may submit
  AflRounds,
  Never, Removed, NoRow,
  MaxMapping,  \* bound on the mapping revisions of a round
  MaxEdits     \* bound on the edits of mappings and plans

ASSUME PairAssumption ==
  /\ Keys \subseteq Nat /\ IsFiniteSet(Keys)
  /\ Configs \subseteq [kind : {"selective", "main"}, sequence : Nat, round : AflRounds]
  /\ Never \notin Configs /\ Removed \notin Configs /\ Never # Removed
  /\ MaxMapping \in Nat /\ MaxEdits \in Nat

VARIABLES
  stage,      \* bbbffl_round_lifecycle.state of each round, "none" without a row
  mapping,    \* the accepted mapping of each round, revision 0 for none
  frozen,     \* what the lifecycle row froze of it
  plan,       \* of each round and key, its trigger
  fired,      \* the activated triggers of the SuperScore round; those of
              \* the finals week only freeze its own plan (LockoutPlan)
  remap,      \* a mapping decision that found no lifecycle row, or NoRow
  request,    \* how far the paired action is
  edits       \* edits so far

pairVars == <<stage, mapping, frozen, plan, fired, remap, request, edits>>

Rounds == {"finals", "superscore"}

\* The AFL round of a configuration stands for the matches it names.
Plans == [Keys -> Configs \cup {Never, Removed}]

Mapping == [revision : 0..MaxMapping, round : AflRounds]

Listed(p) == {k \in Keys : p[k] \in Configs}

Others(p, k) == {p[j] : j \in Listed(p) \ {k}}

PairTypeOK ==
  /\ stage \in [Rounds -> {"none", "upcoming", "open"}]
  /\ mapping \in [Rounds -> Mapping]
  /\ frozen \in [Rounds -> Mapping \cup {NoRow}]
  /\ plan \in [Rounds -> Plans]
  /\ fired \subseteq Keys
  /\ remap \in Rounds \cup {NoRow}
  /\ request \in {"none", "checked", "opened", "synchronised", "set up"}
  /\ edits \in 0..MaxEdits

\* Any plan is configured one trigger at a time in the order of the sequences.
WellOrdered(p) == \A k \in Listed(p) : WellPlaced(p[k], Others(p, k))

PairInit ==
  /\ stage = [r \in Rounds |-> "none"] /\ frozen = [r \in Rounds |-> NoRow]
  /\ mapping \in [Rounds -> {m \in Mapping : m.revision <= 1}]
  /\ plan \in [Rounds -> {p \in Plans : WellOrdered(p)}]
  /\ \A r \in Rounds : mapping[r].revision = 0 => Listed(plan[r]) = {}
  /\ fired = {}
  /\ remap = NoRow /\ request = "none" /\ edits = 0

(* ------------------------ operators and lockouts ----------------------- *)

\* accept_preflight_mapping asks for a lifecycle row before its transaction.
CheckMapping(r) ==
  /\ remap = NoRow /\ stage[r] = "none"
  /\ remap' = r
  /\ UNCHANGED <<stage, mapping, frozen, plan, fired, request, edits>>

AcceptMapping ==
  /\ remap # NoRow /\ remap' = NoRow
  /\ mapping[remap].revision < MaxMapping /\ edits < MaxEdits
  /\ edits' = edits + 1
  /\ \E a \in AflRounds :
       mapping' = [mapping EXCEPT ![remap] = [revision |-> @.revision + 1, round |-> a]]
  /\ UNCHANGED <<stage, frozen, plan, fired, request>>

Edit(r, k, t) ==
  /\ r = "superscore" => k \notin fired
  /\ edits < MaxEdits
  /\ plan' = [plan EXCEPT ![r][k] = t]
  /\ edits' = edits + 1
  /\ UNCHANGED <<stage, mapping, frozen, fired, remap, request>>

ConfigureTrigger(r, k) ==
  \E c \in Configs :
    /\ mapping[r].revision > 0 /\ c.round = mapping[r].round
    /\ WellPlaced(c, Others(plan[r], k))
    /\ Edit(r, k, c)

RemoveTrigger(r, k) == k \in Listed(plan[r]) /\ Edit(r, k, Removed)

\* A match of the mapped round begins and somebody looks.
TriggerFires(k) ==
  /\ k \in Listed(plan["superscore"]) \ fired /\ mapping["superscore"].revision > 0
  /\ plan["superscore"][k].round = mapping["superscore"].round
  /\ fired' = fired \cup {k}
  /\ UNCHANGED <<stage, mapping, frozen, plan, remap, request, edits>>

(* ------------------------------ lifecycle ------------------------------ *)

Create(r) ==
  /\ mapping[r].revision > 0
  /\ stage' = [stage EXCEPT ![r] = "upcoming"]
  /\ frozen' = [frozen EXCEPT ![r] = mapping[r]]
  /\ UNCHANGED <<mapping, plan, fired, remap, edits>>

Open(r) ==
  /\ frozen[r].revision = mapping[r].revision
  /\ stage' = [stage EXCEPT ![r] = "open"]
  /\ UNCHANGED <<mapping, frozen, plan, fired, remap, edits>>

\* The finals week's own opening, or the script of the SuperScore rounds.
OpenByItself(r) ==
  /\ \/ stage[r] = "none" /\ Create(r)
     \/ stage[r] = "upcoming" /\ Open(r)
  /\ UNCHANGED request

(* -------------------------- the paired action -------------------------- *)

\* What the action asks before it changes anything: the plan to take over has
\* a main trigger and names matches of the finals week's AFL round only.
Check ==
  LET p == plan["finals"]
      a == IF stage["finals"] = "open" THEN frozen["finals"] ELSE mapping["finals"]
  IN
  /\ request = "none"
  /\ a.revision > 0
  /\ stage["superscore"] # "open" =>
       /\ \E k \in Listed(p) : p[k].kind = "main"
       /\ \A k \in Listed(p) : p[k].round = a.round
  /\ request' = "checked"
  /\ UNCHANGED <<stage, mapping, frozen, plan, fired, remap, edits>>

OpenFinals ==
  /\ request = "checked"
  /\ \/ stage["finals"] = "none" /\ Create("finals") /\ UNCHANGED request
     \/ stage["finals"] = "upcoming" /\ Open("finals") /\ request' = "opened"
     \/ /\ stage["finals"] = "open" /\ request' = "opened"
        /\ UNCHANGED <<stage, mapping, frozen, plan, fired, remap, edits>>

\* The finals triggers the SuperScore plan lacks, in the order of list_triggers.
Before(p, j, k) ==
  p[j].sequence < p[k].sequence \/ (p[j].sequence = p[k].sequence /\ j < k)

Pending(f, s) ==
  CHOOSE q \in SetToSeqs({k \in Listed(f) : s[k] # f[k]}) :
    \A i, j \in DOMAIN q : i < j => Before(f, q[i], q[j])

\* Keys the SuperScore round still lists and the finals week does not.
Obsolete(f, s) == Listed(s) \ Listed(f)

Without(s, ks) == [k \in Keys |-> IF k \in ks THEN Removed ELSE s[k]]

\* The planner's own test of a move: no sequence taken, selective before main.
Movable(c, others) ==
  \A d \in others :
    /\ c.sequence # d.sequence
    /\ c.kind = "selective" /\ d.kind = "main" => c.sequence < d.sequence
    /\ c.kind = "main" /\ d.kind = "selective" => c.sequence > d.sequence

\* A key is moved, or left for the next pass.
Tried(f, acc, k) ==
  IF Movable(f[k], Others(acc.plan, k))
  THEN [acc EXCEPT !.plan[k] = f[k], !.order = Append(@, k)]
  ELSE [acc EXCEPT !.left = Append(@, k)]

\* One pass over the keys left.
Pass(f, start) ==
  LET tried[i \in 0..Len(start.left)] ==
        IF i = 0 THEN [start EXCEPT !.left = <<>>] ELSE Tried(f, tried[i - 1], start.left[i])
  IN  tried[Len(start.left)]

\* Mutant of Planned: what the first pass could not move is stuck.
PlannedInOnePass(f, s, keys) == Pass(f, [plan |-> s, order |-> <<>>, left |-> keys])

\* _plan_trigger_sync: passes while one of them moves a key.  A pass over keys
\* none of which can move changes nothing, so as many passes as keys will do.
Planned(f, s, keys) ==
  LET passed[i \in 0..Len(keys)] ==
        IF i = 0 THEN [plan |-> s, order |-> <<>>, left |-> keys] ELSE Pass(f, passed[i - 1])
  IN  passed[Len(keys)]

\* Mutant of Removals: a trigger removed from the finals plan is left alone.
NoRemovals(f, s) == {}

Removals(f, s) == Obsolete(f, s)

\* _validate_trigger_sync_plan: every key to go was removed from the finals
\* plan, no key to go or to change has fired, and the changes have an order.
Valid(f, s, done) ==
  /\ \A k \in Obsolete(f, s) : f[k] = Removed
  /\ \A k \in Obsolete(f, s) \cup Range(Pending(f, s)) : k \in Listed(s) => k \notin done
  /\ Planned(f, Without(s, Removals(f, s)), Pending(f, s)).left = <<>>

With(f, s, ks) == [k \in Keys |-> IF k \in ks THEN f[k] ELSE s[k]]

\* The configurations in an order, each refused or written by _configure_locked.
Written(f, s, order) ==
  [plan |-> With(f, s, Range(order)),
   ok |-> \A i \in DOMAIN order :
            WellPlaced(f[order[i]], Others(With(f, s, {order[j] : j \in 1..(i - 1)}), order[i]))]

\* resolve_concurrent_finals_afl_mapping: what the finals week of this number
\* froze when it was set up, not what its mapping may have become since.
ConcurrentRound == frozen["finals"].round

\* Read again under both round rows: a SuperScore round that was set up froze
\* the same AFL round, for its calculation will use no other.
FrozenAgrees ==
  frozen["superscore"] # NoRow => frozen["superscore"].round = ConcurrentRound

\* confirm_afl_mapping_locked is called only when the mapping is another one.
Confirmed(m) ==
  IF m.revision > 0 /\ m.round = ConcurrentRound THEN m
  ELSE [revision |-> m.revision + 1, round |-> ConcurrentRound]

\* _synchronise_locked, one transaction under both round rows: the AFL round
\* the finals week froze, then the removals, then the planned configurations.
Synchronise ==
  LET f == plan["finals"]
      s == plan["superscore"]
      kept == Without(s, Removals(f, s))
      written == Written(f, kept, Planned(f, kept, Pending(f, s)).order)
      m == Confirmed(mapping["superscore"])
  IN
  /\ request = "opened"
  /\ FrozenAgrees
  /\ Valid(f, s, fired) /\ written.ok
  /\ m.revision <= MaxMapping
  /\ mapping' = [mapping EXCEPT !["superscore"] = m]
  /\ plan' = [plan EXCEPT !["superscore"] = written.plan]
  /\ request' = "synchronised"
  /\ UNCHANGED <<stage, frozen, fired, remap, edits>>

\* setup_round keeps a lifecycle row it finds, open_round refuses an open one.
OpenSuperScore ==
  /\ \/ /\ request = "synchronised" /\ request' = "set up"
        /\ \/ stage["superscore"] = "none" /\ Create("superscore")
           \/ /\ stage["superscore"] # "none"
              /\ UNCHANGED <<stage, mapping, frozen, plan, fired, remap, edits>>
     \/ /\ request = "set up" /\ request' = "none"
        /\ stage["superscore"] = "upcoming" /\ Open("superscore")

\* A refusal, an afl-api failure, a lost connection, or the answer.
EndRequest ==
  /\ request # "none" /\ request' = "none"
  /\ UNCHANGED <<stage, mapping, frozen, plan, fired, remap, edits>>

PairNext ==
  \/ \E r \in Rounds : CheckMapping(r) \/ OpenByItself(r)
  \/ AcceptMapping
  \/ \E k \in Keys : TriggerFires(k)
  \/ \E r \in Rounds, k \in Keys : ConfigureTrigger(r, k) \/ RemoveTrigger(r, k)
  \/ Check \/ OpenFinals \/ Synchronise \/ OpenSuperScore \/ EndRequest

PairSpec == PairInit /\ [][PairNext]_pairVars

(* ------------------------------ properties ----------------------------- *)

\* A synchronisation leaves the SuperScore round with the finals week's AFL
\* round, in its mapping and in whatever its own row froze, with exactly the
\* finals week's listed triggers, well ordered, and with what had fired as it
\* was, however far the two plans had drifted apart.
SyncMirrorsFinals ==
  [][request = "opened" /\ request' = "synchronised" =>
       LET s == plan["superscore"] t == plan'["superscore"] IN
       /\ mapping'["superscore"].round = frozen["finals"].round
       /\ frozen["superscore"] \in {NoRow} \cup [revision : Nat, round : {frozen["finals"].round}]
       /\ Listed(t) = Listed(plan["finals"])
       /\ \A k \in Listed(t) : t[k] = plan["finals"][k]
       /\ WellOrdered(t)
       /\ \A k \in fired : t[k] = s[k]]_pairVars

InSomeOrder(f, s, ks) == \E order \in SetToSeqs(ks) : Written(f, s, order).ok

\* The planner gives up only on changes that no order could write one trigger
\* at a time (_plan_trigger_sync: "a sequence-reordering cycle").
PlannerFindsOrder ==
  LET f == plan["finals"]
      s == plan["superscore"]
      kept == Without(s, Removals(f, s))
  IN  request = "opened" /\ Planned(f, kept, Pending(f, s)).left # <<>> =>
        ~InSomeOrder(f, kept, Range(Pending(f, s)))

\* The docstring of _plan_trigger_sync: the write phase "replays an
\* already-fully-validated, guaranteed-resolvable order".
PlannedOrderApplies ==
  LET f == plan["finals"]
      s == plan["superscore"]
      kept == Without(s, Removals(f, s))
  IN  request = "opened" /\ Valid(f, s, fired) =>
        Written(f, kept, Planned(f, kept, Pending(f, s)).order).ok
=============================================================================
