---------------------------- MODULE MCLockoutPlan ----------------------------
(* LockoutPlan on two triggers, two AFL rounds of which one has the match   *)
(* the triggers are about, two operators and an observer.                   *)
EXTENDS LockoutPlan, TLC

CONSTANTS k1, k2, m1, r1, r2, o1, o2, b1

MCRoundMatches == (r1 :> {m1}) @@ (r2 :> {})

Trigger(kind, sequence) == [kind |-> kind, sequence |-> sequence, matches |-> {m1}]

MCConfigs == {Trigger("selective", 1), Trigger("main", 2)}

\* One operator corrects the mapping and configures, the other configures and
\* removes.
MCTasks == (o1 :> {"map", "configure"}) @@ (o2 :> {"configure", "remove"})

\* FrozenMapping.cfg: the operator only corrects the mapping.
MappingTasks == (o1 :> {"map"})

KeySymmetry == Permutations(Keys)
=============================================================================
