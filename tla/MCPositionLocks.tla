--------------------------- MODULE MCPositionLocks ---------------------------
(* PositionLocks on a lineup of two positions, three players of whom one    *)
(* has no match, a selective and a main trigger.                            *)
EXTENDS PositionLocks, TLC

CONSTANTS sel, main, m1, m2, r1, b1, b2, p1, p2, p3, F, I

MCRoundMatches == r1 :> {m1, m2}

Selective == [kind |-> "selective", sequence |-> 1, matches |-> {m1}]
Main == [kind |-> "main", sequence |-> 2, matches |-> {m2}]

MCConfigs == {Selective, Main}

MCInitialPlan == (sel :> [history |-> <<Selective>>, removed |-> FALSE])
              @@ (main :> [history |-> <<Main>>, removed |-> FALSE])

MCTasks == [o \in {} |-> {}]

MCPlaysIn == r1 :> ((p1 :> m1) @@ (p2 :> m2) @@ (p3 :> NoMatch))

Lineup(f, i) == (F :> f) @@ (I :> i)

MCSheets == {Lineup(p1, Vacant), Lineup(p2, p3)}

MCRoles == (b1 :> {"submit"}) @@ (b2 :> {"view", "correct"})
=============================================================================
