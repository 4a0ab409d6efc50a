--------------------------- MODULE MCLineupDrafts ---------------------------
(* LineupDrafts with two positions, a selective trigger over two matches,    *)
(* one starting with the main trigger's match and one after it, one earlier *)
(* round and two requests.  p1 plays in the later selective match, p3 in    *)
(* the main one; n has a bye and is the only player who may be nominated.   *)
EXTENDS LineupDrafts, TLC

CONSTANTS sel, main, m1, m2, m3, p1, p3, n, r1, r2, F, I

Lineup(f, i) == (F :> f) @@ (I :> i)

MCPlaysIn == (p1 :> m3) @@ (p3 :> m2) @@ (n :> NoMatch)
MCStart == (m1 :> 1) @@ (m2 :> 1) @@ (m3 :> 2)
MCTriggerMatches == (sel :> {m1, m3}) @@ (main :> {m2})
MCSheets == {Lineup(p1, p3), Lineup(p3, Vacant)}
MCInitialEarlier == <<[version |-> 1, sheet |-> Lineup(p1, Vacant)]>>
Pair(a, b) == (r1 :> a) @@ (r2 :> b)
MCCasts ==
  {Pair({"coach"}, {"proxy"}), Pair({"coach"}, {"api"}), Pair({"coach"}, {"capture"}),
   Pair({"carry"}, {"proxy"}), Pair({"carry"}, {"resubmit"}), Pair({"fallback"}, {"resubmit", "nominate"}),
   Pair({"coach"}, {"nominate", "renominate"}), Pair({"nominate"}, {"capture"}),
   Pair({"fallback"}, {"nominate", "renominate"}),
   Pair({"carry"}, {"nominate"}), Pair({"nominate", "renominate"}, {"confirm"})}
\* Every match has begun by the second instant.  The third one is for captures:
\* only they look back at what the draft held when a match began.
LastInstantForCaptures ==
  clock = MaxTime => \E r \in Requests : "capture" \in cast[r]
PageAndCapture == {Pair({"coach"}, {"capture"})}
=============================================================================
