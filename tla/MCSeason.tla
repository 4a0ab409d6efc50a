------------------------------- MODULE MCSeason -------------------------------
(***************************************************************************)
(* One entry more than the season needs, two Opening Round clubs whose     *)
(* byes are published in stages, two orders of a tied ladder.              *)
(***************************************************************************)
EXTENDS Season

CONSTANTS a, b, fifthA, fifthB

Byes(first, second) == [club \in Clubs |-> IF club = a THEN first ELSE second]

FixturesInTime == <<NoOpening, Byes(2, Unpublished), Byes(2, 3), Byes(2, 4)>>

\* What a request for the byes or for the draft order would change is settled
\* before the season can be played; here it is over by then, and so is what
\* afl-api publishes of the byes.
SettledBeforePlay ==
  played => accepting = Undecided /\ ~deciding /\ published = Len(Fixtures)

LastOf(order_) == IF order_ = fifthA THEN b ELSE a
===============================================================================
