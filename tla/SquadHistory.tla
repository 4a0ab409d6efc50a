---------------------------- MODULE SquadHistory ----------------------------
(***************************************************************************)
(* What the ownership ledger promises every reader of a past squad (the    *)
(* lineups, scores and snapshots of earlier rounds name players by their   *)
(* owner of the time): a step closes open periods and opens new ones, it   *)
(* never rewrites a closed one or forgets one, and nobody is owned twice   *)
(* at any instant, past or present.                                        *)
(***************************************************************************)
EXTENDS Ownership

VARIABLE periods

SameStart(o, c) == o.player = c.player /\ o.entry = c.entry /\ o.from = c.from

\* Each period lives on: as it was, or closed if it was open.
Continues(before, after) ==
  \A o \in before : \E c \in after : SameStart(o, c) /\ (o.to = Open \/ c = o)

\* A period that appears is somebody's current one.
OpensOnly(before, after) ==
  \A c \in after : (\E o \in before : SameStart(o, c)) \/ c.to = Open

Init == NoOverlap(periods)

Next ==
  /\ Continues(periods, periods')
  /\ OpensOnly(periods, periods')
  /\ NoOverlap(periods')

Spec == Init /\ [][Next]_periods
=============================================================================
