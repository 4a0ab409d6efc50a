---------------------------- MODULE LockoutRules -----------------------------
(***************************************************************************)
(* Where a lockout trigger may stand among the other listed triggers of    *)
(* its round: what _configure_locked of app/lockouts.py asks of every      *)
(* configuration it writes.                                                *)
(***************************************************************************)
EXTENDS Naturals

PlacedBySequence(c, others) ==   \* mutant of WellPlaced
  \A d \in others :
    /\ c.kind = "selective" /\ d.kind = "main" => c.sequence < d.sequence
    /\ c.kind = "main" /\ d.kind = "selective" => c.sequence > d.sequence
    /\ ~(c.kind = "main" /\ d.kind = "main")

WellPlaced(c, others) ==
  \A d \in others :
    /\ c.sequence # d.sequence
    /\ c.kind = "selective" /\ d.kind = "main" => c.sequence < d.sequence
    /\ c.kind = "main" /\ d.kind = "selective" => c.sequence > d.sequence
    /\ ~(c.kind = "main" /\ d.kind = "main")
=============================================================================
