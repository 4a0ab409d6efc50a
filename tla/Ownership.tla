------------------------------ MODULE Ownership ------------------------------
(***************************************************************************)
(* The ledger of who owns which player when: player_ownership_period and   *)
(* the operators of app/player_pool.py that read and change it.  A ledger  *)
(* is a value, so that an operation that releases and acquires several     *)
(* players in one transaction is an expression over ledgers.               *)
(***************************************************************************)
EXTENDS Integers, FiniteSets

CONSTANTS
  Entries, Players,
  Open          \* the end of a period that has not ended (released_at IS NULL)

ASSUME OpenAssumption == Open \notin Nat

Periods == [player : Players, entry : Entries, from : Nat, to : Nat \cup {Open}]

EndsAfter(period, t) == period.to = Open \/ t < period.to

Holds(period, t) == period.from <= t /\ EndsAfter(period, t)

Current(ledger) == {o \in ledger : o.to = Open}

Owned(ledger, p) == \E o \in Current(ledger) : o.player = p

Owns(ledger, e, p) == \E o \in Current(ledger) : o.player = p /\ o.entry = e

Squad(ledger, e) == {o.player : o \in {c \in Current(ledger) : c.entry = e}}

\* The players entry e holds at instant t.
SquadAt(ledger, e, t) == {o \in ledger : o.entry = e /\ Holds(o, t)}

\* validate_squad_capacity of the ledger that results: at t, and whenever the
\* entry acquired somebody at t or later, its squad is within the limit.
Fits(ledger, e, t, limit) ==
  \A s \in {t} \cup {o.from : o \in {c \in ledger : c.entry = e /\ c.from >= t}} :
    Cardinality(SquadAt(ledger, e, s)) <= limit

LargestSquadWithin(ledger, e, limit) ==
  \A o \in ledger : o.entry = e => Cardinality(SquadAt(ledger, e, o.from)) <= limit

\* release_in_transaction: a player somebody owns, since before t.
Releasable(ledger, p, t) == \E o \in Current(ledger) : o.player = p /\ o.from < t

Release(ledger, ps, t) ==
  {IF o.to = Open /\ o.player \in ps THEN [o EXCEPT !.to = t] ELSE o : o \in ledger}

\* Mutant of Acquirable: only the current owner is looked for.
AcquirableNow(ledger, p, t) == ~Owned(ledger, p)

\* acquire_in_transaction: nobody owns the player at t or has him later.
Acquirable(ledger, p, t) == \A o \in ledger : o.player = p => ~EndsAfter(o, t)

\* The players of DOMAIN to, each acquired at t by the entry to[p].
Acquire(ledger, to, t) ==
  ledger \cup {[player |-> p, entry |-> to[p], from |-> t, to |-> Open] : p \in DOMAIN to}

\* Nobody is ever owned twice: two periods of one player share no instant
\* (ownership_no_overlap and uq_ownership_player_current).
NoOverlap(ledger) ==
  \A o, c \in ledger :
    o.player = c.player /\ o # c => ~EndsAfter(o, c.from) \/ ~EndsAfter(c, o.from)
=============================================================================
