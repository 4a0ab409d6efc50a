--------------------------- MODULE PreseasonWindow ---------------------------
(***************************************************************************)
(* The preseason trade window between the finished preseason draft and the *)
(* season, the opening squads it freezes and their corrections:            *)
(* app/preseason.py.                                                       *)
(***************************************************************************)
EXTENDS SeasonDraft

CONSTANT MaxVersion      \* bound: versions of the opening snapshot

VARIABLES
  opening,     \* the current preseason_opening_snapshot: [Entries -> its frozen squad]
  version      \* its version; 0 is no snapshot

preseasonVars == <<draftVars, opening, version>>

PreseasonInit ==
  /\ DraftInit
  /\ opening = [e \in Entries |-> {}] /\ version = 0

\* The season_draft row is read without its kind.
OpenWindow ==
  /\ window = "none"
  /\ \E k \in Kinds : drafts[k].final
  /\ window' = "open"
  /\ UNCHANGED <<clock, periods, eligible, limit, drafts, opening, version>>

\* Every player of DOMAIN to leaves his owner for another entry: all are
\* released, then acquired, or the transaction is rolled back.
Trade(to, at) ==
  /\ \A p \in DOMAIN to : Releasable(periods, p, at) /\ ~Owns(periods, to[p], p)
  /\ DOMAIN to \subseteq eligible
  /\ LET released == Release(periods, DOMAIN to, at)
     IN /\ \A p \in DOMAIN to : Acquirable(released, p, at)
        /\ periods' = Acquire(released, to, at)

SubmitTrade(to, at) ==
  /\ window = "open"
  /\ at \in Instants
  /\ DOMAIN to # {} /\ Trade(to, at)
  /\ limit # 0 /\ \A p \in DOMAIN to : Fits(periods', to[p], at, limit)
  /\ UNCHANGED <<clock, eligible, limit, drafts, window, opening, version>>

CloseWindow ==
  /\ window = "open"
  /\ drafts["preseason"].final
  /\ limit # 0 /\ SquadsAreFull(limit)
  /\ window' = "closed"
  /\ opening' = [e \in Entries |-> Squad(periods, e)]
  /\ version' = 1
  /\ UNCHANGED <<clock, periods, eligible, limit, drafts>>

\* The removed player is one of the entry's frozen squad; release_in_transaction
\* takes him from whoever owns him.  A snapshot names nobody twice
\* (uq_opening_snapshot_player_once).
CorrectOpeningSnapshot(e, out, in, at) ==
  /\ window = "closed" /\ version < MaxVersion
  /\ at \in Instants
  /\ out \in opening[e]
  /\ Releasable(periods, out, at)
  /\ LET released == Release(periods, {out}, at)
         acquired == Acquire(released, [q \in {in} |-> e], at)
         rest     == [opening EXCEPT ![e] = @ \ {out}]
     IN /\ in \in eligible /\ Acquirable(released, in, at)
        /\ limit # 0 /\ Fits(acquired, e, at, limit)
        /\ \A f \in Entries : in \notin rest[f]
        /\ periods' = acquired
        /\ opening' = [rest EXCEPT ![e] = @ \cup {in}]
  /\ version' = version + 1
  /\ UNCHANGED <<clock, eligible, limit, drafts, window>>

\* The trades of one or two players.
Moves == UNION {[ps -> Entries] : ps \in {s \in SUBSET Players : Cardinality(s) \in 1 .. 2}}

PreseasonNext ==
  \/ DraftNext /\ UNCHANGED <<opening, version>>
  \/ OpenWindow
  \/ \E to \in Moves, at \in Instants : SubmitTrade(to, at)
  \/ CloseWindow
  \/ \E e \in Entries, out, in \in Players, at \in Instants : CorrectOpeningSnapshot(e, out, in, at)

=============================================================================
