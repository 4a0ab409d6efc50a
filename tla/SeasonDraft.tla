----------------------------- MODULE SeasonDraft -----------------------------
(***************************************************************************)
(* The two drafts of a season, preseason and midseason, over the ownership *)
(* ledger: app/draft.py, app/player_pool.py and the squad limit of         *)
(* season_setup.py.                                                        *)
(*                                                                         *)
(* Every operation is one transaction that holds the draft's row from its  *)
(* first statement, so it is one step.  Its instant `at` is not: it is     *)
(* read before the transaction begins, and the operations queued behind    *)
(* the row commit in an order of their own, so `at` is any earlier instant.*)
(* A corrected pick's row is kept for ever, superseded by a fresh row with *)
(* the same number; every query leaves superseded rows out, and so does    *)
(* the model, where correction empties the pick.                           *)
(***************************************************************************)
EXTENDS Ownership

CONSTANTS
  NoPlayer,
  Orders,          \* the entries in an order: [1 .. n -> Entries], one to one
  Limits,          \* squad limits the season may be given
  Quarantinable,   \* players whose eligibility provisional_players.py may change
  MaxTime          \* bound: instants of the clock

ASSUME SeasonDraftAssumption ==
  /\ IsFiniteSet(Entries) /\ NoPlayer \notin Players /\ MaxTime \in Nat
  /\ Limits \subseteq Nat \ {0} /\ Quarantinable \subseteq Players
  /\ \A order \in Orders :
       /\ order \in [1 .. Cardinality(Entries) -> Entries]
       /\ \A e \in Entries : \E i \in DOMAIN order : order[i] = e

VARIABLES
  clock,
  periods,     \* player_ownership_period
  eligible,    \* the selectable players of season_player_pool
  limit,       \* season_squad_configuration; 0 is no row
  drafts,      \* season_draft and its active draft_pick rows, for each kind
  window       \* season_preseason_window: "none", "open", "closed"

draftVars == <<clock, periods, eligible, limit, drafts, window>>

Kinds == {"preseason", "midseason"}

\* A pick is numbered <<round, place in the round>>; owner is
\* current_season_entry_id and at is completed_at.
Pick == [owner : Entries, player : Players \cup {NoPlayer}, at : Nat \cup {Open}]

Numbers == (Nat \ {0}) \X (1 .. Cardinality(Entries))

Precedes(n, m) == n[1] < m[1] \/ (n[1] = m[1] /\ n[2] < m[2])

BlankPick(e) == [owner |-> e, player |-> NoPlayer, at |-> Open]

NoDraft == [accepted |-> FALSE, target |-> 0, paused |-> FALSE, final |-> FALSE, picks |-> <<>>]

NewDraft(target, picks) == [NoDraft EXCEPT !.accepted = TRUE, !.target = target, !.picks = picks]

Completed(k) == {n \in DOMAIN drafts[k].picks : drafts[k].picks[n].player # NoPlayer}

Incomplete(k) == DOMAIN drafts[k].picks \ Completed(k)

\* The lowest incomplete number.
NextPick(k) == {n \in Incomplete(k) : \A m \in Incomplete(k) : ~Precedes(m, n)}

Instants == 1 .. clock

\* snake_allocations: even rounds run the order backwards.
SnakePicks(order, rounds) ==
  LET n == Cardinality(Entries)
  IN [s \in (1 .. rounds) \X (1 .. n) |->
        BlankPick(IF s[1] % 2 = 1 THEN order[s[2]] ELSE order[n + 1 - s[2]])]

\* Mutant of WindowAllows: a closed window binds nobody.
WindowIgnored(k) == TRUE

\* _assert_ownership_mutation_allowed; a midseason operation asks to pass.
WindowAllows(k) == k = "midseason" \/ window # "closed"

AcquirableFor(p, e, at) ==
  /\ p \in eligible
  /\ Acquirable(periods, p, at)
  /\ limit # 0
  /\ Fits(Acquire(periods, [q \in {p} |-> e], at), e, at, limit)

DraftInit ==
  /\ clock = 1 /\ periods = {} /\ eligible = Players /\ limit = 0
  /\ drafts = [k \in Kinds |-> NoDraft] /\ window = "none"

\* External: time passes.
Tick ==
  /\ clock < MaxTime
  /\ clock' = clock + 1
  /\ UNCHANGED <<periods, eligible, limit, drafts, window>>

\* External: a candidate match is recorded or resolved (ProvisionalPlayers).
EligibilityChanges(p) ==
  /\ p \in Quarantinable
  /\ eligible' = IF p \in eligible THEN eligible \ {p} ELSE eligible \cup {p}
  /\ UNCHANGED <<clock, periods, limit, drafts, window>>

\* The season_draft row is read without its kind: whichever the database returns.
ConfigureSquadLimit(n) ==
  /\ n \in Limits /\ n # limit
  /\ \/ \E k \in Kinds : drafts[k].accepted /\ drafts[k].target = n
     \/ \A k \in Kinds : ~drafts[k].accepted
  /\ \A e \in Entries : LargestSquadWithin(periods, e, n)
  /\ limit' = n
  /\ UNCHANGED <<clock, periods, eligible, drafts, window>>

\* materialize_draft_in_transaction, the draft of a kind that has none yet.
Materialize(k, picks) ==
  /\ ~drafts[k].accepted
  /\ DOMAIN picks # {}
  /\ drafts' = [drafts EXCEPT ![k] = NewDraft(limit, picks)]

AcceptOrder(order) ==
  /\ order \in Orders
  /\ limit # 0
  /\ Cardinality(eligible) >= Cardinality(Entries) * limit
  /\ Current(periods) = {}
  /\ Materialize("preseason", SnakePicks(order, limit))
  /\ UNCHANGED <<clock, periods, eligible, limit, window>>

Running(k) == drafts[k].accepted /\ ~drafts[k].final

Pause(k) ==
  /\ Running(k) /\ ~drafts[k].paused
  /\ drafts' = [drafts EXCEPT ![k].paused = TRUE]
  /\ UNCHANGED <<clock, periods, eligible, limit, window>>

Resume(k) ==
  /\ Running(k) /\ drafts[k].paused
  /\ drafts' = [drafts EXCEPT ![k].paused = FALSE]
  /\ UNCHANGED <<clock, periods, eligible, limit, window>>

ExecutePick(k, e, p, at) ==
  /\ Running(k) /\ ~drafts[k].paused
  /\ at \in Instants
  /\ WindowAllows(k) /\ AcquirableFor(p, e, at)
  /\ \E n \in NextPick(k) :
       /\ drafts[k].picks[n].owner = e
       /\ drafts' = [drafts EXCEPT ![k].picks[n] = [@ EXCEPT !.player = p, !.at = at]]
  /\ periods' = Acquire(periods, [q \in {p} |-> e], at)
  /\ UNCHANGED <<clock, eligible, limit, window>>

\* Mutant of LastCompleted: any completed pick may be corrected.
AnyCompleted(k, n) == n \in Completed(k)

LastCompleted(k, n) == n \in Completed(k) /\ \A m \in Completed(k) : ~Precedes(n, m)

\* The pick's player is still held by the very acquisition the pick made.
PickStands(k, n) ==
  LET pick == drafts[k].picks[n]
  IN \E o \in Current(periods) :
       o.player = pick.player /\ o.entry = pick.owner /\ o.from = pick.at

CorrectPick(k, n, at) ==
  /\ Running(k)
  /\ at \in Instants
  /\ LastCompleted(k, n) /\ PickStands(k, n)
  /\ LET pick == drafts[k].picks[n]
     IN /\ WindowAllows(k) /\ Releasable(periods, pick.player, at)
        /\ periods' = Release(periods, {pick.player}, at)
        /\ drafts' = [drafts EXCEPT ![k].picks[n] = BlankPick(pick.owner)]
  /\ UNCHANGED <<clock, eligible, limit, window>>

SquadsAreFull(size) == \A e \in Entries : Cardinality(Squad(periods, e)) = size

Finalize(k) ==
  /\ Running(k)
  /\ Incomplete(k) = {}
  /\ SquadsAreFull(drafts[k].target)
  /\ drafts' = [drafts EXCEPT ![k].final = TRUE]

FinalizePreseason ==
  /\ Finalize("preseason")
  /\ UNCHANGED <<clock, periods, eligible, limit, window>>

Reopen(k) ==
  /\ drafts[k].final
  /\ drafts' = [drafts EXCEPT ![k].final = FALSE]

ReopenPreseason ==
  /\ Reopen("preseason")
  /\ UNCHANGED <<clock, periods, eligible, limit, window>>

\* transfer_pick holds the pick's row only, and asks nothing of the draft.  The
\* mid-season trades of picks do not use it, so it is left to the preseason.
TransferPick(n, e) ==
  /\ n \in Incomplete("preseason")
  /\ drafts["preseason"].picks[n].owner # e
  /\ drafts' = [drafts EXCEPT !["preseason"].picks[n].owner = e]
  /\ UNCHANGED <<clock, periods, eligible, limit, window>>

DraftNext ==
  \/ Tick
  \/ \E p \in Players : EligibilityChanges(p)
  \/ \E n \in Limits : ConfigureSquadLimit(n)
  \/ \E order \in Orders : AcceptOrder(order)
  \/ \E k \in Kinds : Pause(k) \/ Resume(k)
  \/ \E k \in Kinds, e \in Entries, p \in Players, at \in Instants : ExecutePick(k, e, p, at)
  \/ \E k \in Kinds : \E n \in Completed(k), at \in Instants : CorrectPick(k, n, at)
  \/ FinalizePreseason
  \/ ReopenPreseason
  \/ \E n \in Incomplete("preseason"), e \in Entries : TransferPick(n, e)

-----------------------------------------------------------------------------
\* Nobody is owned by two teams at once, at any instant of the ledger, however
\* late an operation commits after reading its instant (acquire_in_transaction).
ExclusiveOwnership == NoOverlap(periods)

\* The picks are made in their order and undone in the reverse one: below every
\* completed number all numbers are completed (execute_pick, correct_pick).
PicksInTurn ==
  \A k \in Kinds : \A n \in Completed(k) : \A m \in Incomplete(k) : Precedes(n, m)
=============================================================================
