------------------------- MODULE ProvisionalPlayers -------------------------
(***************************************************************************)
(* Players the draft needs before afl-api knows them, and what keeps one   *)
(* person from being drafted under two identities: app/provisional_        *)
(* players.py with the pool refresh of season_setup.py and player_pool.py. *)
(*                                                                         *)
(* Every operation locks the season's row and is one step.  Names are not  *)
(* kept: an operation that compares them is given the pairs that agree at  *)
(* its instant, for a refresh renames players too.                         *)
(***************************************************************************)
EXTENDS Naturals, FiniteSets

CONSTANTS
  Provisionals,   \* the rows the season may create without a canonical player
  Canonicals,     \* the canonical_player_ids of afl-api
  NoCanonical

ASSUME IdentityAssumption ==
  Provisionals \cap Canonicals = {} /\ NoCanonical \notin Provisionals \cup Canonicals

VARIABLES
  nomination,   \* player_nomination.status, by the player it asks for
  pool,         \* season_player_pool: the rows there are
  canonical,    \* canonical_player_id of the rows that began provisional
  eligible,     \* rows with eligible = TRUE
  held,         \* of each row, whether it has ever been owned and whether it is
  candidate,    \* provisional_match_candidate.status of each pair
  restore,      \* pairs with restore_eligible_on_release = TRUE
  completed     \* the season is completed (guard_writable)

vars == <<nomination, pool, canonical, eligible, held, candidate, restore, completed>>

Rows == Provisionals \cup Canonicals

Pairs == Provisionals \X Canonicals

\* The rows whose canonical_player_id is NULL.
Provisional == {v \in pool \cap Provisionals : canonical[v] = NoCanonical}

\* The row of a pool that carries canonical player c: the one imported for c,
\* or the reconciled one that took its place.
RowsIn(rows, c) == {r \in rows : r = c \/ (r \in Provisionals /\ canonical[r] = c)}

RowsOf(c) == RowsIn(pool, c)

Held(r) == held[r] = "held"

OwnedMatch(c) == \E r \in RowsOf(c) : Held(r)

PendingOn(c) == {v \in Provisionals : candidate[<<v, c>>] = "pending"}

OthersPending(v, c) == PendingOn(c) \ {v} # {}

Init ==
  /\ nomination = [v \in Provisionals |-> "none"]
  /\ pool = {} /\ canonical = [v \in Provisionals |-> NoCanonical]
  /\ eligible = {} /\ held = [r \in Rows |-> "never"]
  /\ candidate = [m \in Pairs |-> "none"] /\ restore = {}
  /\ completed = FALSE

Submit(v) ==
  /\ ~completed /\ nomination[v] \notin {"pending", "created"}
  /\ nomination' = [nomination EXCEPT ![v] = "pending"]
  /\ UNCHANGED <<pool, canonical, eligible, held, candidate, restore, completed>>

Dismiss(v) ==
  /\ ~completed /\ nomination[v] = "pending"
  /\ nomination' = [nomination EXCEPT ![v] = "dismissed"]
  /\ UNCHANGED <<pool, canonical, eligible, held, candidate, restore, completed>>

\* The pairs a detection among vs records: they agree in name, the target is in
\* the pool, and the pair was never recorded before.
Found(vs, agree, rows) ==
  {m \in agree : m[1] \in vs /\ RowsIn(rows, m[2]) # {} /\ candidate[m] = "none"}

\* Mutant of RestoreFlags: the flag is whatever the quarantined row says now.
FlagsOfRows(found, rows, ok) == {m \in found : RowsIn(rows, m[2]) \cap ok # {}}

\* What a found pair will give back to its target when it is resolved: what a
\* pending pair on that target holds for it, or else what the target is now.
RestoreFlags(found, rows, ok) ==
  {m \in found : IF PendingOn(m[2]) # {}
                 THEN \E v \in PendingOn(m[2]) : <<v, m[2]>> \in restore
                 ELSE RowsIn(rows, m[2]) \cap ok # {}}

\* _detect_candidates_for_provisional for each of vs: a found target is
\* quarantined, and if somebody owns it, so is the provisional player himself,
\* unless he is owned too.
Detect(found, rows, ok) ==
  /\ candidate' = [m \in Pairs |-> IF m \in found THEN "pending" ELSE candidate[m]]
  /\ restore' = restore \cup RestoreFlags(found, rows, ok)

\* The rows the found pairs take out; alone it is the mutant of Quarantined that
\* leaves the provisional player of an owned match in.
QuarantinedTargets(found, rows) == UNION {RowsIn(rows, m[2]) : m \in found}

Quarantined(found, rows) ==
  QuarantinedTargets(found, rows)
    \cup {v \in Provisionals : ~Held(v) /\ \E m \in found : m[1] = v /\ OwnedMatch(m[2])}

\* v is created, and resolves the nomination that asked for him if there is one.
Create(v, agree) ==
  LET rows == pool \cup {v}
      found == Found({v}, agree, rows)
  IN /\ ~completed /\ v \notin pool
     /\ pool' = rows
     /\ nomination' = [nomination EXCEPT ![v] = IF @ = "pending" THEN "created" ELSE @]
     /\ Detect(found, rows, eligible)
     /\ eligible' = (eligible \cup {v}) \ Quarantined(found, rows)
     /\ UNCHANGED <<canonical, held, completed>>

PendingOwnedMatch(v) ==
  \E c \in Canonicals : candidate'[<<v, c>>] = "pending" /\ OwnedMatch(c)

\* refresh_season_pool_in_transaction keeps a row for each canonical player and
\* its eligibility, and makes one for a player who has none.
Imports(new) == \A c \in new : RowsOf(c) = {}

\* refresh_player_pool: the players new are imported, every provisional player
\* is compared with the pool, and one whose owned match is over is released.
Refresh(new, agree) ==
  LET rows == pool \cup new
      found == Found(Provisional, agree, rows)
      left == (eligible \cup new) \ Quarantined(found, rows)
  IN /\ ~completed
     /\ Imports(new)
     /\ pool' = rows
     /\ Detect(found, rows, eligible \cup new)
     /\ eligible' = left \cup {v \in Provisional : ~PendingOwnedMatch(v) /\ v \notin left}
     /\ UNCHANGED <<nomination, canonical, held, completed>>

\* The row eligibility of c's targets becomes what the pairs ms hold for them.
Restored(ms) ==
  (eligible \ UNION {RowsOf(m[2]) : m \in ms}) \cup UNION {RowsOf(m[2]) : m \in ms \cap restore}

\* The pairs of v that another pending pair does not hold in quarantine.
Releases(v, cs) == {<<v, c>> : c \in {d \in cs : ~OthersPending(v, d)}}

RejectCandidate(v, c) ==
  /\ ~completed /\ candidate[<<v, c>>] = "pending"
  /\ candidate' = [candidate EXCEPT ![<<v, c>>] = "rejected"]
  /\ eligible' = Restored(Releases(v, {c})) \cup {w \in {v} \cap Provisional : ~PendingOwnedMatch(w)}
  /\ UNCHANGED <<nomination, pool, canonical, held, restore, completed>>

\* Mutant of SurvivingCandidates: the target's rejected pairs go with its row.
CandidatesLost(v, c) ==
  [m \in Pairs |-> IF m[1] = v \/ m[2] = c THEN "none" ELSE candidate[m]]

\* The pairs of the other players outlive the target's row they refer to.
SurvivingCandidates(v, c) == [m \in Pairs |-> IF m[1] = v THEN "none" ELSE candidate[m]]

\* The provisional player takes the place of canonical player c, whose own row
\* nobody ever owned.
Reconcile(v, c) ==
  LET others == {d \in Canonicals \ {c} : candidate[<<v, d>>] = "pending"}
      merged == IF candidate[<<v, c>>] = "pending" THEN <<v, c>> \in restore ELSE c \in eligible
  IN /\ ~completed
     /\ v \in Provisional /\ c \in pool
     /\ held[c] = "never"
     /\ ~OthersPending(v, c)
     /\ pool' = pool \ {c}
     /\ canonical' = [canonical EXCEPT ![v] = c]
     /\ candidate' = SurvivingCandidates(v, c)
     /\ restore' = restore \ ({v} \X Canonicals)
     /\ eligible' = (Restored(Releases(v, others)) \ {v, c}) \cup {w \in {v} : merged}
     /\ UNCHANGED <<nomination, held, completed>>

\* OwnershipRepository, whoever the owner is.
Acquire(r) ==
  /\ r \in pool \cap eligible /\ ~Held(r)
  /\ held' = [held EXCEPT ![r] = "held"]
  /\ UNCHANGED <<nomination, pool, canonical, eligible, candidate, restore, completed>>

ReleaseRow(r) ==
  /\ Held(r)
  /\ held' = [held EXCEPT ![r] = "released"]
  /\ UNCHANGED <<nomination, pool, canonical, eligible, candidate, restore, completed>>

CompleteSeason ==
  /\ ~completed /\ completed' = TRUE
  /\ UNCHANGED <<nomination, pool, canonical, eligible, held, candidate, restore>>

Next ==
  \/ \E v \in Provisionals : Submit(v) \/ Dismiss(v)
  \/ \E v \in Provisionals : \E agree \in SUBSET ({v} \X Canonicals) : Create(v, agree)
  \/ \E new \in SUBSET Canonicals, agree \in SUBSET Pairs : Refresh(new, agree)
  \/ \E v \in Provisionals, c \in Canonicals : RejectCandidate(v, c) \/ Reconcile(v, c)
  \/ \E r \in pool : Acquire(r) \/ ReleaseRow(r)
  \/ CompleteSeason

Spec == Init /\ [][Next]_vars

-----------------------------------------------------------------------------
TypeOK ==
  /\ nomination \in [Provisionals -> {"none", "pending", "dismissed", "created"}]
  /\ pool \subseteq Rows
  /\ canonical \in [Provisionals -> Canonicals \cup {NoCanonical}]
  /\ eligible \subseteq pool
  /\ held \in [Rows -> {"never", "held", "released"}]
  /\ candidate \in [Pairs -> {"none", "pending", "rejected"}]
  /\ restore \subseteq Pairs /\ completed \in BOOLEAN
  /\ \A v \in Provisionals : canonical[v] \notin pool

\* A canonical player is out of the draft exactly while some provisional player
\* may be he: no sequence of detections, rejections and reconciliations leaves
\* him quarantined for ever or releases him early (restore_eligible_on_release,
\* _other_pending_candidates_exist).
QuarantineIsExact ==
  \A c \in Canonicals : \A r \in RowsOf(c) : r \in eligible <=> PendingOn(c) = {}

\* A match decided against stays decided, through the merge of other players
\* into its target (the rows reconcile deletes and inserts again).
RejectedForGood ==
  [][\A m \in Pairs : candidate[m] = "rejected" /\ m[1] \in Provisional' =>
       candidate'[m] = "rejected"]_vars

\* A provisional player whose possible match somebody owns cannot be drafted as
\* long as nobody has drafted him before (_detect_candidates_for_provisional,
\* _resync_owned_match_quarantines).
OwnedMatchQuarantines ==
  \A m \in Pairs :
    candidate[m] = "pending" /\ OwnedMatch(m[2]) /\ held[m[1]] = "never" => m[1] \notin eligible

\* While a match is unresolved, nobody can draft the same real person twice,
\* once as the provisional and once as the canonical player (the module's
\* docstring).
NoSecondCopy ==
  \A m \in Pairs :
    candidate[m] = "pending" /\ OwnedMatch(m[2]) /\ ~Held(m[1]) => m[1] \notin eligible
=============================================================================
