----------------------------- MODULE LineupDrafts -----------------------------
(***************************************************************************)
(* How one entry's lineup for one round comes to be submitted: the private *)
(* draft (save_draft), the coach's, the proxy's and the carried-forward    *)
(* submission, the two adjudicated first submissions and the Opening Round *)
(* nominations that govern some of its positions.  app/lineups.py,         *)
(* coach_lineup.py, lineup_proxy.py, carry_forward.py,                     *)
(* lineup_adjudication.py, opening_round.py and the routes that call them. *)
(*                                                                         *)
(* A request is a process: its reads outside a transaction, its saves and  *)
(* its last transaction are separate steps.  The last transaction takes    *)
(* two, because the lineup's row is held while matches are fetched.        *)
(* LockoutPlan has the observation of the triggers in detail and           *)
(* PositionLocks the lock evidence; here an observation is one step, and   *)
(* since a trigger never comes undone, evidence adds nothing to coverage.  *)
(***************************************************************************)
EXTENDS Integers, FiniteSets, Functions

CONSTANTS
  Slots, Players, Vacant,
  Matches, NoMatch,
  PlaysIn,          \* [Players -> Matches or NoMatch]: a club with a bye has none
  Start,            \* [Matches -> Nat]: scheduled start, an instant of the clock
  MayStartEarly,    \* matches afl-api may report as begun before their start
  Triggers, Main,   \* the round's plan; Main is its main trigger
  TriggerMatches,   \* [Triggers -> SUBSET Matches]
  Earlier,          \* number of rounds whose lineup may be carried forward
  Requests, Nobody,
  Casts,            \* the [Requests -> SUBSET KindNames] one of which is played out
  Sheets,           \* sheets a page may post
  Nominees,         \* players owned whose club an accepted rule names
  InitialEarlier,   \* the submissions of the earlier rounds when the round opened
  MaxTime, MaxRevision, MaxLineup, MaxEarlier   \* bounds

KindNames == {"coach", "proxy", "api", "carry", "capture", "fallback",
              "nominate", "renominate", "confirm", "resubmit"}
Sources == {"none", "coach", "scorer_proxy", "carry_forward", "late_capture", "adjudicated_carry"}

Occupant == Players \cup {Vacant}
Sheet == [Slots -> Occupant]
EmptySheet == [p \in Slots |-> Vacant]

\* _normalise and uq_draft_player_once.
NoDuplicates(sheet) ==
  \A p, q \in Slots : p # q /\ sheet[p] = sheet[q] => sheet[p] = Vacant

ASSUME DraftAssumption ==
  /\ Vacant \notin Players /\ NoMatch \notin Matches /\ Nobody \notin Requests
  /\ PlaysIn \in [Players -> Matches \cup {NoMatch}]
  /\ MaxTime \in Nat /\ Start \in [Matches -> 0 .. MaxTime] /\ MayStartEarly \subseteq Matches
  /\ Main \in Triggers /\ TriggerMatches \in [Triggers -> SUBSET Matches]
  /\ Earlier \in Nat /\ Casts \subseteq [Requests -> SUBSET KindNames]
  /\ \A s \in Sheets : s \in Sheet /\ NoDuplicates(s)
  /\ Nominees \subseteq Players
  /\ InitialEarlier \in [1 .. Earlier -> [version : Nat, sheet : Sheet]]

VARIABLES
  clock,
  stage,       \* of the round: "open", "live", "review"
  firedBy,     \* weekly round's activations: [Triggers -> the match that fired it, or NoMatch]
  draft,       \* weekly_lineup and its draft slots; revision 0 is no row
  lineup,      \* the effective submission; version 0 is none
  earlier,     \* the effective submissions of the earlier rounds
  nominated,   \* opening_round_nomination: [Slots -> nominee or Vacant]
  confirmed,   \* opening_round_submission: its state is 'confirmed'
  rowLock,     \* who holds the row of weekly_lineup
  entryLock,   \* who holds the row of opening_round_submission
  cast,        \* what each request may be: [Requests -> SUBSET KindNames]
  request,     \* [Requests -> a request under way]
  atStart      \* history: [Matches -> the draft when the clock passed the start]

vars == <<clock, stage, firedBy, draft, lineup, earlier, nominated, confirmed, rowLock,
          entryLock, cast, request, atStart>>

\* saved is updated_at of each slot.  edited is history: whether a coach or an
\* operator ever saved the draft.
Draft == [revision : Nat, source : {"coach", "scorer_proxy"}, sheet : Sheet,
          saved : [Slots -> 0 .. MaxTime], edited : BOOLEAN]

Submission == [version : Nat, sheet : Sheet, source : Sources]

\* revision and version are those its page showed, sheet what it proposes and
\* content what it showed or is about to submit; deferred the nominations it
\* read; origin the round it copies; since what had fired when its own
\* observation ended; from and clear what a correction of a nomination read.
Request == [kind : KindNames \cup {"none"},
            phase : {"idle", "visiting", "preloaded", "page", "posted", "saved", "examined",
                     "resolved", "ready", "held", "nominating", "nominated", "correcting"},
            revision : Nat, version : Nat, sheet : Sheet, content : Sheet, deferred : Sheet,
            origin : [round : 0 .. Earlier, version : Nat], since : SUBSET Triggers,
            from : Slots \cup {Nobody}, clear : BOOLEAN]

NoRequest ==
  [kind |-> "none", phase |-> "idle", revision |-> 0, version |-> 0, sheet |-> EmptySheet,
   content |-> EmptySheet, deferred |-> EmptySheet, origin |-> [round |-> 0, version |-> 0],
   since |-> {}, from |-> Nobody, clear |-> FALSE]

Init ==
  /\ clock = 0 /\ stage = "open"
  /\ firedBy = [k \in Triggers |-> NoMatch]
  /\ draft = [revision |-> 0, source |-> "coach", sheet |-> EmptySheet,
              saved |-> [p \in Slots |-> 0], edited |-> FALSE]
  /\ lineup = [version |-> 0, sheet |-> EmptySheet, source |-> "none"]
  /\ earlier = InitialEarlier
  /\ nominated = EmptySheet /\ confirmed = FALSE
  /\ rowLock = Nobody /\ entryLock = Nobody
  /\ cast \in Casts
  /\ request = [r \in Requests |-> NoRequest]
  /\ atStart = [m \in Matches |-> EmptySheet]
-----------------------------------------------------------------------------
(***************************************************************************)
(* Triggers and what they cover.                                            *)
(***************************************************************************)
Fired == {k \in Triggers : firedBy[k] # NoMatch}

LockedMatches(fired) == UNION {TriggerMatches[k] : k \in fired \ {Main}}

Covered(player, fired) ==
  Main \in fired \/ (player # Vacant /\ PlaysIn[player] \in LockedMatches(fired))

\* Some of the triggers whose matches have begun fire, each by one of them; a
\* match has begun at its start, or when afl-api says so.
FireTriggers ==
  \E fires \in SUBSET (Triggers \ Fired) :
    /\ {k \in Triggers \ Fired : \E m \in TriggerMatches[k] : clock >= Start[m]} \subseteq fires
    /\ \E by \in [fires -> Matches] :
         /\ \A k \in fires : /\ by[k] \in TriggerMatches[k]
                             /\ clock >= Start[by[k]] \/ by[k] \in MayStartEarly
         /\ firedBy' = [k \in Triggers |-> IF k \in fires THEN by[k] ELSE firedBy[k]]

OwnStart(player, fired) == Start[PlaysIn[player]]   \* mutant of ActivationInstant

\* The instant a position's evidence must not be later than: of the selective
\* triggers that name the player's match, the earliest, and else the main one.
ActivationInstant(player, fired) ==
  LET naming == {k \in fired \ {Main} : PlaysIn[player] \in TriggerMatches[k]}
      governing == IF naming # {} THEN naming ELSE {Main}
  IN CHOOSE t \in {Start[firedBy[k]] : k \in governing} :
       \A k \in governing : t <= Start[firedBy[k]]
-----------------------------------------------------------------------------
(***************************************************************************)
(* Saving the draft.                                                        *)
(***************************************************************************)
Overlay(sheet, deferred) ==
  [p \in Slots |-> IF deferred[p] # Vacant THEN deferred[p] ELSE sheet[p]]

\* Only a slot whose value changes is stamped.
Stamps(new) ==
  [p \in Slots |-> IF draft.revision # 0 /\ new[p] = draft.sheet[p] THEN draft.saved[p] ELSE clock]

SaveDraft(new, source, byPerson) ==
  /\ draft.revision < MaxRevision
  /\ draft' = [revision |-> draft.revision + 1, source |-> source, sheet |-> new,
               saved |-> Stamps(new), edited |-> draft.edited \/ byPerson]

\* A save waits for whoever holds the row.
RowFree == rowLock = Nobody

worldVars == <<clock, stage, atStart, cast>>
nominationVars == <<nominated, confirmed, entryLock>>

Starts(r, kind) == request[r].phase = "idle" /\ kind \in cast[r]

\* A page creates the row when there is none, and reads the nominations.
Visit(r) ==
  /\ \E kind \in KindNames :
       /\ \/ kind \in {"coach", "proxy", "carry"} /\ Starts(r, kind)
          \/ kind = request[r].kind /\ request[r].phase = "nominated"
       /\ request' = [request EXCEPT ![r].kind = kind, ![r].phase = "visiting",
                                     ![r].deferred = nominated]
  /\ IF draft.revision = 0 THEN SaveDraft(EmptySheet, "coach", FALSE) ELSE UNCHANGED draft
  /\ UNCHANGED <<worldVars, firedBy, lineup, earlier, nominationVars, rowLock>>

\* preload_target_lineup, on the draft as it is by now; a nomination's own
\* request ends here.
Preload(r) ==
  LET merged == Overlay(draft.sheet, request[r].deferred) IN
  /\ request[r].phase = "visiting"
  /\ IF merged = draft.sheet
     THEN UNCHANGED draft
     ELSE RowFree /\ NoDuplicates(merged) /\ SaveDraft(merged, "coach", FALSE)
  /\ request' = [request EXCEPT ![r] = IF @.kind = "nominate" THEN NoRequest
                   ELSE [@ EXCEPT !.phase = "preloaded", !.deferred = EmptySheet]]
  /\ UNCHANGED <<worldVars, firedBy, lineup, earlier, nominationVars, rowLock>>

\* The page shows the draft and remembers both versions.
Load(r) ==
  /\ \E kind \in KindNames :
       /\ \/ kind = "api" /\ Starts(r, kind)
          \/ kind = request[r].kind /\ request[r].phase = "preloaded"
       /\ request' = [request EXCEPT ![r].kind = kind, ![r].phase = "page",
                        ![r].revision = draft.revision, ![r].version = lineup.version,
                        ![r].content = draft.sheet]
  /\ UNCHANGED <<worldVars, firedBy, draft, lineup, earlier, nominationVars, rowLock>>

\* The coach's page puts the nominations it reads now over what was posted.
Post(r) ==
  /\ request[r].phase = "page" /\ request[r].kind \in {"coach", "proxy", "api"}
  /\ \E s \in Sheets :
       LET proposed == IF request[r].kind = "coach" THEN Overlay(s, nominated) ELSE s IN
       /\ NoDuplicates(proposed)
       /\ request' = [request EXCEPT ![r].phase = "posted", ![r].sheet = proposed]
  /\ UNCHANGED <<worldVars, firedBy, draft, lineup, earlier, nominationVars, rowLock>>

\* The revision is compared under the row, and a request that submits goes on
\* with the revision it wrote.
Save(r) ==
  /\ request[r].phase = "posted" /\ RowFree
  /\ draft.revision = request[r].revision
  /\ SaveDraft(request[r].sheet, IF request[r].kind = "proxy" THEN "scorer_proxy" ELSE "coach", TRUE)
  /\ request' = [request EXCEPT ![r] = IF @.kind = "api" THEN NoRequest
                   ELSE [@ EXCEPT !.phase = "saved", !.revision = draft.revision + 1,
                              !.content = EmptySheet]]
  /\ UNCHANGED <<worldVars, firedBy, lineup, earlier, nominationVars, rowLock>>

\* Vacant positions are confirmed on a page of their own, which posts the
\* draft again with the versions of the first page.
AskVacancies(r) ==
  /\ request[r].phase = "saved" /\ request[r].kind = "coach"
  /\ \E p \in Slots : request[r].sheet[p] = Vacant
  /\ request' = [request EXCEPT ![r].phase = "page", ![r].content = request[r].sheet]
  /\ UNCHANGED <<worldVars, firedBy, draft, lineup, earlier, nominationVars, rowLock>>
-----------------------------------------------------------------------------
(***************************************************************************)
(* Preparing a submission that is not the draft's own.                      *)
(***************************************************************************)
\* _eligibility, of an adjudication: it observes the triggers.  A draft is
\* captured only when there is one.
Examine(r) ==
  /\ \E kind \in {"capture", "fallback"} :
       /\ Starts(r, kind)
       /\ kind = "capture" => draft.revision > 0
       /\ request' = [request EXCEPT ![r].kind = kind,
                        ![r].phase = IF kind = "capture" THEN "resolved" ELSE "examined"]
  /\ lineup.version = 0 /\ stage \in {"live", "review"}
  /\ FireTriggers
  /\ \E k \in Triggers : firedBy'[k] # NoMatch
  /\ UNCHANGED <<worldVars, draft, lineup, earlier, nominationVars, rowLock>>

\* The latest earlier round with a submission, and a row to copy it into.
Resolve(r) ==
  /\ \/ request[r].kind = "carry" /\ request[r].phase = "page"
     \/ request[r].kind = "fallback" /\ request[r].phase = "examined"
  /\ \E i \in 1 .. Earlier :
       /\ earlier[i].version > 0
       /\ \A j \in i + 1 .. Earlier : earlier[j].version = 0
       /\ request' = [request EXCEPT ![r].phase = "resolved", ![r].revision = 0,
                        ![r].origin = [round |-> i, version |-> earlier[i].version],
                        ![r].content = earlier[i].sheet]
  /\ IF draft.revision = 0 THEN SaveDraft(EmptySheet, "coach", FALSE) ELSE UNCHANGED draft
  /\ UNCHANGED <<worldVars, firedBy, lineup, earlier, nominationVars, rowLock>>

\* The observation of the triggers before the last transaction.
Observe(r) ==
  /\ request[r].phase \in {"saved", "resolved"}
  /\ FireTriggers
  /\ request' = [request EXCEPT ![r].phase = "ready",
                                ![r].since = {k \in Triggers : firedBy'[k] # NoMatch}]
  /\ UNCHANGED <<worldVars, draft, lineup, earlier, nominationVars, rowLock>>
-----------------------------------------------------------------------------
(***************************************************************************)
(* The last transaction.  What it reads it reads holding the row.           *)
(***************************************************************************)
NoMatchKnown(player) == player # Vacant /\ PlaysIn[player] = NoMatch

Editable(player) == ~Covered(player, Fired) /\ ~NoMatchKnown(player)

\* A club without a match is a bye only when afl-api confirms it.
Fixed(player, byes) == Covered(player, Fired) \/ (NoMatchKnown(player) /\ ~byes)

Invalid(player, byes) == NoMatchKnown(player) /\ ~Fixed(player, byes)

LockGuardOnly(old, new, byes) ==   \* mutant of SelectionGuard
  \A p \in Slots : old[p] # new[p] => ~Fixed(old[p], byes)

\* A nominated position holds its nominee and is hidden from the lock guard.
SelectionGuard(old, new, byes) ==
  \A p \in Slots :
    IF nominated[p] # Vacant
    THEN new[p] = nominated[p]
    ELSE /\ old[p] # new[p] => ~Fixed(old[p], byes)
         /\ old[p] = new[p] => ~Invalid(old[p], byes)
         /\ new[p] \notin {old[p], Vacant} => Editable(new[p])

AnyRevision(r) == TRUE   \* mutant of CurrentRevision

CurrentRevision(r) == draft.revision = request[r].revision

AnySource(r) == TRUE   \* mutant of SourceUnchanged

\* The row of the copied submission is taken too, until the commit.
SourceUnchanged(r) ==
  request[r].origin.version = earlier[request[r].origin.round].version

\* submit and submit_positions.
Ordinary(r, content) ==
  /\ stage \in {"open", "live"} /\ lineup.version = request[r].version
  /\ \/ /\ request[r].kind \in {"coach", "proxy"} /\ CurrentRevision(r)
        /\ draft.source = "scorer_proxy" => request[r].kind = "proxy"
     \/ request[r].kind = "carry" /\ SourceUnchanged(r)
  /\ \E byes \in BOOLEAN : SelectionGuard(lineup.sheet, content, byes)

\* _resolve_evidenced_positions: a covered position counts when it was saved
\* no later than the instant of the trigger that covers it.
Evidenced ==
  [p \in Slots |->
     LET value == draft.sheet[p]
         proven == /\ ~NoMatchKnown(value)
                   /\ draft.saved[p] <= ActivationInstant(value, Fired)
     IN IF nominated[p] # Vacant THEN nominated[p]
        ELSE IF value = Vacant \/ Editable(value) \/ proven THEN value ELSE Vacant]

\* submit_adjudicated_first_submission.
Adjudicated(r, content) ==
  /\ stage \in {"live", "review"} /\ lineup.version = 0 /\ Fired # {}
  /\ request[r].kind = "capture" \/ (request[r].kind = "fallback" /\ SourceUnchanged(r))
  /\ NoDuplicates(content)

\* A coach's or a proxy's submission reads the slots of the draft again.
Content(r) ==
  CASE request[r].kind = "carry" -> request[r].content
    [] request[r].kind = "capture" -> Evidenced
    [] request[r].kind = "fallback" -> Overlay(request[r].content, nominated)
    [] OTHER -> draft.sheet

TakeRow(r) ==
  /\ request[r].phase = "ready" /\ RowFree /\ lineup.version < MaxLineup
  /\ Ordinary(r, Content(r)) \/ Adjudicated(r, Content(r))
  /\ request' = [request EXCEPT ![r].phase = "held", ![r].deferred = nominated,
                                ![r].content = Content(r)]
  /\ rowLock' = r
  /\ UNCHANGED <<worldVars, firedBy, draft, lineup, earlier, nominationVars>>

SourceOf(kind) ==
  CASE kind = "coach" -> "coach"
    [] kind = "proxy" -> "scorer_proxy"
    [] kind = "carry" -> "carry_forward"
    [] kind = "capture" -> "late_capture"
    [] OTHER -> "adjudicated_carry"

EndRequest(r) ==
  /\ request' = [request EXCEPT ![r] = NoRequest]
  /\ rowLock' = IF rowLock = r THEN Nobody ELSE rowLock
  /\ entryLock' = IF entryLock = r THEN Nobody ELSE entryLock

Commit(r) ==
  /\ request[r].phase = "held"
  /\ lineup' = [version |-> lineup.version + 1, sheet |-> request[r].content,
                source |-> SourceOf(request[r].kind)]
  /\ EndRequest(r)
  /\ UNCHANGED <<worldVars, firedBy, draft, earlier, nominated, confirmed>>

\* A refusal, an error, a page left, or the draft saved and not submitted.
Drop(r) ==
  /\ request[r].phase # "idle" /\ EndRequest(r)
  /\ UNCHANGED <<worldVars, firedBy, draft, lineup, earlier, nominated, confirmed>>
-----------------------------------------------------------------------------
(***************************************************************************)
(* Opening Round nominations.  The row of the entry's confirmation is held  *)
(* from the check that it is not confirmed to the commit.                   *)
(***************************************************************************)
LockState(r) ==
  /\ \E kind \in {"nominate", "renominate"} :
       /\ Starts(r, kind)
       /\ request' = [request EXCEPT ![r].kind = kind, ![r].phase = "nominating"]
  /\ entryLock = Nobody /\ ~confirmed
  /\ entryLock' = r
  /\ UNCHANGED <<worldVars, firedBy, draft, lineup, earlier, nominated, confirmed, rowLock>>

Free(p, q, without) ==
  q \in Nominees /\ \A s \in Slots \ without : nominated[s] # q /\ (s = p => nominated[s] = Vacant)

Nominate(r) ==
  /\ request[r].kind = "nominate" /\ request[r].phase = "nominating"
  /\ \E p \in Slots, q \in Nominees :
       Free(p, q, {}) /\ nominated' = [nominated EXCEPT ![p] = q]
  /\ entryLock' = Nobody
  /\ request' = [request EXCEPT ![r].phase = "nominated"]
  /\ UNCHANGED <<worldVars, firedBy, draft, lineup, earlier, confirmed, rowLock>>

\* A correction reads, without a lock, whether the draft still holds the
\* nominee where this nomination put it.
ReadSlot(r) ==
  /\ request[r].kind = "renominate" /\ request[r].phase = "nominating"
  /\ \E p \in Slots :
       /\ nominated[p] # Vacant
       /\ request' = [request EXCEPT ![r].phase = "correcting", ![r].from = p,
                        ![r].revision = draft.revision,
                        ![r].clear = draft.revision > 0 /\ draft.sheet[p] = nominated[p]]
  /\ UNCHANGED <<worldVars, firedBy, draft, lineup, earlier, nominationVars, rowLock>>

\* _reconcile_corrected_target_draft: what was read is cleared, whatever is
\* there by now.
Reconcile(r, p, q) ==
  LET from == request[r].from
      cleared == IF request[r].clear /\ from # p THEN {from} ELSE {}
      new == [s \in Slots |-> IF s = p THEN q ELSE IF s \in cleared THEN Vacant ELSE draft.sheet[s]]
  IN /\ NoDuplicates(new) /\ draft.revision < MaxRevision
     /\ draft' = [draft EXCEPT !.revision = @ + 1, !.sheet = new,
                    !.saved = [s \in Slots |-> IF s \in cleared \cup {p} THEN clock ELSE @[s]]]

Renominate(r) ==
  /\ request[r].phase = "correcting" /\ (request[r].revision = 0 \/ RowFree)
  /\ \E p \in Slots, q \in Nominees :
       LET from == request[r].from IN
       /\ Free(p, q, {from})
       /\ nominated' = [s \in Slots |-> IF s = p THEN q ELSE IF s = from THEN Vacant ELSE nominated[s]]
       /\ IF request[r].revision = 0 THEN UNCHANGED draft ELSE Reconcile(r, p, q)
  /\ EndRequest(r)
  /\ UNCHANGED <<worldVars, firedBy, lineup, earlier, confirmed>>

EntryFree == entryLock = Nobody

\* confirm, and the audited reopen.
Confirm(r) ==
  /\ Starts(r, "confirm") /\ EntryFree
  /\ confirmed' = ~confirmed
  /\ UNCHANGED <<worldVars, firedBy, draft, lineup, earlier, nominated, entryLock, rowLock, request>>
-----------------------------------------------------------------------------
(***************************************************************************)
(* Everybody else.                                                          *)
(***************************************************************************)
Tick ==
  /\ clock < MaxTime /\ clock' = clock + 1
  /\ atStart' = [m \in Matches |-> IF Start[m] = clock THEN draft.sheet ELSE atStart[m]]
  /\ UNCHANGED <<stage, cast, firedBy, draft, lineup, earlier, nominationVars, rowLock, request>>

\* Any page of the round observes its triggers.
RoundObserved ==
  /\ FireTriggers /\ firedBy' # firedBy
  /\ UNCHANGED <<worldVars, draft, lineup, earlier, nominationVars, rowLock, request>>

\* The lifecycle row is held by whoever holds the lineup's row.
Advance ==
  /\ RowFree
  /\ \/ stage = "open" /\ stage' = "live"
     \/ stage = "live" /\ stage' = "review"
  /\ UNCHANGED <<clock, atStart, cast, firedBy, draft, lineup, earlier, nominationVars, rowLock, request>>

\* A submission or correction of an earlier round.
Resubmit(r) ==
  /\ Starts(r, "resubmit")
  /\ \E i \in 1 .. Earlier, s \in Sheets :
       /\ earlier[i].version < MaxEarlier
       /\ \A b \in Requests : request[b].phase = "held" => request[b].origin.round # i
       /\ earlier' = [earlier EXCEPT ![i] = [version |-> @.version + 1, sheet |-> s]]
  /\ UNCHANGED <<worldVars, firedBy, draft, lineup, nominationVars, rowLock, request>>
-----------------------------------------------------------------------------
RequestStep(r) ==
  \/ Visit(r) \/ Preload(r) \/ Load(r) \/ Post(r) \/ Save(r) \/ AskVacancies(r)
  \/ Examine(r) \/ Resolve(r) \/ Observe(r) \/ TakeRow(r) \/ Commit(r) \/ Drop(r)
  \/ LockState(r) \/ Nominate(r) \/ ReadSlot(r) \/ Renominate(r)
  \/ Confirm(r) \/ Resubmit(r)

Next ==
  \/ \E r \in Requests : RequestStep(r)
  \/ Tick \/ RoundObserved \/ Advance

Spec == Init /\ [][Next]_vars
-----------------------------------------------------------------------------
(***************************************************************************)
(* Properties.                                                              *)
(***************************************************************************)
\* Types; the lineup's row is held exactly by a submission about to commit and
\* the confirmation's by a nomination or correction under way; drafts,
\* submissions and nominations name nobody twice.
DraftTypeOK ==
  /\ clock \in 0 .. MaxTime /\ stage \in {"open", "live", "review"}
  /\ firedBy \in [Triggers -> Matches \cup {NoMatch}]
  /\ draft \in Draft /\ lineup \in Submission
  /\ earlier \in [1 .. Earlier -> [version : Nat, sheet : Sheet]]
  /\ nominated \in Sheet /\ confirmed \in BOOLEAN
  /\ rowLock \in Requests \cup {Nobody} /\ entryLock \in Requests \cup {Nobody}
  /\ cast \in Casts /\ request \in [Requests -> Request] /\ atStart \in [Matches -> Sheet]
  /\ NoDuplicates(draft.sheet) /\ NoDuplicates(lineup.sheet) /\ NoDuplicates(nominated)
  /\ \A r \in Requests :
       /\ rowLock = r <=> request[r].phase = "held"
       /\ entryLock = r <=> request[r].phase \in {"nominating", "correcting"}

\* The submission r commits in this step, if it does.
Commits(r) == request[r].phase = "held" /\ lineup' # lineup

\* A coach's or a proxy's submission is the sheet that request itself saved,
\* whatever was saved, preloaded or reconciled by others since (save-then-
\* submit of routes/coach_lineup.py and routes/delegated_operations.py).
SubmittedAsSeen ==
  [][\A r \in Requests :
       Commits(r) /\ request[r].kind \in {"coach", "proxy"}
       => lineup'.sheet = request[r].sheet]_vars

\* A carried-forward lineup is, when it commits, the source round's effective
\* submission, but for the nominations an adjudicator's fallback read and put
\* over it (require_unchanged, apply_carry_forward_fallback).
CopiesCurrentSource ==
  [][\A r \in Requests, p \in Slots :
       LET copied == earlier[request[r].origin.round].sheet[p] IN
       Commits(r) /\ request[r].kind \in {"carry", "fallback"} /\ lineup'.sheet[p] # copied
       => request[r].kind = "fallback" /\ lineup'.sheet[p] = request[r].deferred[p]]_vars

\* Whatever was submitted, by whichever of the five ways, holds the nominee of
\* every nomination that stood when its transaction took the lineup's row,
\* however it was proposed, saved or copied before and whatever is nominated
\* until it commits (OpeningRoundSelectionGuard, lineup_adjudication.py).
NominationsHonoured ==
  [][\A r \in Requests, p \in Slots :
       Commits(r) /\ request[r].deferred[p] # Vacant
       => lineup'.sheet[p] = request[r].deferred[p]]_vars

\* The draft held this player here when match m was due to start.
HeldAt(p, player, m) == clock > Start[m] => atStart[m][p] = player

\* The selective triggers that fired and name the player's match.
NamedBy(player) == {k \in Fired \ {Main} : PlaysIn[player] \in TriggerMatches[k]}

\* A player captured from a draft at a position that was covered when the
\* adjudication's observation ended was there already at the instant of every
\* selective trigger that names his match and at the main trigger's, but for
\* one case the code decides by the selective trigger alone: that trigger's
\* match starts after the main one's, and then he was there by that start
\* (_resolve_evidenced_positions and the trigger find_covering_trigger picks).
CaptureIsPreLock ==
  [][\A r \in Requests, p \in Slots :
       LET player == lineup'.sheet[p] IN
       Commits(r) /\ request[r].kind = "capture" /\ player \notin {Vacant, request[r].deferred[p]}
       => /\ \A k \in request[r].since \cap NamedBy(player) : HeldAt(p, player, firedBy[k])
          /\ Main \in request[r].since =>
               \/ HeldAt(p, player, firedBy[Main])
               \/ \E k \in NamedBy(player) : /\ Start[firedBy[k]] > Start[firedBy[Main]]
                                             /\ HeldAt(p, player, firedBy[k])]_vars

\* lineup_adjudication.py:59-61: an edit after the lock "can never be
\* misrepresented as pre-lockout evidence", whichever trigger had locked.
CaptureIsBeforeEveryLock ==
  [][\A r \in Requests, p \in Slots :
       LET player == lineup'.sheet[p] IN
       Commits(r) /\ request[r].kind = "capture" /\ player \notin {Vacant, request[r].deferred[p]}
       => \A k \in request[r].since \cap (NamedBy(player) \cup {Main}) : HeldAt(p, player, firedBy[k])]_vars

\* docs/weekly-lineups.md: a capture never treats "a synthetic, never-touched
\* header as though it were a genuine pre-lockout draft".
CaptureHasEvidence ==
  [][\A r \in Requests : Commits(r) /\ request[r].kind = "capture" => draft.edited]_vars
=============================================================================
