--------------------------- MODULE LineupDraftsProofs ---------------------------
(***************************************************************************)
(* Proofs about how an entry's lineup comes to be submitted, for any        *)
(* positions, players, matches, plan, requests and sheets: whoever saves,   *)
(* nominates or resubmits meanwhile, what is submitted was seen, copies are *)
(* of the current source, nominations are honoured and a capture proves     *)
(* what it claims.                                                          *)
(***************************************************************************)
EXTENDS LineupDrafts, WellFoundedInduction, TLAPS

-----------------------------------------------------------------------------
(***************************************************************************)
(* Types.                                                                  *)
(***************************************************************************)
\* The lineup's row is held exactly by the submission about to commit; a
\* trigger was fired by a match of its own.
DraftTyped ==
  /\ clock \in 0 .. MaxTime
  /\ firedBy \in [Triggers -> Matches \cup {NoMatch}]
  /\ \A k \in Triggers : firedBy[k] # NoMatch => firedBy[k] \in TriggerMatches[k]
  /\ draft \in Draft /\ lineup \in Submission
  /\ earlier \in [1 .. Earlier -> [version : Nat, sheet : Sheet]]
  /\ nominated \in Sheet
  /\ rowLock \in Requests \cup {Nobody}
  /\ request \in [Requests -> Request]
  /\ atStart \in [Matches -> Sheet]
  /\ \A r \in Requests : rowLock = r <=> request[r].phase = "held"

LEMMA EmptySheetTyped == EmptySheet \in Sheet
BY DEF EmptySheet, Sheet, Occupant

LEMMA OverlayTyped ==
  ASSUME NEW a \in Sheet, NEW b \in Sheet
  PROVE  Overlay(a, b) \in Sheet
BY DEF Overlay, Sheet

LEMMA NoRequestTyped ==
  /\ NoRequest \in Request
  /\ NoRequest.phase = "idle" /\ NoRequest.kind = "none"
BY EmptySheetTyped, DraftAssumption DEF NoRequest, Request, KindNames

LEMMA DraftInit == Init => DraftTyped
<1> SUFFICES ASSUME Init PROVE DraftTyped
  OBVIOUS
<1> USE DraftAssumption, EmptySheetTyped
<1>1. draft \in Draft /\ lineup \in Submission
  BY DEF Init, Draft, Submission, Sources
<1>2. request \in [Requests -> Request]
  BY NoRequestTyped DEF Init
<1>3. \A r \in Requests : rowLock = r <=> request[r].phase = "held"
  BY NoRequestTyped DEF Init
<1> QED BY <1>1, <1>2, <1>3 DEF Init, DraftTyped

\* What a step does to a slot it marks with the time.
Stamped ==
  \A p \in Slots : \/ draft'.saved[p] = clock
                   \/ draft'.saved[p] = draft.saved[p] /\ draft'.sheet[p] = draft.sheet[p]

\* A saved draft is a draft, one revision on.
LEMMA SaveTyped ==
  ASSUME DraftTyped, NEW new \in Sheet, NEW source \in {"coach", "scorer_proxy"},
         NEW b \in BOOLEAN, SaveDraft(new, source, b)
  PROVE  /\ draft' \in Draft /\ draft'.revision = draft.revision + 1 /\ draft'.sheet = new
         /\ Stamped
<1>1. Stamps(new) \in [Slots -> 0 .. MaxTime]
  BY DEF Stamps, DraftTyped, Draft
<1>2. draft.revision \in Nat /\ draft.edited \in BOOLEAN
  BY DEF DraftTyped, Draft
<1>3. Stamped
  BY DEF Stamped, SaveDraft, Stamps
<1> QED BY <1>1, <1>2, <1>3 DEF SaveDraft, Draft

LEMMA FiresTyped ==
  ASSUME DraftTyped, FireTriggers
  PROVE  /\ firedBy' \in [Triggers -> Matches \cup {NoMatch}]
         /\ \A k \in Triggers : firedBy'[k] # NoMatch => firedBy'[k] \in TriggerMatches[k]
         /\ \A k \in Triggers : firedBy[k] # NoMatch => firedBy'[k] = firedBy[k]
<1>1. PICK fires \in SUBSET (Triggers \ Fired) :
        \E by \in [fires -> Matches] :
          /\ \A k \in fires : by[k] \in TriggerMatches[k] /\ by[k] \in Matches
          /\ firedBy' = [k \in Triggers |-> IF k \in fires THEN by[k] ELSE firedBy[k]]
  BY DEF FireTriggers
<1> QED BY <1>1 DEF DraftTyped, Fired

-----------------------------------------------------------------------------
(***************************************************************************)
(* Steps.                                                                  *)
(***************************************************************************)
\* r's request moves to row and nobody else's moves; the lineup's row is held
\* as the phase says.
Moves(r, row) ==
  /\ row \in Request /\ request' = [request EXCEPT ![r] = row]
  /\ \/ /\ rowLock' = rowLock
        /\ row.phase = "held" <=> request[r].phase = "held"
     \/ rowLock = Nobody /\ rowLock' = r /\ row.phase = "held"
     \/ rowLock' = (IF rowLock = r THEN Nobody ELSE rowLock) /\ row.phase # "held"

LEMMA MovesTyped ==
  ASSUME DraftTyped, NEW r \in Requests, NEW row, Moves(r, row)
  PROVE  /\ request' \in [Requests -> Request]
         /\ rowLock' \in Requests \cup {Nobody}
         /\ \A b \in Requests : rowLock' = b <=> request'[b].phase = "held"
         /\ request'[r] = row
         /\ \A b \in Requests : b # r => request'[b] = request[b]
<1> USE DraftAssumption
<1>1. request' \in [Requests -> Request] /\ request'[r] = row
      /\ \A b \in Requests : b # r => request'[b] = request[b]
  BY DEF Moves, DraftTyped
<1>2. rowLock' \in Requests \cup {Nobody}
  BY DEF Moves, DraftTyped
<1>3. \A b \in Requests : rowLock = b <=> request[b].phase = "held"
  BY DEF DraftTyped
<1>4. ASSUME NEW b \in Requests PROVE rowLock' = b <=> request'[b].phase = "held"
  BY <1>1, <1>3 DEF Moves
<1> QED BY <1>1, <1>2, <1>4

\* What steps do to what the requests read: the draft is saved only while its
\* row is free or when there was none, and marks what it changes; an earlier round's submission is
\* replaced only while nobody holds it; a trigger does not come undone.
DraftMoves ==
  /\ \/ draft' = draft
     \/ draft'.revision = draft.revision + 1 /\ (rowLock = Nobody \/ draft.revision = 0)
  /\ Stamped

WorldMoves ==
  /\ DraftMoves
  /\ \A i \in 1 .. Earlier :
       \/ earlier'[i] = earlier[i]
       \/ /\ earlier'[i].version > earlier[i].version
          /\ \A b \in Requests : request[b].phase = "held" => request[b].origin.round # i
  /\ \A k \in Triggers : firedBy[k] # NoMatch => firedBy'[k] = firedBy[k]

LEMMA SameDraft == UNCHANGED draft => DraftMoves
BY DEF DraftMoves, Stamped

LEMMA VisitMoves ==
  ASSUME DraftTyped, NEW r \in Requests, Visit(r)
  PROVE  /\ DraftTyped' /\ WorldMoves
         /\ \E kind \in KindNames :
              Moves(r, [request[r] EXCEPT !.kind = kind, !.phase = "visiting", !.deferred = nominated])
<1> USE DraftAssumption
<1>1. PICK kind \in KindNames :
        /\ \/ kind \in {"coach", "proxy", "carry"} /\ Starts(r, kind)
           \/ kind = request[r].kind /\ request[r].phase = "nominated"
        /\ request' = [request EXCEPT ![r].kind = kind, ![r].phase = "visiting",
                                      ![r].deferred = nominated]
  BY DEF Visit
<1> DEFINE row == [request[r] EXCEPT !.kind = kind, !.phase = "visiting", !.deferred = nominated]
<1>2. Moves(r, row)
  <2>1. request[r] \in Request /\ nominated \in Sheet
    BY DEF DraftTyped
  <2>2. row \in Request
    BY <2>1 DEF Request
  <2>3. request' = [request EXCEPT ![r] = row]
    BY <1>1 DEF DraftTyped
  <2>4. request[r].phase # "held" /\ row.phase = "visiting"
    BY <1>1, <2>1 DEF Starts, Request
  <2> QED BY <2>2, <2>3, <2>4 DEF Moves, Visit
<1>3. draft' \in Draft /\ DraftMoves
  BY SaveTyped, EmptySheetTyped, SameDraft DEF Visit, DraftTyped, DraftMoves
<1>4. WorldMoves
  BY <1>3 DEF WorldMoves, Visit
<1>5. DraftTyped'
  BY <1>2, <1>3, MovesTyped DEF DraftTyped, Visit, worldVars, nominationVars
<1> QED BY <1>2, <1>4, <1>5

LEMMA PreloadMoves ==
  ASSUME DraftTyped, NEW r \in Requests, Preload(r)
  PROVE  /\ DraftTyped' /\ WorldMoves
         /\ \E row : Moves(r, row) /\ row.phase \in {"idle", "preloaded"}
<1> USE DraftAssumption
<1> DEFINE row == IF request[r].kind = "nominate" THEN NoRequest
                  ELSE [request[r] EXCEPT !.phase = "preloaded", !.deferred = EmptySheet]
<1>1. request[r] \in Request /\ request[r].phase = "visiting"
  BY DEF DraftTyped, Preload
<1>2. row \in Request /\ row.phase \in {"idle", "preloaded"}
  <2>1. [request[r] EXCEPT !.phase = "preloaded", !.deferred = EmptySheet] \in Request
    BY <1>1, EmptySheetTyped DEF Request
  <2> QED BY <1>1, <2>1, NoRequestTyped DEF Request
<1>3. request' = [request EXCEPT ![r] = row]
  BY DEF Preload
<1>4. Moves(r, row)
  BY <1>1, <1>2, <1>3 DEF Moves, Preload
<1>5. draft' \in Draft /\ DraftMoves
  <2> DEFINE merged == Overlay(draft.sheet, request[r].deferred)
  <2>1. merged \in Sheet
    BY <1>1, OverlayTyped DEF Request, DraftTyped, Draft
  <2>2. UNCHANGED draft \/ (rowLock = Nobody /\ SaveDraft(merged, "coach", FALSE))
    BY DEF Preload, RowFree
  <2>3. CASE rowLock = Nobody /\ SaveDraft(merged, "coach", FALSE)
    <3> HIDE DEF merged
    <3> QED BY <2>1, <2>3, SaveTyped DEF DraftMoves
  <2>4. CASE UNCHANGED draft
    BY <2>4, SameDraft DEF DraftTyped
  <2> QED BY <2>2, <2>3, <2>4
<1>6. WorldMoves
  BY <1>5 DEF WorldMoves, Preload
<1>7. DraftTyped'
  BY <1>4, <1>5, MovesTyped DEF DraftTyped, Preload, worldVars, nominationVars
<1> QED BY <1>2, <1>4, <1>6, <1>7

LEMMA LoadMoves ==
  ASSUME DraftTyped, NEW r \in Requests, Load(r)
  PROVE  /\ DraftTyped' /\ WorldMoves
         /\ \E row : Moves(r, row) /\ row.phase = "page"
<1> USE DraftAssumption
<1>1. PICK kind \in KindNames :
        /\ \/ kind = "api" /\ Starts(r, kind)
           \/ kind = request[r].kind /\ request[r].phase = "preloaded"
        /\ request' = [request EXCEPT ![r].kind = kind, ![r].phase = "page",
                         ![r].revision = draft.revision, ![r].version = lineup.version,
                         ![r].content = draft.sheet]
  BY DEF Load
<1> DEFINE row == [request[r] EXCEPT !.kind = kind, !.phase = "page", !.revision = draft.revision,
                     !.version = lineup.version, !.content = draft.sheet]
<1>2. request[r] \in Request /\ draft \in Draft /\ lineup \in Submission
  BY DEF DraftTyped
<1>3. row \in Request /\ row.phase = "page" /\ request[r].phase # "held"
  BY <1>1, <1>2 DEF Request, Draft, Submission, Starts
<1>4. request' = [request EXCEPT ![r] = row]
  BY <1>1 DEF DraftTyped
<1>5. Moves(r, row)
  BY <1>3, <1>4 DEF Moves, Load
<1>6. WorldMoves
  BY SameDraft DEF WorldMoves, Load
<1>7. DraftTyped'
  BY <1>5, MovesTyped DEF DraftTyped, Load, worldVars, nominationVars
<1> QED BY <1>3, <1>5, <1>6, <1>7

LEMMA PostMoves ==
  ASSUME DraftTyped, NEW r \in Requests, Post(r)
  PROVE  /\ DraftTyped' /\ WorldMoves
         /\ \E row : Moves(r, row) /\ row.phase = "posted" /\ row.kind \in {"coach", "proxy", "api"}
<1> USE DraftAssumption
<1>1. PICK s \in Sheet :
        request' = [request EXCEPT ![r].phase = "posted", ![r].sheet = s]
  <2>1. PICK s \in Sheets :
          LET proposed == IF request[r].kind = "coach" THEN Overlay(s, nominated) ELSE s IN
          request' = [request EXCEPT ![r].phase = "posted", ![r].sheet = proposed]
    BY DEF Post
  <2>2. s \in Sheet /\ Overlay(s, nominated) \in Sheet
    BY OverlayTyped DEF DraftTyped
  <2> QED BY <2>1, <2>2
<1> DEFINE row == [request[r] EXCEPT !.phase = "posted", !.sheet = s]
<1>2. request[r] \in Request
  BY DEF DraftTyped
<1>3. /\ row \in Request /\ row.phase = "posted" /\ request[r].phase # "held"
      /\ row.kind \in {"coach", "proxy", "api"}
  BY <1>2 DEF Request, Post
<1>4. request' = [request EXCEPT ![r] = row]
  BY <1>1 DEF DraftTyped
<1>5. Moves(r, row)
  BY <1>3, <1>4 DEF Moves, Post
<1>6. WorldMoves
  BY SameDraft DEF WorldMoves, Post
<1>7. DraftTyped'
  BY <1>5, MovesTyped DEF DraftTyped, Post, worldVars, nominationVars
<1> QED BY <1>3, <1>5, <1>6, <1>7

\* The request that saved goes on with the draft's new revision, and the draft
\* is what it posted.
LEMMA SaveMoves ==
  ASSUME DraftTyped, NEW r \in Requests, Save(r)
  PROVE  /\ DraftTyped' /\ WorldMoves /\ request[r].phase = "posted"
         /\ draft'.revision = request[r].revision + 1 /\ draft'.sheet = request[r].sheet
         /\ \E row : /\ Moves(r, row)
                     /\ \/ row = NoRequest
                        \/ /\ row.phase = "saved" /\ request[r].kind # "api"
                           /\ row.kind = request[r].kind /\ row.sheet = request[r].sheet
                           /\ row.revision = request[r].revision + 1
<1> USE DraftAssumption
<1> DEFINE row == IF request[r].kind = "api" THEN NoRequest
                  ELSE [request[r] EXCEPT !.phase = "saved", !.revision = draft.revision + 1,
                                          !.content = EmptySheet]
<1>1. /\ request[r] \in Request /\ request[r].phase = "posted"
      /\ draft.revision = request[r].revision
  BY DEF DraftTyped, Save
<1>2. /\ row \in Request /\ row.phase # "held"
      /\ \/ row = NoRequest
         \/ /\ row.phase = "saved" /\ request[r].kind # "api"
            /\ row.kind = request[r].kind /\ row.sheet = request[r].sheet
            /\ row.revision = request[r].revision + 1
  <2>1. CASE request[r].kind = "api"
    BY <2>1, NoRequestTyped
  <2>2. CASE request[r].kind # "api"
    <3> DEFINE saved == [request[r] EXCEPT !.phase = "saved", !.revision = draft.revision + 1,
                                          !.content = EmptySheet]
    <3>1. row = saved
      BY <2>2
    <3>2. request[r].revision \in Nat /\ request[r].revision + 1 \in Nat
      BY <1>1 DEF Request
    <3>3. saved \in Request
      BY <1>1, <3>2, EmptySheetTyped DEF Request
    <3>4. /\ saved.phase = "saved" /\ saved.kind = request[r].kind
          /\ saved.sheet = request[r].sheet /\ saved.revision = request[r].revision + 1
      BY <1>1 DEF Request
    <3> HIDE DEF saved
    <3> QED BY <2>2, <3>1, <3>3, <3>4
  <2> QED BY <2>1, <2>2
<1>3. request' = [request EXCEPT ![r] = row]
  BY DEF Save
<1>4. Moves(r, row)
  BY <1>1, <1>2, <1>3 DEF Moves, Save
<1>5. PICK source \in {"coach", "scorer_proxy"} : SaveDraft(request[r].sheet, source, TRUE)
  BY DEF Save
<1>6. request[r].sheet \in Sheet /\ draft.revision = request[r].revision /\ rowLock = Nobody
  BY <1>1 DEF Request, Save, RowFree
<1>7. /\ draft' \in Draft /\ DraftMoves
      /\ draft'.revision = request[r].revision + 1 /\ draft'.sheet = request[r].sheet
  BY <1>5, <1>6, SaveTyped DEF DraftMoves
<1>8. WorldMoves
  BY <1>7 DEF WorldMoves, Save
<1>9. DraftTyped'
  BY <1>4, <1>7, MovesTyped DEF DraftTyped, Save, worldVars, nominationVars
<1> HIDE DEF row
<1> QED BY <1>1, <1>2, <1>4, <1>7, <1>8, <1>9

LEMMA AskVacanciesMoves ==
  ASSUME DraftTyped, NEW r \in Requests, AskVacancies(r)
  PROVE  /\ DraftTyped' /\ WorldMoves
         /\ \E row : Moves(r, row) /\ row.phase = "page"
<1> USE DraftAssumption
<1> DEFINE row == [request[r] EXCEPT !.phase = "page", !.content = request[r].sheet]
<1>1. request[r] \in Request
  BY DEF DraftTyped
<1>2. row \in Request /\ row.phase = "page" /\ request[r].phase # "held"
  BY <1>1 DEF Request, AskVacancies
<1>3. request' = [request EXCEPT ![r] = row]
  BY DEF DraftTyped, AskVacancies
<1>4. Moves(r, row)
  BY <1>2, <1>3 DEF Moves, AskVacancies
<1>5. WorldMoves
  BY SameDraft DEF WorldMoves, AskVacancies
<1>6. DraftTyped'
  BY <1>4, MovesTyped DEF DraftTyped, AskVacancies, worldVars, nominationVars
<1> QED BY <1>2, <1>4, <1>5, <1>6

\* A capture examined has a draft.
LEMMA ExamineMoves ==
  ASSUME DraftTyped, NEW r \in Requests, Examine(r)
  PROVE  /\ DraftTyped' /\ WorldMoves /\ draft' = draft
         /\ \E row : /\ Moves(r, row)
                     /\ \/ row.phase = "examined"
                        \/ row.phase = "resolved" /\ row.kind = "capture" /\ draft.revision > 0
<1> USE DraftAssumption
<1>1. PICK kind \in {"capture", "fallback"} :
        /\ kind = "capture" => draft.revision > 0
        /\ request[r].phase = "idle"
        /\ request' = [request EXCEPT ![r].kind = kind,
                         ![r].phase = IF kind = "capture" THEN "resolved" ELSE "examined"]
  BY DEF Examine, Starts
<1> DEFINE row == [request[r] EXCEPT !.kind = kind,
                     !.phase = IF kind = "capture" THEN "resolved" ELSE "examined"]
<1>2. request[r] \in Request
  BY DEF DraftTyped
<1>3. /\ row \in Request /\ row.phase # "held"
      /\ \/ row.phase = "examined"
         \/ row.phase = "resolved" /\ row.kind = "capture" /\ draft.revision > 0
  BY <1>1, <1>2 DEF Request, KindNames
<1>4. request' = [request EXCEPT ![r] = row]
  BY <1>1 DEF DraftTyped
<1>5. Moves(r, row)
  BY <1>1, <1>3, <1>4 DEF Moves, Examine
<1>6. WorldMoves
  BY SameDraft, FiresTyped DEF WorldMoves, Examine
<1>7. DraftTyped'
  BY <1>5, MovesTyped, FiresTyped DEF DraftTyped, Examine, worldVars, nominationVars
<1> HIDE DEF row
<1> QED BY <1>3, <1>5, <1>6, <1>7 DEF Examine

\* What is copied is the source's submission, with its version.
LEMMA ResolveMoves ==
  ASSUME DraftTyped, NEW r \in Requests, Resolve(r)
  PROVE  /\ DraftTyped' /\ WorldMoves /\ earlier' = earlier
         /\ \E i \in 1 .. Earlier : \E row :
              /\ Moves(r, row) /\ row.phase = "resolved" /\ row.kind \in {"carry", "fallback"}
              /\ row.origin = [round |-> i, version |-> earlier[i].version]
              /\ row.content = earlier[i].sheet
<1> USE DraftAssumption
<1>1. PICK i \in 1 .. Earlier :
        request' = [request EXCEPT ![r].phase = "resolved", ![r].revision = 0,
                      ![r].origin = [round |-> i, version |-> earlier[i].version],
                      ![r].content = earlier[i].sheet]
  BY DEF Resolve
<1> DEFINE row == [request[r] EXCEPT !.phase = "resolved", !.revision = 0,
                     !.origin = [round |-> i, version |-> earlier[i].version],
                     !.content = earlier[i].sheet]
<1>2. /\ request[r] \in Request /\ earlier[i].version \in Nat /\ earlier[i].sheet \in Sheet
      /\ i \in 0 .. Earlier
  BY DEF DraftTyped
<1>3. /\ row \in Request /\ row.phase = "resolved" /\ request[r].phase # "held"
      /\ row.kind \in {"carry", "fallback"}
      /\ row.origin = [round |-> i, version |-> earlier[i].version]
      /\ row.content = earlier[i].sheet
  <2>1. row \in Request
    BY <1>2 DEF Request
  <2> QED BY <1>2, <2>1 DEF Request, Resolve
<1>4. request' = [request EXCEPT ![r] = row]
  BY <1>1 DEF DraftTyped
<1>5. Moves(r, row)
  BY <1>3, <1>4 DEF Moves, Resolve
<1>6. draft' \in Draft /\ DraftMoves
  BY SaveTyped, EmptySheetTyped, SameDraft DEF Resolve, DraftTyped, DraftMoves
<1>7. WorldMoves
  BY <1>6 DEF WorldMoves, Resolve
<1>8. DraftTyped'
  BY <1>5, <1>6, MovesTyped DEF DraftTyped, Resolve, worldVars, nominationVars
<1>9. earlier' = earlier
  BY DEF Resolve
<1> HIDE DEF row
<1> QED BY <1>3, <1>5, <1>7, <1>8, <1>9

\* The triggers that had fired when a request's observation ended.
LEMMA ObserveMoves ==
  ASSUME DraftTyped, NEW r \in Requests, Observe(r)
  PROVE  /\ DraftTyped' /\ WorldMoves /\ draft' = draft /\ earlier' = earlier
         /\ request[r].phase \in {"saved", "resolved"}
         /\ Moves(r, [request[r] EXCEPT !.phase = "ready", !.since = Fired'])
<1> USE DraftAssumption
<1> DEFINE row == [request[r] EXCEPT !.phase = "ready", !.since = Fired']
<1>1. request[r] \in Request /\ Fired' \in SUBSET Triggers
  BY DEF DraftTyped, Fired
<1>2. row \in Request /\ row.phase = "ready" /\ request[r].phase \in {"saved", "resolved"}
  BY <1>1 DEF Request, Observe
<1>3. request' = [request EXCEPT ![r] = row]
  BY DEF DraftTyped, Observe, Fired
<1>4. Moves(r, row)
  BY <1>2, <1>3 DEF Moves, Observe
<1>5. WorldMoves
  BY SameDraft, FiresTyped DEF WorldMoves, Observe
<1>6. DraftTyped'
  BY <1>4, MovesTyped, FiresTyped DEF DraftTyped, Observe, worldVars, nominationVars
<1> QED BY <1>2, <1>4, <1>5, <1>6 DEF Observe

LEMMA EvidencedTyped == DraftTyped => Evidenced \in Sheet
<1> SUFFICES ASSUME DraftTyped PROVE Evidenced \in Sheet
  OBVIOUS
<1>1. draft.sheet \in Sheet /\ nominated \in Sheet
  BY DEF DraftTyped, Draft
<1>2. Vacant \in Occupant
  BY DEF Occupant
<1>3. ASSUME NEW p \in Slots PROVE Evidenced[p] \in Occupant
  <2>1. draft.sheet[p] \in Occupant /\ nominated[p] \in Occupant
    BY <1>1 DEF Sheet
  <2>2. Evidenced[p] \in {draft.sheet[p], nominated[p], Vacant}
    BY DEF Evidenced
  <2> QED BY <1>2, <2>1, <2>2
<1>4. Evidenced = [p \in Slots |-> Evidenced[p]]
  BY DEF Evidenced
<1> HIDE DEF Evidenced
<1> QED BY <1>3, <1>4 DEF Sheet

LEMMA ContentTyped ==
  ASSUME DraftTyped, NEW r \in Requests
  PROVE  Content(r) \in Sheet
<1>1. /\ request[r].content \in Sheet /\ draft.sheet \in Sheet /\ nominated \in Sheet
      /\ Evidenced \in Sheet
  BY EvidencedTyped DEF DraftTyped, Draft, Request
<1>2. Overlay(request[r].content, nominated) \in Sheet
  BY <1>1, OverlayTyped
<1> QED BY <1>1, <1>2 DEF Content

LEMMA TakeRowMoves ==
  ASSUME DraftTyped, NEW r \in Requests, TakeRow(r)
  PROVE  /\ DraftTyped' /\ WorldMoves /\ draft' = draft /\ earlier' = earlier /\ firedBy' = firedBy
         /\ request[r].phase = "ready"
         /\ Ordinary(r, Content(r)) \/ Adjudicated(r, Content(r))
         /\ Moves(r, [request[r] EXCEPT !.phase = "held", !.deferred = nominated,
                                        !.content = Content(r)])
<1> USE DraftAssumption
<1>1. request[r] \in Request /\ nominated \in Sheet /\ Content(r) \in Sheet
  BY ContentTyped DEF DraftTyped
<1> HIDE DEF Content
<1> DEFINE row == [request[r] EXCEPT !.phase = "held", !.deferred = nominated,
                                        !.content = Content(r)]
<1>2. row \in Request /\ row.phase = "held" /\ request[r].phase = "ready"
  BY <1>1 DEF Request, TakeRow
<1>3. request' = [request EXCEPT ![r] = row]
  BY DEF DraftTyped, TakeRow
<1>4. Moves(r, row)
  BY <1>2, <1>3 DEF Moves, TakeRow, RowFree
<1>5. WorldMoves
  BY SameDraft DEF WorldMoves, TakeRow
<1>6. DraftTyped'
  BY <1>4, MovesTyped DEF DraftTyped, TakeRow, worldVars, nominationVars
<1> QED BY <1>2, <1>4, <1>5, <1>6 DEF TakeRow

LEMMA EndMoves ==
  ASSUME DraftTyped, NEW r \in Requests, EndRequest(r)
  PROVE  Moves(r, NoRequest)
BY NoRequestTyped DEF EndRequest, Moves

LEMMA CommitMoves ==
  ASSUME DraftTyped, NEW r \in Requests, Commit(r)
  PROVE  /\ DraftTyped' /\ WorldMoves /\ Moves(r, NoRequest)
         /\ request[r].phase = "held" /\ lineup'.sheet = request[r].content
<1> USE DraftAssumption
<1>1. Moves(r, NoRequest)
  BY EndMoves DEF Commit
<1>2. lineup' \in Submission /\ lineup'.sheet = request[r].content
  <2>1. SourceOf(request[r].kind) \in Sources
    BY DEF SourceOf, Sources
  <2>2. request[r].content \in Sheet /\ lineup.version \in Nat
    BY DEF DraftTyped, Request, Submission
  <2> HIDE DEF SourceOf, Sources
  <2> QED BY <2>1, <2>2 DEF Commit, Submission
<1>3. WorldMoves
  BY SameDraft DEF WorldMoves, Commit
<1>4. DraftTyped'
  BY <1>1, <1>2, MovesTyped DEF DraftTyped, Commit, worldVars
<1> QED BY <1>1, <1>2, <1>3, <1>4 DEF Commit

LEMMA DropMoves ==
  ASSUME DraftTyped, NEW r \in Requests, Drop(r)
  PROVE  DraftTyped' /\ WorldMoves /\ Moves(r, NoRequest)
<1> USE DraftAssumption
<1>1. Moves(r, NoRequest)
  BY EndMoves DEF Drop
<1>2. WorldMoves
  BY SameDraft DEF WorldMoves, Drop
<1>3. DraftTyped'
  BY <1>1, MovesTyped DEF DraftTyped, Drop, worldVars
<1> QED BY <1>1, <1>2, <1>3

LEMMA LockStateMoves ==
  ASSUME DraftTyped, NEW r \in Requests, LockState(r)
  PROVE  /\ DraftTyped' /\ WorldMoves
         /\ \E row : Moves(r, row) /\ row.phase = "nominating"
<1> USE DraftAssumption
<1>1. PICK kind \in {"nominate", "renominate"} :
        /\ request[r].phase = "idle"
        /\ request' = [request EXCEPT ![r].kind = kind, ![r].phase = "nominating"]
  BY DEF LockState, Starts
<1> DEFINE row == [request[r] EXCEPT !.kind = kind, !.phase = "nominating"]
<1>2. request[r] \in Request
  BY DEF DraftTyped
<1>3. row \in Request /\ row.phase = "nominating"
  BY <1>1, <1>2 DEF Request, KindNames
<1>4. request' = [request EXCEPT ![r] = row]
  BY <1>1 DEF DraftTyped
<1>5. Moves(r, row)
  BY <1>1, <1>3, <1>4 DEF Moves, LockState
<1>6. WorldMoves
  BY SameDraft DEF WorldMoves, LockState
<1>7. DraftTyped'
  BY <1>5, MovesTyped DEF DraftTyped, LockState, worldVars
<1> QED BY <1>3, <1>5, <1>6, <1>7

LEMMA NominateMoves ==
  ASSUME DraftTyped, NEW r \in Requests, Nominate(r)
  PROVE  /\ DraftTyped' /\ WorldMoves
         /\ \E row : Moves(r, row) /\ row.phase = "nominated"
<1> USE DraftAssumption
<1> DEFINE row == [request[r] EXCEPT !.phase = "nominated"]
<1>1. request[r] \in Request /\ request[r].phase = "nominating"
  BY DEF DraftTyped, Nominate
<1>2. row \in Request /\ row.phase = "nominated"
  BY <1>1 DEF Request
<1>3. request' = [request EXCEPT ![r] = row]
  BY DEF Nominate, DraftTyped
<1>4. Moves(r, row)
  BY <1>1, <1>2, <1>3 DEF Moves, Nominate
<1>5. nominated' \in Sheet
  BY DEF Nominate, DraftTyped, Sheet, Occupant
<1>6. WorldMoves
  BY SameDraft DEF WorldMoves, Nominate
<1>7. DraftTyped'
  BY <1>4, <1>5, MovesTyped DEF DraftTyped, Nominate, worldVars
<1> QED BY <1>2, <1>4, <1>6, <1>7

LEMMA ReadSlotMoves ==
  ASSUME DraftTyped, NEW r \in Requests, ReadSlot(r)
  PROVE  /\ DraftTyped' /\ WorldMoves
         /\ \E row : Moves(r, row) /\ row.phase = "correcting"
<1> USE DraftAssumption
<1>1. PICK p \in Slots :
        request' = [request EXCEPT ![r].phase = "correcting", ![r].from = p,
                      ![r].revision = draft.revision,
                      ![r].clear = draft.revision > 0 /\ draft.sheet[p] = nominated[p]]
  BY DEF ReadSlot
<1> DEFINE held == draft.revision > 0 /\ draft.sheet[p] = nominated[p]
           row == [request[r] EXCEPT !.phase = "correcting", !.from = p,
                                     !.revision = draft.revision, !.clear = held]
<1>2. request[r] \in Request /\ draft.revision \in Nat /\ held \in BOOLEAN
      /\ request[r].phase = "nominating"
  BY DEF DraftTyped, Draft, ReadSlot
<1>3. request' = [request EXCEPT ![r] = row]
  BY <1>1 DEF DraftTyped
<1> HIDE DEF held
<1>4. row \in Request /\ row.phase = "correcting"
  BY <1>2 DEF Request
<1>5. Moves(r, row)
  BY <1>2, <1>3, <1>4 DEF Moves, ReadSlot
<1>6. WorldMoves
  BY SameDraft DEF WorldMoves, ReadSlot
<1>7. DraftTyped'
  BY <1>5, MovesTyped DEF DraftTyped, ReadSlot, worldVars, nominationVars
<1> QED BY <1>4, <1>5, <1>6, <1>7

\* A correction that read no draft leaves it alone; another one takes its row.
LEMMA RenominateMoves ==
  ASSUME DraftTyped, NEW r \in Requests, Renominate(r)
  PROVE  DraftTyped' /\ WorldMoves /\ Moves(r, NoRequest)
<1> USE DraftAssumption
<1>1. Moves(r, NoRequest)
  BY EndMoves DEF Renominate
<1>2. PICK p \in Slots, q \in Nominees :
        /\ nominated' = [s \in Slots |-> IF s = p THEN q
                                         ELSE IF s = request[r].from THEN Vacant ELSE nominated[s]]
        /\ IF request[r].revision = 0 THEN UNCHANGED draft ELSE Reconcile(r, p, q)
  BY DEF Renominate
<1>3. nominated' \in Sheet
  BY <1>2 DEF DraftTyped, Sheet, Occupant
<1>4. draft' \in Draft /\ DraftMoves
  <2>1. CASE UNCHANGED draft
    BY <2>1, SameDraft DEF DraftTyped
  <2>2. CASE request[r].revision # 0 /\ Reconcile(r, p, q)
    <3> DEFINE cleared == IF request[r].clear /\ request[r].from # p THEN {request[r].from} ELSE {}
               new == [s \in Slots |-> IF s = p THEN q ELSE IF s \in cleared THEN Vacant
                                       ELSE draft.sheet[s]]
               stamps == [s \in Slots |-> IF s \in cleared \cup {p} THEN clock ELSE draft.saved[s]]
    <3>1. draft' = [draft EXCEPT !.revision = draft.revision + 1, !.sheet = new, !.saved = stamps]
      BY <2>2 DEF Reconcile
    <3>2. /\ draft \in Draft /\ draft.sheet \in Sheet /\ draft.revision \in Nat
          /\ draft.saved \in [Slots -> 0 .. MaxTime] /\ clock \in 0 .. MaxTime
      BY DEF DraftTyped, Draft
    <3>3. new \in Sheet
      BY <3>2 DEF Sheet, Occupant
    <3>4. stamps \in [Slots -> 0 .. MaxTime]
      BY <3>2
    <3>5. rowLock = Nobody
      BY <2>2 DEF Renominate, RowFree
    <3>6. draft' \in Draft /\ draft'.revision = draft.revision + 1
      <4> HIDE DEF new, stamps
      <4>1. draft' = [revision |-> draft.revision + 1, source |-> draft.source, sheet |-> new,
                      saved |-> stamps, edited |-> draft.edited]
        BY <3>1, <3>2 DEF Draft
      <4>2. draft.source \in {"coach", "scorer_proxy"} /\ draft.edited \in BOOLEAN
            /\ draft.revision + 1 \in Nat
        BY <3>2 DEF Draft
      <4> QED BY <4>1, <4>2, <3>3, <3>4 DEF Draft
    <3>7. Stamped
      BY <3>1, <3>2 DEF Stamped, Draft
    <3> QED BY <3>5, <3>6, <3>7 DEF DraftMoves
  <2> QED BY <1>2, <2>1, <2>2
<1>5. WorldMoves
  BY <1>4 DEF WorldMoves, Renominate
<1>6. DraftTyped'
  BY <1>1, <1>3, <1>4, MovesTyped DEF DraftTyped, Renominate, worldVars
<1> QED BY <1>1, <1>5, <1>6

\* Nobody's request moves in these steps.
LEMMA OthersMove ==
  ASSUME DraftTyped,
         Tick \/ RoundObserved \/ Advance \/ \E r \in Requests : Confirm(r) \/ Resubmit(r)
  PROVE  DraftTyped' /\ WorldMoves /\ request' = request
<1> USE DraftAssumption, SameDraft
<1>1. CASE Tick
  <2>1. atStart' \in [Matches -> Sheet]
    BY <1>1 DEF Tick, DraftTyped, Draft
  <2>2. clock' \in 0 .. MaxTime
    BY <1>1 DEF Tick, DraftTyped
  <2> QED BY <1>1, <2>1, <2>2 DEF Tick, DraftTyped, WorldMoves, nominationVars
<1>2. CASE RoundObserved
  BY <1>2, FiresTyped DEF RoundObserved, DraftTyped, WorldMoves, worldVars, nominationVars
<1>3. CASE Advance
  BY <1>3 DEF Advance, DraftTyped, WorldMoves, nominationVars
<1>4. ASSUME NEW r \in Requests, Confirm(r) PROVE DraftTyped' /\ WorldMoves /\ request' = request
  BY <1>4 DEF Confirm, DraftTyped, WorldMoves, worldVars
<1>5. ASSUME NEW r \in Requests, Resubmit(r) PROVE DraftTyped' /\ WorldMoves /\ request' = request
  <2>1. PICK i \in 1 .. Earlier, s \in Sheets :
          /\ \A b \in Requests : request[b].phase = "held" => request[b].origin.round # i
          /\ earlier' = [earlier EXCEPT ![i] = [version |-> earlier[i].version + 1, sheet |-> s]]
    BY <1>5 DEF Resubmit
  <2>2. earlier[i].version \in Nat /\ s \in Sheet
    BY DEF DraftTyped
  <2>3. earlier' \in [1 .. Earlier -> [version : Nat, sheet : Sheet]]
    BY <2>1, <2>2 DEF DraftTyped
  <2>4. WorldMoves
    BY <1>5, <2>1, <2>2 DEF WorldMoves, Resubmit, DraftTyped
  <2> QED BY <1>5, <2>3, <2>4 DEF Resubmit, DraftTyped, worldVars, nominationVars
<1> QED BY <1>1, <1>2, <1>3, <1>4, <1>5

-----------------------------------------------------------------------------
(***************************************************************************)
(* What a request holds.                                                   *)
(***************************************************************************)
\* Which requests reach which phases, and that what had fired when they
\* observed it has fired.
Sorted(r) ==
  /\ request[r].phase = "posted" => request[r].kind \in {"coach", "proxy", "api"}
  /\ request[r].phase = "saved" => request[r].kind \in {"coach", "proxy"}
  /\ request[r].phase = "resolved" => request[r].kind \in {"carry", "fallback", "capture"}
  /\ request[r].phase \in {"ready", "held"} =>
       /\ request[r].kind \in {"coach", "proxy", "carry", "fallback", "capture"}
       /\ request[r].since \subseteq Fired

\* The draft still is what r saved if its revision is the one r wrote.
Saved(r) ==
  request[r].kind \in {"coach", "proxy"} =>
    /\ request[r].phase \in {"saved", "ready"} =>
         /\ request[r].revision <= draft.revision
         /\ request[r].revision = draft.revision => draft.sheet = request[r].sheet
    /\ request[r].phase = "held" => request[r].content = request[r].sheet

\* The source still is what r copied if its version is the one r read.
Copied(r) ==
  request[r].kind \in {"carry", "fallback"} =>
    /\ request[r].phase \in {"resolved", "ready", "held"} => request[r].origin.round \in 1 .. Earlier
    /\ request[r].phase \in {"resolved", "ready"} =>
         LET source == earlier[request[r].origin.round] IN
         /\ request[r].origin.version <= source.version
         /\ request[r].origin.version = source.version => request[r].content = source.sheet
    /\ request[r].phase = "held" =>
         \A p \in Slots :
           request[r].content[p] # earlier[request[r].origin.round].sheet[p] =>
             request[r].kind = "fallback" /\ request[r].content[p] = request[r].deferred[p]

\* The player has been here, unmarked, since before every selective instant
\* that holds him and the main one, or since before a later selective one.
InTime(p, player, fired) ==
  /\ \A k \in fired \cap NamedBy(player) : draft.saved[p] <= Start[firedBy[k]]
  /\ Main \in fired =>
       \/ draft.saved[p] <= Start[firedBy[Main]]
       \/ \E k \in NamedBy(player) : /\ Start[firedBy[k]] > Start[firedBy[Main]]
                                     /\ draft.saved[p] <= Start[firedBy[k]]

Captured(r) ==
  request[r].kind = "capture" =>
    /\ request[r].phase \in {"resolved", "ready", "held"} => draft.revision > 0
    /\ request[r].phase = "held" =>
         \A p \in Slots :
           request[r].content[p] \notin {Vacant, request[r].deferred[p]} =>
             /\ request[r].content[p] = draft.sheet[p]
             /\ InTime(p, request[r].content[p], request[r].since)

Honoured(r) ==
  request[r].phase = "held" =>
    \A p \in Slots : request[r].deferred[p] # Vacant => request[r].content[p] = request[r].deferred[p]

RowInv(r) == Sorted(r) /\ Saved(r) /\ Copied(r) /\ Captured(r) /\ Honoured(r)

\* What the draft held when a match was due to start, it holds wherever it was
\* not marked since.
DraftHistory ==
  \A p \in Slots :
    /\ draft.saved[p] <= clock
    /\ \A m \in Matches : Start[m] < clock /\ draft.saved[p] <= Start[m] =>
         atStart[m][p] = draft.sheet[p]

DraftInv == DraftTyped /\ DraftHistory /\ \A r \in Requests : RowInv(r)

\* A request's row survives the steps of the others.
LEMMA OthersKeep ==
  ASSUME DraftTyped, DraftTyped', WorldMoves, NEW b \in Requests, RowInv(b),
         request'[b] = request[b]
  PROVE  RowInv(b)'
<1> USE DraftAssumption
<1>1. /\ draft.revision \in Nat /\ draft'.revision \in Nat
      /\ request[b].revision \in Nat
      /\ \A i \in 1 .. Earlier : earlier[i].version \in Nat /\ earlier'[i].version \in Nat
      /\ request[b].origin.version \in Nat
      /\ request[b].since \subseteq Triggers
  BY DEF DraftTyped, Draft, Request
<1>2. Sorted(b)'
  BY <1>1 DEF RowInv, Sorted, WorldMoves, Fired
<1>3. Saved(b)'
  BY <1>1 DEF RowInv, Saved, WorldMoves, DraftMoves
<1>4. Copied(b)'
  <2> SUFFICES ASSUME request[b].kind \in {"carry", "fallback"},
                      request[b].phase \in {"resolved", "ready", "held"}
               PROVE  Copied(b)'
    BY DEF Copied
  <2>1. request[b].origin.round \in 1 .. Earlier
    BY DEF RowInv, Copied
  <2>2. \/ earlier'[request[b].origin.round] = earlier[request[b].origin.round]
        \/ /\ earlier'[request[b].origin.round].version > earlier[request[b].origin.round].version
           /\ request[b].phase # "held"
    BY <2>1 DEF WorldMoves
  <2>3. CASE earlier'[request[b].origin.round] = earlier[request[b].origin.round]
    BY <2>1, <2>3 DEF RowInv, Copied
  <2>4. CASE /\ earlier'[request[b].origin.round].version > earlier[request[b].origin.round].version
             /\ request[b].phase # "held"
    <3> DEFINE old == earlier[request[b].origin.round].version
               new == earlier'[request[b].origin.round].version
               read == request[b].origin.version
    <3>1. read <= old
      BY <2>4 DEF RowInv, Copied
    <3>2. old \in Nat /\ new \in Nat /\ read \in Nat /\ new > old
      BY <1>1, <2>1, <2>4
    <3> HIDE DEF old, new, read
    <3>3. read <= new /\ read # new
      BY <3>1, <3>2
    <3>4. Earlier' = Earlier /\ request'[b].origin.round \in 1 .. Earlier
      BY <2>1
    <3>5. /\ request'[b].origin.version <= earlier'[request'[b].origin.round].version
          /\ request'[b].origin.version # earlier'[request'[b].origin.round].version
          /\ request'[b].phase # "held"
      BY <2>4, <3>3 DEF old, new, read
    <3> QED BY <3>4, <3>5 DEF Copied
  <2> QED BY <2>2, <2>3, <2>4
<1>5. Captured(b)'
  <2>1. CASE request[b].kind # "capture" \/ request[b].phase \notin {"resolved", "ready", "held"}
    BY <2>1 DEF Captured
  <2>2. CASE request[b].kind = "capture" /\ request[b].phase \in {"resolved", "ready"}
    BY <1>1, <2>2 DEF RowInv, Captured, WorldMoves, DraftMoves
  <2>3. CASE request[b].kind = "capture" /\ request[b].phase = "held"
    <3>1. rowLock = b /\ draft.revision > 0
      BY <2>3 DEF DraftTyped, RowInv, Captured
    <3>2. draft' = draft
      BY <1>1, <3>1 DEF WorldMoves, DraftMoves
    <3>3. /\ request[b].since \subseteq Fired /\ Fired \subseteq Fired'
          /\ \A k \in Fired : firedBy'[k] = firedBy[k]
      BY <1>1, <2>3 DEF RowInv, Sorted, Fired, WorldMoves
    <3>4. ASSUME NEW p \in Slots, NEW player, InTime(p, player, request[b].since)
          PROVE  InTime(p, player, request[b].since)'
      <4>1. NamedBy(player) \subseteq NamedBy(player)' /\ NamedBy(player) \subseteq Fired
        BY <3>3 DEF NamedBy
      <4>2. request[b].since \cap NamedBy(player)' = request[b].since \cap NamedBy(player)
        BY <3>3 DEF NamedBy
      <4>3. \A k \in request[b]'.since \cap NamedBy(player)' : draft'.saved[p] <= Start[firedBy'[k]]
        BY <3>2, <3>3, <3>4, <4>2 DEF InTime
      <4>4. ASSUME Main \in request[b].since
            PROVE  \/ draft'.saved[p] <= Start[firedBy'[Main]]
                   \/ \E k \in NamedBy(player)' : /\ Start[firedBy'[k]] > Start[firedBy'[Main]]
                                                  /\ draft'.saved[p] <= Start[firedBy'[k]]
        BY <3>2, <3>3, <3>4, <4>1, <4>4 DEF InTime
      <4> QED BY <4>3, <4>4 DEF InTime
    <3>5. Captured(b)
      BY DEF RowInv
    <3> QED BY <2>3, <3>1, <3>2, <3>4, <3>5 DEF Captured
  <2> QED BY <2>1, <2>2, <2>3
<1>6. Honoured(b)'
  BY DEF RowInv, Honoured
<1> QED BY <1>2, <1>3, <1>4, <1>5, <1>6 DEF RowInv

LEMMA QuietRow ==
  ASSUME NEW r \in Requests,
         request'[r].phase \notin {"posted", "saved", "resolved", "ready", "held"}
  PROVE  RowInv(r)'
BY DEF RowInv, Sorted, Saved, Copied, Captured, Honoured

-----------------------------------------------------------------------------
(***************************************************************************)
(* What a capture proves.                                                  *)
(***************************************************************************)
LEMMA LeastOf ==
  ASSUME NEW T \in SUBSET Nat, T # {}
  PROVE  \E x \in T : \A y \in T : x <= y
<1> DEFINE R == OpToRel(<, Nat)
<1>1. IsWellFoundedOn(R, Nat)
  BY NatLessThanWellFounded
<1>2. \A x, y \in Nat : <<y, x>> \in R <=> y < x
  BY DEF OpToRel
<1> HIDE DEF R
<1>3. PICK x \in T : \A y \in T : ~ (<<y, x>> \in R)
  BY <1>1, WFMin, Zenon
<1>4. \A y \in T : ~(y < x)
  BY <1>2, <1>3
<1> QED BY <1>4

\* The instant a position is held to is the earliest of the selective triggers'
\* that name the player's match, or else the main one's.
LEMMA InstantIsEarliest ==
  ASSUME DraftTyped, NEW player \in Players, NamedBy(player) # {} \/ Main \in Fired
  PROVE  LET instant == ActivationInstant(player, Fired) IN
         /\ instant \in Nat
         /\ \A k \in NamedBy(player) : instant <= Start[firedBy[k]]
         /\ \E k \in NamedBy(player) \cup {Main} :
              /\ instant = Start[firedBy[k]] /\ k \in Fired
              /\ k = Main => NamedBy(player) = {}
<1> USE DraftAssumption
<1> DEFINE governing == IF NamedBy(player) # {} THEN NamedBy(player) ELSE {Main}
           instants == {Start[firedBy[j]] : j \in governing}
           instant == CHOOSE t \in instants : \A j \in governing : t <= Start[firedBy[j]]
<1>1. governing \subseteq Fired /\ governing # {}
  BY DEF NamedBy
<1>2. instants \in SUBSET Nat /\ instants # {}
  <2> HIDE DEF governing
  <2>1. ASSUME NEW j \in governing PROVE Start[firedBy[j]] \in Nat
    <3>1. firedBy[j] \in Matches
      BY <1>1 DEF DraftTyped, Fired
    <3>2. Start[firedBy[j]] \in 0 .. MaxTime
      BY <3>1
    <3> QED BY <3>2
  <2>2. \A x \in instants : x \in Nat
    BY <2>1
  <2>3. PICK j \in governing : TRUE
    BY <1>1
  <2>4. Start[firedBy[j]] \in instants
    OBVIOUS
  <2> QED BY <2>2, <2>4
<1>3. \E t \in instants : \A j \in governing : t <= Start[firedBy[j]]
  <2>1. PICK t \in instants : \A y \in instants : t <= y
    <3> HIDE DEF instants
    <3> QED BY <1>2, LeastOf
  <2>2. ASSUME NEW j \in governing PROVE t <= Start[firedBy[j]]
    <3>1. Start[firedBy[j]] \in instants
      BY <2>2
    <3> QED BY <2>1, <3>1
  <2> QED BY <2>2
<1>4. instant \in instants /\ \A j \in governing : instant <= Start[firedBy[j]]
  BY <1>3
<1>5. ActivationInstant(player, Fired) = instant
  BY DEF ActivationInstant, NamedBy
<1>6. PICK k \in governing : instant = Start[firedBy[k]]
  BY <1>4
<1>7. instant \in Nat
  BY <1>2, <1>4
<1> HIDE DEF instant, instants
<1>8. \A j \in NamedBy(player) : instant <= Start[firedBy[j]]
  BY <1>4
<1>9. /\ k \in NamedBy(player) \cup {Main} /\ k \in Fired
      /\ k = Main => NamedBy(player) = {}
  BY <1>1, <1>6 DEF NamedBy
<1> QED BY <1>5, <1>6, <1>7, <1>8, <1>9

\* A player who is captured and was not nominated was there in time.
LEMMA EvidenceIsEarly ==
  ASSUME DraftTyped, NEW p \in Slots, Evidenced[p] \notin {Vacant, nominated[p]},
         NEW since \in SUBSET Fired
  PROVE  Evidenced[p] = draft.sheet[p] /\ InTime(p, Evidenced[p], since)
<1> USE DraftAssumption
<1> DEFINE value == draft.sheet[p]
           instant == ActivationInstant(value, Fired)
<1>1. /\ nominated[p] = Vacant /\ Evidenced[p] = value
      /\ \/ Editable(value)
         \/ ~NoMatchKnown(value) /\ draft.saved[p] <= instant
  BY DEF Evidenced
<1>2. value \in Players /\ draft.saved[p] \in Nat
  <2>1. value \in Occupant /\ draft.saved[p] \in 0 .. MaxTime
    BY DEF DraftTyped, Draft, Sheet
  <2> QED BY <1>1, <2>1 DEF Occupant
<1>3. \A k \in Fired : Start[firedBy[k]] \in Nat
  <2> SUFFICES ASSUME NEW k \in Fired PROVE Start[firedBy[k]] \in Nat
    OBVIOUS
  <2>1. firedBy[k] \in Matches
    BY DEF Fired, DraftTyped
  <2>2. Start[firedBy[k]] \in 0 .. MaxTime
    BY <2>1
  <2> QED BY <2>2
<1>4. CASE NamedBy(value) = {} /\ Main \notin Fired
  BY <1>1, <1>4 DEF InTime
<1>5. CASE NamedBy(value) # {} \/ Main \in Fired
  <2>1. Covered(value, Fired)
    BY <1>2, <1>5 DEF Covered, LockedMatches, NamedBy
  <2>2. draft.saved[p] <= instant
    BY <1>1, <2>1 DEF Editable
  <2>3. /\ instant \in Nat
        /\ \A k \in NamedBy(value) : instant <= Start[firedBy[k]]
        /\ \E k \in NamedBy(value) \cup {Main} :
             /\ instant = Start[firedBy[k]] /\ k \in Fired
             /\ k = Main => NamedBy(value) = {}
    BY <1>2, <1>5, InstantIsEarliest
  <2>4. NamedBy(value) \subseteq Fired
    BY DEF NamedBy
  <2> HIDE DEF value, instant
  <2>5. \A k \in since \cap NamedBy(value) : draft.saved[p] <= Start[firedBy[k]]
    BY <1>2, <1>3, <2>2, <2>3, <2>4
  <2>6. ASSUME Main \in since
        PROVE  \/ draft.saved[p] <= Start[firedBy[Main]]
               \/ \E k \in NamedBy(value) : /\ Start[firedBy[k]] > Start[firedBy[Main]]
                                            /\ draft.saved[p] <= Start[firedBy[k]]
    <3>1. PICK k \in NamedBy(value) \cup {Main} : instant = Start[firedBy[k]]
      BY <2>3
    <3>2. draft.saved[p] <= Start[firedBy[k]]
      BY <2>2, <3>1
    <3>3. /\ k \in Fired /\ Main \in Fired
          /\ Start[firedBy[k]] \in Nat /\ Start[firedBy[Main]] \in Nat
      BY <1>3, <2>4, <2>6
    <3>4. CASE k = Main
      BY <3>2, <3>4
    <3>5. CASE k # Main /\ Start[firedBy[k]] <= Start[firedBy[Main]]
      BY <1>2, <3>2, <3>3, <3>5
    <3>6. CASE k # Main /\ Start[firedBy[k]] > Start[firedBy[Main]]
      BY <3>1, <3>2, <3>6
    <3> QED BY <3>3, <3>4, <3>5, <3>6
  <2>7. InTime(p, value, since)
    BY <2>5, <2>6 DEF InTime
  <2> QED BY <1>1, <2>7 DEF value
<1> QED BY <1>1, <1>4, <1>5

-----------------------------------------------------------------------------
(***************************************************************************)
(* The invariant.                                                          *)
(***************************************************************************)
LEMMA DraftInvInit == Init => DraftInv
<1> SUFFICES ASSUME Init PROVE DraftInv
  OBVIOUS
<1> USE DraftAssumption
<1>1. DraftTyped
  BY DraftInit
<1>2. DraftHistory
  BY DEF Init, DraftHistory
<1>3. ASSUME NEW r \in Requests PROVE RowInv(r)
  <2>1. request[r].phase = "idle"
    BY NoRequestTyped DEF Init
  <2> QED BY <2>1 DEF RowInv, Sorted, Saved, Copied, Captured, Honoured
<1> QED BY <1>1, <1>2, <1>3 DEF DraftInv

LEMMA HistoryKept ==
  ASSUME DraftInv, DraftTyped', Stamped, clock' = clock, atStart' = atStart
  PROVE  DraftHistory'
<1> USE DraftAssumption
<1> SUFFICES ASSUME NEW p \in Slots
             PROVE  /\ draft'.saved[p] <= clock
                    /\ \A m \in Matches : Start[m] < clock /\ draft'.saved[p] <= Start[m] =>
                         atStart[m][p] = draft'.sheet[p]
  BY DEF DraftHistory
<1>1. clock \in Nat /\ \A m \in Matches : Start[m] \in Nat
  BY DEF DraftInv, DraftTyped
<1>2. CASE draft'.saved[p] = clock
  BY <1>1, <1>2
<1>3. CASE draft'.saved[p] = draft.saved[p] /\ draft'.sheet[p] = draft.sheet[p]
  BY <1>3 DEF DraftInv, DraftHistory
<1> QED BY <1>2, <1>3 DEF Stamped

LEMMA HistoryTicks == ASSUME DraftInv, Tick PROVE DraftHistory'
<1> USE DraftAssumption
<1> SUFFICES ASSUME NEW p \in Slots
             PROVE  /\ draft.saved[p] <= clock'
                    /\ \A m \in Matches : Start[m] < clock' /\ draft.saved[p] <= Start[m] =>
                         atStart'[m][p] = draft.sheet[p]
  BY DEF DraftHistory, Tick
<1>1. clock \in Nat /\ clock' = clock + 1 /\ \A m \in Matches : Start[m] \in Nat
  BY DEF DraftInv, DraftTyped, Tick
<1>2. draft.saved[p] \in Nat /\ draft.saved[p] <= clock
  BY DEF DraftInv, DraftTyped, Draft, DraftHistory
<1>3. ASSUME NEW m \in Matches, Start[m] < clock', draft.saved[p] <= Start[m]
      PROVE  atStart'[m][p] = draft.sheet[p]
  <2>1. CASE Start[m] = clock
    BY <2>1 DEF Tick
  <2>2. CASE Start[m] # clock
    <3>1. Start[m] < clock /\ Start[m] \in Nat
      BY <1>1, <1>3, <2>2
    <3>2. atStart[m][p] = draft.sheet[p]
      BY <1>3, <3>1 DEF DraftInv, DraftHistory
    <3> QED BY <2>2, <3>2 DEF Tick
  <2> QED BY <2>1, <2>2
<1> QED BY <1>1, <1>2, <1>3

\* The row of the request that saved.
LEMMA SavedRow ==
  ASSUME DraftInv, NEW r \in Requests, Save(r)
  PROVE  RowInv(r)'
<1> USE DraftAssumption
<1>1. PICK row : /\ Moves(r, row)
                 /\ \/ row = NoRequest
                    \/ /\ row.phase = "saved" /\ request[r].kind # "api"
                       /\ row.kind = request[r].kind /\ row.sheet = request[r].sheet
                       /\ row.revision = request[r].revision + 1
  BY SaveMoves DEF DraftInv
<1>2. request'[r] = row
  BY <1>1, MovesTyped DEF DraftInv
<1>3. CASE row = NoRequest
  BY <1>2, <1>3, NoRequestTyped, QuietRow
<1>4. CASE /\ row.phase = "saved" /\ request[r].kind # "api"
           /\ row.kind = request[r].kind /\ row.sheet = request[r].sheet
           /\ row.revision = request[r].revision + 1
  <2>1. /\ request[r].phase = "posted" /\ draft'.sheet = request[r].sheet
        /\ draft'.revision = request[r].revision + 1 /\ request[r].revision \in Nat
    BY SaveMoves DEF DraftInv, DraftTyped, Request
  <2>2. request[r].kind \in {"coach", "proxy"}
    BY <1>4, <2>1 DEF DraftInv, RowInv, Sorted
  <2>3. Saved(r)'
    BY <1>2, <1>4, <2>1 DEF Saved
  <2>4. Sorted(r)' /\ Copied(r)' /\ Captured(r)' /\ Honoured(r)'
    BY <1>2, <1>4, <2>2 DEF Sorted, Copied, Captured, Honoured
  <2> QED BY <2>3, <2>4 DEF RowInv
<1> QED BY <1>1, <1>3, <1>4

LEMMA ExaminedRow ==
  ASSUME DraftInv, NEW r \in Requests, Examine(r)
  PROVE  RowInv(r)'
<1> USE DraftAssumption
<1>1. PICK row : /\ Moves(r, row)
                 /\ \/ row.phase = "examined"
                    \/ row.phase = "resolved" /\ row.kind = "capture" /\ draft.revision > 0
  BY ExamineMoves DEF DraftInv
<1>2. request'[r] = row /\ draft' = draft
  BY <1>1, MovesTyped, ExamineMoves DEF DraftInv
<1>3. CASE row.phase = "examined"
  BY <1>2, <1>3, QuietRow
<1>4. CASE row.phase = "resolved" /\ row.kind = "capture" /\ draft.revision > 0
  BY <1>2, <1>4 DEF RowInv, Sorted, Saved, Copied, Captured, Honoured
<1> QED BY <1>1, <1>3, <1>4

LEMMA ResolvedRow ==
  ASSUME DraftInv, NEW r \in Requests, Resolve(r)
  PROVE  RowInv(r)'
<1> USE DraftAssumption
<1>1. PICK i \in 1 .. Earlier :
        \E row : /\ Moves(r, row) /\ row.phase = "resolved" /\ row.kind \in {"carry", "fallback"}
                 /\ row.origin = [round |-> i, version |-> earlier[i].version]
                 /\ row.content = earlier[i].sheet
  BY ResolveMoves DEF DraftInv
<1>2. PICK row : /\ Moves(r, row) /\ row.phase = "resolved" /\ row.kind \in {"carry", "fallback"}
                 /\ row.origin = [round |-> i, version |-> earlier[i].version]
                 /\ row.content = earlier[i].sheet
  BY <1>1
<1>3. request'[r] = row /\ earlier' = earlier
  BY <1>2, MovesTyped, ResolveMoves DEF DraftInv
<1>4. earlier[i].version \in Nat
  BY DEF DraftInv, DraftTyped
<1>5. Copied(r)'
  BY <1>2, <1>3, <1>4 DEF Copied
<1>6. Sorted(r)' /\ Saved(r)' /\ Captured(r)' /\ Honoured(r)'
  BY <1>2, <1>3 DEF Sorted, Saved, Captured, Honoured
<1> QED BY <1>5, <1>6 DEF RowInv

LEMMA ObservedRow ==
  ASSUME DraftInv, NEW r \in Requests, Observe(r)
  PROVE  RowInv(r)'
<1> USE DraftAssumption
<1>1. /\ request'[r] = [request[r] EXCEPT !.phase = "ready", !.since = Fired']
      /\ draft' = draft /\ earlier' = earlier /\ request[r].phase \in {"saved", "resolved"}
  BY MovesTyped, ObserveMoves DEF DraftInv
<1>2. request[r] \in Request
  BY DEF DraftInv, DraftTyped
<1>3. /\ request'[r].phase = "ready" /\ request'[r].since = Fired'
      /\ request'[r].kind = request[r].kind /\ request'[r].revision = request[r].revision
      /\ request'[r].sheet = request[r].sheet /\ request'[r].content = request[r].content
      /\ request'[r].origin = request[r].origin
  BY <1>1, <1>2 DEF Request
<1>4. RowInv(r)
  BY DEF DraftInv
<1>5. Sorted(r)'
  BY <1>1, <1>3, <1>4 DEF RowInv, Sorted
<1>6. Saved(r)'
  BY <1>1, <1>3, <1>4 DEF RowInv, Sorted, Saved
<1>7. Copied(r)'
  BY <1>1, <1>3, <1>4 DEF RowInv, Sorted, Copied
<1>8. Captured(r)' /\ Honoured(r)'
  BY <1>1, <1>3, <1>4 DEF RowInv, Sorted, Captured, Honoured
<1> QED BY <1>5, <1>6, <1>7, <1>8 DEF RowInv

\* What the last transaction is about to write, it read holding the row.
LEMMA TakenRow ==
  ASSUME DraftInv, NEW r \in Requests, TakeRow(r)
  PROVE  RowInv(r)'
<1> USE DraftAssumption
<1>1. /\ request'[r] = [request[r] EXCEPT !.phase = "held", !.deferred = nominated,
                                          !.content = Content(r)]
      /\ draft' = draft /\ earlier' = earlier /\ firedBy' = firedBy
      /\ request[r].phase = "ready"
      /\ Ordinary(r, Content(r)) \/ Adjudicated(r, Content(r))
  BY MovesTyped, TakeRowMoves DEF DraftInv
<1>2. request[r] \in Request /\ RowInv(r) /\ DraftTyped
  BY DEF DraftInv, DraftTyped
<1>3. /\ request'[r].phase = "held" /\ request'[r].since = request[r].since
      /\ request'[r].kind = request[r].kind /\ request'[r].sheet = request[r].sheet
      /\ request'[r].origin = request[r].origin
      /\ request'[r].content = Content(r) /\ request'[r].deferred = nominated
  BY <1>1, <1>2 DEF Request
<1>4. request[r].kind \in {"coach", "proxy", "carry", "fallback", "capture"}
  BY <1>1, <1>2 DEF RowInv, Sorted
<1>5. Sorted(r)'
  BY <1>1, <1>2, <1>3, <1>4 DEF RowInv, Sorted, Fired
<1>6. Saved(r)'
  <2> SUFFICES ASSUME request[r].kind \in {"coach", "proxy"}
               PROVE  Content(r) = request[r].sheet
    BY <1>3 DEF Saved
  <2>1. Content(r) = draft.sheet
    BY DEF Content
  <2>2. draft.revision = request[r].revision
    BY <1>1 DEF Ordinary, Adjudicated, CurrentRevision
  <2> QED BY <1>1, <1>2, <2>1, <2>2 DEF RowInv, Saved
<1>7. Copied(r)'
  <2> SUFFICES ASSUME request[r].kind \in {"carry", "fallback"}
               PROVE  Copied(r)'
    BY <1>3 DEF Copied
  <2>1. request[r].origin.round \in 1 .. Earlier
    BY <1>1, <1>2 DEF RowInv, Copied
  <2>2. request[r].content = earlier[request[r].origin.round].sheet
    BY <1>1, <1>2 DEF RowInv, Copied, Ordinary, Adjudicated, SourceUnchanged
  <2>3. CASE request[r].kind = "carry"
    <3>1. Content(r) = request[r].content
      BY <2>3 DEF Content
    <3> QED BY <1>1, <1>3, <2>1, <2>2, <2>3, <3>1 DEF Copied
  <2>4. CASE request[r].kind = "fallback"
    <3>1. Content(r) = Overlay(request[r].content, nominated)
      BY <2>4 DEF Content
    <3>2. \A p \in Slots : Content(r)[p] # request[r].content[p] => Content(r)[p] = nominated[p]
      BY <3>1 DEF Overlay
    <3> QED BY <1>1, <1>3, <2>1, <2>2, <2>4, <3>2 DEF Copied
  <2> QED BY <2>3, <2>4
<1>8. Captured(r)'
  <2> SUFFICES ASSUME request[r].kind = "capture"
               PROVE  Captured(r)'
    BY <1>3 DEF Captured
  <2>1. draft.revision > 0
    BY <1>1, <1>2 DEF RowInv, Captured
  <2>2. Content(r) = Evidenced
    BY DEF Content
  <2>3. ASSUME NEW p \in Slots, Content(r)[p] \notin {Vacant, nominated[p]}
        PROVE  Content(r)[p] = draft.sheet[p] /\ InTime(p, Content(r)[p], request[r].since)
    <3>1. request[r].since \subseteq Fired
      BY <1>1, <1>2 DEF RowInv, Sorted
    <3> HIDE DEF Content
    <3> QED BY <1>2, <2>2, <2>3, <3>1, EvidenceIsEarly
  <2> HIDE DEF Content
  <2>4. ASSUME NEW p \in Slots, NEW player PROVE InTime(p, player, request[r].since)' <=>
                                                  InTime(p, player, request[r].since)
    BY <1>1, <1>3 DEF InTime, NamedBy, Fired
  <2> QED BY <1>1, <1>3, <2>1, <2>3, <2>4 DEF Captured
<1>9. Honoured(r)'
  <2> SUFFICES ASSUME NEW p \in Slots, nominated[p] # Vacant
               PROVE  Content(r)[p] = nominated[p]
    BY <1>3 DEF Honoured
  <2>1. CASE Ordinary(r, Content(r))
    BY <2>1 DEF Ordinary, SelectionGuard
  <2>2. CASE Adjudicated(r, Content(r)) /\ request[r].kind = "capture"
    BY <2>2 DEF Content, Evidenced
  <2>3. CASE Adjudicated(r, Content(r)) /\ request[r].kind = "fallback"
    BY <2>3 DEF Content, Overlay
  <2> QED BY <1>1, <2>1, <2>2, <2>3 DEF Adjudicated
<1> QED BY <1>5, <1>6, <1>7, <1>8, <1>9 DEF RowInv

\* Every other step of a request leaves it where it holds nothing yet.
LEMMA QuietSteps ==
  ASSUME DraftInv, NEW r \in Requests,
         \/ Visit(r) \/ Preload(r) \/ Load(r) \/ Post(r) \/ AskVacancies(r) \/ Commit(r) \/ Drop(r)
         \/ LockState(r) \/ Nominate(r) \/ ReadSlot(r) \/ Renominate(r)
  PROVE  DraftTyped' /\ WorldMoves /\ (\E row : Moves(r, row)) /\ RowInv(r)'
<1>1. CASE Post(r)
  <2>1. PICK row : Moves(r, row) /\ row.phase = "posted" /\ row.kind \in {"coach", "proxy", "api"}
    BY <1>1, PostMoves DEF DraftInv
  <2>2. request'[r] = row
    BY <2>1, MovesTyped DEF DraftInv
  <2>3. RowInv(r)'
    BY <2>1, <2>2 DEF RowInv, Sorted, Saved, Copied, Captured, Honoured
  <2> QED BY <1>1, <2>1, <2>3, PostMoves DEF DraftInv
<1> DEFINE Quiet == {"idle", "visiting", "preloaded", "page", "nominating", "nominated", "correcting"}
<1>2. CASE ~Post(r)
  <2>1. DraftTyped' /\ WorldMoves /\ \E row : Moves(r, row) /\ row.phase \in Quiet
    <3>1. CASE Visit(r)
      <4>1. PICK kind \in KindNames :
              Moves(r, [request[r] EXCEPT !.kind = kind, !.phase = "visiting", !.deferred = nominated])
        BY <3>1, VisitMoves DEF DraftInv
      <4>2. [request[r] EXCEPT !.kind = kind, !.phase = "visiting", !.deferred = nominated].phase \in Quiet
        BY DEF DraftInv, DraftTyped, Request
      <4> QED BY <3>1, <4>1, <4>2, VisitMoves DEF DraftInv
    <3>2. CASE Preload(r)
      BY <3>2, PreloadMoves DEF DraftInv
    <3>3. CASE Load(r)
      BY <3>3, LoadMoves DEF DraftInv
    <3>4. CASE AskVacancies(r)
      BY <3>4, AskVacanciesMoves DEF DraftInv
    <3>5. CASE Commit(r) \/ Drop(r) \/ Renominate(r)
      BY <3>5, CommitMoves, DropMoves, RenominateMoves, NoRequestTyped DEF DraftInv
    <3>6. CASE LockState(r) \/ Nominate(r) \/ ReadSlot(r)
      BY <3>6, LockStateMoves, NominateMoves, ReadSlotMoves DEF DraftInv
    <3> QED BY <1>2, <3>1, <3>2, <3>3, <3>4, <3>5, <3>6
  <2>2. PICK row : Moves(r, row) /\ row.phase \in Quiet
    BY <2>1
  <2>3. request'[r] = row
    BY <2>2, MovesTyped DEF DraftInv
  <2>4. RowInv(r)'
    BY <2>2, <2>3, QuietRow
  <2> QED BY <2>1, <2>2, <2>4
<1> QED BY <1>1, <1>2

LEMMA RequestStepInv ==
  ASSUME DraftInv, NEW r \in Requests, RequestStep(r)
  PROVE  DraftTyped' /\ WorldMoves /\ \A b \in Requests : RowInv(b)'
<1>1. CASE Confirm(r) \/ Resubmit(r)
  <2>1. DraftTyped' /\ WorldMoves /\ request' = request
    BY <1>1, OthersMove DEF DraftInv
  <2> QED BY <2>1, OthersKeep DEF DraftInv
<1>2. CASE ~(Confirm(r) \/ Resubmit(r))
  <2>1. DraftTyped' /\ WorldMoves /\ (\E row : Moves(r, row)) /\ RowInv(r)'
    <3>1. CASE Save(r)
      BY <3>1, SaveMoves, SavedRow DEF DraftInv
    <3>2. CASE Examine(r)
      BY <3>2, ExamineMoves, ExaminedRow DEF DraftInv
    <3>3. CASE Resolve(r)
      <4>1. DraftTyped' /\ WorldMoves /\ \E row : Moves(r, row)
        BY <3>3, ResolveMoves DEF DraftInv
      <4> QED BY <3>3, <4>1, ResolvedRow
    <3>4. CASE Observe(r)
      BY <3>4, ObserveMoves, ObservedRow DEF DraftInv
    <3>5. CASE TakeRow(r)
      BY <3>5, TakeRowMoves, TakenRow DEF DraftInv
    <3>6. CASE ~(Save(r) \/ Examine(r) \/ Resolve(r) \/ Observe(r) \/ TakeRow(r))
      BY <1>2, <3>6, QuietSteps DEF RequestStep
    <3> QED BY <3>1, <3>2, <3>3, <3>4, <3>5, <3>6
  <2>2. ASSUME NEW b \in Requests PROVE RowInv(b)'
    <3>1. CASE b = r
      BY <2>1, <3>1
    <3>2. CASE b # r
      <4>1. request'[b] = request[b]
        BY <2>1, <3>2, MovesTyped DEF DraftInv
      <4> QED BY <2>1, <4>1, OthersKeep DEF DraftInv
    <3> QED BY <3>1, <3>2
  <2> QED BY <2>1, <2>2
<1> QED BY <1>1, <1>2

LEMMA DraftInvStep == DraftInv /\ [Next]_vars => DraftInv'
<1> SUFFICES ASSUME DraftInv, [Next]_vars PROVE DraftInv'
  OBVIOUS
<1>1. CASE UNCHANGED vars
  <2>1. DraftTyped'
    BY <1>1 DEF DraftInv, DraftTyped, vars
  <2>2. DraftHistory'
    BY <1>1 DEF DraftInv, DraftHistory, vars
  <2>3. WorldMoves /\ request' = request
    BY <1>1, SameDraft DEF WorldMoves, vars
  <2>4. \A b \in Requests : RowInv(b)'
    BY <2>1, <2>3, OthersKeep DEF DraftInv
  <2> QED BY <2>1, <2>2, <2>4 DEF DraftInv
<1>2. CASE Next
  <2>1. DraftTyped' /\ WorldMoves /\ \A b \in Requests : RowInv(b)'
    <3>1. ASSUME NEW r \in Requests, RequestStep(r)
          PROVE  DraftTyped' /\ WorldMoves /\ \A b \in Requests : RowInv(b)'
      BY <3>1, RequestStepInv
    <3>2. CASE Tick \/ RoundObserved \/ Advance
      <4>1. DraftTyped' /\ WorldMoves /\ request' = request
        BY <3>2, OthersMove DEF DraftInv
      <4> QED BY <4>1, OthersKeep DEF DraftInv
    <3> QED BY <1>2, <3>1, <3>2 DEF Next
  <2>2. DraftHistory'
    <3>1. CASE Tick
      BY <3>1, HistoryTicks
    <3>2. CASE ~Tick
      <4>1. clock' = clock /\ atStart' = atStart
        <5>1. ASSUME NEW r \in Requests, RequestStep(r)
              PROVE  clock' = clock /\ atStart' = atStart
          BY <5>1 DEF RequestStep, Visit, Preload, Load, Post, Save, AskVacancies, Examine, Resolve,
               Observe, TakeRow, Commit, Drop, LockState, Nominate, ReadSlot, Renominate, Confirm,
               Resubmit, worldVars
        <5>2. CASE RoundObserved \/ Advance
          BY <5>2 DEF RoundObserved, Advance, worldVars
        <5> QED BY <1>2, <3>2, <5>1, <5>2 DEF Next
      <4> QED BY <2>1, <4>1, HistoryKept DEF WorldMoves, DraftMoves
    <3> QED BY <3>1, <3>2
  <2> QED BY <2>1, <2>2 DEF DraftInv
<1> QED BY <1>1, <1>2

\* Whatever requests interleave, the row is held by one submission at a time,
\* and what each request carries still is what DraftInv says of it.
LEMMA DraftInvHolds == Spec => []DraftInv
BY DraftInvInit, DraftInvStep, PTL DEF Spec

-----------------------------------------------------------------------------
(***************************************************************************)
(* What is submitted.                                                      *)
(***************************************************************************)
\* The submission in force is replaced by the commit of the request that holds
\* its row, and by what that request took with it.
LEMMA CommitWrites ==
  ASSUME DraftInv, [Next]_vars, NEW r \in Requests, Commits(r)
  PROVE  lineup'.sheet = request[r].content
<1>1. request[r].phase = "held" /\ lineup' # lineup
  BY DEF Commits
<1>2. PICK b \in Requests : RequestStep(b)
  BY <1>1 DEF Next, vars, Tick, RoundObserved, Advance
<1>3. Commit(b)
  BY <1>1, <1>2 DEF RequestStep, Visit, Preload, Load, Post, Save, AskVacancies, Examine, Resolve,
       Observe, TakeRow, Drop, LockState, Nominate, ReadSlot, Renominate, Confirm, Resubmit
<1>4. request[b].phase = "held" /\ lineup'.sheet = request[b].content
  BY <1>3, CommitMoves DEF DraftInv
<1>5. b = r
  BY <1>1, <1>4 DEF DraftInv, DraftTyped
<1> QED BY <1>4, <1>5

\* A coach's or a proxy's submission is the sheet that request itself saved,
\* whoever saves, preloads or reconciles the draft, submits it or observes the
\* round between its save and its commit.
THEOREM SubmissionsWereSeen == Spec => SubmittedAsSeen
<1>1. DraftInv /\ [Next]_vars =>
        \A r \in Requests : Commits(r) /\ request[r].kind \in {"coach", "proxy"}
          => lineup'.sheet = request[r].sheet
  <2> SUFFICES ASSUME DraftInv, [Next]_vars, NEW r \in Requests, Commits(r),
                      request[r].kind \in {"coach", "proxy"}
               PROVE  lineup'.sheet = request[r].sheet
    OBVIOUS
  <2>1. lineup'.sheet = request[r].content
    BY CommitWrites
  <2>2. request[r].content = request[r].sheet
    BY DEF Commits, DraftInv, RowInv, Saved
  <2> QED BY <2>1, <2>2
<1> QED BY <1>1, DraftInvHolds, PTL DEF Spec, SubmittedAsSeen

\* A carried-forward lineup is its source's effective submission when it
\* commits, but for the nominations an adjudicator's fallback read and put over
\* it, however often the source is submitted again meanwhile.
THEOREM CopiesAreCurrent == Spec => CopiesCurrentSource
<1>1. DraftInv /\ [Next]_vars =>
        \A r \in Requests, p \in Slots :
          LET copied == earlier[request[r].origin.round].sheet[p] IN
          Commits(r) /\ request[r].kind \in {"carry", "fallback"} /\ lineup'.sheet[p] # copied
          => request[r].kind = "fallback" /\ lineup'.sheet[p] = request[r].deferred[p]
  <2> SUFFICES ASSUME DraftInv, [Next]_vars, NEW r \in Requests, NEW p \in Slots, Commits(r),
                      request[r].kind \in {"carry", "fallback"},
                      lineup'.sheet[p] # earlier[request[r].origin.round].sheet[p]
               PROVE  request[r].kind = "fallback" /\ lineup'.sheet[p] = request[r].deferred[p]
    OBVIOUS
  <2>1. lineup'.sheet = request[r].content
    BY CommitWrites
  <2> QED BY <2>1 DEF Commits, DraftInv, RowInv, Copied
<1> QED BY <1>1, DraftInvHolds, PTL DEF Spec, CopiesCurrentSource

\* Whatever is submitted, by whichever of the five ways, holds the nominee of
\* every nomination that stood when its transaction took the row.
THEOREM NominationsAreHonoured == Spec => NominationsHonoured
<1>1. DraftInv /\ [Next]_vars =>
        \A r \in Requests, p \in Slots :
          Commits(r) /\ request[r].deferred[p] # Vacant
          => lineup'.sheet[p] = request[r].deferred[p]
  <2> SUFFICES ASSUME DraftInv, [Next]_vars, NEW r \in Requests, NEW p \in Slots, Commits(r),
                      request[r].deferred[p] # Vacant
               PROVE  lineup'.sheet[p] = request[r].deferred[p]
    OBVIOUS
  <2>1. lineup'.sheet = request[r].content
    BY CommitWrites
  <2> QED BY <2>1 DEF Commits, DraftInv, RowInv, Honoured
<1> QED BY <1>1, DraftInvHolds, PTL DEF Spec, NominationsHonoured

\* A player who is captured at a position a trigger covered, and was not
\* nominated for it, was in the draft at the instant of every selective trigger
\* that names his match and of the main one, or, where a selective one's match
\* starts after the main one's, by that start: under any plan, in whatever
\* order its triggers fire, by whichever matches, and however the draft is
\* edited before and after.
THEOREM CapturesArePreLock == Spec => CaptureIsPreLock
<1> USE DraftAssumption
<1>1. DraftInv /\ [Next]_vars =>
        \A r \in Requests, p \in Slots :
          LET player == lineup'.sheet[p] IN
          Commits(r) /\ request[r].kind = "capture" /\ player \notin {Vacant, request[r].deferred[p]}
          => /\ \A k \in request[r].since \cap NamedBy(player) : HeldAt(p, player, firedBy[k])
             /\ Main \in request[r].since =>
                  \/ HeldAt(p, player, firedBy[Main])
                  \/ \E k \in NamedBy(player) : /\ Start[firedBy[k]] > Start[firedBy[Main]]
                                                /\ HeldAt(p, player, firedBy[k])
  <2> SUFFICES ASSUME DraftInv, [Next]_vars, NEW r \in Requests, NEW p \in Slots, Commits(r),
                      request[r].kind = "capture",
                      lineup'.sheet[p] \notin {Vacant, request[r].deferred[p]}
               PROVE  LET player == lineup'.sheet[p] IN
                      /\ \A k \in request[r].since \cap NamedBy(player) : HeldAt(p, player, firedBy[k])
                      /\ Main \in request[r].since =>
                           \/ HeldAt(p, player, firedBy[Main])
                           \/ \E k \in NamedBy(player) : /\ Start[firedBy[k]] > Start[firedBy[Main]]
                                                         /\ HeldAt(p, player, firedBy[k])
    OBVIOUS
  <2> DEFINE player == lineup'.sheet[p]
  <2>1. player = request[r].content[p] /\ request[r].phase = "held"
    BY CommitWrites DEF Commits
  <2>2. player = draft.sheet[p] /\ InTime(p, player, request[r].since)
    BY <2>1 DEF DraftInv, RowInv, Captured
  <2>3. request[r].since \subseteq Fired
    BY <2>1 DEF DraftInv, RowInv, Sorted
  <2> HIDE DEF player
  <2>4. ASSUME NEW k \in Fired, draft.saved[p] <= Start[firedBy[k]]
        PROVE  HeldAt(p, player, firedBy[k])
    <3>1. firedBy[k] \in Matches
      BY DEF Fired, DraftInv, DraftTyped
    <3>2. Start[firedBy[k]] \in 0 .. MaxTime /\ clock \in 0 .. MaxTime
      BY <3>1 DEF DraftInv, DraftTyped
    <3> QED BY <2>2, <2>4, <3>1, <3>2 DEF HeldAt, DraftInv, DraftHistory
  <2>5. NamedBy(player) \subseteq Fired
    BY DEF NamedBy
  <2>6. /\ \A k \in request[r].since \cap NamedBy(player) : HeldAt(p, player, firedBy[k])
        /\ Main \in request[r].since =>
             \/ HeldAt(p, player, firedBy[Main])
             \/ \E k \in NamedBy(player) : /\ Start[firedBy[k]] > Start[firedBy[Main]]
                                           /\ HeldAt(p, player, firedBy[k])
    BY <2>2, <2>3, <2>4, <2>5 DEF InTime
  <2> QED BY <2>6 DEF player
<1> QED BY <1>1, DraftInvHolds, PTL DEF Spec, CaptureIsPreLock
=============================================================================
