--------------------------- MODULE MidseasonDraft ---------------------------
(***************************************************************************)
(* The mid-season draft: the ladder confirmed after the trigger round, the *)
(* delisting window and its trades of players and of draft rounds, the     *)
(* lock that turns vacancies into picks, the selections and the trades     *)
(* after them: app/midseason_draft.py, over the drafts and the ledger of   *)
(* PreseasonWindow.                                                        *)
(*                                                                         *)
(* Its operations read their instant after they took the draft's row, so   *)
(* they take effect now; the picks are the exception, made by draft.py.    *)
(***************************************************************************)
EXTENDS PreseasonWindow, Sequences

CONSTANTS
  Triggers,     \* rounds the season may name as the draft's trigger
  PickTrades,   \* the pick legs a trade may have: functions from <<round, entry>> to the new entry
  MaxTrades     \* bound: trades proposed

ASSUME PickTradesAssumption == \A picks \in PickTrades : \A leg \in DOMAIN picks : picks[leg] \in Entries

VARIABLES
  trigger,      \* bbbffl_season.midseason_draft_trigger_round; 0 is NULL
  confirming,   \* the triggers confirm_ladder calls in flight have checked
  midState,     \* midseason_draft.state; "none" is no row
  confirmedAt,  \* its trigger_round_sequence
  order,        \* midseason_draft_order
  delisted,     \* the midseason_delisting rows that are not withdrawn
  trades,       \* midseason_trade and its legs
  finalRead     \* a reconcile_completion in flight has read a finalized draft

midseasonVars ==
  <<trigger, confirming, midState, confirmedAt, order, delisted, trades, finalRead>>

squadVars == <<preseasonVars, midseasonVars>>

MidStates == {"none", "ladder_confirmed", "delisting_open", "delistings_locked",
              "draft_open", "draft_complete", "complete"}

Delisting == [player : Players, entry : Entries]

TradeStatus == {"pending", "approved", "rejected"}

MidseasonInit ==
  /\ trigger = 0 /\ confirming = {} /\ midState = "none" /\ confirmedAt = 0
  /\ order = <<>> /\ delisted = {} /\ trades = <<>> /\ finalRead = FALSE

SetTrigger(r) ==
  /\ midState = "none"
  /\ trigger' = r
  /\ UNCHANGED <<preseasonVars, confirming, midState, confirmedAt, order, delisted, trades, finalRead>>

\* The first transaction of confirm_ladder: the trigger is set and every round
\* through it is final.  The rounds are RoundResults's; a season plays one only
\* after its preseason window closed (season_activation.py).
CheckTrigger ==
  /\ midState = "none" /\ trigger # 0 /\ window = "closed"
  /\ confirming' = confirming \cup {trigger}
  /\ UNCHANGED <<preseasonVars, trigger, midState, confirmedAt, order, delisted, trades, finalRead>>

\* The second transaction, with the ladder through round r, worst rank first,
\* read in between.
ConfirmLadder(r, ladder) ==
  /\ r \in confirming
  /\ midState = "none" /\ trigger = r
  /\ midState' = "ladder_confirmed" /\ confirmedAt' = r /\ order' = ladder
  /\ confirming' = {}
  /\ UNCHANGED <<preseasonVars, trigger, delisted, trades, finalRead>>

OverrideDraftOrder(o) ==
  /\ midState \in {"ladder_confirmed", "delisting_open"}
  /\ order' = o
  /\ UNCHANGED <<preseasonVars, trigger, confirming, midState, confirmedAt, delisted, trades, finalRead>>

OpenDelistingWindow ==
  /\ midState = "ladder_confirmed"
  /\ midState' = "delisting_open"
  /\ UNCHANGED <<preseasonVars, trigger, confirming, confirmedAt, order, delisted, trades, finalRead>>

SubmitDelisting(e, p) ==
  /\ midState = "delisting_open"
  /\ Owns(periods, e, p)
  /\ \A d \in delisted : d.player # p
  /\ delisted' = delisted \cup {[player |-> p, entry |-> e]}
  /\ UNCHANGED <<preseasonVars, trigger, confirming, midState, confirmedAt, order, trades, finalRead>>

WithdrawDelisting(d) ==
  /\ midState = "delisting_open"
  /\ delisted' = delisted \ {d}
  /\ UNCHANGED <<preseasonVars, trigger, confirming, midState, confirmedAt, order, trades, finalRead>>

OwnerOf(p) == CHOOSE e \in Entries : Owns(periods, e, p)

\* The legs name the owners of the players to be moved and the rounds' first owners.
ProposeTrade(to, picks) ==
  /\ Len(trades) < MaxTrades
  /\ midState \in {"delisting_open", "draft_complete"}
  /\ DOMAIN to \cup DOMAIN picks # {}
  /\ DOMAIN picks # {} => midState = "delisting_open"
  /\ \A p \in DOMAIN to : Owned(periods, p) /\ OwnerOf(p) # to[p]
  /\ trades' = Append(trades, [status |-> "pending", to |-> to, picks |-> picks,
                               from |-> [p \in DOMAIN to |-> OwnerOf(p)]])
  /\ UNCHANGED <<preseasonVars, trigger, confirming, midState, confirmedAt, order, delisted, finalRead>>

RejectTrade(i) ==
  /\ midState \in {"delisting_open", "draft_complete"}
  /\ trades[i].status = "pending"
  /\ trades' = [trades EXCEPT ![i].status = "rejected"]
  /\ UNCHANGED <<preseasonVars, trigger, confirming, midState, confirmedAt, order, delisted, finalRead>>

Approved == {i \in DOMAIN trades : trades[i].status = "approved"}

\* Mutant of MovePlayers: a traded player stays delisted.
MoveDelisted(to) == Trade(to, clock) /\ UNCHANGED delisted

\* The players change hands now, and what their old entries had delisted of
\* them is withdrawn.
MovePlayers(to) ==
  /\ Trade(to, clock)
  /\ delisted' = {d \in delisted : d.player \notin DOMAIN to}

Delistings(ds, e) == Cardinality({d \in ds : d.entry = e})

\* Mutant of Affordable: delistings cover a trade whenever it is decided.
AlwaysCovered(e) == Cardinality(Squad(periods', e)) - Delistings(delisted', e) <= limit

\* A receiving entry may pass the limit by what it has delisted, as long as a
\* lock is to come.
Affordable(e) ==
  LET size == Cardinality(Squad(periods', e))
  IN \/ size <= limit
     \/ midState = "delisting_open" /\ size - Delistings(delisted', e) <= limit

ApproveTrade(i) ==
  LET trade == trades[i]
  IN /\ midState \in {"delisting_open", "draft_complete"}
     /\ trade.status = "pending"
     /\ \A p \in DOMAIN trade.to : Owns(periods, trade.from[p], p)
     /\ \A j \in Approved : DOMAIN trades[j].picks \cap DOMAIN trade.picks = {}
     /\ MovePlayers(trade.to)
     /\ \A p \in DOMAIN trade.to : limit # 0 /\ Affordable(trade.to[p])
     /\ trades' = [trades EXCEPT ![i].status = "approved"]
     /\ UNCHANGED <<clock, eligible, limit, drafts, window, opening, version>>
     /\ UNCHANGED <<trigger, confirming, midState, confirmedAt, order, finalRead>>

ReverseTradeApproval(i) ==
  LET trade == trades[i]
  IN /\ midState = "delisting_open"
     /\ trade.status = "approved"
     /\ \A p \in DOMAIN trade.to : Owns(periods, trade.to[p], p)
     /\ MovePlayers(trade.from)
     /\ \A p \in DOMAIN trade.from : Cardinality(Squad(periods', trade.from[p])) <= limit
     /\ trades' = [trades EXCEPT ![i].status = "rejected"]
     /\ UNCHANGED <<clock, eligible, limit, drafts, window, opening, version>>
     /\ UNCHANGED <<trigger, confirming, midState, confirmedAt, order, finalRead>>

Vacancies(ledger, e) ==
  LET size == Cardinality(Squad(ledger, e)) IN IF size < limit THEN limit - size ELSE 0

\* The round-r pick of entry e, after the approved trades of picks.
Redirected(r, e) ==
  IF \E i \in Approved : <<r, e>> \in DOMAIN trades[i].picks
  THEN LET i == CHOOSE j \in Approved : <<r, e>> \in DOMAIN trades[j].picks
       IN trades[i].picks[<<r, e>>]
  ELSE e

\* _plan_selection_allocations: in each round the entries that still have a
\* vacancy take a pick, in the draft's order.
SelectionPicks(ledger) ==
  [s \in {n \in (1 .. limit) \X DOMAIN order : Vacancies(ledger, order[n[2]]) >= n[1]} |->
     BlankPick(Redirected(s[1], order[s[2]]))]

PicksOf(picks, e) == {n \in DOMAIN picks : picks[n].owner = e}

\* Mutant of Reconciled: picks and vacancies are not compared.
OnlyWithinLimit(ledger) == \A e \in Entries : Cardinality(Squad(ledger, e)) <= limit

\* Every entry gets as many picks as it has vacancies, every traded pick is one
\* that exists, and nobody is over the limit.
Reconciled(ledger) ==
  LET picks == SelectionPicks(ledger)
  IN /\ \A e \in Entries : Cardinality(PicksOf(picks, e)) = Vacancies(ledger, e)
     /\ \A i \in Approved : \A leg \in DOMAIN trades[i].picks :
          \E s \in DOMAIN picks : s[1] = leg[1] /\ order[s[2]] = leg[2]
     /\ \A e \in Entries : Cardinality(Squad(ledger, e)) <= limit

LockDelistings ==
  LET leaving == {d.player : d \in delisted}
  IN /\ midState = "delisting_open" /\ limit # 0
     /\ \A i \in DOMAIN trades : trades[i].status # "pending"
     /\ \A p \in leaving : Releasable(periods, p, clock)
     /\ periods' = Release(periods, leaving, clock)
     /\ Reconciled(periods')
     /\ midState' = "delistings_locked"
     /\ UNCHANGED <<clock, eligible, limit, drafts, window, opening, version>>
     /\ UNCHANGED <<trigger, confirming, confirmedAt, order, delisted, trades, finalRead>>

\* The plan is made anew, and not compared with the one that was locked.
GenerateSelectionTable ==
  LET picks == SelectionPicks(periods)
  IN /\ midState = "delistings_locked" /\ limit # 0
     /\ \/ DOMAIN picks = {} /\ midState' = "draft_complete" /\ UNCHANGED drafts
        \/ Materialize("midseason", picks) /\ midState' = "draft_open"
     /\ UNCHANGED <<clock, periods, eligible, limit, window, opening, version>>
     /\ UNCHANGED <<trigger, confirming, confirmedAt, order, delisted, trades, finalRead>>

\* reconcile_completion, after every pick and on demand, in transactions of its
\* own: it finalizes a complete draft,
FinalizeMidseason ==
  /\ Finalize("midseason")
  /\ UNCHANGED <<clock, periods, eligible, limit, window, opening, version, midseasonVars>>

\* reads that it is final,
ReadCompletion ==
  /\ drafts["midseason"].final
  /\ finalRead' = TRUE
  /\ UNCHANGED <<preseasonVars, trigger, confirming, midState, confirmedAt, order, delisted, trades>>

\* and completes the mid-season draft, looking at its own state only.
CompleteDraft ==
  /\ finalRead /\ finalRead' = FALSE
  /\ midState' = IF midState = "draft_open" THEN "draft_complete" ELSE midState
  /\ UNCHANGED <<preseasonVars, trigger, confirming, confirmedAt, order, delisted, trades>>

ReopenDraft ==
  /\ midState = "draft_complete"
  /\ Reopen("midseason")
  /\ midState' = "draft_open"
  /\ UNCHANGED <<clock, periods, eligible, limit, window, opening, version>>
  /\ UNCHANGED <<trigger, confirming, confirmedAt, order, delisted, trades, finalRead>>

ClosePostDraftTrading ==
  /\ midState = "draft_complete"
  /\ midState' = "complete"
  /\ UNCHANGED <<preseasonVars, trigger, confirming, confirmedAt, order, delisted, trades, finalRead>>

LadderNext ==
  \/ \E r \in Triggers : SetTrigger(r)
  \/ CheckTrigger
  \/ \E r \in confirming, ladder \in Orders : ConfirmLadder(r, ladder)
  \/ \E o \in Orders : OverrideDraftOrder(o)
  \/ OpenDelistingWindow

TradingNext ==
  \/ \E e \in Entries, p \in Players : SubmitDelisting(e, p)
  \/ \E d \in delisted : WithdrawDelisting(d)
  \/ \E to \in Moves \cup {<<>>}, picks \in PickTrades : ProposeTrade(to, picks)
  \/ \E i \in DOMAIN trades : RejectTrade(i) \/ ApproveTrade(i) \/ ReverseTradeApproval(i)

SelectionNext ==
  \/ LockDelistings
  \/ GenerateSelectionTable
  \/ FinalizeMidseason
  \/ ReadCompletion
  \/ CompleteDraft
  \/ ReopenDraft
  \/ ClosePostDraftTrading

SquadsNext ==
  \/ PreseasonNext /\ UNCHANGED midseasonVars
  \/ LadderNext
  \/ TradingNext
  \/ SelectionNext

SquadsInit == PreseasonInit /\ MidseasonInit

SquadsSpec == SquadsInit /\ [][SquadsNext]_squadVars

-----------------------------------------------------------------------------
SquadsTypeOK ==
  /\ clock \in Nat /\ periods \subseteq Periods /\ eligible \subseteq Players
  /\ limit \in Limits \cup {0}
  /\ \A k \in Kinds :
       LET d == drafts[k]
       IN /\ d.accepted \in BOOLEAN /\ d.paused \in BOOLEAN /\ d.final \in BOOLEAN
          /\ d.target \in Limits \cup {0}
          /\ DOMAIN d.picks \subseteq Numbers /\ \A n \in DOMAIN d.picks : d.picks[n] \in Pick
  /\ window \in {"none", "open", "closed"}
  /\ opening \in [Entries -> SUBSET Players] /\ version \in Nat
  /\ trigger \in Triggers \cup {0} /\ confirming \subseteq Triggers
  /\ midState \in MidStates /\ confirmedAt \in Triggers \cup {0}
  /\ order \in Orders \cup {<<>>} /\ delisted \subseteq Delisting
  /\ \A i \in DOMAIN trades : trades[i].status \in TradeStatus
  /\ finalRead \in BOOLEAN

\* Until the delisting window opens, the squads are the frozen opening squads:
\* neither a reopened draft, a late trade nor a correction parts the ledger
\* from the snapshot the season plays from (close_window,
\* _assert_ownership_mutation_allowed, correct_opening_snapshot).
FrozenSquadsStand ==
  window = "closed" /\ midState \in {"none", "ladder_confirmed"} =>
    \A e \in Entries : opening[e] = Squad(periods, e)

\* A delisting that stands names a player its entry still owns, whatever trades
\* and reversals moved since, so that the lock can release it (decide_trade,
\* reverse_trade_approval, lock_delistings).
DelistedAreOwned ==
  midState = "delisting_open" /\ version = 1 =>
    \A d \in delisted : Owns(periods, d.entry, d.player)

\* The squads pass the limit only while a lock of the delistings is to come.
WithinLimit ==
  midState # "delisting_open" => \A e \in Entries : Cardinality(Squad(periods, e)) <= limit

\* While the mid-season draft is open, the picks an entry has left are the
\* vacancies it has left, through trades of picks, corrections and reopenings
\* (lock_delistings, generate_selection_table), as long as the opening squads
\* stay as they were frozen.
PicksFillVacancies ==
  midState = "draft_open" /\ version = 1 =>
    LET picks == drafts["midseason"].picks
    IN \A e \in Entries :
         Vacancies(periods, e) = Cardinality(PicksOf(picks, e) \cap Incomplete("midseason"))

\* A mid-season draft that is complete has a finished draft behind it.
CompletionIsFinal ==
  midState \in {"draft_complete", "complete"} /\ drafts["midseason"].accepted =>
    drafts["midseason"].final

\* The ledger keeps its history (SquadHistory).
History == INSTANCE SquadHistory

HistoryKept == History!Spec
=============================================================================
