----------------------------- MODULE SquadsProofs -----------------------------
(***************************************************************************)
(* Proofs about the drafts, windows and trades over the ownership ledger:   *)
(* the ledger keeps its history, the picks are made in their order, what is *)
(* delisted is still owned, and the frozen squads are the ledger's.         *)
(***************************************************************************)
EXTENDS MidseasonDraft, FiniteSetTheorems, TLAPS

-----------------------------------------------------------------------------
(***************************************************************************)
(* Ledgers: what releasing and acquiring make of one.                       *)
(***************************************************************************)
LEMMA PeriodFields ==
  ASSUME NEW o \in Periods
  PROVE  o.player \in Players /\ o.entry \in Entries /\ o.from \in Nat /\ o.to \in Nat \cup {Open}
BY DEF Periods

\* The players of DOMAIN to and the entries they go to.
Handover(to) == DOMAIN to \subseteq Players /\ \A p \in DOMAIN to : to[p] \in Entries

Closed(o, ps, t) == IF o.to = Open /\ o.player \in ps THEN [o EXCEPT !.to = t] ELSE o

LEMMA ClosedFields ==
  ASSUME NEW o \in Periods, NEW ps, NEW t \in Nat
  PROVE  /\ Closed(o, ps, t) \in Periods
         /\ Closed(o, ps, t).player = o.player /\ Closed(o, ps, t).entry = o.entry
         /\ Closed(o, ps, t).from = o.from
         /\ o.to # Open => Closed(o, ps, t) = o
         /\ \A x : EndsAfter(Closed(o, ps, t), x) => EndsAfter(o, x)
         /\ Closed(o, ps, t).to = Open <=> o.to = Open /\ o.player \notin ps
BY OpenAssumption DEF Closed, Periods, EndsAfter

LEMMA ReleasedIs ==
  ASSUME NEW ledger, NEW ps, NEW t
  PROVE  Release(ledger, ps, t) = {Closed(o, ps, t) : o \in ledger}
BY DEF Release, Closed

LEMMA ReleaseKeeps ==
  ASSUME NEW ledger \in SUBSET Periods, NoOverlap(ledger), NEW ps, NEW t \in Nat
  PROVE  /\ Release(ledger, ps, t) \subseteq Periods
         /\ NoOverlap(Release(ledger, ps, t))
         /\ History!Continues(ledger, Release(ledger, ps, t))
         /\ \A c \in Release(ledger, ps, t) : \E o \in ledger : History!SameStart(o, c)
<1> DEFINE after == Release(ledger, ps, t)
<1>1. \A c \in after : \E o \in ledger : c = Closed(o, ps, t)
  BY ReleasedIs
<1>2. \A o \in ledger : Closed(o, ps, t) \in after
  BY ReleasedIs
<1> HIDE DEF after
<1>3. after \subseteq Periods
  BY <1>1, ClosedFields
<1>4. NoOverlap(after)
  <2> SUFFICES ASSUME NEW c \in after, NEW d \in after, c.player = d.player, c # d
               PROVE  ~EndsAfter(c, d.from) \/ ~EndsAfter(d, c.from)
    BY DEF NoOverlap
  <2>1. PICK o \in ledger : c = Closed(o, ps, t)
    BY <1>1
  <2>2. PICK u \in ledger : d = Closed(u, ps, t)
    BY <1>1
  <2>3. o # u /\ o.player = u.player /\ c.from = o.from /\ d.from = u.from
    BY <2>1, <2>2, ClosedFields
  <2>4. ~EndsAfter(o, u.from) \/ ~EndsAfter(u, o.from)
    BY <2>3 DEF NoOverlap
  <2> QED BY <2>1, <2>2, <2>3, <2>4, ClosedFields
<1>5. History!Continues(ledger, after)
  <2> SUFFICES ASSUME NEW o \in ledger
               PROVE  \E c \in after : History!SameStart(o, c) /\ (o.to = Open \/ c = o)
    BY DEF History!Continues
  <2> QED BY <1>2, ClosedFields DEF History!SameStart
<1>6. \A c \in after : \E o \in ledger : History!SameStart(o, c)
  BY <1>1, ClosedFields DEF History!SameStart
<1> QED BY <1>3, <1>4, <1>5, <1>6 DEF after

LEMMA AcquireKeeps ==
  ASSUME NEW ledger \in SUBSET Periods, NoOverlap(ledger), NEW to, Handover(to), NEW t \in Nat,
         \A p \in DOMAIN to : Acquirable(ledger, p, t)
  PROVE  /\ Acquire(ledger, to, t) \subseteq Periods
         /\ NoOverlap(Acquire(ledger, to, t))
         /\ ledger \subseteq Acquire(ledger, to, t)
         /\ \A c \in Acquire(ledger, to, t) : c \in ledger \/ c.to = Open
<1> DEFINE new == {[player |-> p, entry |-> to[p], from |-> t, to |-> Open] : p \in DOMAIN to}
           after == Acquire(ledger, to, t)
<1>1. after = ledger \cup new
  BY DEF Acquire
<1>2. ASSUME NEW c \in new
      PROVE  /\ c \in Periods /\ c.player \in DOMAIN to /\ c.from = t /\ c.to = Open
             /\ c = [player |-> c.player, entry |-> to[c.player], from |-> t, to |-> Open]
  <2>1. PICK p \in DOMAIN to : c = [player |-> p, entry |-> to[p], from |-> t, to |-> Open]
    OBVIOUS
  <2> QED BY <2>1 DEF Periods, Handover
<1> HIDE DEF new, after
<1>3. ASSUME NEW c \in new, NEW o \in ledger, o.player = c.player PROVE ~EndsAfter(o, c.from)
  BY <1>2, <1>3 DEF Acquirable
<1>4. NoOverlap(after)
  <2> SUFFICES ASSUME NEW c \in after, NEW d \in after, c.player = d.player, c # d
               PROVE  ~EndsAfter(c, d.from) \/ ~EndsAfter(d, c.from)
    BY DEF NoOverlap
  <2>1. CASE c \in ledger /\ d \in ledger
    BY <2>1 DEF NoOverlap
  <2>2. CASE c \in new /\ d \in ledger
    BY <1>3, <2>2
  <2>3. CASE c \in ledger /\ d \in new
    BY <1>3, <2>3
  <2>4. CASE c \in new /\ d \in new
    BY <1>2, <2>4
  <2> QED BY <1>1, <2>1, <2>2, <2>3, <2>4
<1>5. after \subseteq Periods /\ ledger \subseteq after /\ \A c \in after : c \in ledger \/ c.to = Open
  BY <1>1, <1>2
<1> QED BY <1>4, <1>5 DEF after

\* What every operation does to the ledger.
Advances(before, after) ==
  /\ after \subseteq Periods /\ NoOverlap(after)
  /\ History!Continues(before, after) /\ History!OpensOnly(before, after)

LEMMA AcquireAdvances ==
  ASSUME NEW ledger \in SUBSET Periods, NoOverlap(ledger), NEW to, Handover(to), NEW t \in Nat,
         \A p \in DOMAIN to : Acquirable(ledger, p, t)
  PROVE  Advances(ledger, Acquire(ledger, to, t))
<1>1. /\ Acquire(ledger, to, t) \subseteq Periods /\ NoOverlap(Acquire(ledger, to, t))
      /\ ledger \subseteq Acquire(ledger, to, t)
      /\ \A c \in Acquire(ledger, to, t) : c \in ledger \/ c.to = Open
  BY AcquireKeeps
<1> QED BY <1>1 DEF Advances, History!Continues, History!OpensOnly, History!SameStart

LEMMA ReleaseAdvances ==
  ASSUME NEW ledger \in SUBSET Periods, NoOverlap(ledger), NEW ps, NEW t \in Nat
  PROVE  Advances(ledger, Release(ledger, ps, t))
BY ReleaseKeeps DEF Advances, History!OpensOnly

LEMMA ExchangeAdvances ==
  ASSUME NEW ledger \in SUBSET Periods, NoOverlap(ledger), NEW ps, NEW to, Handover(to), NEW t \in Nat,
         \A p \in DOMAIN to : Acquirable(Release(ledger, ps, t), p, t)
  PROVE  Advances(ledger, Acquire(Release(ledger, ps, t), to, t))
<1> DEFINE mid == Release(ledger, ps, t)
           after == Acquire(mid, to, t)
<1>1. /\ mid \subseteq Periods /\ NoOverlap(mid) /\ History!Continues(ledger, mid)
      /\ \A c \in mid : \E o \in ledger : History!SameStart(o, c)
  BY ReleaseKeeps
<1> HIDE DEF mid
<1>2. /\ after \subseteq Periods /\ NoOverlap(after) /\ mid \subseteq after
      /\ \A c \in after : c \in mid \/ c.to = Open
  BY <1>1, AcquireKeeps DEF mid
<1> HIDE DEF after
<1>3. History!Continues(ledger, after)
  BY <1>1, <1>2 DEF History!Continues
<1>4. History!OpensOnly(ledger, after)
  BY <1>1, <1>2 DEF History!OpensOnly
<1> QED BY <1>2, <1>3, <1>4 DEF Advances, after, mid

LEMMA UnchangedAdvances ==
  ASSUME NEW ledger \in SUBSET Periods, NoOverlap(ledger)
  PROVE  Advances(ledger, ledger)
BY DEF Advances, History!Continues, History!OpensOnly, History!SameStart
-----------------------------------------------------------------------------
(***************************************************************************)
(* Every operation advances the ledger.                                     *)
(***************************************************************************)
Handovers == UNION {[ps -> Entries] : ps \in SUBSET Players}

TradeRows == [status : TradeStatus, to : Handovers, picks : PickTrades, from : Handovers]

LedgerTyped ==
  /\ clock \in Nat
  /\ periods \in SUBSET Periods /\ NoOverlap(periods)
  /\ trades \in Seq(TradeRows)

LEMMA HandoversAre == \A to \in Handovers : Handover(to)
BY DEF Handovers, Handover

LEMMA MovesAre == \A to \in Moves \cup {<<>>} : to \in Handovers
<1>1. \A to \in Moves : to \in Handovers
  BY DEF Moves, Handovers
<1>2. <<>> \in [{} -> Entries]
  OBVIOUS
<1>3. <<>> \in Handovers
  BY <1>2 DEF Handovers
<1> QED BY <1>1, <1>3

LEMMA OwnerIs ==
  ASSUME LedgerTyped, NEW p, Owned(periods, p)
  PROVE  OwnerOf(p) \in Entries /\ Owns(periods, OwnerOf(p), p)
<1>1. PICK o \in Current(periods) : o.player = p
  BY DEF Owned
<1>2. o.entry \in Entries /\ Owns(periods, o.entry, p)
  BY <1>1 DEF Owns, Current, LedgerTyped, Periods
<1> QED BY <1>2 DEF OwnerOf

LEMMA TradeAdvances ==
  ASSUME LedgerTyped, NEW to, Handover(to), NEW at \in Nat, Trade(to, at)
  PROVE  Advances(periods, periods')
<1>1. /\ \A p \in DOMAIN to : Acquirable(Release(periods, DOMAIN to, at), p, at)
      /\ periods' = Acquire(Release(periods, DOMAIN to, at), to, at)
  BY DEF Trade
<1> QED BY <1>1, ExchangeAdvances DEF LedgerTyped

LEMMA PickAdvances ==
  ASSUME LedgerTyped, NEW k \in Kinds, NEW e \in Entries, NEW p \in Players, NEW at \in Instants,
         ExecutePick(k, e, p, at)
  PROVE  Advances(periods, periods') /\ UNCHANGED <<clock, limit, window>>
<1> DEFINE to == [q \in {p} |-> e]
<1>1. Handover(to) /\ DOMAIN to = {p}
  BY DEF Handover
<1>2. Acquirable(periods, p, at) /\ periods' = Acquire(periods, to, at) /\ UNCHANGED <<clock, limit, window>>
  BY DEF ExecutePick, AcquirableFor
<1>3. at \in Nat
  BY DEF Instants, LedgerTyped
<1> HIDE DEF to
<1> QED BY <1>1, <1>2, <1>3, AcquireAdvances DEF LedgerTyped

LEMMA CorrectionAdvances ==
  ASSUME LedgerTyped, NEW k \in Kinds, NEW n, NEW at \in Instants, CorrectPick(k, n, at)
  PROVE  Advances(periods, periods') /\ UNCHANGED <<clock, limit, window>>
<1>1. periods' = Release(periods, {drafts[k].picks[n].player}, at) /\ UNCHANGED <<clock, limit, window>>
  BY DEF CorrectPick
<1>2. at \in Nat
  BY DEF Instants, LedgerTyped
<1> QED BY <1>1, <1>2, ReleaseAdvances DEF LedgerTyped

LEMMA DraftAdvances ==
  ASSUME LedgerTyped, DraftNext
  PROVE  Advances(periods, periods') /\ clock' \in Nat
<1>1. CASE Tick
  BY <1>1, UnchangedAdvances DEF Tick, LedgerTyped
<1>2. CASE \/ \E p \in Players : EligibilityChanges(p)
           \/ \E n \in Limits : ConfigureSquadLimit(n)
           \/ \E o \in Orders : AcceptOrder(o)
           \/ \E k \in Kinds : Pause(k) \/ Resume(k)
           \/ FinalizePreseason \/ ReopenPreseason
           \/ \E n \in Incomplete("preseason"), e \in Entries : TransferPick(n, e)
  <2>1. UNCHANGED <<periods, clock>>
    BY <1>2 DEF EligibilityChanges, ConfigureSquadLimit, AcceptOrder, Pause, Resume, FinalizePreseason,
       ReopenPreseason, TransferPick
  <2> QED BY <2>1, UnchangedAdvances DEF LedgerTyped
<1>3. CASE \E k \in Kinds, e \in Entries, p \in Players, at \in Instants : ExecutePick(k, e, p, at)
  BY <1>3, PickAdvances DEF LedgerTyped
<1>4. CASE \E k \in Kinds : \E n \in Completed(k), at \in Instants : CorrectPick(k, n, at)
  BY <1>4, CorrectionAdvances DEF LedgerTyped
<1> QED BY <1>1, <1>2, <1>3, <1>4 DEF DraftNext

LEMMA SnapshotAdvances ==
  ASSUME LedgerTyped, NEW e \in Entries, NEW out \in Players, NEW in \in Players, NEW at \in Instants,
         CorrectOpeningSnapshot(e, out, in, at)
  PROVE  Advances(periods, periods') /\ clock' = clock
<1> DEFINE to == [q \in {in} |-> e]
<1>1. Handover(to) /\ DOMAIN to = {in}
  BY DEF Handover
<1>2. /\ Acquirable(Release(periods, {out}, at), in, at) /\ clock' = clock
      /\ periods' = Acquire(Release(periods, {out}, at), to, at)
  BY DEF CorrectOpeningSnapshot
<1>3. at \in Nat
  BY DEF Instants, LedgerTyped
<1> HIDE DEF to
<1> QED BY <1>1, <1>2, <1>3, ExchangeAdvances DEF LedgerTyped

LEMMA PreseasonAdvances ==
  ASSUME LedgerTyped, PreseasonNext
  PROVE  Advances(periods, periods') /\ clock' \in Nat
<1>1. CASE DraftNext
  BY <1>1, DraftAdvances
<1>2. CASE OpenWindow \/ CloseWindow
  BY <1>2, UnchangedAdvances DEF OpenWindow, CloseWindow, LedgerTyped
<1>3. CASE \E to \in Moves, at \in Instants : SubmitTrade(to, at)
  <2>1. PICK to \in Moves, at \in Instants : SubmitTrade(to, at)
    BY <1>3
  <2>2. Handover(to) /\ at \in Nat /\ Trade(to, at) /\ clock' = clock
    BY <2>1, MovesAre, HandoversAre DEF SubmitTrade, Instants, LedgerTyped
  <2> QED BY <2>2, TradeAdvances DEF LedgerTyped
<1>4. CASE \E e \in Entries, out, in \in Players, at \in Instants : CorrectOpeningSnapshot(e, out, in, at)
  BY <1>4, SnapshotAdvances DEF LedgerTyped
<1> QED BY <1>1, <1>2, <1>3, <1>4 DEF PreseasonNext

LEMMA ProposalTyped ==
  ASSUME LedgerTyped, NEW to \in Moves \cup {<<>>}, NEW picks \in PickTrades, ProposeTrade(to, picks)
  PROVE  trades' \in Seq(TradeRows)
<1> DEFINE from == [p \in DOMAIN to |-> OwnerOf(p)]
           row == [status |-> "pending", to |-> to, picks |-> picks, from |-> from]
<1>1. trades' = Append(trades, row)
  BY DEF ProposeTrade
<1>2. to \in Handovers /\ DOMAIN to \subseteq Players
  BY MovesAre, HandoversAre DEF Handover
<1>3. \A p \in DOMAIN to : OwnerOf(p) \in Entries
  BY OwnerIs DEF ProposeTrade
<1>4. from \in [DOMAIN to -> Entries]
  BY <1>3
<1>5. from \in Handovers
  BY <1>2, <1>4 DEF Handovers
<1> HIDE DEF from
<1>6. row \in TradeRows
  BY <1>2, <1>5 DEF TradeRows, TradeStatus
<1> QED BY <1>1, <1>6 DEF LedgerTyped

LEMMA DecisionTyped ==
  ASSUME LedgerTyped, NEW i \in DOMAIN trades, NEW st \in TradeStatus,
         trades' = [trades EXCEPT ![i].status = st]
  PROVE  trades' \in Seq(TradeRows)
<1>1. trades[i] \in TradeRows
  BY DEF LedgerTyped
<1>2. [trades[i] EXCEPT !.status = st] \in TradeRows
  BY <1>1 DEF TradeRows
<1>3. trades' = [trades EXCEPT ![i] = [trades[i] EXCEPT !.status = st]]
  OBVIOUS
<1> QED BY <1>2, <1>3 DEF LedgerTyped

LEMMA TradingAdvances ==
  ASSUME LedgerTyped, TradingNext
  PROVE  Advances(periods, periods') /\ clock' \in Nat /\ trades' \in Seq(TradeRows)
<1>1. CASE \/ \E e \in Entries, p \in Players : SubmitDelisting(e, p)
           \/ \E d \in delisted : WithdrawDelisting(d)
  <2>1. UNCHANGED <<periods, clock, trades>>
    BY <1>1 DEF SubmitDelisting, WithdrawDelisting, preseasonVars, draftVars
  <2> QED BY <2>1, UnchangedAdvances DEF LedgerTyped
<1>2. CASE \E to \in Moves \cup {<<>>}, picks \in PickTrades : ProposeTrade(to, picks)
  <2>1. UNCHANGED <<periods, clock>>
    BY <1>2 DEF ProposeTrade, preseasonVars, draftVars
  <2> QED BY <1>2, <2>1, ProposalTyped, UnchangedAdvances DEF LedgerTyped
<1>3. ASSUME NEW i \in DOMAIN trades, RejectTrade(i)
      PROVE  Advances(periods, periods') /\ clock' \in Nat /\ trades' \in Seq(TradeRows)
  <2>1. UNCHANGED <<periods, clock>> /\ trades' = [trades EXCEPT ![i].status = "rejected"]
    BY <1>3 DEF RejectTrade, preseasonVars, draftVars
  <2> QED BY <2>1, DecisionTyped, UnchangedAdvances DEF LedgerTyped, TradeStatus
<1>4. ASSUME NEW i \in DOMAIN trades, ApproveTrade(i)
      PROVE  Advances(periods, periods') /\ clock' \in Nat /\ trades' \in Seq(TradeRows)
  <2>1. /\ Trade(trades[i].to, clock) /\ UNCHANGED clock
        /\ trades' = [trades EXCEPT ![i].status = "approved"]
    BY <1>4 DEF ApproveTrade, MovePlayers
  <2>2. Handover(trades[i].to)
    <3>1. trades[i] \in TradeRows
      BY DEF LedgerTyped
    <3>2. trades[i].to \in Handovers
      BY <3>1 DEF TradeRows
    <3> QED BY <3>2, HandoversAre
  <2> QED BY <2>1, <2>2, DecisionTyped, TradeAdvances DEF LedgerTyped, TradeStatus
<1>5. ASSUME NEW i \in DOMAIN trades, ReverseTradeApproval(i)
      PROVE  Advances(periods, periods') /\ clock' \in Nat /\ trades' \in Seq(TradeRows)
  <2>1. /\ Trade(trades[i].from, clock) /\ UNCHANGED clock
        /\ trades' = [trades EXCEPT ![i].status = "rejected"]
    BY <1>5 DEF ReverseTradeApproval, MovePlayers
  <2>2. Handover(trades[i].from)
    <3>1. trades[i] \in TradeRows
      BY DEF LedgerTyped
    <3>2. trades[i].from \in Handovers
      BY <3>1 DEF TradeRows
    <3> QED BY <3>2, HandoversAre
  <2> QED BY <2>1, <2>2, DecisionTyped, TradeAdvances DEF LedgerTyped, TradeStatus
<1> QED BY <1>1, <1>2, <1>3, <1>4, <1>5 DEF TradingNext

LEMMA SelectionAdvances ==
  ASSUME LedgerTyped, LadderNext \/ SelectionNext
  PROVE  Advances(periods, periods') /\ UNCHANGED <<clock, trades>>
<1>1. CASE LockDelistings
  <2>1. periods' = Release(periods, {d.player : d \in delisted}, clock) /\ UNCHANGED <<clock, trades>>
    BY <1>1 DEF LockDelistings
  <2> QED BY <2>1, ReleaseAdvances DEF LedgerTyped
<1>2. CASE ~LockDelistings
  <2>1. UNCHANGED <<periods, clock, trades>>
    BY <1>2 DEF LadderNext, SelectionNext, SetTrigger, CheckTrigger, ConfirmLadder, OverrideDraftOrder,
       OpenDelistingWindow, GenerateSelectionTable, FinalizeMidseason, ReadCompletion, CompleteDraft,
       ReopenDraft, ClosePostDraftTrading, preseasonVars, draftVars, midseasonVars
  <2> QED BY <2>1, UnchangedAdvances DEF LedgerTyped
<1> QED BY <1>1, <1>2

LEMMA LedgerStep ==
  ASSUME LedgerTyped, [SquadsNext]_squadVars
  PROVE  Advances(periods, periods') /\ LedgerTyped'
<1>1. CASE PreseasonNext /\ UNCHANGED midseasonVars
  <2>1. trades' = trades
    BY <1>1 DEF midseasonVars
  <2> QED BY <1>1, <2>1, PreseasonAdvances DEF LedgerTyped, Advances
<1>2. CASE TradingNext
  BY <1>2, TradingAdvances DEF LedgerTyped, Advances
<1>3. CASE LadderNext \/ SelectionNext
  BY <1>3, SelectionAdvances DEF LedgerTyped, Advances
<1>4. CASE UNCHANGED squadVars
  <2>1. UNCHANGED <<periods, clock, trades>>
    BY <1>4 DEF squadVars, preseasonVars, draftVars, midseasonVars
  <2> QED BY <2>1, UnchangedAdvances DEF LedgerTyped
<1> QED BY <1>1, <1>2, <1>3, <1>4 DEF SquadsNext

LEMMA LedgerInit == SquadsInit => LedgerTyped
<1> SUFFICES ASSUME SquadsInit PROVE LedgerTyped
  OBVIOUS
<1>1. clock = 1 /\ periods = {} /\ trades = <<>>
  BY DEF SquadsInit, PreseasonInit, DraftInit, MidseasonInit
<1> QED BY <1>1 DEF LedgerTyped, NoOverlap

LEMMA SameOverlap == ASSUME NEW ledger PROVE History!NoOverlap(ledger) <=> NoOverlap(ledger)
BY DEF NoOverlap, History!NoOverlap, EndsAfter, History!EndsAfter

\* Every operation of the drafts, windows and trades does what SquadHistory
\* promises of the ledger, or leaves it alone: nobody is ever owned twice, no
\* closed period is rewritten and none is forgotten, for any league, however
\* late an operation commits after reading its instant.
THEOREM SquadsImplementHistory == SquadsSpec => HistoryKept
<1>1. SquadsInit => LedgerTyped /\ History!Init
  BY LedgerInit, SameOverlap DEF LedgerTyped, History!Init
<1>2. LedgerTyped /\ [SquadsNext]_squadVars => LedgerTyped'
  BY LedgerStep
<1>3. LedgerTyped /\ [SquadsNext]_squadVars => [History!Next]_periods
  BY LedgerStep, SameOverlap DEF Advances, History!Next
<1> QED BY <1>1, <1>2, <1>3, PTL DEF SquadsSpec, HistoryKept, History!Spec
-----------------------------------------------------------------------------
(***************************************************************************)
(* The tables of picks.                                                     *)
(***************************************************************************)
Tables == UNION {[ns -> Pick] : ns \in SUBSET (Nat \X Nat)}

DraftRows == [accepted : BOOLEAN, target : Nat, paused : BOOLEAN, final : BOOLEAN, picks : Tables]

DraftsTyped ==
  /\ drafts \in [Kinds -> DraftRows]
  /\ limit \in Nat /\ order \in Orders \cup {<<>>}

LEMMA TableIs ==
  ASSUME NEW t \in Tables
  PROVE  t \in [DOMAIN t -> Pick] /\ DOMAIN t \subseteq Nat \X Nat
BY DEF Tables

LEMMA TableSet ==
  ASSUME NEW t \in Tables, NEW n \in DOMAIN t, NEW pick \in Pick
  PROVE  /\ [t EXCEPT ![n] = pick] \in Tables
         /\ DOMAIN [t EXCEPT ![n] = pick] = DOMAIN t
         /\ [t EXCEPT ![n] = pick][n] = pick
         /\ \A m \in DOMAIN t : m # n => [t EXCEPT ![n] = pick][m] = t[m]
<1>1. t \in [DOMAIN t -> Pick] /\ DOMAIN t \subseteq Nat \X Nat
  BY TableIs
<1>2. [t EXCEPT ![n] = pick] \in [DOMAIN t -> Pick]
  BY <1>1
<1> QED BY <1>1, <1>2 DEF Tables

LEMMA PicksTyped ==
  ASSUME DraftsTyped, NEW k \in Kinds
  PROVE  drafts[k] \in DraftRows /\ drafts[k].picks \in Tables
BY DEF DraftsTyped, DraftRows

\* One pick of one draft is written.
WithPick(k, n, pick) == [drafts EXCEPT ![k].picks[n] = pick]

LEMMA PickWritten ==
  ASSUME DraftsTyped, NEW k \in Kinds, NEW n \in DOMAIN drafts[k].picks, NEW pick \in Pick,
         drafts' = WithPick(k, n, pick)
  PROVE  /\ drafts' \in [Kinds -> DraftRows]
         /\ drafts'[k].picks = [drafts[k].picks EXCEPT ![n] = pick]
         /\ drafts'[k].final = drafts[k].final /\ drafts'[k].accepted = drafts[k].accepted
         /\ drafts'[k].target = drafts[k].target
         /\ \A j \in Kinds : j # k => drafts'[j] = drafts[j]
<1> DEFINE table == [drafts[k].picks EXCEPT ![n] = pick]
           row == [drafts[k] EXCEPT !.picks = table]
<1>1. drafts[k] \in DraftRows /\ drafts[k].picks \in Tables
  BY PicksTyped
<1>2. table \in Tables
  BY <1>1, TableSet
<1>3. drafts' = [drafts EXCEPT ![k] = row]
  BY DEF WithPick
<1> HIDE DEF table
<1>4. /\ row \in DraftRows /\ row.picks = table /\ row.final = drafts[k].final
      /\ row.accepted = drafts[k].accepted /\ row.target = drafts[k].target
  BY <1>1, <1>2 DEF DraftRows
<1> HIDE DEF row
<1>5. /\ drafts' \in [Kinds -> DraftRows] /\ drafts'[k] = row
      /\ \A j \in Kinds : j # k => drafts'[j] = drafts[j]
  BY <1>3, <1>4 DEF DraftsTyped
<1> QED BY <1>4, <1>5 DEF table

LEMMA BlankIs == ASSUME NEW e \in Entries PROVE BlankPick(e) \in Pick /\ BlankPick(e).player = NoPlayer
BY DEF BlankPick, Pick

LEMMA OrderIs ==
  ASSUME NEW o \in Orders \cup {<<>>}
  PROVE  DOMAIN o \subseteq Nat /\ \A i \in DOMAIN o : o[i] \in Entries
<1>1. CASE o \in Orders
  <2>1. Cardinality(Entries) \in Nat /\ o \in [1 .. Cardinality(Entries) -> Entries]
    BY <1>1, FS_CardinalityType, SeasonDraftAssumption
  <2> QED BY <2>1
<1>2. CASE o = <<>>
  BY <1>2
<1> QED BY <1>1, <1>2

\* A new table names nobody yet.
Untouched(t) == \A n \in DOMAIN t : t[n].player = NoPlayer

LEMMA SnakeIs ==
  ASSUME NEW o \in Orders, NEW rounds \in Nat
  PROVE  SnakePicks(o, rounds) \in Tables /\ Untouched(SnakePicks(o, rounds))
<1> DEFINE n == Cardinality(Entries)
           ns == (1 .. rounds) \X (1 .. n)
           owner(s) == IF s[1] % 2 = 1 THEN o[s[2]] ELSE o[n + 1 - s[2]]
<1>0. n \in Nat
  BY FS_CardinalityType, SeasonDraftAssumption
<1>1. o \in [1 .. n -> Entries]
  BY SeasonDraftAssumption
<1>2. SnakePicks(o, rounds) = [s \in ns |-> BlankPick(owner(s))]
  BY DEF SnakePicks
<1>3. ASSUME NEW s \in ns PROVE owner(s) \in Entries
  <2>1. s[2] \in 1 .. n /\ n + 1 - s[2] \in 1 .. n
    BY <1>0
  <2> QED BY <1>1, <2>1
<1>4. ns \subseteq Nat \X Nat
  BY <1>0
<1> HIDE DEF owner, ns
<1>5. SnakePicks(o, rounds) \in [ns -> Pick]
  BY <1>2, <1>3, BlankIs
<1>6. Untouched(SnakePicks(o, rounds))
  BY <1>2, <1>3, BlankIs DEF Untouched
<1> QED BY <1>4, <1>5, <1>6 DEF Tables

LEMMA RedirectedIs ==
  ASSUME LedgerTyped, NEW r, NEW e \in Entries
  PROVE  Redirected(r, e) \in Entries
<1>1. CASE \E i \in Approved : <<r, e>> \in DOMAIN trades[i].picks
  <2> DEFINE i == CHOOSE j \in Approved : <<r, e>> \in DOMAIN trades[j].picks
  <2>1. i \in Approved /\ <<r, e>> \in DOMAIN trades[i].picks
    BY <1>1
  <2> HIDE DEF i
  <2>2. i \in DOMAIN trades
    BY <2>1 DEF Approved
  <2>3. trades[i] \in TradeRows
    BY <2>2 DEF LedgerTyped
  <2>4. trades[i].picks \in PickTrades
    BY <2>3 DEF TradeRows
  <2>5. trades[i].picks[<<r, e>>] \in Entries
    BY <2>1, <2>4, PickTradesAssumption
  <2> QED BY <1>1, <2>5 DEF Redirected, i
<1>2. CASE ~\E i \in Approved : <<r, e>> \in DOMAIN trades[i].picks
  BY <1>2 DEF Redirected
<1> QED BY <1>1, <1>2

LEMMA SelectionIs ==
  ASSUME LedgerTyped, DraftsTyped, NEW ledger
  PROVE  SelectionPicks(ledger) \in Tables /\ Untouched(SelectionPicks(ledger))
<1> DEFINE ns == {n \in (1 .. limit) \X DOMAIN order : Vacancies(ledger, order[n[2]]) >= n[1]}
           owner(s) == Redirected(s[1], order[s[2]])
<1>1. SelectionPicks(ledger) = [s \in ns |-> BlankPick(owner(s))]
  BY DEF SelectionPicks
<1>2. ns \subseteq Nat \X Nat
  BY OrderIs DEF DraftsTyped
<1>3. ASSUME NEW s \in ns PROVE owner(s) \in Entries
  <2>1. order[s[2]] \in Entries
    BY OrderIs DEF DraftsTyped
  <2> QED BY <2>1, RedirectedIs
<1> HIDE DEF owner, ns
<1>4. SelectionPicks(ledger) \in [ns -> Pick]
  BY <1>1, <1>3, BlankIs
<1>5. Untouched(SelectionPicks(ledger))
  BY <1>1, <1>3, BlankIs DEF Untouched
<1> QED BY <1>2, <1>4, <1>5 DEF Tables
-----------------------------------------------------------------------------
(***************************************************************************)
(* Turns.                                                                  *)
(***************************************************************************)
InTurn(t) ==
  \A n, m \in DOMAIN t : t[n].player # NoPlayer /\ t[m].player = NoPlayer => Precedes(n, m)

LEMMA PrecedesTotal ==
  ASSUME NEW n \in Nat \X Nat, NEW m \in Nat \X Nat, n # m, ~Precedes(m, n)
  PROVE  Precedes(n, m)
<1>1. n[1] \in Nat /\ n[2] \in Nat /\ m[1] \in Nat /\ m[2] \in Nat
  OBVIOUS
<1>2. ~(n[1] = m[1] /\ n[2] = m[2])
  OBVIOUS
<1> QED BY <1>1, <1>2 DEF Precedes

LEMMA PrecedesTransitive ==
  ASSUME NEW n \in Nat \X Nat, NEW m \in Nat \X Nat, NEW o \in Nat \X Nat, Precedes(n, m), Precedes(m, o)
  PROVE  Precedes(n, o)
<1>1. /\ n[1] \in Nat /\ n[2] \in Nat /\ m[1] \in Nat /\ m[2] \in Nat /\ o[1] \in Nat /\ o[2] \in Nat
  OBVIOUS
<1> QED BY <1>1 DEF Precedes

\* The lowest incomplete pick is made.
LEMMA MadeInTurn ==
  ASSUME NEW t \in Tables, InTurn(t), NEW n \in DOMAIN t, NEW pick \in Pick, t[n].player = NoPlayer,
         \A m \in DOMAIN t : t[m].player = NoPlayer => ~Precedes(m, n)
  PROVE  InTurn([t EXCEPT ![n] = pick])
<1> DEFINE u == [t EXCEPT ![n] = pick]
<1>1. /\ DOMAIN u = DOMAIN t /\ DOMAIN t \subseteq Nat \X Nat
      /\ \A m \in DOMAIN t : m # n => u[m] = t[m]
  BY TableSet, TableIs
<1> HIDE DEF u
<1> SUFFICES ASSUME NEW a \in DOMAIN t, NEW b \in DOMAIN t, u[a].player # NoPlayer, u[b].player = NoPlayer
             PROVE  Precedes(a, b)
  BY <1>1 DEF InTurn, u
<1>2. CASE a = n
  <2>1. b # n /\ t[b].player = NoPlayer
    BY <1>1, <1>2
  <2>2. ~Precedes(b, a)
    BY <1>2, <2>1
  <2> QED BY <1>1, <1>2, <2>1, <2>2, PrecedesTotal
<1>3. CASE a # n
  <2>1. t[a].player # NoPlayer /\ t[b].player = NoPlayer
    BY <1>1, <1>3
  <2> QED BY <2>1 DEF InTurn
<1> QED BY <1>2, <1>3

\* The highest completed one is taken back.
LEMMA UndoneInTurn ==
  ASSUME NEW t \in Tables, InTurn(t), NEW n \in DOMAIN t, NEW pick \in Pick, t[n].player # NoPlayer,
         \A m \in DOMAIN t : t[m].player # NoPlayer => ~Precedes(n, m),
         pick.player = NoPlayer
  PROVE  InTurn([t EXCEPT ![n] = pick])
<1> DEFINE u == [t EXCEPT ![n] = pick]
<1>1. /\ DOMAIN u = DOMAIN t /\ DOMAIN t \subseteq Nat \X Nat /\ u[n] = pick
      /\ \A m \in DOMAIN t : m # n => u[m] = t[m]
  BY TableSet, TableIs
<1> HIDE DEF u
<1> SUFFICES ASSUME NEW a \in DOMAIN t, NEW b \in DOMAIN t, u[a].player # NoPlayer, u[b].player = NoPlayer
             PROVE  Precedes(a, b)
  BY <1>1 DEF InTurn, u
<1>2. a # n /\ t[a].player # NoPlayer
  BY <1>1
<1>3. CASE b = n
  BY <1>1, <1>2, <1>3, PrecedesTotal
<1>4. CASE b # n
  BY <1>1, <1>2, <1>4 DEF InTurn
<1> QED BY <1>3, <1>4

LEMMA UntouchedInTurn == \A t : Untouched(t) => InTurn(t)
BY DEF Untouched, InTurn

Turns == \A k \in Kinds : InTurn(drafts[k].picks)

LEMMA TurnsAre == Turns <=> PicksInTurn
BY DEF Turns, InTurn, PicksInTurn, Completed, Incomplete

\* A flag of a draft is set, its picks stay.
LEMMA FlagWritten ==
  ASSUME DraftsTyped, Turns, NEW k \in Kinds, NEW row \in DraftRows, row.picks = drafts[k].picks,
         drafts' = [drafts EXCEPT ![k] = row]
  PROVE  drafts' \in [Kinds -> DraftRows] /\ Turns'
BY DEF DraftsTyped, Turns

LEMMA FlagsTurn ==
  ASSUME DraftsTyped, Turns, NEW k \in Kinds, Pause(k) \/ Resume(k) \/ Finalize(k) \/ Reopen(k)
  PROVE  drafts' \in [Kinds -> DraftRows] /\ Turns'
<1>1. drafts[k] \in DraftRows
  BY PicksTyped
<1>2. CASE Pause(k)
  <2>1. [drafts[k] EXCEPT !.paused = TRUE] \in DraftRows /\ [drafts[k] EXCEPT !.paused = TRUE].picks = drafts[k].picks
    BY <1>1 DEF DraftRows
  <2>2. drafts' = [drafts EXCEPT ![k] = [drafts[k] EXCEPT !.paused = TRUE]]
    BY <1>2 DEF Pause
  <2> QED BY <2>1, <2>2, FlagWritten
<1>3. CASE Resume(k)
  <2>1. [drafts[k] EXCEPT !.paused = FALSE] \in DraftRows /\ [drafts[k] EXCEPT !.paused = FALSE].picks = drafts[k].picks
    BY <1>1 DEF DraftRows
  <2>2. drafts' = [drafts EXCEPT ![k] = [drafts[k] EXCEPT !.paused = FALSE]]
    BY <1>3 DEF Resume
  <2> QED BY <2>1, <2>2, FlagWritten
<1>4. CASE Finalize(k)
  <2>1. [drafts[k] EXCEPT !.final = TRUE] \in DraftRows /\ [drafts[k] EXCEPT !.final = TRUE].picks = drafts[k].picks
    BY <1>1 DEF DraftRows
  <2>2. drafts' = [drafts EXCEPT ![k] = [drafts[k] EXCEPT !.final = TRUE]]
    BY <1>4 DEF Finalize
  <2> QED BY <2>1, <2>2, FlagWritten
<1>5. CASE Reopen(k)
  <2>1. [drafts[k] EXCEPT !.final = FALSE] \in DraftRows /\ [drafts[k] EXCEPT !.final = FALSE].picks = drafts[k].picks
    BY <1>1 DEF DraftRows
  <2>2. drafts' = [drafts EXCEPT ![k] = [drafts[k] EXCEPT !.final = FALSE]]
    BY <1>5 DEF Reopen
  <2> QED BY <2>1, <2>2, FlagWritten
<1> QED BY <1>2, <1>3, <1>4, <1>5

LEMMA NewTurns ==
  ASSUME DraftsTyped, Turns, NEW k \in Kinds, NEW picks \in Tables, Untouched(picks), Materialize(k, picks)
  PROVE  drafts' \in [Kinds -> DraftRows] /\ Turns'
<1>1. NewDraft(limit, picks) \in DraftRows /\ NewDraft(limit, picks).picks = picks
  <2>1. <<>> \in Tables
    <3>1. <<>> \in [{} -> Pick]
      OBVIOUS
    <3> QED BY <3>1 DEF Tables
  <2>2. NoDraft \in DraftRows
    BY <2>1 DEF NoDraft, DraftRows
  <2> QED BY <2>2 DEF NewDraft, DraftRows, DraftsTyped
<1>2. drafts' = [drafts EXCEPT ![k] = NewDraft(limit, picks)]
  BY DEF Materialize
<1>3. drafts'[k].picks = picks /\ drafts' \in [Kinds -> DraftRows] /\ \A j \in Kinds : j # k => drafts'[j] = drafts[j]
  BY <1>1, <1>2 DEF DraftsTyped
<1> QED BY <1>3, UntouchedInTurn DEF Turns
LEMMA PickTurns ==
  ASSUME LedgerTyped, DraftsTyped, Turns, NEW k \in Kinds, NEW e \in Entries, NEW p \in Players,
         NEW at \in Instants, ExecutePick(k, e, p, at)
  PROVE  drafts' \in [Kinds -> DraftRows] /\ Turns' /\ UNCHANGED <<limit, window>> /\ Running(k)
<1> DEFINE t == drafts[k].picks
<1>1. PICK n \in NextPick(k) :
        drafts' = [drafts EXCEPT ![k].picks[n] = [@ EXCEPT !.player = p, !.at = at]]
  BY DEF ExecutePick
<1>2. t \in Tables
  BY PicksTyped
<1>3. /\ n \in DOMAIN t /\ t[n].player = NoPlayer
      /\ \A m \in DOMAIN t : t[m].player = NoPlayer => ~Precedes(m, n)
  BY <1>1 DEF NextPick, Incomplete, Completed
<1>4. t[n] \in Pick /\ at \in Nat
  BY <1>2, <1>3, TableIs DEF Instants, LedgerTyped
<1>5. [t[n] EXCEPT !.player = p, !.at = at] \in Pick
  BY <1>4 DEF Pick
<1>6. PICK pick \in Pick : drafts' = WithPick(k, n, pick)
  BY <1>1, <1>5 DEF WithPick
<1>7. /\ drafts' \in [Kinds -> DraftRows] /\ drafts'[k].picks = [drafts[k].picks EXCEPT ![n] = pick]
      /\ \A j \in Kinds : j # k => drafts'[j] = drafts[j]
  <2>1. n \in DOMAIN drafts[k].picks
    BY <1>3
  <2> HIDE DEF t
  <2> QED BY <2>1, <1>6, PickWritten
<1>8. InTurn(drafts'[k].picks)
  BY <1>2, <1>3, <1>7, MadeInTurn DEF Turns
<1>9. UNCHANGED <<limit, window>> /\ Running(k)
  BY DEF ExecutePick
<1> QED BY <1>7, <1>8, <1>9 DEF Turns

LEMMA CorrectionTurns ==
  ASSUME LedgerTyped, DraftsTyped, Turns, NEW k \in Kinds, NEW n, NEW at, CorrectPick(k, n, at)
  PROVE  drafts' \in [Kinds -> DraftRows] /\ Turns' /\ UNCHANGED <<limit, window>> /\ Running(k)
<1> DEFINE t == drafts[k].picks
           pick == BlankPick(t[n].owner)
<1>1. t \in Tables
  BY PicksTyped
<1>2. /\ n \in DOMAIN t /\ t[n].player # NoPlayer
      /\ \A m \in DOMAIN t : t[m].player # NoPlayer => ~Precedes(n, m)
  BY DEF CorrectPick, LastCompleted, Completed
<1>3. t[n] \in Pick
  BY <1>1, <1>2, TableIs
<1>4. pick \in Pick /\ pick.player = NoPlayer
  BY <1>3, BlankIs DEF Pick
<1>5. drafts' = WithPick(k, n, pick)
  BY DEF CorrectPick, WithPick
<1> HIDE DEF pick
<1>6. /\ drafts' \in [Kinds -> DraftRows] /\ drafts'[k].picks = [t EXCEPT ![n] = pick]
      /\ \A j \in Kinds : j # k => drafts'[j] = drafts[j]
  BY <1>2, <1>4, <1>5, PickWritten
<1>7. InTurn(drafts'[k].picks)
  BY <1>1, <1>2, <1>4, <1>6, UndoneInTurn DEF Turns
<1>8. UNCHANGED <<limit, window>> /\ Running(k)
  BY DEF CorrectPick
<1> QED BY <1>6, <1>7, <1>8 DEF Turns

LEMMA TransferTurns ==
  ASSUME DraftsTyped, Turns, NEW n, NEW e \in Entries, TransferPick(n, e)
  PROVE  drafts' \in [Kinds -> DraftRows] /\ Turns'
<1> DEFINE t == drafts["preseason"].picks
<1>0. "preseason" \in Kinds
  BY DEF Kinds
<1>1. t \in Tables
  BY <1>0, PicksTyped
<1>2. n \in DOMAIN t
  BY DEF TransferPick, Incomplete
<1>3. t[n] \in Pick
  BY <1>1, <1>2, TableIs
<1>4. [t[n] EXCEPT !.owner = e] \in Pick /\ [t[n] EXCEPT !.owner = e].player = t[n].player
  BY <1>3 DEF Pick
<1>5. PICK pick \in Pick : /\ pick.player = t[n].player
                           /\ drafts' = WithPick("preseason", n, pick)
  BY <1>4 DEF TransferPick, WithPick
<1>6. PICK k \in Kinds : k = "preseason"
  BY <1>0
<1>7. /\ drafts' \in [Kinds -> DraftRows] /\ drafts'[k].picks = [drafts[k].picks EXCEPT ![n] = pick]
      /\ \A j \in Kinds : j # k => drafts'[j] = drafts[j]
  <2>1. n \in DOMAIN drafts[k].picks /\ drafts' = WithPick(k, n, pick)
    BY <1>2, <1>5, <1>6
  <2> QED BY <2>1, PickWritten
<1>8. /\ DOMAIN drafts'[k].picks = DOMAIN t
      /\ \A m \in DOMAIN t : drafts'[k].picks[m].player = t[m].player
  BY <1>1, <1>2, <1>5, <1>6, <1>7, TableSet
<1>9. InTurn(drafts'[k].picks)
  BY <1>0, <1>6, <1>8 DEF InTurn, Turns
<1> QED BY <1>7, <1>9 DEF Turns

LEMMA DraftTurns ==
  ASSUME LedgerTyped, DraftsTyped, Turns, DraftNext
  PROVE  drafts' \in [Kinds -> DraftRows] /\ Turns' /\ limit' \in Nat
<1>1. CASE Tick \/ \E p \in Players : EligibilityChanges(p)
  BY <1>1 DEF Tick, EligibilityChanges, DraftsTyped, Turns
<1>2. CASE \E n \in Limits : ConfigureSquadLimit(n)
  <2>1. limit' \in Nat /\ UNCHANGED drafts
    BY <1>2, SeasonDraftAssumption DEF ConfigureSquadLimit
  <2> QED BY <2>1 DEF DraftsTyped, Turns
<1>3. CASE \E o \in Orders : AcceptOrder(o)
  <2>1. PICK o \in Orders : Materialize("preseason", SnakePicks(o, limit)) /\ UNCHANGED limit
    BY <1>3 DEF AcceptOrder
  <2> QED BY <2>1, SnakeIs, NewTurns DEF DraftsTyped, Kinds
<1>4. CASE \E k \in Kinds : Pause(k) \/ Resume(k)
  BY <1>4, FlagsTurn DEF Pause, Resume, DraftsTyped
<1>5. CASE \E k \in Kinds, e \in Entries, p \in Players, at \in Instants : ExecutePick(k, e, p, at)
  BY <1>5, PickTurns DEF DraftsTyped
<1>6. CASE \E k \in Kinds : \E n \in Completed(k), at \in Instants : CorrectPick(k, n, at)
  BY <1>6, CorrectionTurns DEF DraftsTyped
<1>7. CASE FinalizePreseason \/ ReopenPreseason
  <2>1. (Finalize("preseason") \/ Reopen("preseason")) /\ UNCHANGED limit
    BY <1>7 DEF FinalizePreseason, ReopenPreseason
  <2> QED BY <2>1, FlagsTurn DEF DraftsTyped, Kinds
<1>8. CASE \E n \in Incomplete("preseason"), e \in Entries : TransferPick(n, e)
  BY <1>8, TransferTurns DEF TransferPick, DraftsTyped
<1> QED BY <1>1, <1>2, <1>3, <1>4, <1>5, <1>6, <1>7, <1>8 DEF DraftNext

LEMMA SelectionTurns ==
  ASSUME LedgerTyped, DraftsTyped, Turns, SelectionNext
  PROVE  drafts' \in [Kinds -> DraftRows] /\ Turns' /\ UNCHANGED <<limit, order>>
<1>1. CASE LockDelistings \/ ReadCompletion \/ CompleteDraft \/ ClosePostDraftTrading
  <2>1. UNCHANGED <<drafts, limit, order>>
    BY <1>1 DEF LockDelistings, ReadCompletion, CompleteDraft, ClosePostDraftTrading, preseasonVars, draftVars
  <2> QED BY <2>1 DEF DraftsTyped, Turns
<1>2. CASE GenerateSelectionTable
  <2>1. UNCHANGED <<limit, order>> /\ (UNCHANGED drafts \/ Materialize("midseason", SelectionPicks(periods)))
    BY <1>2 DEF GenerateSelectionTable
  <2> QED BY <2>1, SelectionIs, NewTurns DEF DraftsTyped, Turns, Kinds
<1>3. CASE FinalizeMidseason \/ ReopenDraft
  <2>1. (Finalize("midseason") \/ Reopen("midseason")) /\ UNCHANGED <<limit, order>>
    BY <1>3 DEF FinalizeMidseason, ReopenDraft, midseasonVars
  <2> QED BY <2>1, FlagsTurn DEF Kinds
<1> QED BY <1>1, <1>2, <1>3 DEF SelectionNext

LEMMA TurnsStep ==
  ASSUME LedgerTyped, DraftsTyped, Turns, [SquadsNext]_squadVars
  PROVE  DraftsTyped' /\ Turns'
<1>1. CASE PreseasonNext /\ UNCHANGED midseasonVars
  <2>1. order' = order
    BY <1>1 DEF midseasonVars
  <2>2. CASE DraftNext
    BY <2>1, <2>2, DraftTurns DEF DraftsTyped
  <2>3. CASE ~DraftNext
    <3>1. UNCHANGED <<drafts, limit>>
      <4>1. OpenWindow \/ CloseWindow => UNCHANGED <<drafts, limit>>
        BY DEF OpenWindow, CloseWindow
      <4>2. \A to, at : SubmitTrade(to, at) => UNCHANGED <<drafts, limit>>
        BY DEF SubmitTrade
      <4>3. \A e, out, in, at : CorrectOpeningSnapshot(e, out, in, at) => UNCHANGED <<drafts, limit>>
        BY DEF CorrectOpeningSnapshot
      <4> QED BY <1>1, <2>3, <4>1, <4>2, <4>3 DEF PreseasonNext
    <3> QED BY <2>1, <3>1 DEF DraftsTyped, Turns
  <2> QED BY <2>2, <2>3
<1>2. CASE LadderNext
  <2>1. UNCHANGED <<drafts, limit>> /\ order' \in Orders \cup {<<>>}
    BY <1>2 DEF LadderNext, SetTrigger, CheckTrigger, ConfirmLadder, OverrideDraftOrder,
       OpenDelistingWindow, preseasonVars, draftVars, DraftsTyped
  <2> QED BY <2>1 DEF DraftsTyped, Turns
<1>3. CASE TradingNext
  <2>1. UNCHANGED <<drafts, limit, order>>
    BY <1>3 DEF TradingNext, SubmitDelisting, WithdrawDelisting, ProposeTrade, RejectTrade, ApproveTrade,
       ReverseTradeApproval, preseasonVars, draftVars
  <2> QED BY <2>1 DEF DraftsTyped, Turns
<1>4. CASE SelectionNext
  BY <1>4, SelectionTurns DEF DraftsTyped
<1>5. CASE UNCHANGED squadVars
  <2>1. UNCHANGED <<drafts, limit, order>>
    BY <1>5 DEF squadVars, preseasonVars, draftVars, midseasonVars
  <2> QED BY <2>1 DEF DraftsTyped, Turns
<1> QED BY <1>1, <1>2, <1>3, <1>4, <1>5 DEF SquadsNext

LEMMA TurnsInit == SquadsInit => DraftsTyped /\ Turns
<1> SUFFICES ASSUME SquadsInit PROVE DraftsTyped /\ Turns
  OBVIOUS
<1>1. drafts = [k \in Kinds |-> NoDraft] /\ limit = 0 /\ order = <<>>
  BY DEF SquadsInit, PreseasonInit, DraftInit, MidseasonInit
<1>2. <<>> \in Tables /\ Untouched(<<>>)
  <2>1. <<>> \in [{} -> Pick]
    OBVIOUS
  <2> QED BY <2>1 DEF Tables, Untouched
<1>3. NoDraft \in DraftRows /\ NoDraft.picks = <<>>
  BY <1>2 DEF NoDraft, DraftRows
<1>4. \A k \in Kinds : InTurn(drafts[k].picks)
  BY <1>1, <1>2, <1>3, UntouchedInTurn
<1>5. drafts \in [Kinds -> DraftRows]
  BY <1>1, <1>3
<1> QED BY <1>1, <1>4, <1>5 DEF DraftsTyped, Turns

\* The picks of either draft are made in their order and undone in the reverse
\* one, for any league, order, limit and trades of picks.
THEOREM PicksAreInTurn == SquadsSpec => []PicksInTurn
<1>1. SquadsInit => LedgerTyped /\ DraftsTyped /\ Turns
  BY LedgerInit, TurnsInit
<1>2. LedgerTyped /\ DraftsTyped /\ Turns /\ [SquadsNext]_squadVars => (LedgerTyped /\ DraftsTyped /\ Turns)'
  BY LedgerStep, TurnsStep
<1>3. LedgerTyped /\ DraftsTyped /\ Turns => PicksInTurn
  BY TurnsAre
<1> QED BY <1>1, <1>2, <1>3, PTL DEF SquadsSpec
-----------------------------------------------------------------------------
(***************************************************************************)
(* The phases of the season.                                                *)
(***************************************************************************)
Early == {"none", "ladder_confirmed"}

BeforeDraft == Early \cup {"delisting_open", "delistings_locked"}

\* Nothing of the mid-season precedes the closing of the preseason window, its
\* draft does not run before the delistings are locked, and nothing is delisted
\* before the window for it opens.
Phases ==
  /\ opening \in [Entries -> SUBSET Players] /\ version \in Nat
  /\ window # "closed" => midState = "none" /\ confirming = {}
  /\ window = "closed" => version >= 1
  /\ midState \in BeforeDraft => ~drafts["midseason"].accepted
  /\ midState \in Early => delisted = {}

LEMMA PhasesInit == SquadsInit => Phases
BY DEF SquadsInit, PreseasonInit, DraftInit, MidseasonInit, Phases, NoDraft, Kinds, Early, BeforeDraft

LEMMA AcceptedStays ==
  ASSUME LedgerTyped, DraftsTyped, DraftNext
  PROVE  drafts'["midseason"].accepted = drafts["midseason"].accepted /\ UNCHANGED window
<1>0. "midseason" \in Kinds /\ "preseason" \in Kinds /\ "midseason" # "preseason"
  BY DEF Kinds
<1>1. CASE \/ Tick \/ \E p \in Players : EligibilityChanges(p)
           \/ \E n \in Limits : ConfigureSquadLimit(n)
  BY <1>1 DEF Tick, EligibilityChanges, ConfigureSquadLimit
<1>2. CASE \E o \in Orders : AcceptOrder(o)
  BY <1>0, <1>2 DEF AcceptOrder, Materialize, DraftsTyped
<1>3. CASE \E k \in Kinds : Pause(k) \/ Resume(k)
  <2>1. PICK k \in Kinds : Pause(k) \/ Resume(k)
    BY <1>3
  <2>2. drafts[k] \in DraftRows
    BY PicksTyped
  <2>3. drafts'[k].accepted = drafts[k].accepted /\ \A j \in Kinds : j # k => drafts'[j] = drafts[j]
    BY <2>1, <2>2 DEF Pause, Resume, DraftRows, DraftsTyped
  <2>4. UNCHANGED window
    BY <2>1 DEF Pause, Resume
  <2> QED BY <1>0, <2>3, <2>4
<1>4. CASE \E k \in Kinds, e \in Entries, p \in Players, at \in Instants : ExecutePick(k, e, p, at)
  <2>1. PICK k \in Kinds, e \in Entries, p \in Players, at \in Instants : ExecutePick(k, e, p, at)
    BY <1>4
  <2>2. PICK n \in NextPick(k) :
          drafts' = [drafts EXCEPT ![k].picks[n] = [@ EXCEPT !.player = p, !.at = at]]
    BY <2>1 DEF ExecutePick
  <2>3. drafts[k] \in DraftRows
    BY PicksTyped
  <2>4. drafts'[k].accepted = drafts[k].accepted /\ \A j \in Kinds : j # k => drafts'[j] = drafts[j]
    BY <2>2, <2>3 DEF DraftRows, DraftsTyped
  <2>5. UNCHANGED window
    BY <2>1 DEF ExecutePick
  <2> QED BY <1>0, <2>4, <2>5
<1>5. CASE \E k \in Kinds : \E n \in Completed(k), at \in Instants : CorrectPick(k, n, at)
  <2>1. PICK k \in Kinds : \E n \in Completed(k), at \in Instants : CorrectPick(k, n, at)
    BY <1>5
  <2>2. PICK n : drafts' = [drafts EXCEPT ![k].picks[n] = BlankPick(drafts[k].picks[n].owner)]
    BY <2>1 DEF CorrectPick
  <2>3. drafts[k] \in DraftRows
    BY PicksTyped
  <2>4. drafts'[k].accepted = drafts[k].accepted /\ \A j \in Kinds : j # k => drafts'[j] = drafts[j]
    BY <2>2, <2>3 DEF DraftRows, DraftsTyped
  <2>5. UNCHANGED window
    BY <2>1 DEF CorrectPick
  <2> QED BY <1>0, <2>4, <2>5
<1>6. CASE FinalizePreseason \/ ReopenPreseason
  BY <1>0, <1>6 DEF FinalizePreseason, ReopenPreseason, Finalize, Reopen, DraftsTyped
<1>7. CASE \E n \in Incomplete("preseason"), e \in Entries : TransferPick(n, e)
  BY <1>0, <1>7 DEF TransferPick, DraftsTyped
<1> QED BY <1>1, <1>2, <1>3, <1>4, <1>5, <1>6, <1>7 DEF DraftNext

LEMMA PreseasonPhases ==
  ASSUME LedgerTyped, DraftsTyped, Phases, PreseasonNext, UNCHANGED midseasonVars
  PROVE  Phases'
<1>0. UNCHANGED <<midState, confirming, delisted>>
  BY DEF midseasonVars
<1>1. CASE DraftNext /\ UNCHANGED <<opening, version>>
  BY <1>0, <1>1, AcceptedStays DEF Phases
<1>2. CASE OpenWindow
  BY <1>0, <1>2 DEF OpenWindow, Phases
<1>3. CASE \E to \in Moves, at \in Instants : SubmitTrade(to, at)
  BY <1>0, <1>3 DEF SubmitTrade, Phases
<1>4. CASE CloseWindow
  <2>1. opening' \in [Entries -> SUBSET Players]
    BY <1>4 DEF CloseWindow, Squad, Current, LedgerTyped, Periods
  <2> QED BY <1>0, <1>4, <2>1 DEF CloseWindow, Phases
<1>5. CASE \E e \in Entries, out, in \in Players, at \in Instants : CorrectOpeningSnapshot(e, out, in, at)
  <2>1. opening' \in [Entries -> SUBSET Players]
    BY <1>5 DEF CorrectOpeningSnapshot, Phases
  <2>2. version' = version + 1 /\ UNCHANGED <<drafts, window>>
    BY <1>5 DEF CorrectOpeningSnapshot
  <2> QED BY <1>0, <2>1, <2>2 DEF Phases
<1> QED BY <1>1, <1>2, <1>3, <1>4, <1>5 DEF PreseasonNext

LEMMA PhasesStep ==
  ASSUME LedgerTyped, DraftsTyped, Phases, [SquadsNext]_squadVars
  PROVE  Phases'
<1>0. "midseason" \in Kinds
  BY DEF Kinds
<1>1. CASE PreseasonNext /\ UNCHANGED midseasonVars
  BY <1>1, PreseasonPhases
<1>2. CASE LadderNext
  BY <1>2 DEF LadderNext, SetTrigger, CheckTrigger, ConfirmLadder, OverrideDraftOrder,
     OpenDelistingWindow, preseasonVars, draftVars, Phases, Early, BeforeDraft
<1>3. CASE TradingNext
  <2>1. UNCHANGED <<opening, version, window, midState, confirming, drafts>> /\ (midState \in Early => UNCHANGED delisted)
    BY <1>3 DEF TradingNext, SubmitDelisting, WithdrawDelisting, ProposeTrade, RejectTrade, ApproveTrade,
       ReverseTradeApproval, preseasonVars, draftVars, Phases, Early
  <2> QED BY <2>1 DEF Phases
<1>4. CASE LockDelistings \/ GenerateSelectionTable
  BY <1>0, <1>4 DEF LockDelistings, GenerateSelectionTable, Materialize, Phases, Early, BeforeDraft
<1>5. CASE FinalizeMidseason \/ ReopenDraft
  <2>1. drafts["midseason"] \in DraftRows
    BY <1>0, PicksTyped
  <2>2. drafts'["midseason"].accepted = drafts["midseason"].accepted
    BY <1>0, <1>5, <2>1 DEF FinalizeMidseason, ReopenDraft, Finalize, Reopen, DraftRows, DraftsTyped
  <2> QED BY <1>5, <2>2 DEF FinalizeMidseason, ReopenDraft, midseasonVars, Phases, Early, BeforeDraft
<1>6. CASE ReadCompletion \/ CompleteDraft \/ ClosePostDraftTrading
  BY <1>6 DEF ReadCompletion, CompleteDraft, ClosePostDraftTrading, preseasonVars, draftVars, Phases, Early, BeforeDraft
<1>7. CASE UNCHANGED squadVars
  BY <1>7 DEF squadVars, preseasonVars, draftVars, midseasonVars, Phases
<1> QED BY <1>1, <1>2, <1>3, <1>4, <1>5, <1>6, <1>7 DEF SquadsNext, SelectionNext

-----------------------------------------------------------------------------
(***************************************************************************)
(* Who owns whom after an operation.                                        *)
(***************************************************************************)
LEMMA OwnerIsUnique ==
  ASSUME NEW ledger, NoOverlap(ledger), NEW e, NEW f, NEW p, Owns(ledger, e, p), Owns(ledger, f, p)
  PROVE  e = f
BY DEF Owns, Current, NoOverlap, EndsAfter

LEMMA SquadIs == ASSUME NEW ledger, NEW e, NEW p PROVE p \in Squad(ledger, e) <=> Owns(ledger, e, p)
BY DEF Squad, Owns

LEMMA ReleasedOwners ==
  ASSUME NEW ledger \in SUBSET Periods, NEW ps, NEW t \in Nat, NEW e, NEW p
  PROVE  Owns(Release(ledger, ps, t), e, p) <=> p \notin ps /\ Owns(ledger, e, p)
<1> DEFINE after == Release(ledger, ps, t)
<1>1. \A c \in after : \E o \in ledger : c = Closed(o, ps, t)
  BY ReleasedIs
<1>2. \A o \in ledger : Closed(o, ps, t) \in after
  BY ReleasedIs
<1> HIDE DEF after
<1>3. ASSUME Owns(after, e, p) PROVE p \notin ps /\ Owns(ledger, e, p)
  <2>1. PICK c \in after : c.to = Open /\ c.player = p /\ c.entry = e
    BY <1>3 DEF Owns, Current
  <2>2. PICK o \in ledger : c = Closed(o, ps, t)
    BY <1>1
  <2>3. o.to = Open /\ o.player = p /\ o.entry = e /\ p \notin ps
    BY <2>1, <2>2, ClosedFields
  <2> QED BY <2>3 DEF Owns, Current
<1>4. ASSUME p \notin ps, Owns(ledger, e, p) PROVE Owns(after, e, p)
  <2>1. PICK o \in ledger : o.to = Open /\ o.player = p /\ o.entry = e
    BY <1>4 DEF Owns, Current
  <2>2. Closed(o, ps, t).to = Open /\ Closed(o, ps, t).player = p /\ Closed(o, ps, t).entry = e
    BY <1>4, <2>1, ClosedFields
  <2> QED BY <1>2, <2>2 DEF Owns, Current
<1> QED BY <1>3, <1>4 DEF after

LEMMA AcquiredOwners ==
  ASSUME NEW ledger, NEW to, NEW t, NEW e, NEW p
  PROVE  Owns(Acquire(ledger, to, t), e, p) <=> Owns(ledger, e, p) \/ (p \in DOMAIN to /\ to[p] = e)
<1> DEFINE after == Acquire(ledger, to, t)
           Fresh(q) == [player |-> q, entry |-> to[q], from |-> t, to |-> Open]
<1>0. /\ \A o \in ledger : o \in after
      /\ \A q \in DOMAIN to : Fresh(q) \in after
      /\ \A o \in after : o \in ledger \/ \E q \in DOMAIN to : o = Fresh(q)
  BY DEF Acquire
<1>1. \A q : Fresh(q).player = q /\ Fresh(q).entry = to[q] /\ Fresh(q).to = Open
  OBVIOUS
<1> HIDE DEF after, Fresh
<1>2. ASSUME Owns(after, e, p) PROVE Owns(ledger, e, p) \/ (p \in DOMAIN to /\ to[p] = e)
  <2>1. PICK o \in after : o.to = Open /\ o.player = p /\ o.entry = e
    BY <1>2 DEF Owns, Current
  <2>2. CASE o \in ledger
    BY <2>1, <2>2 DEF Owns, Current
  <2>3. CASE \E q \in DOMAIN to : o = Fresh(q)
    BY <1>1, <2>1, <2>3
  <2> QED BY <1>0, <2>2, <2>3
<1>3. ASSUME Owns(ledger, e, p) PROVE Owns(after, e, p)
  BY <1>0, <1>3 DEF Owns, Current
<1>4. ASSUME p \in DOMAIN to, to[p] = e PROVE Owns(after, e, p)
  <2>1. Fresh(p) \in after /\ Fresh(p).to = Open /\ Fresh(p).player = p /\ Fresh(p).entry = e
    BY <1>0, <1>1, <1>4
  <2> QED BY <2>1 DEF Owns, Current
<1> QED BY <1>2, <1>3, <1>4 DEF after

LEMMA ExchangedOwners ==
  ASSUME NEW ledger \in SUBSET Periods, NEW ps, NEW to, NEW t \in Nat, NEW e, NEW p
  PROVE  Owns(Acquire(Release(ledger, ps, t), to, t), e, p) <=>
           (p \notin ps /\ Owns(ledger, e, p)) \/ (p \in DOMAIN to /\ to[p] = e)
BY ReleasedOwners, AcquiredOwners

-----------------------------------------------------------------------------
(***************************************************************************)
(* While no draft, no trade and no lock may move a player, the owners stay. *)
(***************************************************************************)
LEMMA ClosedWindowKeepsOwners ==
  ASSUME LedgerTyped, DraftsTyped, Phases, DraftNext, window = "closed", midState \in BeforeDraft
  PROVE  UNCHANGED periods
<1>0. ~drafts["midseason"].accepted
  BY DEF Phases
<1>1. \A k \in Kinds : ~(Running(k) /\ WindowAllows(k))
  BY <1>0 DEF Kinds, Running, WindowAllows
<1>2. ~\E k \in Kinds, e \in Entries, p \in Players, at \in Instants : ExecutePick(k, e, p, at)
  BY <1>1 DEF ExecutePick
<1>3. ~\E k \in Kinds : \E n \in Completed(k), at \in Instants : CorrectPick(k, n, at)
  BY <1>1 DEF CorrectPick
<1> QED BY <1>2, <1>3 DEF DraftNext, Tick, EligibilityChanges, ConfigureSquadLimit, AcceptOrder,
     Pause, Resume, FinalizePreseason, ReopenPreseason, TransferPick

LEMMA LedgerOverlap == LedgerTyped => NoOverlap(periods)
BY DEF LedgerTyped

LEMMA FrozenInit == SquadsInit => FrozenSquadsStand
BY DEF SquadsInit, PreseasonInit, DraftInit, FrozenSquadsStand

LEMMA FrozenPreseason ==
  ASSUME LedgerTyped, DraftsTyped, Phases, NoOverlap(periods), FrozenSquadsStand,
         PreseasonNext, UNCHANGED midseasonVars
  PROVE  FrozenSquadsStand'
<1> SUFFICES ASSUME window' = "closed", midState \in Early, NEW f \in Entries
             PROVE  opening'[f] = Squad(periods', f)
  BY DEF FrozenSquadsStand, Early, midseasonVars
<1>0. midState \in BeforeDraft
  BY DEF BeforeDraft
<1>1. window = "closed" => \A e \in Entries : opening[e] = Squad(periods, e)
  BY DEF FrozenSquadsStand, Early
<1>2. CASE DraftNext /\ UNCHANGED <<opening, version>>
  <2>1. window = "closed"
    BY <1>2, AcceptedStays
  <2>2. periods' = periods
    BY <1>0, <1>2, <2>1, ClosedWindowKeepsOwners
  <2> QED BY <1>1, <1>2, <2>1, <2>2
<1>3. CASE OpenWindow
  BY <1>3 DEF OpenWindow
<1>4. CASE \E to \in Moves, at \in Instants : SubmitTrade(to, at)
  BY <1>4 DEF SubmitTrade
<1>5. CASE CloseWindow
  BY <1>5 DEF CloseWindow
<1>6. CASE \E e \in Entries, out, in \in Players, at \in Instants : CorrectOpeningSnapshot(e, out, in, at)
  <2>1. PICK e \in Entries, out \in Players, in \in Players, at \in Instants : CorrectOpeningSnapshot(e, out, in, at)
    BY <1>6
  <2>2. /\ window = "closed" /\ out \in opening[e]
        /\ periods' = Acquire(Release(periods, {out}, at), [q \in {in} |-> e], at)
        /\ opening' = [[opening EXCEPT ![e] = @ \ {out}] EXCEPT ![e] = @ \cup {in}]
    BY <2>1 DEF CorrectOpeningSnapshot
  <2>3. opening'[f] = IF f = e THEN (opening[e] \ {out}) \cup {in} ELSE opening[f]
    BY <2>2 DEF Phases
  <2>4. Owns(periods, e, out)
    BY <1>1, <2>2, SquadIs
  <2>5. periods \in SUBSET Periods /\ at \in Nat
    BY DEF LedgerTyped, Instants
  <2>6. Squad(periods', f) = IF f = e THEN (Squad(periods, e) \ {out}) \cup {in} ELSE Squad(periods, f)
    <3> DEFINE to == [q \in {in} |-> e]
    <3>1. DOMAIN to = {in} /\ \A q \in DOMAIN to : to[q] = e
      OBVIOUS
    <3>2. periods' = Acquire(Release(periods, {out}, at), to, at)
      BY <2>2
    <3> HIDE DEF to
    <3>3. \A p : Owns(periods', f, p) <=> (p # out /\ Owns(periods, f, p)) \/ (p \in DOMAIN to /\ to[p] = f)
      BY <2>5, <3>2, ExchangedOwners
    <3>4. f # e => ~Owns(periods, f, out)
      BY <2>4, OwnerIsUnique
    <3>5. \A p : Owns(periods', f, p) <=>
            IF f = e THEN (p # out /\ Owns(periods, e, p)) \/ p = in ELSE Owns(periods, f, p)
      BY <3>1, <3>3, <3>4
    <3>6. \A p : p \in Squad(periods', f) <=>
            p \in IF f = e THEN (Squad(periods, e) \ {out}) \cup {in} ELSE Squad(periods, f)
      BY <3>5, SquadIs
    <3> QED BY <3>6
  <2> QED BY <1>1, <2>2, <2>3, <2>6
<1> QED BY <1>2, <1>3, <1>4, <1>5, <1>6 DEF PreseasonNext

LEMMA FrozenStep ==
  ASSUME LedgerTyped, DraftsTyped, Phases, NoOverlap(periods), FrozenSquadsStand, [SquadsNext]_squadVars
  PROVE  FrozenSquadsStand'
<1>1. CASE PreseasonNext /\ UNCHANGED midseasonVars
  BY <1>1, FrozenPreseason
<1>2. CASE LadderNext
  BY <1>2 DEF LadderNext, SetTrigger, CheckTrigger, ConfirmLadder, OverrideDraftOrder,
     OpenDelistingWindow, preseasonVars, draftVars, FrozenSquadsStand
<1>3. CASE TradingNext
  <2>1. UNCHANGED <<opening, window, midState>> /\ (midState \in Early => UNCHANGED periods)
    BY <1>3 DEF TradingNext, SubmitDelisting, WithdrawDelisting, ProposeTrade, RejectTrade, ApproveTrade,
       ReverseTradeApproval, preseasonVars, draftVars, Early
  <2> QED BY <2>1 DEF FrozenSquadsStand, Early
<1>4. CASE LockDelistings \/ GenerateSelectionTable \/ ReopenDraft \/ ClosePostDraftTrading
  BY <1>4 DEF LockDelistings, GenerateSelectionTable, ReopenDraft, ClosePostDraftTrading, FrozenSquadsStand
<1>5. CASE FinalizeMidseason \/ ReadCompletion \/ CompleteDraft
  BY <1>5 DEF FinalizeMidseason, ReadCompletion, CompleteDraft, preseasonVars, draftVars, midseasonVars, FrozenSquadsStand
<1>6. CASE UNCHANGED squadVars
  BY <1>6 DEF squadVars, preseasonVars, draftVars, midseasonVars, FrozenSquadsStand
<1> QED BY <1>1, <1>2, <1>3, <1>4, <1>5, <1>6 DEF SquadsNext, SelectionNext

-----------------------------------------------------------------------------
(***************************************************************************)
(* What is delisted.                                                        *)
(***************************************************************************)
LEMMA MovedAreNotDelisted ==
  ASSUME LedgerTyped, NEW to, MovePlayers(to), \A d \in delisted : Owns(periods, d.entry, d.player)
  PROVE  \A d \in delisted' : Owns(periods', d.entry, d.player)
<1>1. /\ periods' = Acquire(Release(periods, DOMAIN to, clock), to, clock)
      /\ delisted' = {d \in delisted : d.player \notin DOMAIN to}
  BY DEF MovePlayers, Trade
<1> TAKE d \in delisted'
<1>2. d \in delisted /\ d.player \notin DOMAIN to
  BY <1>1
<1>3. periods \in SUBSET Periods /\ clock \in Nat
  BY DEF LedgerTyped
<1> QED BY <1>1, <1>2, <1>3, ExchangedOwners

LEMMA DelistedInit == SquadsInit => DelistedAreOwned
BY DEF SquadsInit, PreseasonInit, DraftInit, MidseasonInit, DelistedAreOwned

LEMMA DelistedStep ==
  ASSUME LedgerTyped, DraftsTyped, Phases, DelistedAreOwned, [SquadsNext]_squadVars
  PROVE  DelistedAreOwned'
<1>1. CASE PreseasonNext /\ UNCHANGED midseasonVars
  <2> SUFFICES ASSUME midState = "delisting_open", version' = 1
               PROVE  UNCHANGED periods /\ version = 1
    BY <1>1 DEF DelistedAreOwned, midseasonVars
  <2>0. window = "closed" /\ version >= 1 /\ version \in Nat /\ midState \in BeforeDraft
    BY DEF Phases, BeforeDraft
  <2>1. CASE DraftNext /\ UNCHANGED <<opening, version>>
    BY <2>0, <2>1, ClosedWindowKeepsOwners
  <2>2. CASE OpenWindow \/ CloseWindow \/ \E to \in Moves, at \in Instants : SubmitTrade(to, at)
    BY <2>0, <2>2 DEF OpenWindow, CloseWindow, SubmitTrade
  <2>3. CASE \E e \in Entries, out, in \in Players, at \in Instants : CorrectOpeningSnapshot(e, out, in, at)
    BY <2>0, <2>3 DEF CorrectOpeningSnapshot
  <2> QED BY <1>1, <2>1, <2>2, <2>3 DEF PreseasonNext
<1>2. CASE LadderNext
  <2>1. UNCHANGED <<periods, version, delisted>>
    BY <1>2 DEF LadderNext, SetTrigger, CheckTrigger, ConfirmLadder, OverrideDraftOrder,
       OpenDelistingWindow, preseasonVars, draftVars
  <2>2. midState' = "delisting_open" => midState = "delisting_open" \/ delisted = {}
    BY <1>2 DEF LadderNext, SetTrigger, CheckTrigger, ConfirmLadder, OverrideDraftOrder,
       OpenDelistingWindow, Phases, Early
  <2> QED BY <2>1, <2>2 DEF DelistedAreOwned
<1>3. CASE TradingNext
  <2> SUFFICES ASSUME midState = "delisting_open", version = 1,
                      \A d \in delisted : Owns(periods, d.entry, d.player)
               PROVE  \A d \in delisted' : Owns(periods', d.entry, d.player)
    BY <1>3 DEF DelistedAreOwned, TradingNext, SubmitDelisting, WithdrawDelisting, ProposeTrade, RejectTrade,
       ApproveTrade, ReverseTradeApproval, preseasonVars, draftVars
  <2>1. CASE \E e \in Entries, p \in Players : SubmitDelisting(e, p)
    BY <2>1 DEF SubmitDelisting, preseasonVars, draftVars
  <2>2. CASE \/ \E d \in delisted : WithdrawDelisting(d)
             \/ \E to \in Moves \cup {<<>>}, picks \in PickTrades : ProposeTrade(to, picks)
             \/ \E i \in DOMAIN trades : RejectTrade(i)
    BY <2>2 DEF WithdrawDelisting, ProposeTrade, RejectTrade, preseasonVars, draftVars
  <2>3. CASE \E i \in DOMAIN trades : ApproveTrade(i) \/ ReverseTradeApproval(i)
    <3>1. PICK i \in DOMAIN trades : ApproveTrade(i) \/ ReverseTradeApproval(i)
      BY <2>3
    <3>2. MovePlayers(trades[i].to) \/ MovePlayers(trades[i].from)
      BY <3>1 DEF ApproveTrade, ReverseTradeApproval
    <3> QED BY <3>2, MovedAreNotDelisted
  <2> QED BY <1>3, <2>1, <2>2, <2>3 DEF TradingNext
<1>4. CASE LockDelistings \/ GenerateSelectionTable \/ ReopenDraft \/ ClosePostDraftTrading
  BY <1>4 DEF LockDelistings, GenerateSelectionTable, ReopenDraft, ClosePostDraftTrading, DelistedAreOwned
<1>5. CASE FinalizeMidseason \/ ReadCompletion \/ CompleteDraft
  BY <1>5 DEF FinalizeMidseason, ReadCompletion, CompleteDraft, preseasonVars, draftVars, midseasonVars, DelistedAreOwned
<1>6. CASE UNCHANGED squadVars
  BY <1>6 DEF squadVars, preseasonVars, draftVars, midseasonVars, DelistedAreOwned
<1> QED BY <1>1, <1>2, <1>3, <1>4, <1>5, <1>6 DEF SquadsNext, SelectionNext

\* The squads the season plays from are the ones its snapshot froze, until its
\* delisting window opens: close_window, correct_opening_snapshot and
\* _assert_ownership_mutation_allowed.
THEOREM FrozenSquadsHold == SquadsSpec => []FrozenSquadsStand
<1>1. SquadsInit => LedgerTyped /\ DraftsTyped /\ Turns /\ Phases /\ FrozenSquadsStand
  BY LedgerInit, TurnsInit, PhasesInit, FrozenInit
<1>2. LedgerTyped /\ DraftsTyped /\ Turns /\ Phases /\ FrozenSquadsStand /\ [SquadsNext]_squadVars
        => (LedgerTyped /\ DraftsTyped /\ Turns /\ Phases /\ FrozenSquadsStand)'
  BY LedgerStep, TurnsStep, PhasesStep, LedgerOverlap, FrozenStep
<1> QED BY <1>1, <1>2, PTL DEF SquadsSpec

\* What stands delisted is still owned by the entry that delisted it, through
\* every trade and reversal: decide_trade, reverse_trade_approval,
\* lock_delistings.
THEOREM DelistedStayOwned == SquadsSpec => []DelistedAreOwned
<1>1. SquadsInit => LedgerTyped /\ DraftsTyped /\ Turns /\ Phases /\ DelistedAreOwned
  BY LedgerInit, TurnsInit, PhasesInit, DelistedInit
<1>2. LedgerTyped /\ DraftsTyped /\ Turns /\ Phases /\ DelistedAreOwned /\ [SquadsNext]_squadVars
        => (LedgerTyped /\ DraftsTyped /\ Turns /\ Phases /\ DelistedAreOwned)'
  BY LedgerStep, TurnsStep, PhasesStep, DelistedStep
<1> QED BY <1>1, <1>2, PTL DEF SquadsSpec

-----------------------------------------------------------------------------
(***************************************************************************)
(* Counting squads.  A squad is counted at the last instant at which its    *)
(* entry acquired somebody, so the proofs need that instant to exist: a     *)
(* set of natural numbers has a least element, and a bounded one a          *)
(* greatest.                                                                *)
(***************************************************************************)
LEMMA LeastOf ==
  ASSUME NEW T \in SUBSET Nat, T # {}
  PROVE  \E x \in T : \A y \in T : x <= y
<1> DEFINE R == OpToRel(<, Nat)
<1>1. IsWellFoundedOn(R, Nat)
  BY NatLessThanWellFounded
<1>2. \A x, y \in Nat : <<y, x>> \in R <=> y < x
  BY DEF OpToRel
<1> HIDE DEF R
<1>3. PICK x \in T : \A y \in T : ~ (<<y, x>> \in R)
  BY <1>1, WFMin, Zenon
<1>4. \A y \in T : ~(y < x)
  BY <1>2, <1>3
<1> QED BY <1>4

LEMMA LatestOf ==
  ASSUME NEW T \in SUBSET Nat, T # {}, NEW n \in Nat, \A x \in T : x <= n
  PROVE  \E x \in T : \A y \in T : y <= x
<1> DEFINE D == {n - x : x \in T}
<1>1. D \in SUBSET Nat
  OBVIOUS
<1>2. D # {}
  <2>1. PICK x \in T : TRUE
    OBVIOUS
  <2>2. n - x \in D
    OBVIOUS
  <2> QED BY <2>2
<1>3. PICK d \in D : \A y \in D : d <= y
  BY <1>1, <1>2, LeastOf
<1>4. PICK x \in T : d = n - x
  OBVIOUS
<1>5. \A y \in T : n - x <= n - y
  BY <1>3, <1>4
<1>6. \A y \in T : y <= x
  BY <1>5
<1> QED BY <1>6

\* A ledger of finitely many periods, none of which begins after t.
Counted(ledger, t) == IsFiniteSet(ledger) /\ \A o \in ledger : o.from <= t

\* The current periods of one entry.
Held(ledger, e) == {o \in Current(ledger) : o.entry = e}

LEMMA SquadCount ==
  ASSUME NEW ledger \in SUBSET Periods, IsFiniteSet(ledger), NEW e
  PROVE  /\ IsFiniteSet(Squad(ledger, e)) /\ IsFiniteSet(Held(ledger, e))
         /\ Cardinality(Squad(ledger, e)) \in Nat
         /\ Cardinality(Squad(ledger, e)) <= Cardinality(Held(ledger, e))
<1> DEFINE f == [o \in Held(ledger, e) |-> o.player]
<1>1. IsFiniteSet(Held(ledger, e))
  BY FS_Subset DEF Held, Current
<1>2. Squad(ledger, e) = {o.player : o \in Held(ledger, e)}
  BY DEF Squad, Held
<1>3. f \in Surjection(Held(ledger, e), Squad(ledger, e))
  BY <1>2 DEF Surjection
<1>4. IsFiniteSet(Squad(ledger, e)) /\ Cardinality(Squad(ledger, e)) <= Cardinality(Held(ledger, e))
  BY <1>1, <1>3, FS_Surjection
<1> QED BY <1>1, <1>4, FS_CardinalityType

\* A squad within the limit when its entry last acquired somebody is within it.
LEMMA WithinAtLast ==
  ASSUME NEW ledger \in SUBSET Periods, IsFiniteSet(ledger), NEW e, NEW s \in Nat, NEW n \in Nat,
         \A o \in Held(ledger, e) : o.from <= s,
         Cardinality(SquadAt(ledger, e, s)) <= n
  PROVE  Cardinality(Squad(ledger, e)) <= n
<1>1. IsFiniteSet(SquadAt(ledger, e, s))
  BY FS_Subset DEF SquadAt
<1>2. Held(ledger, e) \subseteq SquadAt(ledger, e, s)
  BY DEF Held, Current, SquadAt, Holds, EndsAfter
<1>3. Cardinality(Held(ledger, e)) <= Cardinality(SquadAt(ledger, e, s))
  BY <1>1, <1>2, FS_Subset
<1>4. /\ Cardinality(Held(ledger, e)) \in Nat /\ Cardinality(SquadAt(ledger, e, s)) \in Nat
      /\ Cardinality(Squad(ledger, e)) \in Nat
      /\ Cardinality(Squad(ledger, e)) <= Cardinality(Held(ledger, e))
  BY <1>1, SquadCount, FS_CardinalityType
<1> QED BY <1>3, <1>4

LEMMA FitsWithin ==
  ASSUME NEW ledger \in SUBSET Periods, NEW c \in Nat, Counted(ledger, c), NEW e, NEW t \in Nat, t <= c,
         NEW n \in Nat, Fits(ledger, e, t, n)
  PROVE  Cardinality(Squad(ledger, e)) <= n
<1> DEFINE starts == {t} \cup {o.from : o \in Held(ledger, e)}
<1>1. \A o \in ledger : o.from \in Nat /\ o.from <= c
  BY PeriodFields DEF Counted
<1>2. starts \in SUBSET Nat /\ starts # {} /\ \A x \in starts : x <= c
  BY <1>1 DEF Held, Current
<1>3. PICK s \in starts : \A y \in starts : y <= s
  BY <1>2, LatestOf
<1>4. s \in Nat /\ t <= s /\ \A o \in Held(ledger, e) : o.from <= s
  BY <1>2, <1>3
<1>5. s \in {t} \cup {o.from : o \in {d \in ledger : d.entry = e /\ d.from >= t}}
  <2>1. CASE s = t
    BY <2>1
  <2>2. CASE s # t
    <3>1. PICK o \in Held(ledger, e) : s = o.from
      BY <2>2
    <3>2. o \in ledger /\ o.entry = e /\ o.from >= t
      BY <1>1, <1>4, <3>1 DEF Held, Current
    <3> QED BY <3>1, <3>2
  <2> QED BY <2>1, <2>2
<1>6. Cardinality(SquadAt(ledger, e, s)) <= n
  BY <1>5 DEF Fits
<1> QED BY <1>4, <1>6, WithinAtLast DEF Counted

LEMMA LargestWithin ==
  ASSUME NEW ledger \in SUBSET Periods, NEW c \in Nat, Counted(ledger, c), NEW e,
         NEW n \in Nat, LargestSquadWithin(ledger, e, n)
  PROVE  Cardinality(Squad(ledger, e)) <= n
<1> DEFINE starts == {o.from : o \in Held(ledger, e)}
<1>1. \A o \in ledger : o.from \in Nat /\ o.from <= c
  BY PeriodFields DEF Counted
<1>2. CASE Held(ledger, e) = {}
  <2>1. Squad(ledger, e) = {}
    BY <1>2 DEF Squad, Held
  <2> QED BY <2>1, FS_EmptySet
<1>3. CASE Held(ledger, e) # {}
  <2>1. starts \in SUBSET Nat /\ starts # {} /\ \A x \in starts : x <= c
    BY <1>1, <1>3 DEF Held, Current
  <2>2. PICK s \in starts : \A y \in starts : y <= s
    BY <2>1, LatestOf
  <2>3. PICK o \in Held(ledger, e) : s = o.from
    BY <2>2
  <2>4. Cardinality(SquadAt(ledger, e, s)) <= n
    BY <2>3 DEF LargestSquadWithin, Held, Current
  <2> QED BY <2>1, <2>2, <2>4, WithinAtLast DEF Counted
<1> QED BY <1>2, <1>3

LEMMA ReleaseCounts ==
  ASSUME NEW ledger \in SUBSET Periods, NEW c, Counted(ledger, c), NEW ps, NEW t \in Nat
  PROVE  Counted(Release(ledger, ps, t), c) /\ Release(ledger, ps, t) \in SUBSET Periods
<1> DEFINE after == {Closed(o, ps, t) : o \in ledger}
           f == [o \in ledger |-> Closed(o, ps, t)]
<1>1. f \in Surjection(ledger, after)
  BY DEF Surjection
<1>2. IsFiniteSet(after)
  BY <1>1, FS_Surjection DEF Counted
<1>3. \A o \in after : o \in Periods /\ o.from <= c
  BY ClosedFields DEF Counted
<1> QED BY <1>2, <1>3, ReleasedIs DEF Counted

LEMMA AcquireCounts ==
  ASSUME NEW ledger \in SUBSET Periods, NEW c, Counted(ledger, c), NEW to, Handover(to),
         IsFiniteSet(DOMAIN to), NEW t \in Nat, t <= c
  PROVE  Counted(Acquire(ledger, to, t), c) /\ Acquire(ledger, to, t) \in SUBSET Periods
<1> DEFINE Fresh(p) == [player |-> p, entry |-> to[p], from |-> t, to |-> Open]
           new == {Fresh(p) : p \in DOMAIN to}
           f == [p \in DOMAIN to |-> Fresh(p)]
<1>1. f \in Surjection(DOMAIN to, new)
  BY DEF Surjection
<1>2. IsFiniteSet(new)
  BY <1>1, FS_Surjection
<1>3. \A o \in new : o \in Periods /\ o.from <= c
  BY DEF Periods, Handover
<1>4. Acquire(ledger, to, t) = ledger \cup new
  BY DEF Acquire
<1> HIDE DEF new
<1> QED BY <1>2, <1>3, <1>4, FS_Union DEF Counted

\* The players of a ledger are finitely many.
LEMMA MoversAreFinite ==
  ASSUME NEW ledger, IsFiniteSet(ledger), NEW ps, \A p \in ps : \E o \in ledger : o.player = p
  PROVE  IsFiniteSet(ps)
<1> DEFINE all == {o.player : o \in ledger}
           f == [o \in ledger |-> o.player]
<1>1. f \in Surjection(ledger, all)
  BY DEF Surjection
<1>2. IsFiniteSet(all) /\ ps \subseteq all
  BY <1>1, FS_Surjection
<1> HIDE DEF all
<1> QED BY <1>2, FS_Subset

\* An entry that receives nobody keeps at most the squad it has.
LEMMA OthersShrink ==
  ASSUME NEW ledger \in SUBSET Periods, IsFiniteSet(ledger), NEW after,
         NEW e, \A p : Owns(after, e, p) => Owns(ledger, e, p)
  PROVE  IsFiniteSet(Squad(after, e)) /\ Cardinality(Squad(after, e)) <= Cardinality(Squad(ledger, e))
<1>1. Squad(after, e) \subseteq Squad(ledger, e)
  BY SquadIs
<1> QED BY <1>1, SquadCount, FS_Subset

-----------------------------------------------------------------------------
(***************************************************************************)
(* The limit.                                                               *)
(***************************************************************************)
Within(ledger, n) == \A e \in Entries : Cardinality(Squad(ledger, e)) <= n

\* The ledger is finite and no period of it begins in the future.
LedgerCounted == Counted(periods, clock)

\* An operation counts the squads of the entries it gives players to; the
\* other squads only shrink.
LEMMA ReceiversDecide ==
  ASSUME LedgerTyped, LedgerCounted, NEW n \in Nat, Within(periods, n),
         NEW after \in SUBSET Periods, NEW Receivers,
         \A e \in Receivers : Cardinality(Squad(after, e)) <= n,
         \A e \in Entries \ Receivers : \A p : Owns(after, e, p) => Owns(periods, e, p),
         IsFiniteSet(after)
  PROVE  Within(after, n)
<1> SUFFICES ASSUME NEW e \in Entries PROVE Cardinality(Squad(after, e)) <= n
  BY DEF Within
<1>1. CASE e \in Receivers
  BY <1>1
<1>2. CASE e \notin Receivers
  <2>1. /\ Cardinality(Squad(after, e)) <= Cardinality(Squad(periods, e))
        /\ Cardinality(Squad(periods, e)) <= n
    BY <1>2, OthersShrink DEF LedgerTyped, LedgerCounted, Counted, Within
  <2>2. Cardinality(Squad(after, e)) \in Nat /\ Cardinality(Squad(periods, e)) \in Nat
    BY SquadCount DEF LedgerTyped, LedgerCounted, Counted
  <2> QED BY <2>1, <2>2
<1> QED BY <1>1, <1>2

LEMMA ReleaseLimits ==
  ASSUME LedgerTyped, LedgerCounted, NEW ps, NEW at \in Nat, periods' = Release(periods, ps, at)
  PROVE  /\ Counted(periods', clock)
         /\ \A n \in Nat : Within(periods, n) => Within(periods', n)
<1>1. Counted(periods', clock) /\ periods' \in SUBSET Periods
  BY ReleaseCounts DEF LedgerTyped, LedgerCounted
<1>2. \A e, p : Owns(periods', e, p) => Owns(periods, e, p)
  BY ReleasedOwners DEF LedgerTyped
<1>3. ASSUME NEW n \in Nat, Within(periods, n) PROVE Within(periods', n)
  <2> DEFINE Receivers == {}
  <2>1. \A e \in Receivers : Cardinality(Squad(periods', e)) <= n
    OBVIOUS
  <2>2. \A e \in Entries \ Receivers : \A p : Owns(periods', e, p) => Owns(periods, e, p)
    BY <1>2
  <2> HIDE DEF Receivers
  <2> QED BY <1>1, <1>3, <2>1, <2>2, ReceiversDecide DEF Counted
<1> QED BY <1>1, <1>3

\* The entries that to names.
Receiving(to) == {to[p] : p \in DOMAIN to}

LEMMA ExchangeLimits ==
  ASSUME LedgerTyped, LedgerCounted, NEW ps, NEW to, Handover(to), IsFiniteSet(DOMAIN to),
         NEW at \in Nat, at <= clock,
         periods' = Acquire(Release(periods, ps, at), to, at)
  PROVE  /\ Counted(periods', clock) /\ periods' \in SUBSET Periods
         /\ \A n \in Nat :
              /\ Within(periods, n)
              /\ \A e \in Receiving(to) : Cardinality(Squad(periods', e)) <= n
              => Within(periods', n)
<1> DEFINE mid == Release(periods, ps, at)
<1>1. Counted(mid, clock) /\ mid \in SUBSET Periods
  BY ReleaseCounts DEF LedgerTyped, LedgerCounted
<1>2. Counted(periods', clock) /\ periods' \in SUBSET Periods
  <2> HIDE DEF mid
  <2> QED BY <1>1, AcquireCounts DEF mid
<1>3. \A e \in Entries \ Receiving(to) : \A p : Owns(periods', e, p) => Owns(periods, e, p)
  BY ExchangedOwners DEF LedgerTyped, Receiving
<1>4. ASSUME NEW n \in Nat, Within(periods, n),
             \A e \in Receiving(to) : Cardinality(Squad(periods', e)) <= n
      PROVE  Within(periods', n)
  BY <1>2, <1>3, <1>4, ReceiversDecide DEF Counted
<1> QED BY <1>2, <1>4

LEMMA PickLimits ==
  ASSUME LedgerTyped, DraftsTyped, LedgerCounted, NEW k \in Kinds, NEW e \in Entries, NEW p \in Players,
         NEW at \in Instants, ExecutePick(k, e, p, at)
  PROVE  Counted(periods', clock) /\ (Within(periods, limit) => Within(periods', limit))
<1> DEFINE to == [q \in {p} |-> e]
<1>1. Handover(to) /\ DOMAIN to = {p} /\ IsFiniteSet(DOMAIN to) /\ to[p] = e
  BY FS_Singleton DEF Handover
<1>2. periods' = Acquire(periods, to, at) /\ Fits(periods', e, at, limit)
  BY DEF ExecutePick, AcquirableFor
<1>3. at \in Nat /\ at <= clock /\ clock \in Nat
  BY DEF Instants, LedgerTyped
<1> HIDE DEF to
<1>4. Counted(periods', clock) /\ periods' \in SUBSET Periods
  BY <1>1, <1>2, <1>3, AcquireCounts DEF LedgerTyped, LedgerCounted
<1>5. Cardinality(Squad(periods', e)) <= limit
  BY <1>2, <1>3, <1>4, FitsWithin DEF DraftsTyped
<1>6. \A f \in Entries \ {e} : \A q : Owns(periods', f, q) => Owns(periods, f, q)
  BY <1>1, <1>2, AcquiredOwners
<1>7. Within(periods, limit) => Within(periods', limit)
  <2> DEFINE Receivers == {e}
  <2>1. \A f \in Receivers : Cardinality(Squad(periods', f)) <= limit
    BY <1>5
  <2>2. \A f \in Entries \ Receivers : \A q : Owns(periods', f, q) => Owns(periods, f, q)
    BY <1>6
  <2> HIDE DEF Receivers
  <2> QED BY <1>4, <2>1, <2>2, ReceiversDecide DEF Counted, DraftsTyped
<1> QED BY <1>4, <1>7

LEMMA DraftLimits ==
  ASSUME LedgerTyped, DraftsTyped, LedgerCounted, DraftNext
  PROVE  Counted(periods', clock') /\ (Within(periods, limit) => Within(periods', limit'))
<1>0. clock \in Nat /\ \A o \in periods : o.from \in Nat
  BY PeriodFields DEF LedgerTyped
<1>1. CASE Tick
  BY <1>0, <1>1 DEF Tick, LedgerCounted, Counted
<1>2. CASE \E n \in Limits : ConfigureSquadLimit(n)
  <2>1. PICK n \in Limits : ConfigureSquadLimit(n)
    BY <1>2
  <2>2. /\ limit' = n /\ UNCHANGED <<periods, clock>> /\ n \in Nat
        /\ \A e \in Entries : LargestSquadWithin(periods, e, n)
    BY <2>1, SeasonDraftAssumption DEF ConfigureSquadLimit
  <2>3. Within(periods, n)
    BY <1>0, <2>2, LargestWithin DEF Within, LedgerCounted, LedgerTyped
  <2> QED BY <2>2, <2>3 DEF LedgerCounted
<1>3. CASE \/ \E p \in Players : EligibilityChanges(p)
           \/ \E o \in Orders : AcceptOrder(o)
           \/ \E k \in Kinds : Pause(k) \/ Resume(k)
           \/ FinalizePreseason \/ ReopenPreseason
           \/ \E n \in Incomplete("preseason"), e \in Entries : TransferPick(n, e)
  <2>1. UNCHANGED <<periods, clock, limit>>
    BY <1>3 DEF EligibilityChanges, AcceptOrder, Pause, Resume, FinalizePreseason, ReopenPreseason, TransferPick
  <2> QED BY <2>1 DEF LedgerCounted
<1>4. CASE \E k \in Kinds, e \in Entries, p \in Players, at \in Instants : ExecutePick(k, e, p, at)
  <2>1. PICK k \in Kinds, e \in Entries, p \in Players, at \in Instants : ExecutePick(k, e, p, at)
    BY <1>4
  <2>2. UNCHANGED <<clock, limit>>
    BY <2>1 DEF ExecutePick
  <2> QED BY <2>1, <2>2, PickLimits
<1>5. CASE \E k \in Kinds : \E n \in Completed(k), at \in Instants : CorrectPick(k, n, at)
  <2>1. PICK k \in Kinds : \E n \in Completed(k), at \in Instants : CorrectPick(k, n, at)
    BY <1>5
  <2>2. PICK n \in Completed(k), at \in Instants : CorrectPick(k, n, at)
    BY <2>1
  <2>3. periods' = Release(periods, {drafts[k].picks[n].player}, at) /\ UNCHANGED <<clock, limit>>
    BY <2>2 DEF CorrectPick
  <2>4. at \in Nat
    BY <1>0 DEF Instants
  <2> QED BY <2>3, <2>4, ReleaseLimits DEF DraftsTyped
<1> QED BY <1>1, <1>2, <1>3, <1>4, <1>5 DEF DraftNext

LEMMA TradeLimits ==
  ASSUME LedgerTyped, LedgerCounted, NEW to, Handover(to), NEW at \in Nat, at <= clock, Trade(to, at)
  PROVE  /\ Counted(periods', clock) /\ periods' \in SUBSET Periods
         /\ \A n \in Nat :
              /\ Within(periods, n)
              /\ \A e \in Receiving(to) : Cardinality(Squad(periods', e)) <= n
              => Within(periods', n)
<1>1. periods' = Acquire(Release(periods, DOMAIN to, at), to, at)
  BY DEF Trade
<1>2. \A p \in DOMAIN to : \E o \in periods : o.player = p
  BY DEF Trade, Releasable, Current
<1>3. IsFiniteSet(DOMAIN to)
  BY <1>2, MoversAreFinite DEF LedgerCounted, Counted
<1> QED BY <1>1, <1>3, ExchangeLimits

LEMMA PreseasonLimits ==
  ASSUME LedgerTyped, DraftsTyped, LedgerCounted, PreseasonNext
  PROVE  Counted(periods', clock') /\ (Within(periods, limit) => Within(periods', limit'))
<1>0. clock \in Nat /\ limit \in Nat /\ \A at \in Instants : at \in Nat /\ at <= clock
  BY DEF LedgerTyped, DraftsTyped, Instants
<1>1. CASE DraftNext
  BY <1>1, DraftLimits
<1>2. CASE OpenWindow \/ CloseWindow
  BY <1>2 DEF OpenWindow, CloseWindow, LedgerCounted
<1>3. CASE \E to \in Moves, at \in Instants : SubmitTrade(to, at)
  <2>1. PICK to \in Moves, at \in Instants : SubmitTrade(to, at)
    BY <1>3
  <2>2. /\ Handover(to) /\ Trade(to, at) /\ UNCHANGED <<clock, limit>>
        /\ \A p \in DOMAIN to : Fits(periods', to[p], at, limit)
    BY <2>1, MovesAre, HandoversAre DEF SubmitTrade
  <2>3. Counted(periods', clock) /\ periods' \in SUBSET Periods
    BY <1>0, <2>2, TradeLimits
  <2>4. \A e \in Receiving(to) : Cardinality(Squad(periods', e)) <= limit
    BY <1>0, <2>2, <2>3, FitsWithin DEF Receiving
  <2> QED BY <1>0, <2>2, <2>3, <2>4, TradeLimits
<1>4. CASE \E e \in Entries, out, in \in Players, at \in Instants : CorrectOpeningSnapshot(e, out, in, at)
  <2>1. PICK e \in Entries, out \in Players, in \in Players, at \in Instants : CorrectOpeningSnapshot(e, out, in, at)
    BY <1>4
  <2> DEFINE to == [q \in {in} |-> e]
  <2>2. Handover(to) /\ DOMAIN to = {in} /\ IsFiniteSet(DOMAIN to) /\ Receiving(to) = {e}
    BY FS_Singleton DEF Handover, Receiving
  <2>3. /\ periods' = Acquire(Release(periods, {out}, at), to, at)
        /\ Fits(periods', e, at, limit) /\ UNCHANGED <<clock, limit>>
    BY <2>1 DEF CorrectOpeningSnapshot
  <2> HIDE DEF to
  <2>4. Counted(periods', clock) /\ periods' \in SUBSET Periods
    BY <1>0, <2>2, <2>3, ExchangeLimits
  <2>5. \A f \in Receiving(to) : Cardinality(Squad(periods', f)) <= limit
    BY <1>0, <2>2, <2>3, <2>4, FitsWithin
  <2> QED BY <1>0, <2>2, <2>3, <2>4, <2>5, ExchangeLimits
<1> QED BY <1>1, <1>2, <1>3, <1>4 DEF PreseasonNext

\* The trades of the mid-season, approved or reversed.
LEMMA MoveLimits ==
  ASSUME LedgerTyped, LedgerCounted, NEW to, Handover(to), MovePlayers(to)
  PROVE  /\ Counted(periods', clock)
         /\ \A n \in Nat :
              /\ Within(periods, n)
              /\ \A e \in Receiving(to) : Cardinality(Squad(periods', e)) <= n
              => Within(periods', n)
<1>1. clock \in Nat /\ clock <= clock /\ Trade(to, clock)
  BY DEF LedgerTyped, MovePlayers
<1> QED BY <1>1, TradeLimits

LEMMA RowsMove ==
  ASSUME LedgerTyped, NEW i \in DOMAIN trades
  PROVE  Handover(trades[i].to) /\ Handover(trades[i].from)
<1>1. trades[i] \in TradeRows
  BY DEF LedgerTyped
<1> QED BY <1>1, HandoversAre DEF TradeRows

LEMMA TradingLimits ==
  ASSUME LedgerTyped, DraftsTyped, LedgerCounted, TradingNext
  PROVE  /\ Counted(periods', clock') /\ UNCHANGED <<limit, midState>>
         /\ midState # "delisting_open" /\ Within(periods, limit) => Within(periods', limit')
<1>1. CASE \/ \E e \in Entries, p \in Players : SubmitDelisting(e, p)
           \/ \E d \in delisted : WithdrawDelisting(d)
           \/ \E to \in Moves \cup {<<>>}, picks \in PickTrades : ProposeTrade(to, picks)
           \/ \E i \in DOMAIN trades : RejectTrade(i)
  <2>1. UNCHANGED <<periods, clock, limit, midState>>
    BY <1>1 DEF SubmitDelisting, WithdrawDelisting, ProposeTrade, RejectTrade, preseasonVars, draftVars
  <2> QED BY <2>1 DEF LedgerCounted
<1>2. ASSUME NEW i \in DOMAIN trades, ApproveTrade(i)
      PROVE  /\ Counted(periods', clock') /\ UNCHANGED <<limit, midState>>
             /\ midState # "delisting_open" /\ Within(periods, limit) => Within(periods', limit')
  <2>1. /\ MovePlayers(trades[i].to) /\ UNCHANGED <<clock, limit, midState>>
        /\ \A p \in DOMAIN trades[i].to : Affordable(trades[i].to[p])
    BY <1>2 DEF ApproveTrade
  <2>2. midState # "delisting_open" =>
          \A e \in Receiving(trades[i].to) : Cardinality(Squad(periods', e)) <= limit
    BY <2>1 DEF Receiving, Affordable
  <2>3. limit \in Nat
    BY DEF DraftsTyped
  <2> QED BY <2>1, <2>2, <2>3, RowsMove, MoveLimits
<1>3. ASSUME NEW i \in DOMAIN trades, ReverseTradeApproval(i)
      PROVE  /\ Counted(periods', clock') /\ UNCHANGED <<limit, midState>>
             /\ midState = "delisting_open"
  <2>1. MovePlayers(trades[i].from) /\ UNCHANGED <<clock, limit, midState>> /\ midState = "delisting_open"
    BY <1>3 DEF ReverseTradeApproval
  <2> QED BY <2>1, RowsMove, MoveLimits
<1> QED BY <1>1, <1>2, <1>3 DEF TradingNext

LEMMA SelectionLimits ==
  ASSUME LedgerTyped, DraftsTyped, LedgerCounted, WithinLimit, LadderNext \/ SelectionNext
  PROVE  Counted(periods', clock') /\ WithinLimit'
<1>1. CASE LockDelistings
  <2>1. /\ periods' = Release(periods, {d.player : d \in delisted}, clock)
        /\ Reconciled(periods') /\ UNCHANGED <<clock, limit>>
    BY <1>1 DEF LockDelistings
  <2>2. \A e \in Entries : Cardinality(Squad(periods', e)) <= limit
    BY <2>1 DEF Reconciled
  <2>3. Counted(periods', clock)
    BY <2>1, ReleaseLimits DEF LedgerTyped
  <2> QED BY <2>1, <2>2, <2>3 DEF WithinLimit
<1>2. CASE ~LockDelistings
  <2>1. UNCHANGED <<periods, clock, limit>>
    BY <1>2 DEF LadderNext, SelectionNext, SetTrigger, CheckTrigger, ConfirmLadder, OverrideDraftOrder,
       OpenDelistingWindow, GenerateSelectionTable, FinalizeMidseason, ReadCompletion, CompleteDraft,
       ReopenDraft, ClosePostDraftTrading, preseasonVars, draftVars, midseasonVars
  <2>2. midState' # "delisting_open" => midState # "delisting_open"
    BY <1>2 DEF LadderNext, SelectionNext, SetTrigger, CheckTrigger, ConfirmLadder, OverrideDraftOrder,
       OpenDelistingWindow, GenerateSelectionTable, FinalizeMidseason, ReadCompletion, CompleteDraft,
       ReopenDraft, ClosePostDraftTrading, midseasonVars
  <2> QED BY <2>1, <2>2 DEF LedgerCounted, WithinLimit
<1> QED BY <1>1, <1>2

LEMMA LimitStep ==
  ASSUME LedgerTyped, DraftsTyped, LedgerCounted, WithinLimit, [SquadsNext]_squadVars
  PROVE  LedgerCounted' /\ WithinLimit'
<1>1. CASE PreseasonNext /\ UNCHANGED midseasonVars
  <2>1. midState' = midState
    BY <1>1 DEF midseasonVars
  <2> QED BY <1>1, <2>1, PreseasonLimits DEF LedgerCounted, WithinLimit, Within
<1>2. CASE TradingNext
  BY <1>2, TradingLimits DEF LedgerCounted, WithinLimit, Within
<1>3. CASE LadderNext \/ SelectionNext
  BY <1>3, SelectionLimits DEF LedgerCounted
<1>4. CASE UNCHANGED squadVars
  BY <1>4 DEF squadVars, preseasonVars, draftVars, midseasonVars, LedgerCounted, WithinLimit
<1> QED BY <1>1, <1>2, <1>3, <1>4 DEF SquadsNext

LEMMA LimitInit == SquadsInit => LedgerCounted /\ WithinLimit
<1> SUFFICES ASSUME SquadsInit PROVE LedgerCounted /\ WithinLimit
  OBVIOUS
<1>1. periods = {} /\ limit = 0
  BY DEF SquadsInit, PreseasonInit, DraftInit
<1>2. \A e : Squad(periods, e) = {}
  BY <1>1 DEF Squad, Current
<1> QED BY <1>1, <1>2, FS_EmptySet DEF LedgerCounted, Counted, WithinLimit

\* No squad passes the limit but while a lock of the delistings is to come,
\* whatever drafts, corrections, trades and changes of the limit came before:
\* validate_squad_capacity, decide_trade and lock_delistings.
THEOREM SquadsStayWithinLimit == SquadsSpec => []WithinLimit
<1>1. SquadsInit => LedgerTyped /\ DraftsTyped /\ Turns /\ LedgerCounted /\ WithinLimit
  BY LedgerInit, TurnsInit, LimitInit
<1>2. LedgerTyped /\ DraftsTyped /\ Turns /\ LedgerCounted /\ WithinLimit /\ [SquadsNext]_squadVars
        => (LedgerTyped /\ DraftsTyped /\ Turns /\ LedgerCounted /\ WithinLimit)'
  BY LedgerStep, TurnsStep, LimitStep
<1> QED BY <1>1, <1>2, PTL DEF SquadsSpec

-----------------------------------------------------------------------------
(***************************************************************************)
(* The limit a draft was accepted with stays.                               *)
(***************************************************************************)

\* A draft has as many rounds as the limit, a final one was accepted, the
\* window opens after a draft, and the picks of the mid-season are finitely many.
Settled ==
  /\ \A k \in Kinds : /\ drafts[k].accepted => drafts[k].target = limit
                      /\ drafts[k].final => drafts[k].accepted
  /\ window # "none" => \E k \in Kinds : drafts[k].accepted
  /\ IsFiniteSet(DOMAIN drafts["midseason"].picks)

LEMMA PickEffect ==
  ASSUME LedgerTyped, DraftsTyped, NEW k \in Kinds, NEW e \in Entries, NEW p \in Players,
         NEW at \in Instants, ExecutePick(k, e, p, at)
  PROVE  \E n \in DOMAIN drafts[k].picks, pick \in Pick :
           /\ drafts[k].picks[n].owner = e /\ drafts[k].picks[n].player = NoPlayer
           /\ pick.owner = e /\ pick.player = p
           /\ drafts' = WithPick(k, n, pick)
<1> DEFINE t == drafts[k].picks
<1>1. PICK n \in NextPick(k) :
        /\ t[n].owner = e
        /\ drafts' = [drafts EXCEPT ![k].picks[n] = [@ EXCEPT !.player = p, !.at = at]]
  BY DEF ExecutePick
<1>2. n \in DOMAIN t /\ t[n].player = NoPlayer
  BY <1>1 DEF NextPick, Incomplete, Completed
<1>3. t[n] \in Pick /\ at \in Nat
  BY <1>2, PicksTyped, TableIs DEF Instants, LedgerTyped
<1> DEFINE pick == [t[n] EXCEPT !.player = p, !.at = at]
<1>4. pick \in Pick /\ pick.owner = e /\ pick.player = p
  BY <1>1, <1>3 DEF Pick
<1>5. drafts' = WithPick(k, n, pick)
  BY <1>1 DEF WithPick
<1> HIDE DEF pick
<1> QED BY <1>1, <1>2, <1>4, <1>5

LEMMA CorrectionEffect ==
  ASSUME LedgerTyped, DraftsTyped, NEW k \in Kinds, NEW n, NEW at, CorrectPick(k, n, at)
  PROVE  /\ n \in DOMAIN drafts[k].picks /\ drafts[k].picks[n].player # NoPlayer
         /\ drafts[k].picks[n].owner \in Entries
         /\ BlankPick(drafts[k].picks[n].owner) \in Pick
         /\ drafts' = WithPick(k, n, BlankPick(drafts[k].picks[n].owner))
<1>1. n \in DOMAIN drafts[k].picks /\ drafts[k].picks[n].player # NoPlayer
  BY DEF CorrectPick, LastCompleted, Completed
<1>2. drafts[k].picks[n] \in Pick
  BY <1>1, PicksTyped, TableIs
<1>3. drafts[k].picks[n].owner \in Entries
  BY <1>2 DEF Pick
<1>4. drafts' = WithPick(k, n, BlankPick(drafts[k].picks[n].owner))
  BY DEF CorrectPick, WithPick
<1> QED BY <1>1, <1>3, <1>4, BlankIs

LEMMA TransferEffect ==
  ASSUME DraftsTyped, NEW n, NEW e \in Entries, TransferPick(n, e)
  PROVE  /\ n \in DOMAIN drafts["preseason"].picks
         /\ \E pick \in Pick : drafts' = WithPick("preseason", n, pick)
<1>1. n \in DOMAIN drafts["preseason"].picks
  BY DEF TransferPick, Incomplete
<1>2. drafts["preseason"].picks[n] \in Pick
  BY <1>1, PicksTyped, TableIs DEF Kinds
<1>3. [drafts["preseason"].picks[n] EXCEPT !.owner = e] \in Pick
  BY <1>2 DEF Pick
<1>4. drafts' = WithPick("preseason", n, [drafts["preseason"].picks[n] EXCEPT !.owner = e])
  BY DEF TransferPick, WithPick
<1> QED BY <1>1, <1>3, <1>4

\* What pausing, finalizing and reopening leave of a draft.
LEMMA FlagEffect ==
  ASSUME DraftsTyped, NEW k \in Kinds, Pause(k) \/ Resume(k) \/ Finalize(k) \/ Reopen(k)
  PROVE  /\ \A j \in Kinds \ {k} : drafts'[j] = drafts[j]
         /\ drafts'[k].accepted = drafts[k].accepted /\ drafts'[k].target = drafts[k].target
         /\ drafts'[k].picks = drafts[k].picks
         /\ drafts'[k].final => drafts[k].final \/ drafts[k].accepted
<1>1. drafts[k] \in DraftRows
  BY PicksTyped
<1>2. CASE Pause(k)
  BY <1>1, <1>2 DEF Pause, DraftRows, DraftsTyped
<1>3. CASE Resume(k)
  BY <1>1, <1>3 DEF Resume, DraftRows, DraftsTyped
<1>4. CASE Finalize(k)
  BY <1>1, <1>4 DEF Finalize, Running, DraftRows, DraftsTyped
<1>5. CASE Reopen(k)
  BY <1>1, <1>5 DEF Reopen, DraftRows, DraftsTyped
<1> QED BY <1>2, <1>3, <1>4, <1>5

\* What materializing makes.
LEMMA MaterializeEffect ==
  ASSUME DraftsTyped, NEW k \in Kinds, NEW picks, Materialize(k, picks)
  PROVE  /\ \A j \in Kinds \ {k} : drafts'[j] = drafts[j]
         /\ drafts'[k].accepted /\ drafts'[k].target = limit /\ ~drafts'[k].final
         /\ drafts'[k].picks = picks
<1>1. drafts'[k] = NewDraft(limit, picks) /\ \A j \in Kinds \ {k} : drafts'[j] = drafts[j]
  BY DEF Materialize, DraftsTyped
<1> QED BY <1>1 DEF NewDraft, NoDraft

\* What a step of DraftNext leaves of a draft: its acceptance, rounds and
\* numbers, but the preseason draft when its order is accepted.
RowKept(k) ==
  /\ drafts'[k].accepted = drafts[k].accepted /\ drafts'[k].target = drafts[k].target
  /\ DOMAIN drafts'[k].picks = DOMAIN drafts[k].picks
  /\ drafts'[k].final => drafts[k].final \/ drafts[k].accepted

LEMMA PickKeepsRows ==
  ASSUME DraftsTyped, NEW k \in Kinds, NEW n \in DOMAIN drafts[k].picks, NEW pick \in Pick,
         drafts' = WithPick(k, n, pick)
  PROVE  \A j \in Kinds : RowKept(j)
<1>1. /\ drafts'[k].picks = [drafts[k].picks EXCEPT ![n] = pick]
      /\ drafts'[k].final = drafts[k].final /\ drafts'[k].accepted = drafts[k].accepted
      /\ drafts'[k].target = drafts[k].target
      /\ \A j \in Kinds : j # k => drafts'[j] = drafts[j]
  BY PickWritten
<1>2. DOMAIN drafts'[k].picks = DOMAIN drafts[k].picks
  BY <1>1, PicksTyped, TableSet
<1> QED BY <1>1, <1>2 DEF RowKept

LEMMA DraftRowsKept ==
  ASSUME LedgerTyped, DraftsTyped, DraftNext
  PROVE  /\ RowKept("midseason")
         /\ \/ RowKept("preseason")
            \/ /\ drafts'["preseason"].accepted /\ drafts'["preseason"].target = limit
               /\ ~drafts'["preseason"].final
<1>0. "midseason" \in Kinds /\ "preseason" \in Kinds /\ "midseason" # "preseason"
  BY DEF Kinds
<1>1. CASE \/ Tick \/ \E p \in Players : EligibilityChanges(p)
           \/ \E n \in Limits : ConfigureSquadLimit(n)
  <2>1. UNCHANGED drafts
    BY <1>1 DEF Tick, EligibilityChanges, ConfigureSquadLimit
  <2> QED BY <2>1 DEF RowKept
<1>2. CASE \E o \in Orders : AcceptOrder(o)
  <2>1. PICK picks : Materialize("preseason", picks)
    BY <1>2 DEF AcceptOrder
  <2> QED BY <1>0, <2>1, MaterializeEffect DEF RowKept
<1>3. CASE (\E k \in Kinds : Pause(k) \/ Resume(k)) \/ FinalizePreseason \/ ReopenPreseason
  <2>1. PICK k \in Kinds : Pause(k) \/ Resume(k) \/ Finalize(k) \/ Reopen(k)
    BY <1>0, <1>3 DEF FinalizePreseason, ReopenPreseason
  <2>2. \A j \in Kinds : RowKept(j)
    BY <2>1, FlagEffect DEF RowKept
  <2> QED BY <1>0, <2>2
<1>4. CASE \E k \in Kinds, e \in Entries, p \in Players, at \in Instants : ExecutePick(k, e, p, at)
  <2>1. PICK k \in Kinds, e \in Entries, p \in Players, at \in Instants : ExecutePick(k, e, p, at)
    BY <1>4
  <2>2. \E n \in DOMAIN drafts[k].picks, pick \in Pick : drafts' = WithPick(k, n, pick)
    BY <2>1, PickEffect
  <2> QED BY <1>0, <2>2, PickKeepsRows
<1>5. CASE \E k \in Kinds : \E n \in Completed(k), at \in Instants : CorrectPick(k, n, at)
  <2>1. PICK k \in Kinds : \E n \in Completed(k), at \in Instants : CorrectPick(k, n, at)
    BY <1>5
  <2>2. \E n \in DOMAIN drafts[k].picks, pick \in Pick : drafts' = WithPick(k, n, pick)
    BY <2>1, CorrectionEffect
  <2> QED BY <1>0, <2>2, PickKeepsRows
<1>6. CASE \E n \in Incomplete("preseason"), e \in Entries : TransferPick(n, e)
  <2>1. PICK k \in Kinds : k = "preseason"
    BY <1>0
  <2>2. \E n \in DOMAIN drafts[k].picks, pick \in Pick : drafts' = WithPick(k, n, pick)
    BY <1>6, <2>1, TransferEffect
  <2> QED BY <1>0, <2>2, PickKeepsRows
<1> QED BY <1>1, <1>2, <1>3, <1>4, <1>5, <1>6 DEF DraftNext

\* Once a draft is accepted the limit stays.
LEMMA LimitStays ==
  ASSUME DraftsTyped, Settled, DraftNext
  PROVE  limit' = limit \/ \A k \in Kinds : ~drafts[k].accepted /\ ~drafts'[k].accepted
<1>1. ASSUME NEW n \in Limits, ConfigureSquadLimit(n)
      PROVE  \A k \in Kinds : ~drafts[k].accepted /\ ~drafts'[k].accepted
  BY <1>1 DEF ConfigureSquadLimit, Settled
<1>2. CASE ~\E n \in Limits : ConfigureSquadLimit(n)
  <2>1. limit' = limit
    BY <1>2 DEF DraftNext, Tick, EligibilityChanges, AcceptOrder, Pause, Resume, ExecutePick, CorrectPick,
       FinalizePreseason, ReopenPreseason, TransferPick
  <2> QED BY <2>1
<1> QED BY <1>1, <1>2

LEMMA SettledDraft ==
  ASSUME LedgerTyped, DraftsTyped, Settled, DraftNext
  PROVE  Settled'
<1>1. RowKept("midseason")
  BY DraftRowsKept
<1>2. window' = window
  BY AcceptedStays
<1>3. IsFiniteSet(DOMAIN drafts'["midseason"].picks)
  BY <1>1 DEF RowKept, Settled
<1>4. \A k \in Kinds : /\ drafts'[k].accepted => drafts'[k].target = limit'
                       /\ drafts'[k].final => drafts'[k].accepted
  BY DraftRowsKept, LimitStays DEF Kinds, RowKept, Settled
<1>5. window # "none" => \E k \in Kinds : drafts'[k].accepted
  BY DraftRowsKept DEF Kinds, RowKept, Settled
<1> QED BY <1>2, <1>3, <1>4, <1>5 DEF Settled

LEMMA SelectionFinite ==
  ASSUME DraftsTyped, NEW ledger
  PROVE  IsFiniteSet(DOMAIN SelectionPicks(ledger))
<1>1. IsFiniteSet(DOMAIN order)
  <2>1. CASE order \in Orders
    <3>1. Cardinality(Entries) \in Nat /\ DOMAIN order = 1 .. Cardinality(Entries)
      BY <2>1, FS_CardinalityType, SeasonDraftAssumption
    <3> QED BY <3>1, FS_Interval
  <2>2. CASE order = <<>>
    <3>1. DOMAIN order = {}
      BY <2>2
    <3> QED BY <3>1, FS_EmptySet
  <2> QED BY <2>1, <2>2 DEF DraftsTyped
<1>2. IsFiniteSet(1 .. limit)
  BY FS_Interval DEF DraftsTyped
<1>3. IsFiniteSet((1 .. limit) \X DOMAIN order)
  BY <1>1, <1>2, FS_Product
<1>4. DOMAIN SelectionPicks(ledger) \subseteq (1 .. limit) \X DOMAIN order
  BY DEF SelectionPicks
<1> QED BY <1>3, <1>4, FS_Subset

LEMMA SettledStep ==
  ASSUME LedgerTyped, DraftsTyped, Settled, [SquadsNext]_squadVars
  PROVE  Settled'
<1>0. "midseason" \in Kinds /\ "preseason" \in Kinds
  BY DEF Kinds
<1>1. CASE UNCHANGED <<drafts, limit, window>>
  BY <1>1 DEF Settled
<1>2. CASE PreseasonNext
  <2>1. CASE DraftNext
    BY <2>1, SettledDraft
  <2>2. CASE OpenWindow \/ CloseWindow
    <3>1. UNCHANGED <<drafts, limit>> /\ \E k \in Kinds : drafts[k].final
      BY <1>0, <2>2 DEF OpenWindow, CloseWindow
    <3> QED BY <3>1 DEF Settled
  <2>3. CASE \/ \E to \in Moves, at \in Instants : SubmitTrade(to, at)
             \/ \E e \in Entries, out, in \in Players, at \in Instants : CorrectOpeningSnapshot(e, out, in, at)
    <3>1. ASSUME NEW to, NEW at, SubmitTrade(to, at) PROVE UNCHANGED <<drafts, limit, window>>
      BY <3>1 DEF SubmitTrade
    <3>2. ASSUME NEW e, NEW out, NEW in, NEW at, CorrectOpeningSnapshot(e, out, in, at)
          PROVE  UNCHANGED <<drafts, limit, window>>
      BY <3>2 DEF CorrectOpeningSnapshot
    <3> QED BY <1>1, <2>3, <3>1, <3>2
  <2> QED BY <1>2, <2>1, <2>2, <2>3 DEF PreseasonNext
<1>3. CASE LadderNext \/ TradingNext
  BY <1>1, <1>3 DEF LadderNext, TradingNext, SetTrigger, CheckTrigger, ConfirmLadder, OverrideDraftOrder,
     OpenDelistingWindow, SubmitDelisting, WithdrawDelisting, ProposeTrade, RejectTrade, ApproveTrade,
     ReverseTradeApproval, preseasonVars, draftVars
<1>4. CASE GenerateSelectionTable
  <2>1. UNCHANGED <<limit, window>> /\ (UNCHANGED drafts \/ Materialize("midseason", SelectionPicks(periods)))
    BY <1>4 DEF GenerateSelectionTable
  <2>2. CASE Materialize("midseason", SelectionPicks(periods))
    <3>1. /\ drafts'["preseason"] = drafts["preseason"]
          /\ drafts'["midseason"].accepted /\ drafts'["midseason"].target = limit /\ ~drafts'["midseason"].final
          /\ drafts'["midseason"].picks = SelectionPicks(periods)
      BY <1>0, <2>2, MaterializeEffect
    <3> QED BY <2>1, <3>1, SelectionFinite DEF Settled, Kinds
  <2> QED BY <1>1, <2>1, <2>2
<1>5. CASE FinalizeMidseason \/ ReopenDraft
  <2>1. (Finalize("midseason") \/ Reopen("midseason")) /\ UNCHANGED <<limit, window>>
    BY <1>5 DEF FinalizeMidseason, ReopenDraft
  <2>2. /\ \A j \in Kinds \ {"midseason"} : drafts'[j] = drafts[j]
        /\ drafts'["midseason"].accepted = drafts["midseason"].accepted
        /\ drafts'["midseason"].target = drafts["midseason"].target
        /\ drafts'["midseason"].picks = drafts["midseason"].picks
        /\ drafts'["midseason"].final => drafts["midseason"].final \/ drafts["midseason"].accepted
    BY <1>0, <2>1, FlagEffect
  <2> QED BY <2>1, <2>2 DEF Settled
<1>6. CASE LockDelistings \/ ReadCompletion \/ CompleteDraft \/ ClosePostDraftTrading \/ UNCHANGED squadVars
  BY <1>1, <1>6 DEF LockDelistings, ReadCompletion, CompleteDraft, ClosePostDraftTrading, squadVars,
     preseasonVars, draftVars
<1> QED BY <1>2, <1>3, <1>4, <1>5, <1>6 DEF SquadsNext, SelectionNext

LEMMA SettledInit == SquadsInit => Settled
<1> SUFFICES ASSUME SquadsInit PROVE Settled
  OBVIOUS
<1>1. (\A k \in Kinds : drafts[k] = NoDraft) /\ window = "none" /\ "midseason" \in Kinds
  BY DEF SquadsInit, PreseasonInit, DraftInit, Kinds
<1>2. ~NoDraft.accepted /\ ~NoDraft.final /\ DOMAIN NoDraft.picks = {}
  BY DEF NoDraft
<1> QED BY <1>1, <1>2, FS_EmptySet DEF Settled

-----------------------------------------------------------------------------
(***************************************************************************)
(* The plan the lock made, the picks it became, and the draft's end.        *)
(***************************************************************************)

\* Reconciled, as a function of what it reads.
PlanReconciles(ledger, n, o, rows) ==
  LET approved == {i \in DOMAIN rows : rows[i].status = "approved"}
      Gaps(e) == LET size == Cardinality(Squad(ledger, e)) IN IF size < n THEN n - size ELSE 0
      Taker(r, e) ==
        IF \E i \in approved : <<r, e>> \in DOMAIN rows[i].picks
        THEN LET i == CHOOSE j \in approved : <<r, e>> \in DOMAIN rows[j].picks
             IN rows[i].picks[<<r, e>>]
        ELSE e
      picks == [s \in {m \in (1 .. n) \X DOMAIN o : Gaps(o[m[2]]) >= m[1]} |->
                  BlankPick(Taker(s[1], o[s[2]]))]
  IN /\ \A e \in Entries : Cardinality(PicksOf(picks, e)) = Gaps(e)
     /\ \A i \in approved : \A leg \in DOMAIN rows[i].picks :
          \E s \in DOMAIN picks : s[1] = leg[1] /\ o[s[2]] = leg[2]
     /\ \A e \in Entries : Cardinality(Squad(ledger, e)) <= n

LEMMA ReconciledIs == ASSUME NEW ledger PROVE Reconciled(ledger) <=> PlanReconciles(ledger, limit, order, trades)
BY DEF Reconciled, PlanReconciles, SelectionPicks, Vacancies, Redirected, Approved

\* What the lock reconciled still is when the picks are made from it.
Planned ==
  midState = "delistings_locked" /\ version = 1 => PlanReconciles(periods, limit, order, trades)

\* The picks of table t that entry e has left.
Left(t, e) == {n \in DOMAIN t : t[n].owner = e /\ t[n].player = NoPlayer}

\* Every squad and the picks it has left make n together.
Fills(ledger, t, n) ==
  \A e \in Entries : Cardinality(Squad(ledger, e)) + Cardinality(Left(t, e)) = n

Filled ==
  midState = "draft_open" /\ version = 1 => Fills(periods, drafts["midseason"].picks, limit)

Full(ledger, n) == \A e \in Entries : Cardinality(Squad(ledger, e)) = n

NoneLeft(t) == \A n \in DOMAIN t : t[n].player # NoPlayer

\* A final mid-season draft left full squads and no pick.
Finished ==
  drafts["midseason"].final /\ version = 1 =>
    Full(periods, limit) /\ NoneLeft(drafts["midseason"].picks)

\* The season runs with a closed window, where only corrections of the
\* snapshot change its version.
LEMMA ClosedStep ==
  ASSUME Phases, window = "closed", version' = 1, [SquadsNext]_squadVars
  PROVE  /\ version = 1
         /\ \/ DraftNext /\ UNCHANGED midseasonVars
            \/ LadderNext \/ TradingNext \/ SelectionNext
            \/ UNCHANGED squadVars
<1>1. version \in Nat /\ version >= 1
  BY DEF Phases
<1>2. CASE PreseasonNext /\ UNCHANGED midseasonVars
  <2>1. ~OpenWindow /\ ~CloseWindow /\ ~\E to \in Moves, at \in Instants : SubmitTrade(to, at)
    BY DEF OpenWindow, CloseWindow, SubmitTrade
  <2>2. ~\E e \in Entries, out, in \in Players, at \in Instants : CorrectOpeningSnapshot(e, out, in, at)
    <3>1. ASSUME NEW e, NEW out, NEW in, NEW at, CorrectOpeningSnapshot(e, out, in, at) PROVE FALSE
      <4>1. version' = version + 1
        BY <3>1 DEF CorrectOpeningSnapshot
      <4> QED BY <1>1, <4>1
    <3> QED BY <3>1
  <2>3. DraftNext /\ UNCHANGED <<opening, version>>
    BY <1>2, <2>1, <2>2 DEF PreseasonNext
  <2> QED BY <1>2, <2>3
<1>3. CASE LadderNext
  BY <1>3 DEF LadderNext, SetTrigger, CheckTrigger, ConfirmLadder, OverrideDraftOrder,
     OpenDelistingWindow, preseasonVars
<1>4. CASE TradingNext
  BY <1>4 DEF TradingNext, SubmitDelisting, WithdrawDelisting, ProposeTrade, RejectTrade, ApproveTrade,
     ReverseTradeApproval, preseasonVars
<1>5. CASE SelectionNext
  BY <1>5 DEF SelectionNext, LockDelistings, GenerateSelectionTable, FinalizeMidseason, ReadCompletion,
     CompleteDraft, ReopenDraft, ClosePostDraftTrading, preseasonVars
<1>6. CASE UNCHANGED squadVars
  BY <1>6 DEF squadVars, preseasonVars
<1> QED BY <1>2, <1>3, <1>4, <1>5, <1>6 DEF SquadsNext

LEMMA LimitKept ==
  ASSUME DraftsTyped, Settled, window = "closed",
         \/ DraftNext
         \/ LadderNext \/ TradingNext \/ SelectionNext
         \/ UNCHANGED squadVars
  PROVE  limit' = limit
<1>1. CASE DraftNext
  BY <1>1, LimitStays DEF Settled
<1>2. CASE LadderNext \/ TradingNext
  BY <1>2 DEF LadderNext, TradingNext, SetTrigger, CheckTrigger, ConfirmLadder, OverrideDraftOrder,
     OpenDelistingWindow, SubmitDelisting, WithdrawDelisting, ProposeTrade, RejectTrade, ApproveTrade,
     ReverseTradeApproval, preseasonVars, draftVars
<1>3. CASE SelectionNext
  BY <1>3 DEF SelectionNext, LockDelistings, GenerateSelectionTable, FinalizeMidseason, ReadCompletion,
     CompleteDraft, ReopenDraft, ClosePostDraftTrading, preseasonVars, draftVars
<1>4. CASE UNCHANGED squadVars
  BY <1>4 DEF squadVars, preseasonVars, draftVars
<1> QED BY <1>1, <1>2, <1>3, <1>4

LEMMA PlannedStep ==
  ASSUME LedgerTyped, DraftsTyped, Phases, Settled, Planned, [SquadsNext]_squadVars
  PROVE  Planned'
<1> SUFFICES ASSUME midState' = "delistings_locked", version' = 1
             PROVE  PlanReconciles(periods', limit', order', trades')
  BY DEF Planned
<1>1. LockDelistings \/ midState = "delistings_locked"
  BY DEF SquadsNext, LadderNext, TradingNext, SelectionNext, SetTrigger, CheckTrigger, ConfirmLadder,
     OverrideDraftOrder, OpenDelistingWindow, SubmitDelisting, WithdrawDelisting, ProposeTrade, RejectTrade,
     ApproveTrade, ReverseTradeApproval, GenerateSelectionTable, FinalizeMidseason, ReadCompletion,
     CompleteDraft, ReopenDraft, ClosePostDraftTrading, squadVars, midseasonVars
<1>2. CASE LockDelistings
  <2>1. Reconciled(periods') /\ UNCHANGED <<limit, order, trades>>
    BY <1>2 DEF LockDelistings
  <2> QED BY <2>1, ReconciledIs
<1>3. CASE midState = "delistings_locked"
  <2>1. window = "closed"
    BY <1>3 DEF Phases
  <2>2. /\ version = 1
        /\ \/ DraftNext /\ UNCHANGED midseasonVars
           \/ LadderNext \/ TradingNext \/ SelectionNext
           \/ UNCHANGED squadVars
    BY <2>1, ClosedStep
  <2>3. limit' = limit
    BY <2>1, <2>2, LimitKept
  <2>4. UNCHANGED <<periods, order, trades>>
    <3>1. CASE DraftNext /\ UNCHANGED midseasonVars
      BY <1>3, <2>1, <3>1, ClosedWindowKeepsOwners DEF BeforeDraft, midseasonVars
    <3>2. CASE LadderNext \/ TradingNext
      BY <1>3, <3>2 DEF LadderNext, TradingNext, SetTrigger, CheckTrigger, ConfirmLadder, OverrideDraftOrder,
         OpenDelistingWindow, SubmitDelisting, WithdrawDelisting, ProposeTrade, RejectTrade, ApproveTrade,
         ReverseTradeApproval, preseasonVars, draftVars
    <3>3. CASE SelectionNext
      BY <1>3, <3>3 DEF SelectionNext, LockDelistings, GenerateSelectionTable, FinalizeMidseason, ReadCompletion,
         CompleteDraft, ReopenDraft, ClosePostDraftTrading, preseasonVars, draftVars, midseasonVars
    <3>4. CASE UNCHANGED squadVars
      BY <3>4 DEF squadVars, preseasonVars, draftVars, midseasonVars
    <3> QED BY <2>2, <3>1, <3>2, <3>3, <3>4
  <2> QED BY <1>3, <2>2, <2>3, <2>4 DEF Planned
<1> QED BY <1>1, <1>2, <1>3

-----------------------------------------------------------------------------
(***************************************************************************)
(* Counting squads and picks together.                                      *)
(***************************************************************************)

\* When a pick is made, or corrected the other way, the entry's squad and its
\* picks left make together what they made.
LEMMA FillsMoves ==
  ASSUME NEW before, NEW after, NEW t, NEW u, NEW e \in Entries, NEW p, NEW m \in DOMAIN t, NEW n \in Nat,
         \A f \in Entries : IsFiniteSet(Squad(before, f)),
         IsFiniteSet(DOMAIN t), DOMAIN u = DOMAIN t,
         \A k \in DOMAIN t : k # m => u[k] = t[k],
         t[m].owner = e, t[m].player = NoPlayer, u[m].player # NoPlayer,
         p \notin Squad(before, e), Squad(after, e) = Squad(before, e) \cup {p},
         \A f \in Entries \ {e} : Squad(after, f) = Squad(before, f)
  PROVE  Fills(before, t, n) <=> Fills(after, u, n)
<1>1. Cardinality(Squad(after, e)) = Cardinality(Squad(before, e)) + 1
  <2> DEFINE squad == Squad(before, e)
  <2>1. IsFiniteSet(squad) /\ p \notin squad
    OBVIOUS
  <2> HIDE DEF squad
  <2>2. Cardinality(squad \cup {p}) = Cardinality(squad) + 1
    BY <2>1, FS_AddElement
  <2> QED BY <2>2 DEF squad
<1>2. Left(t, e) = Left(u, e) \cup {m} /\ m \notin Left(u, e)
  BY DEF Left
<1>3. IsFiniteSet(Left(u, e))
  BY FS_Subset DEF Left
<1>4. Cardinality(Left(t, e)) = Cardinality(Left(u, e)) + 1
  <2> DEFINE rest == Left(u, e)
  <2>1. IsFiniteSet(rest) /\ m \notin rest
    BY <1>2, <1>3
  <2> HIDE DEF rest
  <2>2. Cardinality(rest \cup {m}) = Cardinality(rest) + 1
    BY <2>1, FS_AddElement
  <2> QED BY <1>2, <2>2 DEF rest
<1>5. Cardinality(Squad(before, e)) \in Nat /\ Cardinality(Left(u, e)) \in Nat
  BY <1>3, FS_CardinalityType
<1>6. \A f \in Entries \ {e} : Left(u, f) = Left(t, f)
  BY DEF Left
<1>7. \A f \in Entries \ {e} : Cardinality(Squad(after, f)) + Cardinality(Left(u, f)) =
                               Cardinality(Squad(before, f)) + Cardinality(Left(t, f))
  BY <1>6
<1>8. Cardinality(Squad(after, e)) + Cardinality(Left(u, e)) =
      Cardinality(Squad(before, e)) + Cardinality(Left(t, e))
  BY <1>1, <1>4, <1>5
<1>9. \A f \in Entries : Cardinality(Squad(after, f)) + Cardinality(Left(u, f)) =
                         Cardinality(Squad(before, f)) + Cardinality(Left(t, f))
  BY <1>7, <1>8
<1> QED BY <1>9 DEF Fills

LEMMA InjectionIs ==
  \A S, T, f : f \in Injection(S, T) <=> f \in [S -> T] /\ \A x, y \in S : f[x] = f[y] => x = y
BY DEF Injection, IsInjective

LEMMA BijectionIs ==
  ASSUME NEW S, NEW T, NEW f
  PROVE  f \in Bijection(S, T) <=> /\ f \in [S -> T] /\ \A x, y \in S : f[x] = f[y] => x = y
                                  /\ \A z \in T : \E x \in S : f[x] = z
BY InjectionIs DEF Bijection, Surjection

\* A set of c elements, c at most n, is listed by 1 .. c and injects into 1 .. n.
LEMMA Listing ==
  ASSUME NEW S, IsFiniteSet(S), NEW n \in Nat, Cardinality(S) <= n
  PROVE  /\ \E f : f \in Injection(S, 1 .. n)
         /\ Cardinality(S) = n => \E f : f \in Bijection(1 .. n, S)
<1>1. Cardinality(S) \in Nat /\ ExistsBijection(1 .. Cardinality(S), S)
  BY FS_CardinalityType
<1>2. IsFiniteSet(1 .. Cardinality(S)) /\ Cardinality(1 .. Cardinality(S)) = Cardinality(S)
  BY <1>1, FS_Interval
<1>3. ExistsBijection(S, 1 .. Cardinality(S))
  BY <1>2, FS_SameCardinalityBij
<1>4. PICK f : f \in Bijection(S, 1 .. Cardinality(S))
  BY <1>3 DEF ExistsBijection
<1>5. f \in Injection(S, 1 .. n)
  <2>1. 1 .. Cardinality(S) \subseteq 1 .. n
    BY <1>1
  <2>2. f \in [S -> 1 .. Cardinality(S)] /\ \A a, b \in S : f[a] = f[b] => a = b
    <3> DEFINE T == 1 .. Cardinality(S)
    <3>1. f \in Bijection(S, T)
      BY <1>4
    <3> HIDE DEF T
    <3>2. f \in [S -> T] /\ \A a, b \in S : f[a] = f[b] => a = b
      BY <3>1, BijectionIs
    <3> QED BY <3>2 DEF T
  <2>3. f \in [S -> 1 .. n]
    BY <2>1, <2>2
  <2> QED BY <2>2, <2>3, InjectionIs
<1> QED BY <1>1, <1>5 DEF ExistsBijection

\* The pigeonholes of the squads: when the same players are owned before and
\* after, the squads that were full and do not pass the limit are full.
LEMMA FullStays ==
  ASSUME NEW before, NEW after, NEW n \in Nat, Full(before, n), Within(after, n),
         \A e \in Entries : IsFiniteSet(Squad(before, e)) /\ IsFiniteSet(Squad(after, e)),
         \A e, f \in Entries : \A p : p \in Squad(before, e) /\ p \in Squad(before, f) => e = f,
         \A p : (\E e \in Entries : p \in Squad(before, e)) <=> (\E e \in Entries : p \in Squad(after, e))
  PROVE  Full(after, n)
<1> DEFINE all == {p \in UNION {Squad(before, e) : e \in Entries} : TRUE}
           places == Entries \X (1 .. n)
           b(e) == CHOOSE f : f \in Bijection(1 .. n, Squad(before, e))
           B == [x \in places |-> b(x[1])[x[2]]]
           owner(p) == CHOOSE e \in Entries : p \in Squad(after, e)
           g(e) == CHOOSE f : f \in Injection(Squad(after, e), 1 .. n)
           G == [p \in all |-> <<owner(p), g(owner(p))[p]>>]
<1>1. ASSUME NEW e \in Entries
      PROVE  b(e) \in Bijection(1 .. n, Squad(before, e)) /\ g(e) \in Injection(Squad(after, e), 1 .. n)
  <2>1. Cardinality(Squad(before, e)) = n /\ Cardinality(Squad(after, e)) <= n
    BY DEF Full, Within
  <2>2. \E f : f \in Bijection(1 .. n, Squad(before, e))
    BY <2>1, Listing
  <2>3. \E f : f \in Injection(Squad(after, e), 1 .. n)
    BY <2>1, Listing
  <2> QED BY <2>2, <2>3
<1>2. \A p : p \in all <=> \E e \in Entries : p \in Squad(before, e)
  OBVIOUS
<1> HIDE DEF all, b, g
<1>3. IsFiniteSet(places)
  <2>1. IsFiniteSet(1 .. n) /\ IsFiniteSet(Entries)
    BY FS_Interval, SeasonDraftAssumption
  <2> QED BY <2>1, FS_Product
<1>4. B \in Bijection(places, all)
  <2>1. ASSUME NEW x \in places
        PROVE  /\ x[1] \in Entries /\ x[2] \in 1 .. n
               /\ b(x[1])[x[2]] \in Squad(before, x[1])
    BY <1>1, BijectionIs
  <2>2. B \in [places -> all]
    BY <1>2, <2>1
  <2>3. ASSUME NEW x \in places, NEW y \in places, B[x] = B[y] PROVE x = y
    <3>1. B[x] = b(x[1])[x[2]] /\ B[y] = b(y[1])[y[2]]
      OBVIOUS
    <3>2. x[1] = y[1]
      BY <2>1, <2>3, <3>1
    <3>3. b(x[1])[x[2]] = b(x[1])[y[2]]
      BY <2>3, <3>1, <3>2
    <3>4. x[2] = y[2]
      BY <1>1, <2>1, <3>2, <3>3, BijectionIs
    <3> QED BY <3>2, <3>4
  <2>4. ASSUME NEW p \in all PROVE \E x \in places : B[x] = p
    <3>1. PICK e \in Entries : p \in Squad(before, e)
      BY <1>2
    <3>2. PICK i \in 1 .. n : b(e)[i] = p
      BY <1>1, <3>1, BijectionIs
    <3>3. <<e, i>> \in places /\ B[<<e, i>>] = b(e)[i]
      OBVIOUS
    <3> QED BY <3>2, <3>3
  <2> HIDE DEF B
  <2> QED BY <2>2, <2>3, <2>4, BijectionIs
<1>5. Cardinality(all) = Cardinality(places)
  BY <1>3, <1>4, FS_Bijection DEF ExistsBijection
<1>6. ASSUME NEW p \in all PROVE owner(p) \in Entries /\ p \in Squad(after, owner(p))
  BY <1>2
<1> HIDE DEF owner
<1>7. G \in Injection(all, places)
  <2>1. ASSUME NEW p \in all PROVE g(owner(p))[p] \in 1 .. n
    BY <1>1, <1>6, InjectionIs
  <2>2. G \in [all -> places]
    BY <1>6, <2>1
  <2>3. ASSUME NEW p \in all, NEW q \in all, G[p] = G[q] PROVE p = q
    <3>1. owner(p) = owner(q) /\ g(owner(p))[p] = g(owner(q))[q]
      BY <2>3
    <3>2. p \in Squad(after, owner(p)) /\ q \in Squad(after, owner(p)) /\ owner(p) \in Entries
      BY <1>6, <3>1
    <3> QED BY <1>1, <3>1, <3>2, InjectionIs
  <2> HIDE DEF G
  <2> QED BY <2>2, <2>3, InjectionIs
<1>8. G \in Surjection(all, places)
  BY <1>3, <1>5, <1>7, FS_Injection
<1>9. ASSUME NEW e \in Entries PROVE Cardinality(Squad(after, e)) = n
  <2>1. ASSUME NEW i \in 1 .. n PROVE \E p \in Squad(after, e) : g(e)[p] = i
    <3>1. <<e, i>> \in places
      OBVIOUS
    <3>2. PICK p \in all : G[p] = <<e, i>>
      BY <1>8, <3>1 DEF Surjection
    <3>3. owner(p) = e /\ g(owner(p))[p] = i
      BY <3>2
    <3> QED BY <1>6, <3>3
  <2>2. g(e) \in [Squad(after, e) -> 1 .. n]
    BY <1>1, InjectionIs
  <2>3. g(e) \in Surjection(Squad(after, e), 1 .. n)
    BY <2>1, <2>2 DEF Surjection
  <2>4. Cardinality(1 .. n) <= Cardinality(Squad(after, e))
    BY <2>3, FS_Surjection
  <2>5. Cardinality(1 .. n) = n /\ Cardinality(Squad(after, e)) <= n /\ Cardinality(Squad(after, e)) \in Nat
    BY FS_Interval, FS_CardinalityType DEF Within
  <2> QED BY <2>4, <2>5
<1> QED BY <1>9 DEF Full

\* A trade changes owners, and nobody becomes free or owned by it.
LEMMA TradeKeepsOwned ==
  ASSUME LedgerTyped, NEW to, Handover(to), NEW at \in Nat, Trade(to, at), NEW p
  PROVE  (\E e \in Entries : Owns(periods, e, p)) <=> (\E e \in Entries : Owns(periods', e, p))
<1>1. periods' = Acquire(Release(periods, DOMAIN to, at), to, at)
  BY DEF Trade
<1>2. \A e : Owns(periods', e, p) <=> (p \notin DOMAIN to /\ Owns(periods, e, p)) \/ (p \in DOMAIN to /\ to[p] = e)
  BY <1>1, ExchangedOwners DEF LedgerTyped
<1>3. CASE p \in DOMAIN to
  <2>1. PICK o \in Current(periods) : o.player = p
    BY <1>3 DEF Trade, Releasable
  <2>2. o.entry \in Entries /\ Owns(periods, o.entry, p)
    BY <2>1 DEF Owns, Current, LedgerTyped, Periods
  <2>3. to[p] \in Entries
    BY <1>3 DEF Handover
  <2> QED BY <1>2, <1>3, <2>2, <2>3
<1> QED BY <1>2, <1>3

-----------------------------------------------------------------------------
(***************************************************************************)
(* The picks fill the vacancies.                                            *)
(***************************************************************************)
LEMMA SquadsCounted ==
  ASSUME LedgerTyped, LedgerCounted, NEW e
  PROVE  IsFiniteSet(Squad(periods, e)) /\ Cardinality(Squad(periods, e)) \in Nat
BY SquadCount DEF LedgerTyped, LedgerCounted, Counted

\* The operations of the drafts never finalize or reopen the mid-season one.
LEMMA FinalKept ==
  ASSUME LedgerTyped, DraftsTyped, DraftNext
  PROVE  drafts'["midseason"].final = drafts["midseason"].final
<1>0. "midseason" \in Kinds /\ "preseason" \in Kinds /\ "midseason" # "preseason"
  BY DEF Kinds
<1>1. CASE \/ Tick \/ \E p \in Players : EligibilityChanges(p)
           \/ \E n \in Limits : ConfigureSquadLimit(n)
  <2>1. UNCHANGED drafts
    BY <1>1 DEF Tick, EligibilityChanges, ConfigureSquadLimit
  <2> QED BY <2>1
<1>2. CASE \E o \in Orders : AcceptOrder(o)
  <2>1. PICK picks : Materialize("preseason", picks)
    BY <1>2 DEF AcceptOrder
  <2> QED BY <1>0, <2>1, MaterializeEffect
<1>3. CASE \E k \in Kinds : Pause(k) \/ Resume(k)
  <2>1. PICK k \in Kinds : Pause(k) \/ Resume(k)
    BY <1>3
  <2>2. drafts[k] \in DraftRows
    BY PicksTyped
  <2>3. drafts'[k].final = drafts[k].final /\ \A j \in Kinds : j # k => drafts'[j] = drafts[j]
    BY <2>1, <2>2 DEF Pause, Resume, DraftRows, DraftsTyped
  <2> QED BY <1>0, <2>3
<1>4. CASE FinalizePreseason \/ ReopenPreseason
  <2>1. Finalize("preseason") \/ Reopen("preseason")
    BY <1>4 DEF FinalizePreseason, ReopenPreseason
  <2> QED BY <1>0, <2>1, FlagEffect
<1>5. CASE \E k \in Kinds, e \in Entries, p \in Players, at \in Instants : ExecutePick(k, e, p, at)
  <2>1. PICK k \in Kinds, e \in Entries, p \in Players, at \in Instants : ExecutePick(k, e, p, at)
    BY <1>5
  <2>2. PICK n \in DOMAIN drafts[k].picks, pick \in Pick : drafts' = WithPick(k, n, pick)
    BY <2>1, PickEffect
  <2> QED BY <1>0, <2>2, PickWritten
<1>6. CASE \E k \in Kinds : \E n \in Completed(k), at \in Instants : CorrectPick(k, n, at)
  <2>1. PICK k \in Kinds : \E n \in Completed(k), at \in Instants : CorrectPick(k, n, at)
    BY <1>6
  <2>2. PICK n \in DOMAIN drafts[k].picks, pick \in Pick : drafts' = WithPick(k, n, pick)
    BY <2>1, CorrectionEffect
  <2> QED BY <1>0, <2>2, PickWritten
<1>7. CASE \E n \in Incomplete("preseason"), e \in Entries : TransferPick(n, e)
  <2>1. PICK n \in DOMAIN drafts["preseason"].picks, pick \in Pick : drafts' = WithPick("preseason", n, pick)
    BY <1>7, TransferEffect
  <2> QED BY <1>0, <2>1, PickWritten
<1> QED BY <1>1, <1>2, <1>3, <1>4, <1>5, <1>6, <1>7 DEF DraftNext

\* Behind a closed window only the mid-season picks touch its table or a squad.
LEMMA MidseasonQuiet ==
  ASSUME LedgerTyped, DraftsTyped, window = "closed", DraftNext
  PROVE  \/ \E e \in Entries, p \in Players, at \in Instants : ExecutePick("midseason", e, p, at)
         \/ \E n \in Completed("midseason"), at \in Instants : CorrectPick("midseason", n, at)
         \/ UNCHANGED periods /\ drafts'["midseason"].picks = drafts["midseason"].picks
<1>0. "midseason" \in Kinds /\ "preseason" \in Kinds /\ "midseason" # "preseason"
  BY DEF Kinds
<1>1. CASE \/ Tick \/ \E p \in Players : EligibilityChanges(p)
           \/ \E n \in Limits : ConfigureSquadLimit(n)
  <2>1. UNCHANGED <<drafts, periods>>
    BY <1>1 DEF Tick, EligibilityChanges, ConfigureSquadLimit
  <2> QED BY <2>1
<1>2. CASE \E o \in Orders : AcceptOrder(o)
  <2>1. PICK picks : Materialize("preseason", picks) /\ UNCHANGED periods
    BY <1>2 DEF AcceptOrder
  <2> QED BY <1>0, <2>1, MaterializeEffect
<1>3. CASE (\E k \in Kinds : Pause(k) \/ Resume(k)) \/ FinalizePreseason \/ ReopenPreseason
  <2>1. UNCHANGED periods /\ \E k \in Kinds : Pause(k) \/ Resume(k) \/ Finalize(k) \/ Reopen(k)
    BY <1>0, <1>3 DEF FinalizePreseason, ReopenPreseason, Pause, Resume
  <2>2. PICK k \in Kinds : Pause(k) \/ Resume(k) \/ Finalize(k) \/ Reopen(k)
    BY <2>1
  <2> QED BY <1>0, <2>1, <2>2, FlagEffect
<1>4. CASE \E k \in Kinds, e \in Entries, p \in Players, at \in Instants : ExecutePick(k, e, p, at)
  <2>1. PICK k \in Kinds, e \in Entries, p \in Players, at \in Instants : ExecutePick(k, e, p, at)
    BY <1>4
  <2>2. k = "midseason"
    BY <2>1 DEF ExecutePick, WindowAllows
  <2> QED BY <2>1, <2>2
<1>5. CASE \E k \in Kinds : \E n \in Completed(k), at \in Instants : CorrectPick(k, n, at)
  <2>1. PICK k \in Kinds : \E n \in Completed(k), at \in Instants : CorrectPick(k, n, at)
    BY <1>5
  <2>2. k = "midseason"
    BY <2>1 DEF CorrectPick, WindowAllows
  <2> QED BY <2>1, <2>2
<1>6. CASE \E n \in Incomplete("preseason"), e \in Entries : TransferPick(n, e)
  <2>1. PICK n \in DOMAIN drafts["preseason"].picks, pick \in Pick : drafts' = WithPick("preseason", n, pick)
    BY <1>6, TransferEffect
  <2>2. UNCHANGED periods
    BY <1>6 DEF TransferPick
  <2> QED BY <1>0, <2>1, <2>2, PickWritten
<1> QED BY <1>1, <1>2, <1>3, <1>4, <1>5, <1>6 DEF DraftNext

LEMMA PickFills ==
  ASSUME LedgerTyped, DraftsTyped, LedgerCounted, Settled,
         NEW e \in Entries, NEW p \in Players, NEW at \in Instants, ExecutePick("midseason", e, p, at),
         Fills(periods, drafts["midseason"].picks, limit)
  PROVE  Fills(periods', drafts'["midseason"].picks, limit)
<1> DEFINE t == drafts["midseason"].picks
           u == drafts'["midseason"].picks
           to == [q \in {p} |-> e]
<1>0. "midseason" \in Kinds
  BY DEF Kinds
<1>1. PICK n \in DOMAIN t, pick \in Pick :
        /\ t[n].owner = e /\ t[n].player = NoPlayer /\ pick.owner = e /\ pick.player = p
        /\ drafts' = WithPick("midseason", n, pick)
  BY <1>0, PickEffect
<1>2. t \in Tables /\ u = [t EXCEPT ![n] = pick]
  BY <1>0, <1>1, PicksTyped, PickWritten
<1>3. DOMAIN u = DOMAIN t /\ u[n] = pick /\ \A m \in DOMAIN t : m # n => u[m] = t[m]
  BY <1>1, <1>2, TableSet
<1>4. periods' = Acquire(periods, to, at) /\ Acquirable(periods, p, at)
  BY DEF ExecutePick, AcquirableFor
<1>5. \A f, q : Owns(periods', f, q) <=> Owns(periods, f, q) \/ (q = p /\ f = e)
  BY <1>4, AcquiredOwners
<1>6. \A f : ~Owns(periods, f, p)
  BY <1>4 DEF Owns, Current, Acquirable, EndsAfter
<1>7. /\ p \notin Squad(periods, e) /\ Squad(periods', e) = Squad(periods, e) \cup {p}
      /\ \A f \in Entries \ {e} : Squad(periods', f) = Squad(periods, f)
  BY <1>5, <1>6, SquadIs
<1>8. p # NoPlayer /\ limit \in Nat /\ IsFiniteSet(DOMAIN t) /\ \A f \in Entries : IsFiniteSet(Squad(periods, f))
  BY SquadsCounted, SeasonDraftAssumption DEF DraftsTyped, Settled
<1> HIDE DEF t, u, to
<1>9. Fills(periods, t, limit) <=> Fills(periods', u, limit)
  BY <1>1, <1>3, <1>7, <1>8, FillsMoves
<1> QED BY <1>9 DEF t, u

LEMMA CorrectionFills ==
  ASSUME LedgerTyped, DraftsTyped, LedgerCounted, Settled,
         NEW n, NEW at \in Instants, CorrectPick("midseason", n, at),
         Fills(periods, drafts["midseason"].picks, limit)
  PROVE  Fills(periods', drafts'["midseason"].picks, limit)
<1> DEFINE t == drafts["midseason"].picks
           u == drafts'["midseason"].picks
           e == t[n].owner
           p == t[n].player
<1>0. "midseason" \in Kinds /\ at \in Nat
  BY DEF Kinds, Instants, LedgerTyped
<1>1. /\ n \in DOMAIN t /\ p # NoPlayer /\ e \in Entries /\ BlankPick(e) \in Pick
      /\ drafts' = WithPick("midseason", n, BlankPick(e))
  BY <1>0, CorrectionEffect
<1>2. t \in Tables /\ u = [t EXCEPT ![n] = BlankPick(e)]
  <2>1. t \in Tables
    BY <1>0, PicksTyped
  <2>2. u = [t EXCEPT ![n] = BlankPick(e)]
    <3> DEFINE k == "midseason"
               pick == BlankPick(e)
    <3>1. /\ k \in Kinds /\ n \in DOMAIN drafts[k].picks /\ pick \in Pick
          /\ drafts' = WithPick(k, n, pick)
      BY <1>0, <1>1
    <3> HIDE DEF k, pick, t, u, e, p
    <3>2. drafts'[k].picks = [drafts[k].picks EXCEPT ![n] = pick]
      BY <3>1, PickWritten
    <3> QED BY <3>2 DEF k, pick, t, u
  <2> QED BY <2>1, <2>2
<1>3. /\ DOMAIN u = DOMAIN t /\ u[n].owner = e /\ u[n].player = NoPlayer
      /\ \A m \in DOMAIN t : m # n => u[m] = t[m]
  <2> DEFINE pick == BlankPick(e)
  <2>1. pick.owner = e /\ pick.player = NoPlayer
    BY DEF BlankPick
  <2>2. pick \in Pick /\ u = [t EXCEPT ![n] = pick]
    BY <1>1, <1>2
  <2> HIDE DEF t, u, e, p, pick
  <2>3. DOMAIN u = DOMAIN t /\ u[n] = pick /\ \A m \in DOMAIN t : m # n => u[m] = t[m]
    BY <1>1, <1>2, <2>2, TableSet
  <2> QED BY <2>1, <2>3
<1>4. periods' = Release(periods, {p}, at) /\ Owns(periods, e, p)
  BY DEF CorrectPick, PickStands, Owns, Current
<1> HIDE DEF t, u, e, p
<1>5. \A f, q : Owns(periods', f, q) <=> q # p /\ Owns(periods, f, q)
  BY <1>0, <1>4, ReleasedOwners DEF LedgerTyped
<1>6. \A f : Owns(periods, f, p) => f = e
  BY <1>4, OwnerIsUnique, LedgerOverlap
<1>7. /\ p \notin Squad(periods', e) /\ Squad(periods, e) = Squad(periods', e) \cup {p}
      /\ \A f \in Entries \ {e} : Squad(periods, f) = Squad(periods', f)
  <2>1. \A f, q : q \in Squad(periods', f) <=> q # p /\ q \in Squad(periods, f)
    BY <1>5, SquadIs
  <2>2. \A f : p \in Squad(periods, f) <=> f = e
    BY <1>4, <1>6, SquadIs
  <2>3. Squad(periods, e) = Squad(periods', e) \cup {p}
    BY <2>1, <2>2
  <2>4. ASSUME NEW f \in Entries \ {e} PROVE Squad(periods, f) = Squad(periods', f)
    BY <2>1, <2>2
  <2> QED BY <2>1, <2>3, <2>4
<1>8. /\ limit \in Nat /\ IsFiniteSet(DOMAIN u)
      /\ \A f \in Entries : IsFiniteSet(Squad(periods', f))
  <2>1. \A f \in Entries : Squad(periods', f) \subseteq Squad(periods, f)
    BY <1>5, SquadIs
  <2> QED BY <1>3, <2>1, SquadsCounted, FS_Subset DEF DraftsTyped, Settled, t
<1>9. Fills(periods', u, limit) <=> Fills(periods, t, limit)
  BY <1>1, <1>3, <1>7, <1>8, FillsMoves DEF p
<1> QED BY <1>9 DEF t, u


\* What the plan allots is what the squads lack.
LEMMA PlanFills ==
  ASSUME LedgerTyped, DraftsTyped, LedgerCounted, Reconciled(periods)
  PROVE  Fills(periods, SelectionPicks(periods), limit)
<1> DEFINE t == SelectionPicks(periods)
<1>1. ASSUME NEW e \in Entries
      PROVE  Cardinality(Squad(periods, e)) + Cardinality(Left(t, e)) = limit
  <2>1. Left(t, e) = PicksOf(t, e)
    BY SelectionIs DEF Left, PicksOf, Untouched
  <2>2. Cardinality(PicksOf(t, e)) = Vacancies(periods, e) /\ Cardinality(Squad(periods, e)) <= limit
    BY DEF Reconciled
  <2>3. Cardinality(Squad(periods, e)) \in Nat /\ limit \in Nat
    BY SquadsCounted DEF DraftsTyped
  <2>4. Vacancies(periods, e) = limit - Cardinality(Squad(periods, e))
    BY <2>2, <2>3 DEF Vacancies
  <2> HIDE DEF t
  <2> QED BY <2>1, <2>2, <2>3, <2>4
<1> QED BY <1>1 DEF Fills

LEMMA FullFills ==
  ASSUME NEW ledger, NEW t, NEW n \in Nat, Full(ledger, n), NoneLeft(t)
  PROVE  Fills(ledger, t, n)
<1>1. \A e : Left(t, e) = {}
  BY DEF Left, NoneLeft
<1> QED BY <1>1, FS_EmptySet DEF Fills, Full

LEMMA FilledStep ==
  ASSUME LedgerTyped, DraftsTyped, Phases, Settled, LedgerCounted, Planned, Filled, Finished,
         [SquadsNext]_squadVars
  PROVE  Filled'
<1> SUFFICES ASSUME midState' = "draft_open", version' = 1
             PROVE  Fills(periods', drafts'["midseason"].picks, limit')
  BY DEF Filled
<1>0. "midseason" \in Kinds /\ limit \in Nat
  BY DEF Kinds, DraftsTyped
<1>1. GenerateSelectionTable \/ ReopenDraft \/ midState = "draft_open"
  BY DEF SquadsNext, LadderNext, TradingNext, SelectionNext, SetTrigger, CheckTrigger, ConfirmLadder,
     OverrideDraftOrder, OpenDelistingWindow, SubmitDelisting, WithdrawDelisting, ProposeTrade, RejectTrade,
     ApproveTrade, ReverseTradeApproval, LockDelistings, FinalizeMidseason, ReadCompletion,
     CompleteDraft, ClosePostDraftTrading, squadVars, midseasonVars
<1>2. CASE GenerateSelectionTable
  <2>1. /\ midState = "delistings_locked" /\ version = 1 /\ UNCHANGED <<periods, limit>>
        /\ Materialize("midseason", SelectionPicks(periods))
    BY <1>2 DEF GenerateSelectionTable
  <2>2. drafts'["midseason"].picks = SelectionPicks(periods)
    BY <1>0, <2>1, MaterializeEffect
  <2>3. Reconciled(periods)
    BY <2>1, ReconciledIs DEF Planned
  <2> QED BY <2>1, <2>2, <2>3, PlanFills
<1>3. CASE ReopenDraft
  <2>1. Reopen("midseason") /\ version = 1 /\ UNCHANGED <<periods, limit>>
    BY <1>3 DEF ReopenDraft
  <2>2. drafts'["midseason"].picks = drafts["midseason"].picks
    BY <1>0, <2>1, FlagEffect
  <2>3. drafts["midseason"].final
    BY <2>1 DEF Reopen
  <2> QED BY <1>0, <2>1, <2>2, <2>3, FullFills DEF Finished
<1>4. CASE midState = "draft_open"
  <2>1. window = "closed"
    BY <1>4 DEF Phases
  <2>2. /\ version = 1
        /\ \/ DraftNext /\ UNCHANGED midseasonVars
           \/ LadderNext \/ TradingNext \/ SelectionNext
           \/ UNCHANGED squadVars
    BY <2>1, ClosedStep
  <2>3. limit' = limit /\ Fills(periods, drafts["midseason"].picks, limit)
    BY <1>4, <2>1, <2>2, LimitKept DEF Filled
  <2>4. CASE DraftNext
    BY <2>1, <2>3, <2>4, MidseasonQuiet, PickFills, CorrectionFills
  <2>5. CASE LadderNext \/ TradingNext \/ UNCHANGED squadVars
    <3>1. UNCHANGED <<periods, drafts>>
      BY <1>4, <2>5 DEF LadderNext, TradingNext, SetTrigger, CheckTrigger, ConfirmLadder, OverrideDraftOrder,
         OpenDelistingWindow, SubmitDelisting, WithdrawDelisting, ProposeTrade, RejectTrade, ApproveTrade,
         ReverseTradeApproval, squadVars, preseasonVars, draftVars
    <3> QED BY <2>3, <3>1
  <2>6. CASE SelectionNext
    <3>1. UNCHANGED periods /\ (UNCHANGED drafts \/ Finalize("midseason"))
      BY <1>4, <2>6 DEF SelectionNext, LockDelistings, GenerateSelectionTable, FinalizeMidseason, ReadCompletion,
         CompleteDraft, ReopenDraft, ClosePostDraftTrading, preseasonVars, draftVars
    <3>2. drafts'["midseason"].picks = drafts["midseason"].picks
      BY <1>0, <3>1, FlagEffect
    <3> QED BY <2>3, <3>1, <3>2
  <2> QED BY <2>2, <2>4, <2>5, <2>6
<1> QED BY <1>1, <1>2, <1>3, <1>4

\* The trades after the draft leave every squad full.
LEMMA TradesKeepFull ==
  ASSUME LedgerTyped, DraftsTyped, LedgerCounted, NEW i \in DOMAIN trades, ApproveTrade(i),
         midState # "delisting_open", Full(periods, limit), Within(periods', limit)
  PROVE  Full(periods', limit)
<1> DEFINE to == trades[i].to
<1>1. MovePlayers(to) /\ Handover(to) /\ clock \in Nat /\ clock <= clock /\ limit \in Nat
  BY RowsMove DEF ApproveTrade, LedgerTyped, DraftsTyped
<1>2. Trade(to, clock)
  BY <1>1 DEF MovePlayers
<1> HIDE DEF to
<1>3. Counted(periods', clock) /\ periods' \in SUBSET Periods
  BY <1>1, <1>2, TradeLimits
<1>4. \A e \in Entries : IsFiniteSet(Squad(periods, e)) /\ IsFiniteSet(Squad(periods', e))
  BY <1>3, SquadsCounted, SquadCount DEF Counted
<1>5. \A e, f \in Entries : \A p : p \in Squad(periods, e) /\ p \in Squad(periods, f) => e = f
  BY SquadIs, OwnerIsUnique, LedgerOverlap
<1>6. \A p : (\E e \in Entries : p \in Squad(periods, e)) <=> (\E e \in Entries : p \in Squad(periods', e))
  BY <1>1, <1>2, SquadIs, TradeKeepsOwned
<1> QED BY <1>1, <1>4, <1>5, <1>6, FullStays

LEMMA FinishedStep ==
  ASSUME LedgerTyped, DraftsTyped, Phases, Settled, LedgerCounted, WithinLimit, WithinLimit', Finished,
         [SquadsNext]_squadVars
  PROVE  Finished'
<1> SUFFICES ASSUME drafts'["midseason"].final, version' = 1
             PROVE  Full(periods', limit') /\ NoneLeft(drafts'["midseason"].picks)
  BY DEF Finished
<1>0. "midseason" \in Kinds
  BY DEF Kinds
<1>1. CASE FinalizeMidseason
  <2>1. Finalize("midseason") /\ UNCHANGED <<periods, limit>>
    BY <1>1 DEF FinalizeMidseason
  <2>2. drafts["midseason"].accepted /\ Incomplete("midseason") = {} /\ SquadsAreFull(drafts["midseason"].target)
    BY <2>1 DEF Finalize, Running
  <2>3. drafts'["midseason"].picks = drafts["midseason"].picks
    BY <1>0, <2>1, FlagEffect
  <2>4. Full(periods, limit)
    BY <1>0, <2>2 DEF Settled, SquadsAreFull, Full
  <2>5. NoneLeft(drafts["midseason"].picks)
    BY <2>2 DEF Incomplete, Completed, NoneLeft
  <2> QED BY <2>1, <2>3, <2>4, <2>5
<1>2. CASE ~FinalizeMidseason
  <2>1. drafts["midseason"].final
    <3>1. CASE DraftNext
      BY <3>1, FinalKept
    <3>2. CASE PreseasonNext /\ ~DraftNext
      <4>1. UNCHANGED drafts
        <5>1. ASSUME NEW to, NEW at, SubmitTrade(to, at) PROVE UNCHANGED drafts
          BY <5>1 DEF SubmitTrade
        <5>2. ASSUME NEW e, NEW out, NEW in, NEW at, CorrectOpeningSnapshot(e, out, in, at) PROVE UNCHANGED drafts
          BY <5>2 DEF CorrectOpeningSnapshot
        <5>3. ASSUME OpenWindow \/ CloseWindow PROVE UNCHANGED drafts
          BY <5>3 DEF OpenWindow, CloseWindow
        <5> QED BY <3>2, <5>1, <5>2, <5>3 DEF PreseasonNext
      <4> QED BY <4>1
    <3>3. CASE LadderNext \/ TradingNext \/ UNCHANGED squadVars
      <4>1. UNCHANGED drafts
        BY <3>3 DEF LadderNext, TradingNext, SetTrigger, CheckTrigger, ConfirmLadder, OverrideDraftOrder,
           OpenDelistingWindow, SubmitDelisting, WithdrawDelisting, ProposeTrade, RejectTrade, ApproveTrade,
           ReverseTradeApproval, squadVars, preseasonVars, draftVars
      <4> QED BY <4>1
    <3>4. CASE SelectionNext
      <4>1. \/ UNCHANGED drafts
            \/ Materialize("midseason", SelectionPicks(periods))
            \/ Reopen("midseason")
        BY <1>2, <3>4 DEF SelectionNext, LockDelistings, GenerateSelectionTable, ReadCompletion,
           CompleteDraft, ReopenDraft, ClosePostDraftTrading, preseasonVars, draftVars
      <4>2. ~Materialize("midseason", SelectionPicks(periods))
        BY <1>0, MaterializeEffect
      <4>3. Reopen("midseason") => drafts["midseason"].final
        BY DEF Reopen
      <4> QED BY <4>1, <4>2, <4>3
    <3> QED BY <3>1, <3>2, <3>3, <3>4 DEF SquadsNext
  <2>2. midState \notin BeforeDraft /\ window = "closed"
    BY <1>0, <2>1 DEF Phases, Settled, BeforeDraft, Early
  <2>3. /\ version = 1
        /\ \/ DraftNext /\ UNCHANGED midseasonVars
           \/ LadderNext \/ TradingNext \/ SelectionNext
           \/ UNCHANGED squadVars
    BY <2>2, ClosedStep
  <2>4. limit' = limit /\ Full(periods, limit) /\ NoneLeft(drafts["midseason"].picks)
    BY <2>1, <2>2, <2>3, LimitKept DEF Finished
  <2>5. CASE DraftNext
    <3>1. ~\E e \in Entries, p \in Players, at \in Instants : ExecutePick("midseason", e, p, at)
      BY <2>1 DEF ExecutePick, Running
    <3>2. ~\E n \in Completed("midseason"), at \in Instants : CorrectPick("midseason", n, at)
      BY <2>1 DEF CorrectPick, Running
    <3> QED BY <2>2, <2>4, <2>5, <3>1, <3>2, MidseasonQuiet
  <2>6. CASE LadderNext \/ UNCHANGED squadVars
    <3>1. UNCHANGED <<periods, drafts>>
      BY <2>6 DEF LadderNext, SetTrigger, CheckTrigger, ConfirmLadder, OverrideDraftOrder,
         OpenDelistingWindow, squadVars, preseasonVars, draftVars
    <3> QED BY <2>4, <3>1
  <2>7. CASE TradingNext
    <3>1. UNCHANGED drafts /\ midState' = midState /\ (UNCHANGED periods \/ \E i \in DOMAIN trades : ApproveTrade(i))
      BY <2>2, <2>7 DEF TradingNext, SubmitDelisting, WithdrawDelisting, ProposeTrade, RejectTrade, ApproveTrade,
         ReverseTradeApproval, preseasonVars, draftVars, BeforeDraft
    <3>2. midState # "delisting_open"
      BY <2>2 DEF BeforeDraft
    <3>3. Within(periods', limit)
      BY <2>4, <3>1, <3>2 DEF WithinLimit, Within
    <3> QED BY <2>4, <3>1, <3>2, <3>3, TradesKeepFull
  <2>8. CASE SelectionNext
    <3>1. ~ReopenDraft /\ ~LockDelistings /\ ~GenerateSelectionTable
      <4>1. ReopenDraft => ~drafts'["midseason"].final
        <5>1. drafts["midseason"] \in DraftRows
          BY <1>0, PicksTyped
        <5> QED BY <1>0, <5>1 DEF ReopenDraft, Reopen, DraftRows, DraftsTyped
      <4> QED BY <2>2, <4>1 DEF LockDelistings, GenerateSelectionTable, BeforeDraft
    <3>2. UNCHANGED <<periods, drafts>>
      BY <1>2, <2>8, <3>1 DEF SelectionNext, ReadCompletion, CompleteDraft, ClosePostDraftTrading,
         preseasonVars, draftVars
    <3> QED BY <2>4, <3>2
  <2> QED BY <2>3, <2>5, <2>6, <2>7, <2>8
<1> QED BY <1>1, <1>2

LEMMA SelectingInit == SquadsInit => Planned /\ Filled /\ Finished
BY DEF SquadsInit, PreseasonInit, DraftInit, MidseasonInit, Planned, Filled, Finished

LEMMA FilledIs ==
  ASSUME LedgerTyped, DraftsTyped, LedgerCounted, Settled, Filled
  PROVE  PicksFillVacancies
<1> SUFFICES ASSUME midState = "draft_open", version = 1, NEW e \in Entries
             PROVE  Vacancies(periods, e) =
                      Cardinality(PicksOf(drafts["midseason"].picks, e) \cap Incomplete("midseason"))
  BY DEF PicksFillVacancies
<1> DEFINE t == drafts["midseason"].picks
<1>1. PicksOf(t, e) \cap Incomplete("midseason") = Left(t, e)
  BY DEF PicksOf, Incomplete, Completed, Left
<1>2. IsFiniteSet(Left(t, e))
  BY FS_Subset DEF Settled, Left
<1>3. Cardinality(Left(t, e)) \in Nat /\ Cardinality(Squad(periods, e)) \in Nat /\ limit \in Nat
  BY <1>2, FS_CardinalityType, SquadsCounted DEF DraftsTyped
<1>4. Cardinality(Squad(periods, e)) + Cardinality(Left(t, e)) = limit
  BY DEF Filled, Fills
<1> HIDE DEF t
<1>5. Vacancies(periods, e) = Cardinality(Left(t, e))
  BY <1>3, <1>4 DEF Vacancies
<1> QED BY <1>1, <1>5 DEF t

\* While the mid-season draft runs, the picks every entry has left are the
\* vacancies it has left: through the lock's plan and the later, uncompared
\* plan of generate_selection_table, picks and their corrections, trades of
\* picks, and a reopening after trades that swapped players among full squads.
THEOREM SelectionsFillVacancies == SquadsSpec => []PicksFillVacancies
<1> DEFINE Inv == /\ LedgerTyped /\ DraftsTyped /\ Turns /\ Phases
                  /\ LedgerCounted /\ WithinLimit /\ Settled
                  /\ Planned /\ Filled /\ Finished
<1>1. SquadsInit => Inv
  BY LedgerInit, TurnsInit, PhasesInit, LimitInit, SettledInit, SelectingInit
<1>2. Inv /\ [SquadsNext]_squadVars => Inv'
  <2> SUFFICES ASSUME Inv, [SquadsNext]_squadVars PROVE Inv'
    OBVIOUS
  <2>1. (LedgerTyped /\ DraftsTyped /\ Turns /\ Phases /\ LedgerCounted /\ WithinLimit /\ Settled)'
    BY LedgerStep, TurnsStep, PhasesStep, LimitStep, SettledStep
  <2>2. Planned' /\ Filled' /\ Finished'
    BY <2>1, PlannedStep, FilledStep, FinishedStep
  <2> QED BY <2>1, <2>2
<1>3. Inv => PicksFillVacancies
  BY FilledIs
<1> HIDE DEF Inv
<1> QED BY <1>1, <1>2, <1>3, PTL DEF SquadsSpec
=============================================================================
