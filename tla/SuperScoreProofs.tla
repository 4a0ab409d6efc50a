--------------------------- MODULE SuperScoreProofs ---------------------------
(***************************************************************************)
(* Proofs about a SuperScore round: a leaderboard misses nothing recorded   *)
(* while it was assembled, and the season's completion settles the round;   *)
(* and about the week it shares with the finals: a synchronisation mirrors  *)
(* the finals week's lockout plan, and its planner is complete.             *)
(***************************************************************************)
EXTENDS SuperScore, PairedWeek, FiniteSetTheorems, WellFoundedInduction, TLAPS

-----------------------------------------------------------------------------
RoundTyped ==
  /\ state \in {"none", "upcoming", "open", "live", "review", "final"}
  /\ review = None \/ review \in [Entries -> Nat]
  /\ said \in [Entries -> Nat] /\ facts \in Nat
  /\ calculation \in [Entries -> Calculations \cup {None}]
  /\ publishing \in [Publishers -> [Entries -> Calculations] \cup {None}]
  /\ boards \in Seq([Entries -> [said : Nat, facts : Nat]])
  /\ completed \in BOOLEAN

LEMMA TypedInit == RoundInit => RoundTyped
<1> SUFFICES ASSUME RoundInit PROVE RoundTyped
  OBVIOUS
<1>1. calculation \in [Entries -> Calculations \cup {None}]
  BY DEF RoundInit
<1>2. publishing \in [Publishers -> [Entries -> Calculations] \cup {None}]
  BY DEF RoundInit
<1>3. boards \in Seq([Entries -> [said : Nat, facts : Nat]])
  BY DEF RoundInit
<1> QED BY <1>1, <1>2, <1>3 DEF RoundInit, RoundTyped

\* What Calculated makes of an entry: what there is, at a revision that is the
\* old one exactly when nothing it rests on has changed.
LEMMA CalculatedIs ==
  ASSUME RoundTyped, NEW e \in Entries, review # None
  PROVE  LET new == Calculated(e)
             old == calculation[e]
         IN  /\ new \in Calculations
             /\ new.at = review[e] /\ new.said = said[e] /\ new.facts = facts
             /\ old # None => /\ old.rev <= new.rev
                              /\ old.rev = new.rev => new = old
<1> DEFINE old == calculation[e]
           fresh == [rev |-> 1, at |-> review[e], said |-> said[e], facts |-> facts]
<1>1. fresh \in Calculations /\ fresh.at = review[e] /\ fresh.said = said[e] /\ fresh.facts = facts
  BY DEF RoundTyped, Calculations
<1>2. CASE old = None
  <2>1. Calculated(e) = fresh
    BY <1>2 DEF Calculated
  <2> QED BY <1>1, <1>2, <2>1
<1>3. CASE old # None
  <2>1. old \in Calculations
    BY <1>3 DEF RoundTyped
  <2>2. CASE [old EXCEPT !.rev = 1] = fresh
    <3>1. Calculated(e) = [fresh EXCEPT !.rev = old.rev]
      BY <1>3, <2>2 DEF Calculated
    <3>2. old.at = fresh.at /\ old.said = fresh.said /\ old.facts = fresh.facts
      BY <2>1, <2>2 DEF Calculations
    <3>3. [fresh EXCEPT !.rev = old.rev] = old
      BY <1>1, <2>1, <3>2 DEF Calculations
    <3> QED BY <1>1, <2>1, <3>1, <3>2, <3>3 DEF Calculations
  <2>3. CASE [old EXCEPT !.rev = 1] # fresh
    <3>1. Calculated(e) = [fresh EXCEPT !.rev = old.rev + 1]
      BY <1>3, <2>3 DEF Calculated
    <3> HIDE DEF fresh, old
    <3>2. /\ Calculated(e) \in Calculations /\ Calculated(e).rev = old.rev + 1
          /\ Calculated(e).at = fresh.at /\ Calculated(e).said = fresh.said
          /\ Calculated(e).facts = fresh.facts
      BY <1>1, <2>1, <3>1 DEF Calculations
    <3>3. old.rev \in Nat
      BY <2>1 DEF Calculations
    <3> QED BY <1>1, <3>2, <3>3 DEF old
  <2> QED BY <2>2, <2>3
<1> QED BY <1>2, <1>3

LEMMA TouchTyped ==
  ASSUME RoundTyped, NEW e \in Entries, Touch(e)
  PROVE  RoundTyped'
<1>1. review' \in [Entries -> Nat] /\ said' \in [Entries -> Nat]
  BY DEF Touch, RoundTyped
<1> QED BY <1>1 DEF Touch, RoundTyped

LEMMA CalculateTyped ==
  ASSUME RoundTyped, NEW p \in Publishers, Calculate(p)
  PROVE  RoundTyped' /\ calculation' \in [Entries -> Calculations]
<1>1. \A e \in Entries : Calculated(e) \in Calculations
  BY CalculatedIs DEF Calculate
<1>2. calculation' \in [Entries -> Calculations]
  BY <1>1 DEF Calculate
<1>3. publishing' \in [Publishers -> [Entries -> Calculations] \cup {None}]
  BY <1>2 DEF Calculate, RoundTyped
<1> QED BY <1>2, <1>3 DEF Calculate, RoundTyped

LEMMA PublishTyped ==
  ASSUME RoundTyped, NEW p \in Publishers, Publish(p)
  PROVE  RoundTyped'
<1>1. publishing[p] \in [Entries -> Calculations]
  BY DEF Publish, RoundTyped
<1> DEFINE board == [e \in Entries |-> [said |-> publishing[p][e].said, facts |-> publishing[p][e].facts]]
<1>2. board \in [Entries -> [said : Nat, facts : Nat]]
  BY <1>1 DEF Calculations
<1>3. boards' = Append(boards, board)
  BY DEF Publish
<1> HIDE DEF board
<1>4. boards' \in Seq([Entries -> [said : Nat, facts : Nat]])
  BY <1>2, <1>3 DEF RoundTyped
<1>5. publishing' \in [Publishers -> [Entries -> Calculations] \cup {None}]
  BY DEF Publish, RoundTyped
<1> QED BY <1>4, <1>5 DEF Publish, RoundTyped

LEMMA TypedStep == RoundTyped /\ [RoundNext]_roundVars => RoundTyped'
<1> SUFFICES ASSUME RoundTyped, [RoundNext]_roundVars PROVE RoundTyped'
  OBVIOUS
<1>1. CASE CreateRow \/ OpenRound \/ AdvanceToReview \/ CompleteSeason
  BY <1>1 DEF CreateRow, OpenRound, AdvanceToReview, CompleteSeason, RoundTyped
<1>2. CASE CreateReviewRows
  <2>1. review' \in [Entries -> Nat]
    BY <1>2 DEF CreateReviewRows
  <2> QED BY <1>2, <2>1 DEF CreateReviewRows, RoundTyped
<1>3. CASE \E e \in Entries : SubmitLineup(e) \/ RecordRuling(e)
  BY <1>3, TouchTyped DEF SubmitLineup, RecordRuling
<1>4. CASE FactsChange
  BY <1>4 DEF FactsChange, RoundTyped
<1>5. CASE \E p \in Publishers : Calculate(p)
  BY <1>5, CalculateTyped
<1>6. CASE \E p \in Publishers : GiveUp(p)
  <2>1. publishing' \in [Publishers -> [Entries -> Calculations] \cup {None}]
    BY <1>6 DEF GiveUp, RoundTyped
  <2> QED BY <1>6, <2>1 DEF GiveUp, RoundTyped
<1>7. CASE \E p \in Publishers : Publish(p)
  BY <1>7, PublishTyped
<1>8. CASE UNCHANGED roundVars
  BY <1>8 DEF roundVars, RoundTyped
<1> QED BY <1>1, <1>2, <1>3, <1>4, <1>5, <1>6, <1>7, <1>8 DEF RoundNext

-----------------------------------------------------------------------------
(***************************************************************************)
(* What a stored and what an assembled calculation tell.                    *)
(***************************************************************************)
\* A calculation made from the review row as it stands says what the entry says
\* now, because whatever changes the entry moves its row.
StoredIsTrue(e) ==
  calculation[e] # None =>
    /\ review # None /\ calculation[e].at <= review[e]
    /\ calculation[e].at = review[e] => calculation[e].said = said[e]

\* A request holds what was stored, or the revision has moved on for good.
AssembledWasStored(p, e) ==
  publishing[p] # None =>
    /\ calculation[e] # None /\ publishing[p][e].rev <= calculation[e].rev
    /\ publishing[p][e].rev = calculation[e].rev => publishing[p][e] = calculation[e]

BoardInv ==
  /\ \A e \in Entries : StoredIsTrue(e)
  /\ \A p \in Publishers, e \in Entries : AssembledWasStored(p, e)

LEMMA BoardInit == RoundInit => BoardInv
BY DEF RoundInit, BoardInv, StoredIsTrue, AssembledWasStored

LEMMA TouchBoard ==
  ASSUME RoundTyped, BoardInv, NEW e \in Entries, Touch(e)
  PROVE  BoardInv'
<1>1. /\ review # None /\ review' = [review EXCEPT ![e] = @ + 1] /\ said' = [said EXCEPT ![e] = @ + 1]
      /\ UNCHANGED <<calculation, publishing>> /\ review \in [Entries -> Nat]
  BY DEF Touch, RoundTyped
<1>2. review' \in [Entries -> Nat]
  BY <1>1
<1>3. review' # None
  BY <1>2, SuperScoreAssumption
<1>4. ASSUME NEW f \in Entries PROVE StoredIsTrue(f)'
  <2>1. CASE calculation[f] # None
    <3>1. calculation[f] \in Calculations /\ calculation[f].at \in Nat
      BY <2>1 DEF RoundTyped, Calculations
    <3>2. calculation[f].at <= review[f] /\ (calculation[f].at = review[f] => calculation[f].said = said[f])
      BY <2>1 DEF BoardInv, StoredIsTrue
    <3>3. CASE f = e
      <4>1. review'[f] = review[f] + 1 /\ review[f] \in Nat
        BY <1>1, <3>3
      <4>2. calculation[f].at <= review'[f] /\ calculation[f].at # review'[f]
        BY <3>1, <3>2, <4>1
      <4> QED BY <1>1, <1>3, <4>2 DEF StoredIsTrue
    <3>4. CASE f # e
      <4>1. review'[f] = review[f] /\ said'[f] = said[f]
        BY <1>1, <3>4 DEF RoundTyped
      <4> QED BY <1>1, <1>3, <3>2, <4>1 DEF StoredIsTrue
    <3> QED BY <3>3, <3>4
  <2>2. CASE calculation[f] = None
    BY <1>1, <2>2 DEF StoredIsTrue
  <2> QED BY <2>1, <2>2
<1>5. \A p \in Publishers, f \in Entries : AssembledWasStored(p, f)'
  BY <1>1 DEF BoardInv, AssembledWasStored
<1> QED BY <1>4, <1>5 DEF BoardInv
LEMMA CalculateBoard ==
  ASSUME RoundTyped, BoardInv, NEW p \in Publishers, Calculate(p)
  PROVE  BoardInv'
<1>1. /\ review # None /\ UNCHANGED <<review, said, facts>>
      /\ calculation' = [e \in Entries |-> Calculated(e)]
      /\ publishing' = [publishing EXCEPT ![p] = calculation']
  BY DEF Calculate
<1>2. \A e \in Entries : None # calculation'[e]
  BY CalculateTyped, SuperScoreAssumption
<1>3. ASSUME NEW e \in Entries
      PROVE  /\ calculation'[e].at = review[e] /\ calculation'[e].said = said[e] /\ review[e] \in Nat
             /\ calculation[e] # None => /\ calculation[e].rev <= calculation'[e].rev
                                         /\ calculation[e].rev = calculation'[e].rev =>
                                              calculation'[e] = calculation[e]
  BY <1>1, CalculatedIs DEF RoundTyped
<1>4. \A e \in Entries : StoredIsTrue(e)'
  BY <1>1, <1>2, <1>3 DEF StoredIsTrue
<1>5. ASSUME NEW z \in Publishers, NEW e \in Entries PROVE AssembledWasStored(z, e)'
  <2>1. CASE z = p
    <3>1. publishing'[z] = calculation' /\ calculation'[e].rev \in Nat
      BY <1>1, <2>1, CalculateTyped DEF RoundTyped, Calculations
    <3> QED BY <1>2, <3>1 DEF AssembledWasStored
  <2>2. CASE z # p /\ publishing[z] # None
    <3>1. publishing'[z] = publishing[z]
      BY <1>1, <2>2 DEF RoundTyped
    <3>2. /\ calculation[e] # None /\ publishing[z][e].rev <= calculation[e].rev
          /\ publishing[z][e].rev = calculation[e].rev => publishing[z][e] = calculation[e]
      BY <2>2 DEF BoardInv, AssembledWasStored
    <3>3. publishing[z][e].rev \in Nat /\ calculation[e].rev \in Nat /\ calculation'[e].rev \in Nat
      BY <2>2, <3>2, CalculateTyped DEF RoundTyped, Calculations
    <3>4. calculation[e].rev <= calculation'[e].rev /\ (calculation[e].rev = calculation'[e].rev => calculation'[e] = calculation[e])
      BY <1>3, <3>2
    <3>5. publishing[z][e].rev <= calculation'[e].rev
      BY <3>2, <3>3, <3>4
    <3>6. publishing[z][e].rev = calculation'[e].rev => publishing[z][e] = calculation'[e]
      BY <3>2, <3>3, <3>4
    <3> QED BY <1>2, <3>1, <3>5, <3>6 DEF AssembledWasStored
  <2>3. CASE z # p /\ publishing[z] = None
    BY <1>1, <2>3 DEF AssembledWasStored, RoundTyped
  <2> QED BY <2>1, <2>2, <2>3
<1> QED BY <1>4, <1>5 DEF BoardInv

\* A request that gives up, or has published, holds nothing.
LEMMA DroppedBoard ==
  ASSUME RoundTyped, BoardInv, NEW p \in Publishers, publishing' = [publishing EXCEPT ![p] = None],
         UNCHANGED <<review, said, calculation>>
  PROVE  BoardInv'
<1>1. \A e \in Entries : StoredIsTrue(e)'
  BY DEF BoardInv, StoredIsTrue
<1>2. ASSUME NEW z \in Publishers, NEW e \in Entries PROVE AssembledWasStored(z, e)'
  BY DEF BoardInv, AssembledWasStored, RoundTyped
<1> QED BY <1>1, <1>2 DEF BoardInv

LEMMA BoardStep == RoundTyped /\ BoardInv /\ [RoundNext]_roundVars => BoardInv'
<1> SUFFICES ASSUME RoundTyped, BoardInv, [RoundNext]_roundVars PROVE BoardInv'
  OBVIOUS
<1>1. CASE CreateReviewRows
  <2>1. review = None /\ UNCHANGED <<calculation, publishing>>
    BY <1>1 DEF CreateReviewRows
  <2>2. \A e \in Entries : calculation[e] = None
    BY <2>1 DEF BoardInv, StoredIsTrue
  <2> QED BY <2>1, <2>2 DEF BoardInv, StoredIsTrue, AssembledWasStored
<1>2. CASE \E e \in Entries : SubmitLineup(e) \/ RecordRuling(e)
  BY <1>2, TouchBoard DEF SubmitLineup, RecordRuling
<1>3. CASE \E p \in Publishers : Calculate(p)
  BY <1>3, CalculateBoard
<1>4. CASE \E p \in Publishers : GiveUp(p) \/ Publish(p)
  BY <1>4, DroppedBoard DEF GiveUp, Publish
<1>5. CASE CreateRow \/ OpenRound \/ AdvanceToReview \/ FactsChange \/ CompleteSeason \/ UNCHANGED roundVars
  <2>1. UNCHANGED <<review, said, calculation, publishing>>
    BY <1>5 DEF CreateRow, OpenRound, AdvanceToReview, FactsChange, CompleteSeason, roundVars
  <2> QED BY <2>1 DEF BoardInv, StoredIsTrue, AssembledWasStored
<1> QED BY <1>1, <1>2, <1>3, <1>4, <1>5 DEF RoundNext

-----------------------------------------------------------------------------
(***************************************************************************)
(* Publication.                                                            *)
(***************************************************************************)
PublishesCurrent ==
  boards' # boards =>
    \A e \in Entries :
      /\ Latest[e].said = said[e]
      /\ Latest[e].said = calculation[e].said
      /\ Latest[e].facts = calculation[e].facts

LEMMA OnlyPublishWritesBoards ==
  ASSUME RoundTyped, [RoundNext]_roundVars, \A p \in Publishers : ~Publish(p)
  PROVE  UNCHANGED boards
BY DEF RoundNext, CreateRow, CreateReviewRows, OpenRound, AdvanceToReview, SubmitLineup, RecordRuling,
       Touch, FactsChange, Calculate, GiveUp, CompleteSeason, roundVars

LEMMA PublishedIs ==
  ASSUME RoundTyped, NEW p \in Publishers, Publish(p)
  PROVE  /\ publishing[p] # None /\ publishing[p] \in [Entries -> Calculations]
         /\ StillCurrent(publishing[p])
         /\ Len(boards') = Len(boards) + 1 /\ Len(boards) \in Nat
         /\ \A i \in 1 .. Len(boards) : boards'[i] = boards[i]
         /\ \A e \in Entries : /\ Latest[e].said = publishing[p][e].said
                               /\ Latest[e].facts = publishing[p][e].facts
<1> DEFINE board == [e \in Entries |-> [said |-> publishing[p][e].said, facts |-> publishing[p][e].facts]]
<1>1. /\ publishing[p] # None /\ publishing[p] \in [Entries -> Calculations]
      /\ StillCurrent(publishing[p]) /\ boards' = Append(boards, board)
  BY DEF Publish, RoundTyped
<1>2. \A e \in Entries : board[e].said = publishing[p][e].said /\ board[e].facts = publishing[p][e].facts
  OBVIOUS
<1> HIDE DEF board
<1>3. boards \in Seq([Entries -> [said : Nat, facts : Nat]])
  BY DEF RoundTyped
<1>4. /\ Len(boards') = Len(boards) + 1 /\ Len(boards) \in Nat /\ boards'[Len(boards) + 1] = board
      /\ \A i \in 1 .. Len(boards) : boards'[i] = boards[i]
  BY <1>1, <1>3
<1>5. Latest = board
  BY <1>4 DEF Latest
<1> QED BY <1>1, <1>2, <1>4, <1>5

LEMMA PublishStep == RoundTyped /\ BoardInv /\ [RoundNext]_roundVars => PublishesCurrent
<1> SUFFICES ASSUME RoundTyped, BoardInv, [RoundNext]_roundVars, boards' # boards, NEW e \in Entries
             PROVE  /\ Latest[e].said = said[e]
                    /\ Latest[e].said = calculation[e].said
                    /\ Latest[e].facts = calculation[e].facts
  BY DEF PublishesCurrent
<1>1. PICK p \in Publishers : Publish(p)
  BY OnlyPublishWritesBoards
<1>2. /\ publishing[p] # None /\ review[e] = publishing[p][e].at /\ calculation[e].rev = publishing[p][e].rev
      /\ Latest[e].said = publishing[p][e].said /\ Latest[e].facts = publishing[p][e].facts
  BY <1>1, PublishedIs DEF StillCurrent
<1>3. calculation[e] # None /\ publishing[p][e] = calculation[e]
  BY <1>2 DEF BoardInv, AssembledWasStored
<1>4. calculation[e].said = said[e]
  BY <1>2, <1>3 DEF BoardInv, StoredIsTrue
<1> QED BY <1>2, <1>3, <1>4

\* A leaderboard says, of every entry, what its lineup and rulings say when it is
\* published and what its stored calculation says, for any number of entries,
\* concurrent publications, rulings, resubmissions and changes of the facts.
THEOREM BoardsAreCurrent == RoundSpec => BoardIsCurrent
<1>1. RoundInit => RoundTyped /\ BoardInv
  BY TypedInit, BoardInit
<1>2. RoundTyped /\ BoardInv /\ [RoundNext]_roundVars => (RoundTyped /\ BoardInv)'
  BY TypedStep, BoardStep
<1>3. RoundTyped /\ BoardInv /\ [RoundNext]_roundVars =>
        [boards' # boards =>
           \A e \in Entries :
             /\ Latest[e].said = said[e]
             /\ Latest[e].said = calculation[e].said
             /\ Latest[e].facts = calculation[e].facts]_roundVars
  BY PublishStep DEF PublishesCurrent
<1> QED BY <1>1, <1>2, <1>3, PTL DEF RoundSpec, BoardIsCurrent

-----------------------------------------------------------------------------
(***************************************************************************)
(* Completion.                                                             *)
(***************************************************************************)
\* A completed season's SuperScore round is final, and one that was opened has
\* its review rows.
RoundOrder ==
  /\ completed => state = "final"
  /\ review = None => state \in {"none", "upcoming"}

LEMMA OrderInit == RoundInit => RoundOrder
BY DEF RoundInit, RoundOrder

LEMMA OrderStep == RoundTyped /\ RoundOrder /\ [RoundNext]_roundVars => RoundOrder'
<1> SUFFICES ASSUME RoundTyped, RoundOrder, [RoundNext]_roundVars PROVE RoundOrder'
  OBVIOUS
<1>1. CASE CreateReviewRows
  <2>1. review' \in [Entries -> Nat] /\ UNCHANGED <<state, completed>>
    BY <1>1 DEF CreateReviewRows
  <2>2. review' # None
    BY <2>1, SuperScoreAssumption
  <2> QED BY <2>1, <2>2 DEF RoundOrder
<1>2. CASE \E e \in Entries : SubmitLineup(e) \/ RecordRuling(e)
  <2>1. PICK e \in Entries : Touch(e)
    BY <1>2 DEF SubmitLineup, RecordRuling
  <2>2. review' \in [Entries -> Nat] /\ UNCHANGED <<state, completed>>
    BY <2>1 DEF Touch, RoundTyped
  <2>3. review' # None
    BY <2>2, SuperScoreAssumption
  <2> QED BY <2>2, <2>3 DEF RoundOrder
<1>3. CASE CreateRow \/ OpenRound \/ AdvanceToReview \/ FactsChange \/ CompleteSeason \/ UNCHANGED roundVars
  BY <1>3 DEF RoundOrder, CreateRow, OpenRound, AdvanceToReview, FactsChange, CompleteSeason, Writable, roundVars
<1>4. CASE \E p \in Publishers : Calculate(p) \/ GiveUp(p) \/ Publish(p)
  BY <1>4 DEF RoundOrder, Calculate, GiveUp, Publish
<1> QED BY <1>1, <1>2, <1>3, <1>4 DEF RoundNext

LEMMA BoardsGrow ==
  ASSUME RoundTyped, [RoundNext]_roundVars
  PROVE  SubSeq(boards', 1, Len(boards)) = boards
<1>1. boards \in Seq([Entries -> [said : Nat, facts : Nat]])
  BY DEF RoundTyped
<1>2. CASE \E p \in Publishers : Publish(p)
  <2>1. PICK p \in Publishers : Publish(p)
    BY <1>2
  <2>2. boards' \in Seq([Entries -> [said : Nat, facts : Nat]])
    BY <2>1, PublishTyped DEF RoundTyped
  <2>3. /\ Len(boards') = Len(boards) + 1 /\ Len(boards) \in Nat
        /\ \A i \in 1 .. Len(boards) : boards'[i] = boards[i]
    BY <2>1, PublishedIs
  <2> QED BY <1>1, <2>2, <2>3
<1>3. CASE \A p \in Publishers : ~Publish(p)
  <2>1. UNCHANGED boards
    BY <1>3, OnlyPublishWritesBoards
  <2> QED BY <1>1, <2>1
<1> QED BY <1>2, <1>3

LEMMA SettledStep ==
  ASSUME RoundTyped, BoardInv, RoundOrder, [RoundNext]_roundVars, completed
  PROVE  UNCHANGED <<state, review, said, calculation, boards>> /\ completed'
<1>1. state = "final" /\ review # None
  BY DEF RoundOrder
<1>2. ~CreateReviewRows
  BY <1>1 DEF CreateReviewRows
<1> QED BY <1>1, <1>2
      DEF RoundNext, CreateRow, OpenRound, AdvanceToReview, SubmitLineup, RecordRuling, Touch,
          FactsChange, Calculate, GiveUp, Publish, CompleteSeason, Writable, roundVars
\* The published leaderboards only grow, and once the season is completed no
\* leaderboard, calculation, ruling or state of the round changes, whatever was
\* under way when it was.
THEOREM RoundIsSettled == RoundSpec => SettledByCompletion
<1>1. RoundInit => RoundTyped /\ BoardInv /\ RoundOrder
  BY TypedInit, BoardInit, OrderInit
<1>2. RoundTyped /\ BoardInv /\ RoundOrder /\ [RoundNext]_roundVars => (RoundTyped /\ BoardInv /\ RoundOrder)'
  BY TypedStep, BoardStep, OrderStep
<1>3. RoundTyped /\ BoardInv /\ RoundOrder /\ [RoundNext]_roundVars =>
        [/\ SubSeq(boards', 1, Len(boards)) = boards
         /\ completed => /\ UNCHANGED <<state, review, said, calculation, boards>>
                         /\ completed']_roundVars
  BY BoardsGrow, SettledStep
<1> QED BY <1>1, <1>2, <1>3, PTL DEF RoundSpec, SettledByCompletion
-----------------------------------------------------------------------------
(***************************************************************************)
(* Induction and recursion over an interval, without operator parameters.  *)
(***************************************************************************)

LEMMA LeastOf ==
  ASSUME NEW T \in SUBSET Nat, T # {}
  PROVE  \E x \in T : \A y \in T : x <= y
<1> DEFINE R == OpToRel(<, Nat)
<1>1. IsWellFoundedOn(R, Nat)
  BY NatLessThanWellFounded
<1>2. \A x, y \in Nat : <<y, x>> \in R <=> y < x
  BY DEF OpToRel
<1> HIDE DEF R
<1>3. PICK x \in T : \A y \in T : ~ (<<y, x>> \in R)
  BY <1>1, WFMin, Zenon
<1>4. \A y \in T : ~(y < x)
  BY <1>2, <1>3
<1> QED BY <1>4

\* A set that has 0 and with every number the next one has all of them.
LEMMA Climb ==
  ASSUME NEW n \in Nat, NEW S, 0 \in S, \A i \in 1..n : i - 1 \in S => i \in S
  PROVE  \A i \in 0..n : i \in S
<1> DEFINE T == {i \in 0..n : i \notin S}
<1>1. SUFFICES ASSUME T # {} PROVE FALSE
  OBVIOUS
<1>2. T \in SUBSET Nat
  OBVIOUS
<1>3. PICK x \in T : \A y \in T : x <= y
  BY <1>1, <1>2, LeastOf
<1>4. x \in 1..n
  BY <1>3
<1>5. x - 1 \in 0..n /\ ~(x <= x - 1)
  BY <1>4
<1>6. x - 1 \in S
  BY <1>3, <1>5
<1> QED BY <1>3, <1>4, <1>6

\* The runs of n steps from base.
Runs(A, base, n, step) ==
  {r \in [0..n -> A] : r[0] = base /\ \A i \in 1..n : r[i] = step[<<r[i - 1], i>>]}

LEMMA RunExists ==
  ASSUME NEW A, NEW base \in A, NEW n \in Nat, NEW step \in [A \X (1..n) -> A]
  PROVE  Runs(A, base, n, step) # {}
<1> DEFINE To(m) == {r \in [0..m -> A] : r[0] = base /\ \A i \in 1..m : r[i] = step[<<r[i - 1], i>>]}
           S == {m \in 0..n : To(m) # {}}
<1>1. 0 \in S
  <2>1. [i \in 0..0 |-> base] \in To(0)
    OBVIOUS
  <2> QED BY <2>1
<1>2. ASSUME NEW m \in 1..n, m - 1 \in S PROVE m \in S
  <2>1. PICK r \in To(m - 1) : TRUE
    BY <1>2
  <2>2. r \in [0..(m - 1) -> A] /\ r[0] = base /\ \A i \in 1..(m - 1) : r[i] = step[<<r[i - 1], i>>]
    BY <2>1
  <2> DEFINE next == step[<<r[m - 1], m>>]
             q == [i \in 0..m |-> IF i = m THEN next ELSE r[i]]
  <2>3. r[m - 1] \in A /\ next \in A
    BY <2>2
  <2>4. q \in [0..m -> A] /\ q[0] = base
    BY <2>2, <2>3
  <2>5. ASSUME NEW i \in 1..m PROVE q[i] = step[<<q[i - 1], i>>]
    <3>1. q[i - 1] = r[i - 1]
      <4>1. i - 1 \in 0..m /\ i - 1 # m
        OBVIOUS
      <4> QED BY <4>1
    <3>2. CASE i = m
      <4>1. q[i] = next
        BY <3>2
      <4>2. next = step[<<r[i - 1], i>>]
        BY <3>2
      <4> HIDE DEF q, next
      <4> QED BY <3>1, <4>1, <4>2
    <3>3. CASE i # m
      <4>1. i \in 1..(m - 1) /\ q[i] = r[i]
        BY <3>3
      <4> QED BY <2>2, <3>1, <4>1
    <3> QED BY <3>2, <3>3
  <2> HIDE DEF q
  <2>6. q \in To(m)
    BY <2>4, <2>5
  <2> QED BY <2>6
<1> HIDE DEF S
<1>3. n \in S
  BY <1>1, <1>2, Climb
<1> QED BY <1>3 DEF S, Runs

-----------------------------------------------------------------------------
(***************************************************************************)
(* The planner's accumulators, and what one key does to them.               *)
(***************************************************************************)
Accs == [plan : Plans, order : Seq(Keys), left : Seq(Keys)]

LEMMA Appended ==
  ASSUME NEW q \in Seq(Keys), NEW k \in Keys
  PROVE  /\ Append(q, k) \in Seq(Keys) /\ Len(Append(q, k)) = Len(q) + 1
         /\ \A i \in 1..Len(q) : Append(q, k)[i] = q[i]
         /\ Append(q, k)[Len(q) + 1] = k
         /\ Range(Append(q, k)) = Range(q) \cup {k}
<1>1. /\ Append(q, k) \in Seq(Keys) /\ Len(Append(q, k)) = Len(q) + 1
      /\ \A i \in 1..Len(q) : Append(q, k)[i] = q[i]
      /\ Append(q, k)[Len(q) + 1] = k
  OBVIOUS
<1>2. DOMAIN Append(q, k) = 1..(Len(q) + 1) /\ DOMAIN q = 1..Len(q) /\ Len(q) \in Nat
  OBVIOUS
<1>3. \A x : x \in Range(Append(q, k)) <=> x \in Range(q) \cup {k}
  <2>1. \A x \in Range(Append(q, k)) : x \in Range(q) \cup {k}
    <3> TAKE x \in Range(Append(q, k))
    <3>1. PICK i \in 1..(Len(q) + 1) : x = Append(q, k)[i]
      BY <1>2 DEF Range
    <3>2. CASE i = Len(q) + 1
      BY <1>1, <3>1, <3>2
    <3>3. CASE i # Len(q) + 1
      <4>1. i \in 1..Len(q)
        BY <1>2, <3>3
      <4> QED BY <1>1, <1>2, <3>1, <4>1 DEF Range
    <3> QED BY <3>2, <3>3
  <2>2. \A x \in Range(q) : x \in Range(Append(q, k))
    <3> TAKE x \in Range(q)
    <3>1. PICK i \in 1..Len(q) : x = q[i]
      BY <1>2 DEF Range
    <3>2. i \in 1..(Len(q) + 1) /\ Append(q, k)[i] = x
      BY <1>1, <1>2, <3>1
    <3> QED BY <1>2, <3>2 DEF Range
  <2>3. k \in Range(Append(q, k))
    <3>1. Len(q) + 1 \in 1..(Len(q) + 1)
      BY <1>2
    <3> QED BY <1>1, <1>2, <3>1 DEF Range
  <2> QED BY <2>1, <2>2, <2>3
<1> QED BY <1>1, <1>3

\* A key that can move is written and appended to the order, any other is left.
LEMMA TriedIs ==
  ASSUME NEW f \in Plans, NEW acc \in Accs, NEW k \in Keys
  PROVE  /\ Tried(f, acc, k) \in Accs
         /\ Movable(f[k], Others(acc.plan, k)) =>
              /\ Tried(f, acc, k).plan = [acc.plan EXCEPT ![k] = f[k]]
              /\ Tried(f, acc, k).order = Append(acc.order, k)
              /\ Tried(f, acc, k).left = acc.left
         /\ ~Movable(f[k], Others(acc.plan, k)) =>
              /\ Tried(f, acc, k).plan = acc.plan
              /\ Tried(f, acc, k).order = acc.order
              /\ Tried(f, acc, k).left = Append(acc.left, k)
<1> DEFINE p == acc.plan
           o == acc.order
           l == acc.left
<1>1. p \in Plans /\ o \in Seq(Keys) /\ l \in Seq(Keys) /\ acc = [plan |-> p, order |-> o, left |-> l]
  BY DEF Accs
<1>2. CASE Movable(f[k], Others(p, k))
  <2>1. Tried(f, acc, k) = [acc EXCEPT !.plan[k] = f[k], !.order = Append(@, k)]
    BY <1>2 DEF Tried
  <2>2. Tried(f, acc, k) = [plan |-> [p EXCEPT ![k] = f[k]], order |-> Append(o, k), left |-> l]
    BY <1>1, <2>1
  <2>3. [p EXCEPT ![k] = f[k]] \in Plans /\ Append(o, k) \in Seq(Keys)
    BY <1>1, Appended DEF Plans
  <2> QED BY <1>1, <1>2, <2>2, <2>3 DEF Accs
<1>3. CASE ~Movable(f[k], Others(p, k))
  <2>1. Tried(f, acc, k) = [acc EXCEPT !.left = Append(@, k)]
    BY <1>3 DEF Tried
  <2>2. Tried(f, acc, k) = [plan |-> p, order |-> o, left |-> Append(l, k)]
    BY <1>1, <2>1
  <2>3. Append(l, k) \in Seq(Keys)
    BY <1>1, Appended
  <2> QED BY <1>1, <1>3, <2>2, <2>3 DEF Accs
<1> QED BY <1>2, <1>3

\* The recursion of a pass, unfolded.
LEMMA PassRuns ==
  ASSUME NEW f \in Plans, NEW start \in Accs
  PROVE  \E r \in [0..Len(start.left) -> Accs] :
           /\ r[0] = [start EXCEPT !.left = <<>>]
           /\ \A i \in 1..Len(start.left) : r[i] = Tried(f, r[i - 1], start.left[i])
           /\ Pass(f, start) = r[Len(start.left)]
<1> DEFINE n == Len(start.left)
           base == [start EXCEPT !.left = <<>>]
           step == [x \in Accs \X (1..n) |-> Tried(f, x[1], start.left[x[2]])]
           Follows(q) == q = [i \in 0..n |-> IF i = 0 THEN base ELSE Tried(f, q[i - 1], start.left[i])]
           run == CHOOSE q : Follows(q)
<1>1. n \in Nat /\ base \in Accs /\ \A i \in 1..n : start.left[i] \in Keys
  <2>1. start.left \in Seq(Keys) /\ <<>> \in Seq(Keys)
    BY DEF Accs
  <2>2. base \in Accs
    BY <2>1 DEF Accs
  <2>3. n \in Nat /\ \A i \in 1..n : start.left[i] \in Keys
    BY <2>1
  <2> QED BY <2>2, <2>3
<1>2. step \in [Accs \X (1..n) -> Accs]
  BY <1>1, TriedIs
<1>3. Pass(f, start) = run[n]
  BY DEF Pass
<1> HIDE DEF base
<1>4. PICK r \in [0..n -> Accs] : r[0] = base /\ \A i \in 1..n : r[i] = step[<<r[i - 1], i>>]
  <2>1. Runs(Accs, base, n, step) # {}
    <3>1. base \in Accs /\ n \in Nat
      BY <1>1
    <3> HIDE DEF step, n, Follows, run
    <3> QED BY <1>2, <3>1, RunExists
  <2> QED BY <2>1 DEF Runs
<1>5. Follows(r)
  <2>1. ASSUME NEW i \in 0..n PROVE r[i] = IF i = 0 THEN base ELSE Tried(f, r[i - 1], start.left[i])
    <3>1. CASE i = 0
      BY <1>4, <3>1
    <3>2. CASE i # 0
      <4>1. i \in 1..n /\ i - 1 \in 0..n
        BY <1>1, <3>2
      <4>2. r[i] = step[<<r[i - 1], i>>] /\ <<r[i - 1], i>> \in Accs \X (1..n)
        BY <1>4, <4>1
      <4> QED BY <3>2, <4>2
    <3> QED BY <3>1, <3>2
  <2> QED BY <1>4, <2>1
<1>6. Follows(run)
  <2> HIDE DEF Follows
  <2> QED BY <1>5
<1> HIDE DEF run
<1>7. run[0] = base /\ \A i \in 1..n : run[i] = Tried(f, run[i - 1], start.left[i])
  <2>1. run = [i \in 0..n |-> IF i = 0 THEN base ELSE Tried(f, run[i - 1], start.left[i])]
    BY <1>6
  <2>2. \A i \in 0..n : run[i] = IF i = 0 THEN base ELSE Tried(f, run[i - 1], start.left[i])
    BY <2>1, Zenon
  <2>3. 0 \in 0..n /\ \A i \in 1..n : i \in 0..n /\ i # 0
    BY <1>1
  <2> QED BY <2>2, <2>3, Zenon
<1>8. \A i \in 0..n : run[i] \in Accs
  <2> DEFINE S == {i \in 0..n : run[i] \in Accs}
  <2>1. 0 \in S
    BY <1>1, <1>7
  <2>2. ASSUME NEW i \in 1..n, i - 1 \in S PROVE i \in S
    <3>1. run[i - 1] \in Accs /\ start.left[i] \in Keys /\ i \in 0..n
      BY <1>1, <2>2
    <3>2. Tried(f, run[i - 1], start.left[i]) \in Accs
      BY <3>1, TriedIs
    <3> QED BY <1>7, <3>1, <3>2
  <2> HIDE DEF S
  <2>3. \A i \in 0..n : i \in S
    BY <1>1, <2>1, <2>2, Climb
  <2> QED BY <2>3 DEF S
<1>9. run \in [0..n -> Accs]
  <2>1. run = [i \in 0..n |-> run[i]]
    BY <1>6, Zenon
  <2> QED BY <1>8, <2>1
<1> QED BY <1>3, <1>7, <1>9 DEF base

-----------------------------------------------------------------------------
(***************************************************************************)
(* What the planner's passes keep.                                          *)
(***************************************************************************)
Distinct(q) == \A i, j \in 1..Len(q) : q[i] = q[j] => i = j

\* The keys of an order before its i-th.
Earlier(order, i) == {order[j] : j \in 1..(i - 1)}

\* Every key of an order can move when those before it have moved.
Replays(f, s, order) ==
  \A i \in 1..Len(order) : Movable(f[order[i]], Others(With(f, s, Earlier(order, i)), order[i]))

\* No key that is left can move.
Stuck(f, acc) == \A k \in Range(acc.left) : ~Movable(f[k], Others(acc.plan, k))

\* Between passes the keys are those ordered and those left, each once, and the
\* plan is what writing the ordered ones makes of s.
Sound(f, s, keys, acc) ==
  /\ acc.plan = With(f, s, Range(acc.order))
  /\ Replays(f, s, acc.order)
  /\ Distinct(acc.left)
  /\ Range(acc.left) \cap Range(acc.order) = {}
  /\ Range(acc.left) \cup Range(acc.order) = keys

Untried(start, i) == {start.left[j] : j \in (i + 1)..Len(start.left)}

\* After i keys of a pass: as many are left as were tried only if none moved.
Amid(f, s, keys, start, i, acc) ==
  /\ acc.plan = With(f, s, Range(acc.order))
  /\ Replays(f, s, acc.order)
  /\ Distinct(acc.left)
  /\ Range(acc.left) \cap Untried(start, i) = {}
  /\ Range(acc.order) \cap (Range(acc.left) \cup Untried(start, i)) = {}
  /\ Range(acc.order) \cup Range(acc.left) \cup Untried(start, i) = keys
  /\ Len(acc.left) <= i
  /\ Len(acc.left) = i =>
       /\ acc.plan = start.plan /\ acc.order = start.order
       /\ \A j \in 1..i : /\ acc.left[j] = start.left[j]
                          /\ ~Movable(f[start.left[j]], Others(start.plan, start.left[j]))
  /\ Stuck(f, start) => Len(acc.left) = i

LEMMA WithMore ==
  ASSUME NEW f, NEW s, NEW S, NEW k \in Keys
  PROVE  [With(f, s, S) EXCEPT ![k] = f[k]] = With(f, s, S \cup {k})
BY DEF With

LEMMA ReplaysMore ==
  ASSUME NEW f, NEW s, NEW order \in Seq(Keys), NEW k \in Keys, Replays(f, s, order),
         Movable(f[k], Others(With(f, s, Range(order)), k))
  PROVE  Replays(f, s, Append(order, k))
<1> DEFINE more == Append(order, k)
<1>1. /\ more \in Seq(Keys) /\ Len(more) = Len(order) + 1 /\ Len(order) \in Nat
      /\ \A i \in 1..Len(order) : more[i] = order[i]
      /\ more[Len(order) + 1] = k
  BY Appended
<1> HIDE DEF more
<1> SUFFICES ASSUME NEW i \in 1..(Len(order) + 1)
             PROVE  Movable(f[more[i]], Others(With(f, s, Earlier(more, i)), more[i]))
  BY <1>1 DEF Replays, more
<1>2. Earlier(more, i) = Earlier(order, i)
  <2>1. \A j \in 1..(i - 1) : more[j] = order[j]
    BY <1>1
  <2> QED BY <2>1 DEF Earlier
<1>3. CASE i = Len(order) + 1
  <2>1. Earlier(order, i) = Range(order)
    <3>1. DOMAIN order = 1..Len(order) /\ i - 1 = Len(order)
      BY <1>1, <1>3
    <3> QED BY <3>1 DEF Earlier, Range
  <2> QED BY <1>1, <1>2, <1>3, <2>1
<1>4. CASE i # Len(order) + 1
  <2>1. i \in 1..Len(order) /\ more[i] = order[i]
    BY <1>1, <1>4
  <2> QED BY <1>2, <2>1 DEF Replays
<1> QED BY <1>3, <1>4

LEMMA EmptySequence == <<>> \in Seq(Keys) /\ Len(<<>>) = 0 /\ Range(<<>>) = {} /\ Distinct(<<>>)
BY DEF Range, Distinct

LEMMA RangeOf ==
  ASSUME NEW q \in Seq(Keys)
  PROVE  /\ Len(q) \in Nat /\ DOMAIN q = 1..Len(q) /\ Range(q) = {q[i] : i \in 1..Len(q)}
         /\ Range(q) \subseteq Keys /\ \A i \in 1..Len(q) : q[i] \in Range(q)
         /\ Range(q) = {} => q = <<>>
<1>1. Len(q) \in Nat /\ DOMAIN q = 1..Len(q) /\ \A i \in 1..Len(q) : q[i] \in Keys
  OBVIOUS
<1>2. Range(q) = {q[i] : i \in 1..Len(q)}
  BY <1>1 DEF Range
<1>3. Range(q) = {} => q = <<>>
  <2> SUFFICES ASSUME Range(q) = {} PROVE q = <<>>
    OBVIOUS
  <2>1. Len(q) = 0
    <3>1. 1 \in 1..Len(q) => q[1] \in Range(q)
      BY <1>2
    <3> QED BY <1>1, <3>1
  <2> QED BY <2>1
<1> QED BY <1>1, <1>2, <1>3

LEMMA AmidStart ==
  ASSUME NEW f, NEW s, NEW keys, NEW start \in Accs, Sound(f, s, keys, start)
  PROVE  Amid(f, s, keys, start, 0, [start EXCEPT !.left = <<>>])
<1> DEFINE acc == [start EXCEPT !.left = <<>>]
<1>1. acc.plan = start.plan /\ acc.order = start.order /\ acc.left = <<>>
  BY DEF Accs
<1> HIDE DEF acc
<1>2. start.left \in Seq(Keys)
  BY DEF Accs
<1>3. Untried(start, 0) = Range(start.left)
  BY <1>2, RangeOf DEF Untried
<1>4. Amid(f, s, keys, start, 0, acc)
  BY <1>1, <1>3, EmptySequence DEF Sound, Amid
<1> QED BY <1>4 DEF acc

LEMMA AmidTried ==
  ASSUME NEW f \in Plans, NEW s, NEW keys, NEW start \in Accs, Distinct(start.left),
         NEW i \in 1..Len(start.left), NEW acc \in Accs, Amid(f, s, keys, start, i - 1, acc)
  PROVE  Amid(f, s, keys, start, i, Tried(f, acc, start.left[i]))
<1> DEFINE k == start.left[i]
           next == Tried(f, acc, k)
           rest == Untried(start, i)
<1>1. /\ start.left \in Seq(Keys) /\ Len(start.left) \in Nat /\ k \in Keys
      /\ acc.plan \in Plans /\ acc.order \in Seq(Keys) /\ acc.left \in Seq(Keys)
      /\ Len(acc.left) \in Nat
  BY DEF Accs
<1>2. k \notin rest /\ Untried(start, i - 1) = rest \cup {k}
  <2>1. k \notin rest
    BY DEF Distinct, Untried
  <2>2. i..Len(start.left) = ((i + 1)..Len(start.left)) \cup {i}
    BY <1>1
  <2>3. (i - 1) + 1 = i
    OBVIOUS
  <2> QED BY <2>1, <2>2, <2>3 DEF Untried
<1>3. k \in Range(start.left)
  BY <1>1, RangeOf
<1>4. Stuck(f, start) => ~Movable(f[k], Others(start.plan, k))
  BY <1>3 DEF Stuck
<1> HIDE DEF rest
<1>5. CASE Movable(f[k], Others(acc.plan, k))
  <2>1. /\ next.plan = [acc.plan EXCEPT ![k] = f[k]] /\ next.order = Append(acc.order, k)
        /\ next.left = acc.left
    <3>1. k \in Keys
      BY <1>1
    <3> HIDE DEF k
    <3>2. /\ Tried(f, acc, k).plan = [acc.plan EXCEPT ![k] = f[k]]
          /\ Tried(f, acc, k).order = Append(acc.order, k) /\ Tried(f, acc, k).left = acc.left
      BY <1>5, <3>1, TriedIs
    <3> QED BY <3>2
  <2> HIDE DEF next
  <2>2. Range(next.order) = Range(acc.order) \cup {k}
    BY <1>1, <2>1, Appended
  <2>3. next.plan = With(f, s, Range(next.order))
    <3>1. acc.plan = With(f, s, Range(acc.order))
      BY DEF Amid
    <3> HIDE DEF k
    <3>2. [With(f, s, Range(acc.order)) EXCEPT ![k] = f[k]] = With(f, s, Range(acc.order) \cup {k})
      <4> DEFINE S == Range(acc.order)
      <4>1. k \in Keys
        BY <1>1
      <4> HIDE DEF S
      <4>2. [With(f, s, S) EXCEPT ![k] = f[k]] = With(f, s, S \cup {k})
        BY <4>1, WithMore
      <4> QED BY <4>2 DEF S
    <3> QED BY <2>1, <2>2, <3>1, <3>2
  <2>4. Replays(f, s, next.order)
    <3>1. acc.plan = With(f, s, Range(acc.order)) /\ Replays(f, s, acc.order)
      BY DEF Amid
    <3> HIDE DEF k
    <3> QED BY <1>1, <1>5, <2>1, <3>1, ReplaysMore
  <2>5. /\ Distinct(next.left) /\ Range(next.left) \cap rest = {}
        /\ Range(next.order) \cap (Range(next.left) \cup rest) = {}
        /\ Range(next.order) \cup Range(next.left) \cup rest = keys
    BY <1>2, <2>1, <2>2 DEF Amid
  <2>6. Len(next.left) < i
    BY <1>1, <2>1 DEF Amid
  <2>7. ~Stuck(f, start)
    <3>1. Stuck(f, start) => acc.plan = start.plan
      BY DEF Amid
    <3> QED BY <1>4, <1>5, <3>1
  <2>8. Len(next.left) # i /\ Len(next.left) <= i
    BY <1>1, <2>1, <2>6
  <2>9. Amid(f, s, keys, start, i, next)
    BY <2>3, <2>4, <2>5, <2>7, <2>8 DEF Amid, rest
  <2> QED BY <2>9 DEF next
<1>6. CASE ~Movable(f[k], Others(acc.plan, k))
  <2>1. next.plan = acc.plan /\ next.order = acc.order /\ next.left = Append(acc.left, k)
    <3>1. k \in Keys
      BY <1>1
    <3> HIDE DEF k
    <3>2. /\ Tried(f, acc, k).plan = acc.plan /\ Tried(f, acc, k).order = acc.order
          /\ Tried(f, acc, k).left = Append(acc.left, k)
      BY <1>6, <3>1, TriedIs
    <3> QED BY <3>2
  <2> HIDE DEF next
  <2>2. /\ Range(next.left) = Range(acc.left) \cup {k} /\ Len(next.left) = Len(acc.left) + 1
        /\ \A j \in 1..Len(acc.left) : next.left[j] = acc.left[j]
        /\ next.left[Len(acc.left) + 1] = k
    BY <1>1, <2>1, Appended
  <2>3. next.plan = With(f, s, Range(next.order)) /\ Replays(f, s, next.order)
    BY <2>1 DEF Amid
  <2>4. Distinct(next.left)
    <3>1. \A j \in 1..Len(acc.left) : acc.left[j] # k
      <4>1. k \notin Range(acc.left)
        BY <1>2 DEF Amid
      <4> QED BY <1>1, <4>1, RangeOf
    <3>2. Distinct(acc.left)
      BY DEF Amid
    <3> HIDE DEF k
    <3> SUFFICES ASSUME NEW a \in 1..Len(next.left), NEW b \in 1..Len(next.left), next.left[a] = next.left[b]
                 PROVE  a = b
      BY DEF Distinct
    <3>3. \A j \in 1..Len(next.left) : j \in 1..Len(acc.left) \/ j = Len(acc.left) + 1
      BY <1>1, <2>2
    <3> QED BY <2>2, <3>1, <3>2, <3>3 DEF Distinct
  <2>5. /\ Range(next.left) \cap rest = {}
        /\ Range(next.order) \cap (Range(next.left) \cup rest) = {}
        /\ Range(next.order) \cup Range(next.left) \cup rest = keys
    BY <1>2, <2>1, <2>2 DEF Amid
  <2>6. Len(next.left) <= i
    BY <1>1, <2>2 DEF Amid
  <2>7. ASSUME Len(next.left) = i
        PROVE  /\ next.plan = start.plan /\ next.order = start.order
               /\ \A j \in 1..i : /\ next.left[j] = start.left[j]
                                  /\ ~Movable(f[start.left[j]], Others(start.plan, start.left[j]))
    <3>1. Len(acc.left) = i - 1
      BY <1>1, <2>2, <2>7
    <3>2. /\ acc.plan = start.plan /\ acc.order = start.order
          /\ \A j \in 1..(i - 1) : /\ acc.left[j] = start.left[j]
                                   /\ ~Movable(f[start.left[j]], Others(start.plan, start.left[j]))
      BY <3>1 DEF Amid
    <3>3. ASSUME NEW j \in 1..i
          PROVE  /\ next.left[j] = start.left[j]
                 /\ ~Movable(f[start.left[j]], Others(start.plan, start.left[j]))
      <4>1. CASE j = i
        <5>1. next.left[i] = k
          BY <2>2, <3>1
        <5> QED BY <1>6, <3>2, <4>1, <5>1
      <4>2. CASE j # i
        <5>1. j \in 1..(i - 1)
          BY <4>2
        <5> QED BY <2>2, <3>1, <3>2, <5>1
      <4> QED BY <4>1, <4>2
    <3> QED BY <2>1, <3>2, <3>3
  <2>8. Stuck(f, start) => Len(next.left) = i
    BY <1>1, <2>2 DEF Amid
  <2>9. Amid(f, s, keys, start, i, next)
    BY <2>3, <2>4, <2>5, <2>6, <2>7, <2>8 DEF Amid, rest
  <2> QED BY <2>9 DEF next
<1> QED BY <1>5, <1>6

\* A pass keeps what the planner's state holds; it moves a key, or it changes
\* nothing and none can move.
LEMMA PassEffect ==
  ASSUME NEW f \in Plans, NEW s, NEW keys, NEW start \in Accs, Sound(f, s, keys, start)
  PROVE  /\ Pass(f, start) \in Accs /\ Sound(f, s, keys, Pass(f, start))
         /\ \/ Len(Pass(f, start).left) < Len(start.left) /\ ~Stuck(f, start)
            \/ Pass(f, start) = start /\ Stuck(f, start)
<1> DEFINE n == Len(start.left)
           end == Pass(f, start)
<1>1. n \in Nat /\ start.left \in Seq(Keys) /\ Distinct(start.left)
  BY DEF Accs, Sound
<1>2. PICK r \in [0..n -> Accs] :
        /\ r[0] = [start EXCEPT !.left = <<>>]
        /\ \A i \in 1..n : r[i] = Tried(f, r[i - 1], start.left[i])
        /\ end = r[n]
  BY PassRuns
<1>3. end \in Accs /\ Amid(f, s, keys, start, n, end)
  <2> DEFINE S == {i \in 0..n : Amid(f, s, keys, start, i, r[i])}
  <2>1. 0 \in S
    BY <1>1, <1>2, AmidStart
  <2>2. ASSUME NEW i \in 1..n, i - 1 \in S PROVE i \in S
    <3>1. r[i - 1] \in Accs /\ Amid(f, s, keys, start, i - 1, r[i - 1]) /\ i \in 0..n
      BY <1>2, <2>2
    <3> QED BY <1>1, <1>2, <3>1, AmidTried
  <2> HIDE DEF S, n
  <2>3. \A i \in 0..n : i \in S
    BY <1>1, <2>1, <2>2, Climb
  <2>4. n \in S
    BY <1>1, <2>3
  <2> QED BY <1>1, <1>2, <2>4 DEF S
<1> HIDE DEF end
<1>4. Untried(start, n) = {}
  BY <1>1 DEF Untried
<1>5. Sound(f, s, keys, end)
  BY <1>3, <1>4 DEF Amid, Sound
<1>6. end.left \in Seq(Keys) /\ Len(end.left) \in Nat /\ Len(end.left) <= n
  BY <1>3 DEF Accs, Amid
<1>7. CASE Len(end.left) = n
  <2>1. /\ end.plan = start.plan /\ end.order = start.order
        /\ \A j \in 1..n : /\ end.left[j] = start.left[j]
                           /\ ~Movable(f[start.left[j]], Others(start.plan, start.left[j]))
    BY <1>3, <1>7 DEF Amid
  <2>2. end.left = start.left
    BY <1>1, <1>6, <1>7, <2>1
  <2>3. end = start
    BY <1>3, <2>1, <2>2 DEF Accs
  <2>4. Stuck(f, start)
    BY <1>1, <2>1, RangeOf DEF Stuck
  <2> QED BY <1>3, <1>5, <2>3, <2>4 DEF end
<1>8. CASE Len(end.left) # n
  <2>1. Len(end.left) < n
    BY <1>1, <1>6, <1>8
  <2>2. ~Stuck(f, start)
    BY <1>3, <1>8 DEF Amid
  <2> QED BY <1>3, <1>5, <2>1, <2>2 DEF end
<1> QED BY <1>7, <1>8

LEMMA PassTyped ==
  ASSUME NEW f \in Plans, NEW start \in Accs
  PROVE  Pass(f, start) \in Accs
<1>1. PICK r \in [0..Len(start.left) -> Accs] : Pass(f, start) = r[Len(start.left)]
  BY PassRuns
<1>2. Len(start.left) \in 0..Len(start.left)
  BY DEF Accs
<1> QED BY <1>1, <1>2

\* The recursion over the passes, unfolded.
LEMMA PlannedRuns ==
  ASSUME NEW f \in Plans, NEW s \in Plans, NEW keys \in Seq(Keys)
  PROVE  \E r \in [0..Len(keys) -> Accs] :
           /\ r[0] = [plan |-> s, order |-> <<>>, left |-> keys]
           /\ \A i \in 1..Len(keys) : r[i] = Pass(f, r[i - 1])
           /\ Planned(f, s, keys) = r[Len(keys)]
<1> DEFINE n == Len(keys)
           base == [plan |-> s, order |-> <<>>, left |-> keys]
           step == [x \in Accs \X (1..n) |-> Pass(f, x[1])]
           Follows(q) == q = [i \in 0..n |-> IF i = 0 THEN base ELSE Pass(f, q[i - 1])]
           run == CHOOSE q : Follows(q)
<1>1. n \in Nat /\ base \in Accs
  BY EmptySequence DEF Accs
<1>2. step \in [Accs \X (1..n) -> Accs]
  BY PassTyped
<1>3. Planned(f, s, keys) = run[n]
  BY DEF Planned
<1> HIDE DEF base
<1>4. PICK r \in [0..n -> Accs] : r[0] = base /\ \A i \in 1..n : r[i] = step[<<r[i - 1], i>>]
  <2>1. Runs(Accs, base, n, step) # {}
    <3> HIDE DEF step, n, Follows, run
    <3> QED BY <1>1, <1>2, RunExists
  <2> QED BY <2>1 DEF Runs
<1>5. Follows(r)
  <2>1. ASSUME NEW i \in 0..n PROVE r[i] = IF i = 0 THEN base ELSE Pass(f, r[i - 1])
    <3>1. CASE i = 0
      BY <1>4, <3>1
    <3>2. CASE i # 0
      <4>1. i \in 1..n /\ i - 1 \in 0..n
        BY <1>1, <3>2
      <4>2. r[i] = step[<<r[i - 1], i>>] /\ <<r[i - 1], i>> \in Accs \X (1..n)
        BY <1>4, <4>1
      <4> QED BY <3>2, <4>2
    <3> QED BY <3>1, <3>2
  <2> QED BY <1>4, <2>1
<1>6. Follows(run)
  <2> HIDE DEF Follows
  <2> QED BY <1>5
<1> HIDE DEF run
<1>7. run[0] = base /\ \A i \in 1..n : run[i] = Pass(f, run[i - 1])
  <2>1. run = [i \in 0..n |-> IF i = 0 THEN base ELSE Pass(f, run[i - 1])]
    BY <1>6
  <2>2. \A i \in 0..n : run[i] = IF i = 0 THEN base ELSE Pass(f, run[i - 1])
    BY <2>1, Zenon
  <2>3. 0 \in 0..n /\ \A i \in 1..n : i \in 0..n /\ i # 0
    BY <1>1
  <2> QED BY <2>2, <2>3, Zenon
<1>8. \A i \in 0..n : run[i] \in Accs
  <2> DEFINE S == {i \in 0..n : run[i] \in Accs}
  <2>1. 0 \in S
    BY <1>1, <1>7
  <2>2. ASSUME NEW i \in 1..n, i - 1 \in S PROVE i \in S
    <3>1. run[i - 1] \in Accs /\ i \in 0..n
      BY <1>1, <2>2
    <3>2. Pass(f, run[i - 1]) \in Accs
      BY <3>1, PassTyped
    <3> QED BY <1>7, <3>1, <3>2
  <2> HIDE DEF S
  <2>3. \A i \in 0..n : i \in S
    BY <1>1, <2>1, <2>2, Climb
  <2> QED BY <2>3 DEF S
<1>9. run \in [0..n -> Accs]
  <2>1. run = [i \in 0..n |-> run[i]]
    BY <1>6, Zenon
  <2> QED BY <1>8, <2>1
<1> QED BY <1>3, <1>7, <1>9 DEF base

\* The planner ends with every key ordered or left, and none left can move.
LEMMA PlannedEffect ==
  ASSUME NEW f \in Plans, NEW s \in Plans, NEW keys \in Seq(Keys), Distinct(keys)
  PROVE  LET end == Planned(f, s, keys)
         IN  end \in Accs /\ Sound(f, s, Range(keys), end) /\ Stuck(f, end)
<1> DEFINE n == Len(keys)
           end == Planned(f, s, keys)
           base == [plan |-> s, order |-> <<>>, left |-> keys]
<1>1. n \in Nat /\ base \in Accs
  BY EmptySequence DEF Accs
<1>2. Sound(f, s, Range(keys), base)
  <2>1. With(f, s, {}) = s
    BY DEF With, Plans
  <2>2. Replays(f, s, <<>>)
    BY EmptySequence DEF Replays
  <2> QED BY <2>1, <2>2, EmptySequence DEF Sound
<1>3. PICK r \in [0..n -> Accs] :
        /\ r[0] = base
        /\ \A i \in 1..n : r[i] = Pass(f, r[i - 1])
        /\ end = r[n]
  BY PlannedRuns
<1> DEFINE S == {i \in 0..n : /\ Sound(f, s, Range(keys), r[i])
                              /\ Len(r[i].left) <= n - i \/ Stuck(f, r[i])}
<1>4. 0 \in S
  <2>1. Len(r[0].left) <= n - 0
    BY <1>1, <1>3
  <2> QED BY <1>1, <1>2, <1>3, <2>1
<1>5. ASSUME NEW i \in 1..n, i - 1 \in S PROVE i \in S
  <2> DEFINE start == r[i - 1]
             next == r[i]
  <2>1. /\ start \in Accs /\ next = Pass(f, start) /\ Sound(f, s, Range(keys), start)
        /\ Len(start.left) <= n - (i - 1) \/ Stuck(f, start)
    BY <1>1, <1>3, <1>5
  <2> HIDE DEF start, next
  <2>2. /\ next \in Accs /\ Sound(f, s, Range(keys), next)
        /\ \/ Len(next.left) < Len(start.left) /\ ~Stuck(f, start)
           \/ next = start /\ Stuck(f, start)
    BY <2>1, PassEffect
  <2>3. Len(next.left) \in Nat /\ Len(start.left) \in Nat
    BY <2>1, <2>2 DEF Accs
  <2>4. Len(next.left) <= n - i \/ Stuck(f, next)
    BY <1>1, <2>1, <2>2, <2>3
  <2> QED BY <2>2, <2>4 DEF next
<1>6. n \in S
  <2> HIDE DEF S, n
  <2>1. \A i \in 0..n : i \in S
    BY <1>1, <1>4, <1>5, Climb
  <2> QED BY <1>1, <2>1
<1> HIDE DEF end
<1>7. end \in Accs /\ Sound(f, s, Range(keys), end) /\ (Len(end.left) <= 0 \/ Stuck(f, end))
  BY <1>1, <1>3, <1>6
<1>8. Len(end.left) <= 0 => Stuck(f, end)
  BY <1>7 DEF Accs, Stuck, Range
<1> QED BY <1>7, <1>8 DEF end

-----------------------------------------------------------------------------
(***************************************************************************)
(* The orders a set of keys can be written in.                              *)
(***************************************************************************)
LEMMA InjectionIs ==
  ASSUME NEW S, NEW T, NEW f \in [S -> T], \A x, y \in S : f[x] = f[y] => x = y
  PROVE  f \in Injection(S, T)
BY DEF Injection, IsInjective

\* As many numbers as a finite set has members, each standing for one, stand
\* for all of them.
LEMMA Covers ==
  ASSUME NEW S, NEW T, IsFiniteSet(T), IsFiniteSet(S), Cardinality(S) = Cardinality(T),
         NEW f \in [S -> T], \A x, y \in S : f[x] = f[y] => x = y
  PROVE  \A t \in T : \E x \in S : f[x] = t
<1>1. f \in Injection(S, T)
  BY InjectionIs
<1>2. f \in Surjection(S, T)
  BY <1>1, FS_Injection
<1> QED BY <1>2 DEF Surjection

LEMMA Counted ==
  ASSUME NEW S, IsFiniteSet(S)
  PROVE  Cardinality(S) \in Nat /\ IsFiniteSet(1..Cardinality(S)) /\ Cardinality(1..Cardinality(S)) = Cardinality(S)
<1>1. Cardinality(S) \in Nat
  BY FS_CardinalityType
<1> DEFINE n == Cardinality(S)
<1> HIDE DEF n
<1>2. n \in Nat => IsFiniteSet(1..n) /\ Cardinality(1..n) = n
  BY FS_Interval
<1> QED BY <1>1, <1>2 DEF n

LEMMA Enumerates ==
  ASSUME NEW S \in SUBSET Keys, IsFiniteSet(S), NEW q \in SetToSeqs(S)
  PROVE  q \in Seq(Keys) /\ Distinct(q) /\ Range(q) = S
<1> DEFINE n == Cardinality(S)
<1>1. n \in Nat /\ IsFiniteSet(1..n) /\ Cardinality(1..n) = n
  BY Counted
<1>2. q \in [1..n -> S] /\ \A i, j \in 1..n : i # j => q[i] # q[j]
  BY DEF SetToSeqs
<1> HIDE DEF n
<1>3. q \in Seq(Keys) /\ Len(q) = n /\ DOMAIN q = 1..n
  BY <1>1, <1>2
<1>4. \A x \in S : \E i \in 1..n : q[i] = x
  <2>1. \A i, j \in 1..n : q[i] = q[j] => i = j
    BY <1>2
  <2> QED BY <1>1, <1>2, <2>1, Covers DEF n
<1>5. Range(q) = S
  BY <1>2, <1>3, <1>4 DEF Range
<1> QED BY <1>2, <1>3, <1>5 DEF Distinct

\* The triggers of a plan, those before a trigger counted, are in an order.
LEMMA SortedExists ==
  ASSUME PairAssumption, NEW p, NEW S \in SUBSET Keys, \A k \in S : p[k] \in Configs
  PROVE  \E q \in SetToSeqs(S) : \A i, j \in DOMAIN q : i < j => Before(p, q[i], q[j])
<1> DEFINE n == Cardinality(S)
           Below(x) == {y \in S : Before(p, y, x)}
           rank == [x \in S |-> Cardinality(Below(x)) + 1]
<1>1. IsFiniteSet(S) /\ n \in Nat /\ IsFiniteSet(1..n) /\ Cardinality(1..n) = n
  BY FS_Subset, Counted DEF PairAssumption
<1>2. \A x \in S : x \in Nat /\ p[x].sequence \in Nat
  BY DEF PairAssumption
<1>3. /\ \A x \in S : ~Before(p, x, x)
      /\ \A x, y, z \in S : Before(p, x, y) /\ Before(p, y, z) => Before(p, x, z)
      /\ \A x, y \in S : x # y => Before(p, x, y) \/ Before(p, y, x)
  BY <1>2 DEF Before
<1>4. \A x \in S : IsFiniteSet(Below(x)) /\ Cardinality(Below(x)) \in Nat
  <2> TAKE x \in S
  <2>1. Below(x) \in SUBSET S
    OBVIOUS
  <2> HIDE DEF Below
  <2> QED BY <1>1, <2>1, FS_Subset, FS_CardinalityType
<1>5. ASSUME NEW x \in S, NEW T \in SUBSET S, Below(x) \subseteq T, x \in T
      PROVE  rank[x] <= Cardinality(T)
  <2> DEFINE B == Below(x)
  <2>1. x \notin B /\ IsFiniteSet(B) /\ Cardinality(B) \in Nat /\ B \cup {x} \in SUBSET T
    BY <1>3, <1>4, <1>5
  <2>2. rank[x] = Cardinality(B) + 1
    OBVIOUS
  <2>3. IsFiniteSet(T)
    BY <1>1, FS_Subset
  <2> HIDE DEF B
  <2>4. Cardinality(B \cup {x}) = Cardinality(B) + 1
    BY <2>1, FS_AddElement
  <2>5. Cardinality(B \cup {x}) <= Cardinality(T)
    BY <2>1, <2>3, FS_Subset
  <2> QED BY <2>2, <2>4, <2>5
<1>6. rank \in [S -> 1..n]
  <2>1. \A x \in S : rank[x] \in Nat /\ 1 <= rank[x]
    BY <1>4
  <2>2. \A x \in S : rank[x] <= n
    BY <1>5
  <2> HIDE DEF Below, n
  <2> QED BY <1>1, <2>1, <2>2
<1>7. ASSUME NEW x \in S, NEW y \in S, Before(p, x, y) PROVE rank[x] < rank[y]
  <2>1. Below(x) \subseteq Below(y) /\ x \in Below(y)
    BY <1>3, <1>7
  <2>2. rank[x] <= Cardinality(Below(y))
    BY <1>5, <2>1
  <2>3. rank[y] = Cardinality(Below(y)) + 1
    OBVIOUS
  <2> HIDE DEF rank, Below
  <2>4. rank[x] \in Nat
    BY <1>1, <1>6
  <2> QED BY <1>4, <2>2, <2>3, <2>4
<1> HIDE DEF rank, Below
<1>8. \A x, y \in S : rank[x] = rank[y] => x = y
  <2> SUFFICES ASSUME NEW x \in S, NEW y \in S, x # y PROVE rank[x] # rank[y]
    OBVIOUS
  <2>1. rank[x] \in Nat /\ rank[y] \in Nat
    BY <1>1, <1>6
  <2>2. rank[x] < rank[y] \/ rank[y] < rank[x]
    BY <1>3, <1>7
  <2> QED BY <2>1, <2>2
<1>9. \A i \in 1..n : \E x \in S : rank[x] = i
  <2> DEFINE D == 1..n
  <2>1. IsFiniteSet(D) /\ IsFiniteSet(S) /\ Cardinality(S) = Cardinality(D) /\ rank \in [S -> D]
    BY <1>1, <1>6
  <2> HIDE DEF D, n
  <2>2. rank \in Injection(S, D)
    BY <1>8, <2>1, InjectionIs
  <2>3. rank \in Surjection(S, D)
    BY <2>1, <2>2, FS_Injection
  <2> QED BY <2>3 DEF D, Surjection
<1> DEFINE q == [i \in 1..n |-> CHOOSE x \in S : rank[x] = i]
<1>10. \A i \in 1..n : q[i] \in S /\ rank[q[i]] = i
  BY <1>9
<1> HIDE DEF n
<1>11. q \in SetToSeqs(S) /\ DOMAIN q = 1..n
  BY <1>10 DEF SetToSeqs, n
<1> HIDE DEF q
<1>12. ASSUME NEW i \in 1..n, NEW j \in 1..n, i < j PROVE Before(p, q[i], q[j])
  <2>1. q[i] \in S /\ q[j] \in S /\ rank[q[i]] = i /\ rank[q[j]] = j
    BY <1>10
  <2>2. ~(j < i) /\ i # j
    BY <1>12
  <2>3. ~Before(p, q[j], q[i]) /\ q[i] # q[j]
    BY <1>7, <2>1, <2>2
  <2> QED BY <1>3, <2>1, <2>3
<1> QED BY <1>11, <1>12

\* What is pending is listed once each, in the order of list_triggers.
LEMMA PendingIs ==
  ASSUME PairAssumption, NEW f \in Plans, NEW s \in Plans
  PROVE  /\ Pending(f, s) \in Seq(Keys) /\ Distinct(Pending(f, s))
         /\ Range(Pending(f, s)) = {k \in Listed(f) : s[k] # f[k]}
         /\ IsFiniteSet(Range(Pending(f, s)))
<1> DEFINE S == {k \in Listed(f) : s[k] # f[k]}
           Sorted(q) == \A i, j \in DOMAIN q : i < j => Before(f, q[i], q[j])
<1>1. S \in SUBSET Keys /\ \A k \in S : f[k] \in Configs
  BY DEF Listed
<1>2. IsFiniteSet(S)
  BY <1>1, FS_Subset DEF PairAssumption
<1>3. Pending(f, s) = CHOOSE q \in SetToSeqs(S) : Sorted(q)
  BY DEF Pending
<1> HIDE DEF S
<1>4. \E q \in SetToSeqs(S) : Sorted(q)
  BY <1>1, SortedExists
<1> HIDE DEF Sorted
<1>5. Pending(f, s) \in SetToSeqs(S)
  BY <1>3, <1>4
<1>6. /\ Pending(f, s) \in Seq(Keys) /\ Distinct(Pending(f, s)) /\ Range(Pending(f, s)) = S
  BY <1>1, <1>2, <1>5, Enumerates
<1> QED BY <1>2, <1>6 DEF S

-----------------------------------------------------------------------------
(***************************************************************************)
(* The planner against the writer.                                          *)
(***************************************************************************)
LEMMA WithTyped ==
  ASSUME NEW f \in Plans, NEW s \in Plans, NEW S
  PROVE  With(f, s, S) \in Plans
BY DEF With, Plans

LEMMA WithoutTyped ==
  ASSUME NEW s \in Plans, NEW S
  PROVE  Without(s, S) \in Plans
BY DEF Without, Plans

\* Two configurations may stand beside each other, or may not, either way round.
LEMMA PlacesAreMutual ==
  ASSUME PairAssumption, NEW c \in Configs, NEW d \in Configs, WellPlaced(d, {c})
  PROVE  Movable(c, {d})
BY DEF WellPlaced, Movable, PairAssumption

\* The planner of a synchronisation is complete: if the configurations of some
\* keys can be written in any order at all, one after the other and each well
\* placed among what is there then, _plan_trigger_sync leaves none of them.
THEOREM PlannerIsComplete ==
  ASSUME PairAssumption, NEW f \in Plans, NEW s \in Plans,
         NEW keys \in Seq(Keys), Distinct(keys), IsFiniteSet(Range(keys)), Range(keys) \subseteq Listed(f),
         NEW order \in SetToSeqs(Range(keys)), Written(f, s, order).ok
  PROVE  Planned(f, s, keys).left = <<>>
<1> DEFINE end == Planned(f, s, keys)
           Q == Range(keys)
           moved == Range(end.order)
           n == Len(order)
<1>1. end \in Accs /\ Sound(f, s, Q, end) /\ Stuck(f, end)
  BY PlannedEffect
<1>2. Q \in SUBSET Keys /\ IsFiniteSet(Q)
  BY RangeOf
<1>3. order \in Seq(Keys) /\ Distinct(order) /\ Range(order) = Q
  BY <1>2, Enumerates
<1>4. n \in Nat /\ DOMAIN order = 1..n /\ \A i \in 1..n : order[i] \in Q
  BY <1>3, RangeOf
<1>5. \A k \in Q : \E i \in 1..n : order[i] = k
  BY <1>3, RangeOf
<1>6. \A i \in 1..n : WellPlaced(f[order[i]], Others(With(f, s, Earlier(order, i)), order[i]))
  BY <1>4 DEF Written, Earlier
<1> HIDE DEF end, Q, n, moved
<1>7. end.plan = With(f, s, moved) /\ end.left \in Seq(Keys) /\ Q \ moved = Range(end.left) /\ moved \subseteq Q
  BY <1>1 DEF Sound, Accs, moved
<1>8. SUFFICES ASSUME Q \ moved # {} PROVE FALSE
  BY <1>7, RangeOf DEF end
<1> DEFINE waiting == {i \in 1..n : order[i] \notin moved}
<1>9. waiting # {} /\ waiting \in SUBSET Nat
  BY <1>4, <1>5, <1>8
<1>10. PICK i \in waiting : \A j \in waiting : i <= j
  BY <1>9, LeastOf
<1> DEFINE k == order[i]
           before == Earlier(order, i)
<1>11. i \in 1..n /\ k \in Q /\ k \notin moved /\ k \in Keys /\ k \in Listed(f) /\ k \in Range(end.left)
  BY <1>2, <1>4, <1>7, <1>10 DEF Q
<1>12. before \subseteq moved /\ k \notin before
  <2>1. ASSUME NEW j \in 1..(i - 1) PROVE order[j] \in moved
    <3>1. j \in 1..n /\ ~(i <= j)
      BY <1>4, <1>11
    <3> QED BY <1>10, <3>1
  <2>2. before \subseteq moved
    BY <2>1 DEF Earlier
  <2> QED BY <1>11, <2>2
<1>13. ~Movable(f[k], Others(end.plan, k))
  BY <1>1, <1>11 DEF Stuck
<1> HIDE DEF waiting, k, before
<1>14. PICK j \in Listed(end.plan) \ {k} : ~Movable(f[k], {end.plan[j]})
  BY <1>13 DEF Movable, Others
<1>15. j \in Keys /\ end.plan[j] \in Configs /\ f[k] \in Configs
  BY <1>11, <1>14 DEF Listed
<1>16. end.plan[j] = IF j \in moved THEN f[j] ELSE s[j]
  BY <1>7, <1>15 DEF With
<1>17. \A m \in Keys : With(f, s, before)[m] = IF m \in before THEN f[m] ELSE s[m]
  BY DEF With
<1>18. CASE j \notin moved \/ j \in before
  <2>1. With(f, s, before)[j] = end.plan[j]
    BY <1>12, <1>15, <1>16, <1>17, <1>18
  <2>2. end.plan[j] \in Others(With(f, s, before), k)
    BY <1>14, <1>15, <2>1 DEF Others, Listed
  <2>3. WellPlaced(f[k], Others(With(f, s, before), k))
    BY <1>6, <1>11 DEF k, before
  <2>4. Movable(f[k], {end.plan[j]})
    BY <2>2, <2>3 DEF WellPlaced, Movable
  <2> QED BY <1>14, <2>4
<1>19. CASE j \in moved /\ j \notin before
  <2>1. PICK m \in 1..n : order[m] = j
    BY <1>5, <1>7, <1>19
  <2>2. i < m
    <3>1. m # i
      BY <1>11, <1>19, <2>1 DEF k
    <3>2. m \notin 1..(i - 1)
      BY <1>19, <2>1 DEF before, Earlier
    <3> QED BY <1>4, <1>11, <2>1, <3>1, <3>2
  <2> DEFINE then == Earlier(order, m)
  <2>3. k \in then
    <3>1. i \in 1..(m - 1)
      BY <1>4, <1>11, <2>1, <2>2
    <3> QED BY <3>1 DEF Earlier, k
  <2>4. With(f, s, then)[k] = f[k]
    BY <1>11, <2>3 DEF With
  <2>5. f[k] \in Others(With(f, s, then), j)
    BY <1>11, <1>14, <1>15, <2>4 DEF Others, Listed
  <2>6. WellPlaced(f[j], Others(With(f, s, then), j))
    BY <1>6, <2>1
  <2>7. WellPlaced(f[j], {f[k]}) /\ f[j] = end.plan[j]
    BY <1>16, <1>19, <2>5, <2>6 DEF WellPlaced
  <2> QED BY <1>14, <1>15, <2>7, PlacesAreMutual
<1> QED BY <1>18, <1>19

\* What the writer may still refuse in a planned order is a second main trigger
\* and nothing else: where both plans have their main trigger under one key,
\* the order of _plan_trigger_sync can be written by _configure_locked.
THEOREM OrderAppliesWithOneMain ==
  ASSUME NEW f \in Plans, NEW s \in Plans, NEW keys \in Seq(Keys), Distinct(keys),
         NEW main, \A k \in Listed(f) : f[k].kind = "main" => k = main,
         \A k \in Listed(s) : s[k].kind = "main" => k = main,
         Range(keys) \subseteq Listed(f)
  PROVE  Written(f, s, Planned(f, s, keys).order).ok
<1> DEFINE order == Planned(f, s, keys).order
<1>1. order \in Seq(Keys) /\ Replays(f, s, order) /\ Range(order) \subseteq Range(keys)
  BY PlannedEffect DEF Sound, Accs
<1> HIDE DEF order
<1>2. DOMAIN order = 1..Len(order) /\ \A i \in 1..Len(order) : order[i] \in Listed(f)
  BY <1>1, RangeOf
<1>3. ASSUME NEW i \in 1..Len(order)
      PROVE  WellPlaced(f[order[i]], Others(With(f, s, Earlier(order, i)), order[i]))
  <2> DEFINE k == order[i]
             there == With(f, s, Earlier(order, i))
  <2>1. Movable(f[k], Others(there, k))
    BY <1>1 DEF Replays
  <2>2. ASSUME NEW d \in Others(there, k) PROVE ~(f[k].kind = "main" /\ d.kind = "main")
    <3>1. PICK j \in Listed(there) \ {k} : d = there[j]
      BY DEF Others
    <3>2. j \in Keys /\ (there[j] = f[j] \/ there[j] = s[j]) /\ there[j] \in Configs
      BY <3>1 DEF With, Listed
    <3>3. d.kind = "main" => j = main
      BY <3>1, <3>2 DEF Listed
    <3>4. f[k].kind = "main" => k = main
      BY <1>2
    <3> QED BY <3>1, <3>3, <3>4
  <2> QED BY <2>1, <2>2 DEF Movable, WellPlaced
<1> QED BY <1>2, <1>3 DEF Written, Earlier, order

-----------------------------------------------------------------------------
(***************************************************************************)
(* Every plan is well ordered, whatever is done to it.                      *)
(***************************************************************************)
LEMMA OrderIsPairwise ==
  ASSUME NEW p
  PROVE  WellOrdered(p) <=> \A j, k \in Listed(p) : j # k => WellPlaced(p[k], {p[j]})
BY DEF WellOrdered, WellPlaced, Others

LEMMA PlacedAmong ==
  ASSUME NEW p, NEW k, NEW c
  PROVE  WellPlaced(c, Others(p, k)) <=> \A j \in Listed(p) \ {k} : WellPlaced(c, {p[j]})
BY DEF WellPlaced, Others

LEMMA PlacedEitherWay ==
  ASSUME PairAssumption, NEW c \in Configs, NEW d \in Configs, WellPlaced(d, {c})
  PROVE  WellPlaced(c, {d})
BY DEF WellPlaced, PairAssumption

LEMMA ConfiguredInOrder ==
  ASSUME PairAssumption, NEW p \in Plans, WellOrdered(p), NEW k \in Keys, NEW c \in Configs,
         WellPlaced(c, Others(p, k))
  PROVE  WellOrdered([p EXCEPT ![k] = c])
<1> DEFINE q == [p EXCEPT ![k] = c]
<1>1. q[k] = c /\ \A j \in Keys \ {k} : q[j] = p[j]
  BY DEF Plans
<1> HIDE DEF q
<1>2. \A j \in Listed(p) \ {k} : p[j] \in Configs /\ WellPlaced(c, {p[j]}) /\ WellPlaced(p[j], {c})
  BY PlacedAmong, PlacedEitherWay DEF Listed
<1>3. \A i, j \in Listed(p) : i # j => WellPlaced(p[j], {p[i]})
  BY OrderIsPairwise
<1>4. ASSUME NEW i \in Listed(q), NEW j \in Listed(q), i # j PROVE WellPlaced(q[j], {q[i]})
  <2>1. i \in Keys /\ j \in Keys /\ (i # k => i \in Listed(p)) /\ (j # k => j \in Listed(p))
    BY <1>1 DEF Listed
  <2>2. CASE i = k
    <3>1. j \in Listed(p) \ {k} /\ q[j] = p[j] /\ q[i] = c
      BY <1>1, <1>4, <2>1, <2>2
    <3> QED BY <1>2, <3>1
  <2>3. CASE j = k
    <3>1. i \in Listed(p) \ {k} /\ q[i] = p[i] /\ q[j] = c
      BY <1>1, <1>4, <2>1, <2>3
    <3> QED BY <1>2, <3>1
  <2>4. CASE i # k /\ j # k
    <3>1. q[i] = p[i] /\ q[j] = p[j] /\ i \in Listed(p) /\ j \in Listed(p)
      BY <1>1, <2>1, <2>4
    <3> QED BY <1>3, <1>4, <3>1
  <2> QED BY <2>2, <2>3, <2>4
<1>5. WellOrdered(q)
  BY <1>4, OrderIsPairwise
<1> QED BY <1>5 DEF q

LEMMA RemovedInOrder ==
  ASSUME NEW p \in Plans, WellOrdered(p), NEW k \in Keys, NEW t, t \notin Configs
  PROVE  WellOrdered([p EXCEPT ![k] = t])
<1> DEFINE q == [p EXCEPT ![k] = t]
<1>1. q[k] = t /\ \A j \in Keys \ {k} : q[j] = p[j]
  BY DEF Plans
<1> HIDE DEF q
<1>2. \A j \in Listed(q) : j \in Listed(p) /\ q[j] = p[j]
  BY <1>1 DEF Listed
<1>3. \A i, j \in Listed(p) : i # j => WellPlaced(p[j], {p[i]})
  BY OrderIsPairwise
<1>4. WellOrdered(q)
  BY <1>2, <1>3, OrderIsPairwise
<1> QED BY <1>4 DEF q

LEMMA SameTriggers ==
  ASSUME NEW p, NEW q, Listed(q) = Listed(p), \A k \in Listed(p) : q[k] = p[k], WellOrdered(p)
  PROVE  WellOrdered(q)
BY OrderIsPairwise

-----------------------------------------------------------------------------
(***************************************************************************)
(* The invariant of a paired week.                                          *)
(***************************************************************************)

\* A round with a lifecycle row has frozen a mapping; a request past the
\* opening of the finals week finds it open; the plans are well ordered, and
\* what has fired is still listed.
PairInv ==
  /\ PairTypeOK
  /\ \A r \in Rounds : stage[r] # "none" => frozen[r] \in Mapping
  /\ request \in {"opened", "synchronised", "set up"} => stage["finals"] = "open"
  /\ \A r \in Rounds : WellOrdered(plan[r])
  /\ fired \subseteq Listed(plan["superscore"])

\* What a synchronisation makes of the SuperScore plan.
LEMMA Synchronised ==
  ASSUME PairAssumption, PairInv, Synchronise
  PROVE  LET f == plan["finals"]
             s == plan["superscore"]
             t == plan'["superscore"]
         IN  /\ plan' = [plan EXCEPT !["superscore"] = t] /\ t \in Plans
             /\ Listed(t) = Listed(f) /\ \A k \in Listed(f) : t[k] = f[k]
             /\ WellOrdered(t)
             /\ \A k \in fired : t[k] = s[k] /\ k \in Listed(t)
<1> DEFINE f == plan["finals"]
           s == plan["superscore"]
           t == plan'["superscore"]
           Q == Range(Pending(f, s))
           kept == Without(s, Obsolete(f, s))
           end == Planned(f, kept, Pending(f, s))
<1>1. "finals" \in Rounds /\ "superscore" \in Rounds /\ "finals" # "superscore"
  BY DEF Rounds
<1>2. f \in Plans /\ s \in Plans /\ WellOrdered(f) /\ fired \subseteq Listed(s)
  BY <1>1 DEF PairInv, PairTypeOK
<1>3. plan' = [plan EXCEPT !["superscore"] = With(f, kept, Range(end.order))]
  BY DEF Synchronise, Removals, Written
<1>4. t = With(f, kept, Range(end.order)) /\ plan' = [plan EXCEPT !["superscore"] = t]
  BY <1>1, <1>3 DEF PairInv, PairTypeOK
<1>5. /\ end.left = <<>>
      /\ \A k \in Obsolete(f, s) \cup Q : k \in Listed(s) => k \notin fired
  BY DEF Synchronise, Valid, Removals
<1> HIDE DEF t, f, s, kept, end
<1>6. kept \in Plans
  BY <1>2, WithoutTyped DEF kept
<1>7. Pending(f, s) \in Seq(Keys) /\ Distinct(Pending(f, s)) /\ Q = {k \in Listed(f) : s[k] # f[k]}
  BY <1>2, PendingIs
<1>8. Sound(f, kept, Q, end)
  BY <1>2, <1>6, <1>7, PlannedEffect DEF end
<1>9. Range(end.order) = Q
  BY <1>5, <1>8, EmptySequence DEF Sound
<1>10. t \in Plans
  BY <1>2, <1>4, <1>6, WithTyped
<1>11. \A k \in Keys : t[k] = IF k \in Q THEN f[k]
                              ELSE IF k \in Obsolete(f, s) THEN Removed ELSE s[k]
  BY <1>4, <1>9 DEF With, Without, kept
<1> HIDE DEF Q
<1>12. \A k \in Listed(f) : t[k] = f[k] /\ k \in Listed(t)
  BY <1>7, <1>11 DEF Listed, Obsolete
<1>13. \A k \in Listed(t) : k \in Listed(f)
  BY <1>7, <1>11 DEF Listed, Obsolete, PairAssumption
<1>14. WellOrdered(t)
  BY <1>2, <1>12, <1>13, SameTriggers
<1>15. \A k \in fired : t[k] = s[k] /\ k \in Listed(t)
  BY <1>2, <1>5, <1>11 DEF Listed
<1> QED BY <1>4, <1>10, <1>12, <1>13, <1>14, <1>15 DEF t, f, s

LEMMA PairStart ==
  ASSUME PairAssumption, PairInit
  PROVE  PairInv
<1>1. PairTypeOK
  <2>1. plan \in [Rounds -> Plans] /\ mapping \in [Rounds -> Mapping] /\ edits \in 0..MaxEdits
    BY DEF PairInit, PairAssumption
  <2> QED BY <2>1 DEF PairInit, PairTypeOK
<1>2. \A r \in Rounds : stage[r] = "none" /\ WellOrdered(plan[r])
  BY DEF PairInit
<1> QED BY <1>1, <1>2 DEF PairInit, PairInv

\* Editing a plan keeps it well ordered and what has fired listed.
LEMMA EditKeeps ==
  ASSUME PairAssumption, PairInv, NEW r \in Rounds, NEW k \in Keys, NEW t \in Configs \cup {Removed},
         t \in Configs => WellPlaced(t, Others(plan[r], k)), Edit(r, k, t)
  PROVE  PairInv'
<1>1. plan \in [Rounds -> Plans] /\ plan[r] \in Plans /\ WellOrdered(plan[r])
  BY DEF PairInv, PairTypeOK
<1>2. plan' = [plan EXCEPT ![r] = [plan[r] EXCEPT ![k] = t]]
  BY DEF Edit
<1>3. [plan[r] EXCEPT ![k] = t] \in Plans
  BY <1>1 DEF Plans
<1>4. WellOrdered([plan[r] EXCEPT ![k] = t])
  <2>1. CASE t \in Configs
    BY <1>1, <2>1, ConfiguredInOrder
  <2>2. CASE t \notin Configs
    BY <1>1, <2>2, RemovedInOrder
  <2> QED BY <2>1, <2>2
<1>5. \A q \in Rounds : WellOrdered(plan'[q])
  BY <1>1, <1>2, <1>4 DEF PairInv
<1>6. PairTypeOK'
  <2>1. plan' \in [Rounds -> Plans]
    BY <1>1, <1>2, <1>3
  <2>2. edits' = edits + 1 /\ edits < MaxEdits /\ edits \in 0..MaxEdits /\ MaxEdits \in Nat
    BY DEF Edit, PairInv, PairTypeOK, PairAssumption
  <2>3. edits' \in 0..MaxEdits
    BY <2>2
  <2> QED BY <2>1, <2>3 DEF Edit, PairInv, PairTypeOK
<1>7. fired' \subseteq Listed(plan'["superscore"])
  <2>1. ASSUME NEW j \in fired PROVE plan'["superscore"][j] = plan["superscore"][j]
    <3>1. CASE r = "superscore"
      BY <1>1, <1>2, <3>1 DEF Edit, Plans
    <3>2. CASE r # "superscore"
      BY <1>1, <1>2, <3>2 DEF Rounds
    <3> QED BY <3>1, <3>2
  <2> QED BY <2>1 DEF Edit, PairInv, Listed
<1> QED BY <1>5, <1>6, <1>7 DEF Edit, PairInv

LEMMA CreateKeeps ==
  ASSUME PairInv, NEW r \in Rounds, stage[r] = "none", Create(r),
         request' = request
  PROVE  PairInv'
<1>1. /\ stage' \in [Rounds -> {"none", "upcoming", "open"}] /\ frozen' \in [Rounds -> Mapping \cup {NoRow}]
      /\ frozen'[r] \in Mapping
      /\ \A q \in Rounds : q # r => stage'[q] = stage[q] /\ frozen'[q] = frozen[q]
  BY DEF Create, PairInv, PairTypeOK
<1>2. PairTypeOK'
  BY <1>1 DEF Create, PairInv, PairTypeOK
<1>3. \A q \in Rounds : stage'[q] # "none" => frozen'[q] \in Mapping
  BY <1>1 DEF PairInv
<1>4. request \in {"opened", "synchronised", "set up"} => r # "finals"
  BY DEF PairInv
<1>5. request' \in {"opened", "synchronised", "set up"} => stage'["finals"] = "open"
  BY <1>1, <1>4 DEF PairInv, Rounds
<1> QED BY <1>2, <1>3, <1>5 DEF Create, PairInv

LEMMA OpenKeeps ==
  ASSUME PairInv, NEW r \in Rounds, stage[r] = "upcoming", Open(r),
         \/ request' = request
         \/ r = "finals" /\ request' = "opened"
         \/ request' = "none"
  PROVE  PairInv'
<1>1. /\ stage' \in [Rounds -> {"none", "upcoming", "open"}] /\ stage'[r] = "open"
      /\ \A q \in Rounds : q # r => stage'[q] = stage[q]
  BY DEF Open, PairInv, PairTypeOK
<1>2. PairTypeOK'
  BY <1>1 DEF Open, PairInv, PairTypeOK
<1>3. \A q \in Rounds : stage'[q] # "none" => frozen'[q] \in Mapping
  BY <1>1 DEF Open, PairInv
<1>4. request' \in {"opened", "synchronised", "set up"} => stage'["finals"] = "open"
  <2>1. stage["finals"] = "open" => stage'["finals"] = "open"
    BY <1>1 DEF Rounds
  <2> QED BY <1>1, <2>1 DEF PairInv
<1> QED BY <1>2, <1>3, <1>4 DEF Open, PairInv

LEMMA PairStep ==
  ASSUME PairAssumption, PairInv, [PairNext]_pairVars
  PROVE  PairInv'
<1>1. CASE \E r \in Rounds : CheckMapping(r)
  BY <1>1 DEF CheckMapping, PairInv, PairTypeOK
<1>2. CASE \E r \in Rounds : OpenByItself(r)
  <2>1. PICK r \in Rounds : OpenByItself(r)
    BY <1>2
  <2>2. CASE stage[r] = "none" /\ Create(r)
    BY <2>1, <2>2, CreateKeeps DEF OpenByItself
  <2>3. CASE stage[r] = "upcoming" /\ Open(r)
    BY <2>1, <2>3, OpenKeeps DEF OpenByItself
  <2> QED BY <2>1, <2>2, <2>3 DEF OpenByItself
<1>3. CASE AcceptMapping
  <2>1. mapping' \in [Rounds -> Mapping]
    <3>1. remap \in Rounds /\ mapping[remap] \in Mapping
      BY <1>3 DEF AcceptMapping, PairInv, PairTypeOK
    <3>2. PICK a \in AflRounds :
            mapping' = [mapping EXCEPT ![remap] = [revision |-> mapping[remap].revision + 1, round |-> a]]
      BY <1>3 DEF AcceptMapping
    <3>3. [revision |-> mapping[remap].revision + 1, round |-> a] \in Mapping
      BY <1>3, <3>1 DEF AcceptMapping, Mapping, PairAssumption
    <3> QED BY <3>1, <3>2, <3>3 DEF PairInv, PairTypeOK
  <2>2. edits' \in 0..MaxEdits
    <3>1. edits' = edits + 1 /\ edits < MaxEdits /\ edits \in 0..MaxEdits /\ MaxEdits \in Nat
      BY <1>3 DEF AcceptMapping, PairInv, PairTypeOK, PairAssumption
    <3> QED BY <3>1
  <2> QED BY <1>3, <2>1, <2>2 DEF AcceptMapping, PairInv, PairTypeOK
<1>4. CASE \E k \in Keys : TriggerFires(k)
  BY <1>4 DEF TriggerFires, PairInv, PairTypeOK
<1>5. CASE \E r \in Rounds, k \in Keys : ConfigureTrigger(r, k)
  BY <1>5, EditKeeps DEF ConfigureTrigger
<1>6. CASE \E r \in Rounds, k \in Keys : RemoveTrigger(r, k)
  <2>1. Removed \notin Configs
    BY DEF PairAssumption
  <2> QED BY <1>6, <2>1, EditKeeps DEF RemoveTrigger
<1>7. CASE Check
  BY <1>7 DEF Check, PairInv, PairTypeOK
<1>8. CASE OpenFinals
  <2>0. "finals" \in Rounds
    BY DEF Rounds
  <2>1. CASE stage["finals"] = "none" /\ Create("finals") /\ UNCHANGED request
    BY <2>0, <2>1, CreateKeeps
  <2>2. CASE stage["finals"] = "upcoming" /\ Open("finals") /\ request' = "opened"
    BY <2>0, <2>2, OpenKeeps
  <2>3. CASE /\ stage["finals"] = "open" /\ request' = "opened"
             /\ UNCHANGED <<stage, mapping, frozen, plan, fired, remap, edits>>
    BY <2>3 DEF PairInv, PairTypeOK
  <2> QED BY <1>8, <2>1, <2>2, <2>3 DEF OpenFinals
<1>9. CASE Synchronise
  <2>1. "finals" \in Rounds /\ "superscore" \in Rounds /\ "finals" # "superscore"
    BY DEF Rounds
  <2>2. /\ plan' = [plan EXCEPT !["superscore"] = plan'["superscore"]] /\ plan'["superscore"] \in Plans
        /\ WellOrdered(plan'["superscore"]) /\ fired \subseteq Listed(plan'["superscore"])
    BY <1>9, Synchronised
  <2>3. plan' \in [Rounds -> Plans] /\ \A r \in Rounds : WellOrdered(plan'[r])
    <3>1. \A r \in Rounds : r # "superscore" => plan'[r] = plan[r]
      BY <2>2 DEF PairInv, PairTypeOK
    <3>2. DOMAIN plan' = Rounds /\ plan' = [r \in Rounds |-> plan'[r]]
      BY <2>2 DEF PairInv, PairTypeOK
    <3>3. \A r \in Rounds : plan'[r] \in Plans /\ WellOrdered(plan'[r])
      BY <2>2, <3>1 DEF PairInv, PairTypeOK
    <3> QED BY <3>2, <3>3
  <2>4. mapping' \in [Rounds -> Mapping]
    <3> DEFINE m == mapping["superscore"]
               c == Confirmed(m)
    <3>1. frozen["finals"] \in Mapping /\ m \in Mapping
      BY <1>9, <2>1 DEF Synchronise, PairInv, PairTypeOK
    <3>2. c = m \/ c = [revision |-> m.revision + 1, round |-> frozen["finals"].round]
      BY DEF Confirmed, ConcurrentRound
    <3>3. mapping' = [mapping EXCEPT !["superscore"] = c] /\ c.revision <= MaxMapping
      BY <1>9 DEF Synchronise
    <3> HIDE DEF c, m
    <3>4. c \in Mapping
      BY <3>1, <3>2, <3>3 DEF Mapping, PairAssumption
    <3> QED BY <2>1, <3>3, <3>4 DEF PairInv, PairTypeOK
  <2>5. PairTypeOK'
    BY <1>9, <2>3, <2>4 DEF Synchronise, PairInv, PairTypeOK
  <2> QED BY <1>9, <2>2, <2>3, <2>5 DEF Synchronise, PairInv
<1>10. CASE OpenSuperScore
  <2>0. "superscore" \in Rounds /\ "superscore" # "finals"
    BY DEF Rounds
  <2>1. CASE request = "synchronised" /\ request' = "set up" /\ stage["superscore"] = "none" /\ Create("superscore")
    <3>1. /\ stage' = [stage EXCEPT !["superscore"] = "upcoming"]
          /\ frozen' = [frozen EXCEPT !["superscore"] = mapping["superscore"]]
          /\ UNCHANGED <<mapping, plan, fired, remap, edits>>
      BY <2>1 DEF Create
    <3>2. /\ stage' \in [Rounds -> {"none", "upcoming", "open"}]
          /\ frozen' \in [Rounds -> Mapping \cup {NoRow}]
          /\ frozen'["superscore"] \in Mapping /\ stage'["finals"] = stage["finals"]
          /\ \A q \in Rounds : q # "superscore" => stage'[q] = stage[q] /\ frozen'[q] = frozen[q]
      BY <2>0, <3>1 DEF PairInv, PairTypeOK, Rounds
    <3>3. PairTypeOK'
      BY <2>1, <3>1, <3>2 DEF PairInv, PairTypeOK
    <3> QED BY <2>1, <3>1, <3>2, <3>3 DEF PairInv
  <2>2. CASE /\ request = "synchronised" /\ request' = "set up"
             /\ UNCHANGED <<stage, mapping, frozen, plan, fired, remap, edits>>
    BY <2>2 DEF PairInv, PairTypeOK
  <2>3. CASE request' = "none" /\ stage["superscore"] = "upcoming" /\ Open("superscore")
    BY <2>0, <2>3, OpenKeeps
  <2> QED BY <1>10, <2>1, <2>2, <2>3 DEF OpenSuperScore
<1>11. CASE EndRequest
  BY <1>11 DEF EndRequest, PairInv, PairTypeOK
<1>12. CASE UNCHANGED pairVars
  BY <1>12 DEF pairVars, PairInv, PairTypeOK
<1> QED BY <1>1, <1>2, <1>3, <1>4, <1>5, <1>6, <1>7, <1>8, <1>9, <1>10, <1>11, <1>12 DEF PairNext

\* PairInv holds whatever operators edit, whatever fires, and however often the
\* paired action (open_finals_and_superscore_week) is called or given up.
THEOREM PairInvariant == PairSpec => []PairInv
<1>1. PairInit => PairInv
  BY PairAssumption, PairStart
<1>2. PairInv /\ [PairNext]_pairVars => PairInv'
  BY PairAssumption, PairStep
<1> QED BY <1>1, <1>2, PTL DEF PairSpec

\* The planner of _plan_trigger_sync gives up only on changes that no order
\* could write one trigger at a time, whatever the plans and however many keys.
THEOREM PlannerGivesUpRightly == PairSpec => []PlannerFindsOrder
<1>1. PairInv => PlannerFindsOrder
  <2> SUFFICES ASSUME PairInv PROVE PlannerFindsOrder
    OBVIOUS
  <2> DEFINE f == plan["finals"]
             s == plan["superscore"]
             kept == Without(s, Removals(f, s))
             keys == Pending(f, s)
  <2>1. f \in Plans /\ s \in Plans
    BY DEF PairInv, PairTypeOK, Rounds
  <2> HIDE DEF f, s
  <2>2. kept \in Plans
    BY <2>1, WithoutTyped
  <2>3. keys \in Seq(Keys) /\ Distinct(keys) /\ IsFiniteSet(Range(keys)) /\ Range(keys) \subseteq Listed(f)
    BY <2>1, PairAssumption, PendingIs
  <2> HIDE DEF kept, keys
  <2>4. ASSUME NEW order \in SetToSeqs(Range(keys)), Written(f, kept, order).ok
        PROVE  Planned(f, kept, keys).left = <<>>
    BY <2>1, <2>2, <2>3, <2>4, PairAssumption, PlannerIsComplete
  <2>5. Planned(f, kept, keys).left # <<>> => ~InSomeOrder(f, kept, Range(keys))
    BY <2>4 DEF InSomeOrder
  <2> QED BY <2>5 DEF PlannerFindsOrder, f, s, kept, keys
<1> QED BY <1>1, PairInvariant, PTL

\* A synchronisation mirrors the finals week: AFL round, listed triggers and
\* their order, and nothing that had fired is touched.
THEOREM SynchronisationMirrors == PairSpec => SyncMirrorsFinals
<1> DEFINE Mirrors ==
      request = "opened" /\ request' = "synchronised" =>
        LET s == plan["superscore"] t == plan'["superscore"] IN
        /\ mapping'["superscore"].round = frozen["finals"].round
        /\ frozen["superscore"] \in {NoRow} \cup [revision : Nat, round : {frozen["finals"].round}]
        /\ Listed(t) = Listed(plan["finals"])
        /\ \A k \in Listed(t) : t[k] = plan["finals"][k]
        /\ WellOrdered(t)
        /\ \A k \in fired : t[k] = s[k]
<1>1. PairInv /\ [PairNext]_pairVars => [Mirrors]_pairVars
  <2> SUFFICES ASSUME PairInv, PairNext, request = "opened", request' = "synchronised" PROVE Mirrors
    OBVIOUS
  <2>1. Synchronise
    BY DEF PairNext, CheckMapping, OpenByItself, AcceptMapping, TriggerFires, ConfigureTrigger, RemoveTrigger,
       Edit, Check, OpenFinals, OpenSuperScore, EndRequest
  <2>2. "finals" \in Rounds /\ "superscore" \in Rounds
    BY DEF Rounds
  <2>3. mapping'["superscore"].round = frozen["finals"].round
    <3>1. mapping' = [mapping EXCEPT !["superscore"] = Confirmed(mapping["superscore"])]
      BY <2>1 DEF Synchronise
    <3>2. mapping'["superscore"] = Confirmed(mapping["superscore"])
      BY <2>2, <3>1 DEF PairInv, PairTypeOK
    <3>3. Confirmed(mapping["superscore"]).round = frozen["finals"].round
      BY DEF Confirmed, ConcurrentRound
    <3> QED BY <3>2, <3>3
  <2>4. frozen["superscore"] \in {NoRow} \cup [revision : Nat, round : {frozen["finals"].round}]
    <3>1. frozen["superscore"] \in Mapping \cup {NoRow}
      BY <2>2 DEF PairInv, PairTypeOK
    <3>2. frozen["superscore"] # NoRow => frozen["superscore"].round = frozen["finals"].round
      BY <2>1 DEF Synchronise, FrozenAgrees, ConcurrentRound
    <3> QED BY <3>1, <3>2, PairAssumption DEF Mapping, PairAssumption
  <2> QED BY <2>1, <2>3, <2>4, PairAssumption, Synchronised
<1>2. PairSpec => [][Mirrors]_pairVars
  BY <1>1, PairInvariant, PTL DEF PairSpec
<1> QED BY <1>2 DEF SyncMirrorsFinals
=============================================================================
