----------------------------- MODULE SeasonProofs -----------------------------
(***************************************************************************)
(* Proofs about a season: what is settled when it is drafted and activated, *)
(* the order its finals are frozen in, the awards it is completed with.     *)
(***************************************************************************)
EXTENDS Season, TLAPS

-----------------------------------------------------------------------------
(***************************************************************************)
(* Setup.  Between a preview and its transaction a request holds a bye for  *)
(* every club, and whatever was drawn was drawn of all the entries.         *)
(***************************************************************************)
SetupInv ==
  /\ Settled(rules)
  /\ accepting # Undecided => accepting.byes \in [Clubs -> ByeRounds]
  /\ draw \in [state : {"none", "draft", "frozen"}, version : Nat, of : Nat]
  /\ draw.state # "none" => draw.of = TeamCount
  /\ ActiveSeasonIsSetUp

LEMMA AcceptedRules ==
  ASSUME Settled(rules), accepting.byes \in [Clubs -> ByeRounds], AcceptRules
  PROVE  Settled(rules') /\ (Started => rules' = rules)
<1> DEFINE byes == accepting.byes
<1>1. rules' = [c \in Clubs |-> IF rules[c] = Undecided THEN byes[c] ELSE rules[c]]
  BY DEF AcceptRules, WithAccepted
<1>2. CASE rules = NoRules
  <2>1. rules' = byes
    BY <1>1, <1>2 DEF NoRules
  <2>2. ASSUME Started PROVE rules' = rules
    <3>1. Clubs = {}
      BY <1>2, <2>2 DEF AcceptRules, RuleMayBeAdded, NoRules
    <3> QED BY <1>2, <2>1, <3>1 DEF NoRules
  <2> QED BY <2>1, <2>2 DEF Settled
<1>3. CASE rules \in [Clubs -> ByeRounds]
  <2>1. \A c \in Clubs : rules[c] # Undecided
    BY <1>3, SetupAssumption
  <2>2. rules' = rules
    BY <1>1, <1>3, <2>1
  <2> QED BY <1>3, <2>2 DEF Settled
<1> QED BY <1>2, <1>3 DEF Settled

\* What the end of a season leaves of its setup.
LEMMA EndKeepsSetup ==
  ASSUME EndNext
  PROVE  season' = season \/ (season = "active" /\ season' = "completed")
BY DEF EndNext, InitializeSuperScore, FinishSuperScore, PublishGrandFinal, Reconcile, CompleteSeason,
       Transition

LEMMA SetupStep ==
  ASSUME SetupInv, [SeasonNext]_seasonVars
  PROVE  /\ SetupInv'
         /\ Started' => Settled(rules') /\ (Started => rules' = rules)
<1> DEFINE Goal == /\ SetupInv'
                   /\ Started' => Settled(rules') /\ (Started => rules' = rules)
<1> SUFFICES Goal
  OBVIOUS
<1>0. TeamCount \in Nat
  BY SetupAssumption
<1>1. CASE CreateEntry
  BY <1>1 DEF CreateEntry, draftedVars, SetupInv, ActiveSeasonIsSetUp, Started, Settled
<1>2. ASSUME NEW what \in Preparations, Prepare(what) PROVE Goal
  BY <1>2 DEF Prepare, draftedVars, SetupInv, ActiveSeasonIsSetUp, Started, Settled
<1>3. CASE AflPublishes
  BY <1>3 DEF AflPublishes, draftedVars, SetupInv, ActiveSeasonIsSetUp, Started, Settled
<1>4. CASE PreviewRules
  BY <1>4 DEF PreviewRules, draftedVars, SetupInv, ActiveSeasonIsSetUp, Started, Settled
<1>5. CASE AcceptRules
  <2>1. Settled(rules') /\ (Started => rules' = rules)
    BY <1>5, AcceptedRules DEF AcceptRules, SetupInv
  <2>2. /\ accepting' = Undecided
        /\ UNCHANGED <<season, prepared, draftedVars, draw>>
    BY <1>5 DEF AcceptRules
  <2> QED BY <2>1, <2>2 DEF draftedVars, SetupInv, ActiveSeasonIsSetUp, Settled, Started
<1>6. CASE AbandonRules
  BY <1>6 DEF AbandonRules, draftedVars, SetupInv, ActiveSeasonIsSetUp, Started, Settled
<1>7. CASE DecideOrder
  BY <1>7 DEF DecideOrder, draftedVars, SetupInv, ActiveSeasonIsSetUp, Started, Settled
<1>8. CASE AcceptDraftOrder
  BY <1>8 DEF AcceptDraftOrder, draftedVars, SetupInv, ActiveSeasonIsSetUp, Started, Settled
<1>9. CASE DraftNext
  <2>1. /\ UNCHANGED <<season, prepared, rules, accepting, draw, drafted>>
        /\ season = "setup" \/ (draft' \in {"picked", "final"} /\ window' = window)
    <3>1. UNCHANGED <<season, prepared, rules, accepting, draw, drafted>>
      BY <1>9 DEF DraftNext, ExecutePick, CorrectPick, FinalizeDraft, ReopenDraft, OpenWindow,
         CloseWindow, undraftedVars
    <3>2. CASE ExecutePick \/ CorrectPick \/ OpenWindow \/ CloseWindow
      BY <3>1, <3>2 DEF ExecutePick, CorrectPick, OpenWindow, CloseWindow, SetupInv, ActiveSeasonIsSetUp
    <3>3. CASE FinalizeDraft \/ ReopenDraft
      BY <3>1, <3>3 DEF FinalizeDraft, ReopenDraft, undraftedVars
    <3> QED BY <1>9, <3>1, <3>2, <3>3 DEF DraftNext
  <2> QED BY <2>1 DEF SetupInv, ActiveSeasonIsSetUp, Started, Settled
<1>10. CASE SaveDraw
  <2>1. /\ draw.state # "frozen"
        /\ draw' = [state |-> "draft", version |-> draw.version + 1, of |-> TeamCount]
        /\ UNCHANGED <<season, prepared, rules, accepting, draftedVars>>
    BY <1>10 DEF SaveDraw, Redrawable
  <2>2. season = "setup"
    BY <2>1 DEF SetupInv, ActiveSeasonIsSetUp
  <2>3. /\ draw' \in [state : {"none", "draft", "frozen"}, version : Nat, of : Nat]
        /\ draw'.of = TeamCount
    BY <1>0, <2>1 DEF SetupInv
  <2> QED BY <2>1, <2>2, <2>3 DEF draftedVars, SetupInv, ActiveSeasonIsSetUp, Started, Settled
<1>11. CASE FreezeDraw
  <2>1. /\ draw.state = "draft"
        /\ draw' = [draw EXCEPT !.state = "frozen", !.version = @ + 1]
        /\ UNCHANGED <<season, prepared, rules, accepting, draftedVars>>
    BY <1>11 DEF FreezeDraw
  <2>2. season = "setup" /\ draw.of = TeamCount
    BY <2>1 DEF SetupInv, ActiveSeasonIsSetUp
  <2>3. draw \in [state : {"none", "draft", "frozen"}, version : Nat, of : Nat]
    BY DEF SetupInv
  <2>4. /\ draw' \in [state : {"none", "draft", "frozen"}, version : Nat, of : Nat]
        /\ draw'.of = TeamCount /\ draw'.state = "frozen"
    <3>1. draw.version \in Nat /\ draw.version + 1 \in Nat
      BY <2>3
    <3> QED BY <2>1, <2>2, <2>3, <3>1, Zenon
  <2> QED BY <2>1, <2>2, <2>4 DEF draftedVars, SetupInv, ActiveSeasonIsSetUp, Started, Settled
<1>12. CASE Activate
  BY <1>12 DEF Activate, ReadyToActivate, Transition, draftedVars, SetupInv, ActiveSeasonIsSetUp, Started, Settled
<1>13. CASE PlayRounds
  BY <1>13 DEF PlayRounds, setupVars, draftedVars, SetupInv, ActiveSeasonIsSetUp, Started, Settled
<1>14. CASE EndNext /\ UNCHANGED <<entries, prepared, published, rules, accepting, deciding,
                                   draftedVars, draw, page, played>>
  BY <1>14, EndKeepsSetup DEF draftedVars, SetupInv, ActiveSeasonIsSetUp, Started, Settled
<1>15. CASE UNCHANGED seasonVars
  BY <1>15 DEF seasonVars, setupVars, draftedVars, SetupInv, ActiveSeasonIsSetUp, Started, Settled
<1> QED BY <1>1, <1>2, <1>3, <1>4, <1>5, <1>6, <1>7, <1>8, <1>9, <1>10, <1>11, <1>12, <1>13,
           <1>14, <1>15 DEF SeasonNext, SetupNext

LEMMA SetupInitially == SeasonInit => SetupInv
BY DEF SeasonInit, SetupInit, SetupInv, ActiveSeasonIsSetUp, Settled

\* However its setup was requested, and however often its draft was reopened and
\* corrected, a season that was activated has its draw frozen, of exactly the
\* entries that drafted, its rules settled, its window closed on every pick.
THEOREM ActiveSeasonsAreSetUp == SeasonSpec => []ActiveSeasonIsSetUp
<1>1. SetupInv /\ [SeasonNext]_seasonVars => SetupInv'
  BY SetupStep
<1>2. SetupInv => ActiveSeasonIsSetUp
  BY DEF SetupInv
<1> QED BY <1>1, <1>2, SetupInitially, PTL DEF SeasonSpec

\* From Pick 1 on the compensating byes stand as they are, none or one for each
\* club, whenever they were previewed.
THEOREM DraftsRestOnDecidedRules == SeasonSpec => DraftedOnDecidedRules
<1>1. SetupInv /\ [SeasonNext]_seasonVars => SetupInv'
  BY SetupStep
<1>2. SetupInv /\ [SeasonNext]_seasonVars =>
        [Started' => Settled(rules') /\ (Started => rules' = rules)]_setupVars
  BY SetupStep
<1> QED BY <1>1, <1>2, SetupInitially, PTL DEF SeasonSpec, DraftedOnDecidedRules

-----------------------------------------------------------------------------
(***************************************************************************)
(* Seeding.  What an initialization has read still says, under the checks   *)
(* of its transaction, what the ladder and the rulings say now: results and *)
(* rulings only grow in number, and a ruling never changes.                 *)
(***************************************************************************)
LadderRead(c) ==
  /\ c \in [source : {"ladder", "tie"}, order : Orders \cup {Tied}, on : Nat, ruling : Nat]
  /\ c.on <= results /\ c.ruling <= rulings
  /\ c.source = "tie" /\ c.on = results => order = Tied
  /\ c.source = "ladder" /\ c.ruling = 0 /\ c.on = results =>
       order = c.order /\ order # Tied
  /\ c.source = "ladder" /\ c.ruling # 0 =>
       /\ c.on = results => order = Tied
       /\ ruling # None /\ ruling.id = c.ruling => ruling.order = c.order /\ ruling.on = c.on

SeedingInv ==
  /\ results \in Nat /\ rulings \in Nat
  /\ order \in Orders \cup {Tied}
  /\ ruling # None => /\ ruling \in [id : Nat \ {0}, order : Orders, on : Nat]
                      /\ ruling.id <= rulings
  /\ create # None =>
       \/ create = Previewed
       \/ create.source = "snapshot" /\ snapshot # None /\ create.order = snapshot
       \/ LadderRead(create)

LEMMA SeedingStep ==
  ASSUME SeedingInv, [SeedingNext]_seedingVars
  PROVE  /\ SeedingInv'
         /\ bracket' # bracket => bracket = None /\ bracket' = RightOrder
<1> DEFINE Goal == /\ SeedingInv'
                   /\ bracket' # bracket => bracket = None /\ bracket' = RightOrder
<1> SUFFICES Goal
  OBVIOUS
<1>0. MaxResults \in Nat /\ MaxRulings \in Nat /\ Tied \notin Orders
  BY SeedingAssumption
<1>1. CASE CorrectOrdinary
  <2>1. /\ results' = results + 1 /\ results < MaxResults
        /\ order' \in Orders \cup {Tied}
        /\ UNCHANGED <<ruling, rulings, snapshot, stream, bracket, create>>
    BY <1>1 DEF CorrectOrdinary
  <2>2. ASSUME LadderRead(create) PROVE LadderRead(create)'
    BY <1>0, <2>1, <2>2 DEF LadderRead, SeedingInv
  <2> QED BY <1>0, <2>1, <2>2 DEF SeedingInv
<1>2. ASSUME NEW o \in Orders, RecordRuling(o) PROVE Goal
  <2>1. /\ order = Tied
        /\ UNCHANGED <<results, order, snapshot, stream, bracket, create>>
    BY <1>2 DEF RecordRuling
  <2>2. CASE UNCHANGED <<ruling, rulings>>
    BY <2>1, <2>2 DEF SeedingInv, LadderRead
  <2>3. CASE ~UNCHANGED <<ruling, rulings>>
    <3>1. /\ rulings < MaxRulings /\ rulings' = rulings + 1
          /\ ruling' = [id |-> rulings + 1, order |-> o, on |-> results]
      BY <1>2, <2>3 DEF RecordRuling
    <3>2. ruling' \in [id : Nat \ {0}, order : Orders, on : Nat] /\ ruling'.id = rulings + 1
      BY <1>0, <3>1 DEF SeedingInv
    <3>3. ASSUME LadderRead(create) PROVE LadderRead(create)'
      BY <1>0, <2>1, <3>1, <3>2, <3>3 DEF LadderRead, SeedingInv
    <3> QED BY <1>0, <2>1, <3>1, <3>2, <3>3 DEF SeedingInv
  <2> QED BY <2>2, <2>3
<1>3. CASE ApplySnapshot
  <2>1. /\ snapshot = None
        /\ UNCHANGED <<results, order, ruling, rulings, stream, bracket, create>>
    BY <1>3 DEF ApplySnapshot
  <2> QED BY <2>1 DEF SeedingInv, LadderRead
<1>4. CASE InitializeFinals
  <2>1. /\ create' = Previewed
        /\ UNCHANGED <<results, order, ruling, rulings, snapshot, stream, bracket>>
    BY <1>4 DEF InitializeFinals
  <2> QED BY <2>1 DEF SeedingInv
<1>5. CASE EnsureFinalsStream
  <2>1. create' = None /\ UNCHANGED <<results, order, ruling, rulings, snapshot, bracket>>
    BY <1>5 DEF EnsureFinalsStream
  <2> QED BY <2>1 DEF SeedingInv
<1>6. CASE ReadSeed
  <2>1. UNCHANGED <<results, order, ruling, rulings, snapshot, stream, bracket>>
    BY <1>6 DEF ReadSeed
  <2>2. CASE snapshot # None
    <3>1. create' = [source |-> "snapshot", order |-> snapshot]
      BY <1>6, <2>2 DEF ReadSeed
    <3> QED BY <2>1, <2>2, <3>1 DEF SeedingInv
  <2>3. CASE snapshot = None
    <3> DEFINE c == [source |-> IF order = Tied THEN "tie" ELSE "ladder",
                     order |-> order, on |-> results, ruling |-> 0]
    <3>1. create' = c
      BY <1>6, <2>3 DEF ReadSeed
    <3>2. LadderRead(c)
      BY <1>0 DEF LadderRead, SeedingInv
    <3>3. LadderRead(create)'
      BY <2>1, <3>1, <3>2 DEF LadderRead
    <3> QED BY <2>1, <3>3 DEF SeedingInv
  <2> QED BY <2>2, <2>3
<1>7. CASE ResolveTie
  <2>1. /\ create # None /\ create.source = "tie"
        /\ UNCHANGED <<results, order, ruling, rulings, snapshot, stream, bracket>>
    BY <1>7 DEF ResolveTie
  <2>2. LadderRead(create)
    BY <2>1 DEF SeedingInv, Previewed
  <2>3. CASE Resolves(ruling, create.on)
    <3> DEFINE c == [create EXCEPT !.source = "ladder", !.order = ruling.order,
                                   !.ruling = ruling.id]
    <3>1. create' = c
      BY <1>7, <2>3 DEF ResolveTie
    <3>2. /\ ruling \in [id : Nat \ {0}, order : Orders, on : Nat]
          /\ ruling # None /\ ruling.on = create.on
      BY <2>3 DEF Resolves, SeedingInv
    <3>3. /\ c.source = "ladder" /\ c.order = ruling.order /\ c.on = create.on
          /\ c.ruling = ruling.id /\ c.on \in Nat
          /\ c \in [source : {"ladder", "tie"}, order : Orders \cup {Tied}, on : Nat, ruling : Nat]
      BY <1>0, <2>2, <3>2 DEF LadderRead
    <3>4. LadderRead(c)
      <4> HIDE DEF c
      <4> QED BY <1>0, <2>1, <2>2, <3>2, <3>3 DEF LadderRead, SeedingInv
    <3>5. LadderRead(create)'
      BY <2>1, <3>1, <3>4 DEF LadderRead
    <3> QED BY <2>1, <3>5 DEF SeedingInv
  <2>4. CASE ~Resolves(ruling, create.on)
    <3>1. create' = None
      BY <1>7, <2>4 DEF ResolveTie
    <3> QED BY <2>1, <3>1 DEF SeedingInv
  <2> QED BY <2>3, <2>4
<1>8. CASE CreateBracket
  <2>1. /\ create # None /\ create.source \in {"snapshot", "ladder"} /\ create' = None
        /\ UNCHANGED <<results, order, ruling, rulings, snapshot, stream>>
    BY <1>8 DEF CreateBracket, InOneOrder
  <2>2. SeedingInv'
    BY <2>1 DEF SeedingInv
  <2>3. ASSUME bracket' # bracket
        PROVE  bracket = None /\ bracket' = RightOrder
    <3>1. bracket = None /\ StillCurrent(create) /\ bracket' = create.order
      BY <1>8, <2>3 DEF CreateBracket
    <3>2. CASE create.source = "snapshot"
      <4>1. snapshot # None /\ create.order = snapshot
        BY <2>1, <3>2 DEF SeedingInv, Previewed, LadderRead
      <4> QED BY <3>1, <4>1 DEF RightOrder
    <3>3. CASE create.source = "ladder"
      <4>1. LadderRead(create)
        BY <2>1, <3>3 DEF SeedingInv, Previewed
      <4>2. /\ snapshot = None /\ create.on = results
            /\ create.ruling # 0 => ruling # None /\ ruling.id = create.ruling
        BY <3>1, <3>3 DEF StillCurrent
      <4> QED BY <3>1, <3>3, <4>1, <4>2 DEF RightOrder, LadderRead
    <3> QED BY <2>1, <3>2, <3>3
  <2> QED BY <2>2, <2>3
<1>9. CASE UNCHANGED seedingVars
  BY <1>9 DEF seedingVars, SeedingInv, LadderRead
<1> QED BY <1>1, <1>2, <1>3, <1>4, <1>5, <1>6, <1>7, <1>8, <1>9 DEF SeedingNext

LEMMA SeedingInitially == SeasonInit => SeedingInv
BY DEF SeasonInit, SeedingInit, SeedingInv

\* Whatever else happens to the season, its seeding only takes its own steps.
LEMMA SeasonSeeds == ASSUME [SeasonNext]_seasonVars PROVE [SeedingNext]_seedingVars
<1>1. CASE EndNext
  BY <1>1 DEF EndNext, InitializeSuperScore, FinishSuperScore, PublishGrandFinal, Reconcile,
              CompleteSeason
<1>2. CASE UNCHANGED seedingVars \/ PlayRounds \/ UNCHANGED seasonVars
  BY <1>2 DEF PlayRounds, seasonVars, endVars
<1> QED BY <1>1, <1>2 DEF SeasonNext

\* The order the finals are frozen in is the right one at that moment, although
\* it was read before the lock, for any corrections, rulings and snapshot.
THEOREM FinalsAreSeededRight == SeasonSpec => FrozenOrderIsRight
<1>1. SeedingInv /\ [SeasonNext]_seasonVars => SeedingInv'
  BY SeasonSeeds, SeedingStep
<1>2. SeedingInv /\ [SeasonNext]_seasonVars =>
        [bracket' # bracket => bracket = None /\ bracket' = RightOrder]_seedingVars
  BY SeasonSeeds, SeedingStep
<1> QED BY <1>1, <1>2, SeedingInitially, PTL DEF SeasonSpec, FrozenOrderIsRight

-----------------------------------------------------------------------------
\* Awards.  The completion derives both, and after it nothing they rest on moves.

LEMMA AwardsStep ==
  ASSUME AwardsAreRight, [SeasonNext]_seasonVars
  PROVE  AwardsAreRight'
<1> SUFFICES ASSUME season' = "completed"
             PROVE  AwardsAreRight'
  BY DEF AwardsAreRight
<1>1. CASE CompleteSeason
  <2>1. /\ LadderOrder # None
        /\ awards' = [a \in Awards |-> IF a = "premiership" THEN Premiership ELSE WoodenSpoon]
        /\ UNCHANGED <<grand, results, order, ruling>>
    BY <1>1 DEF CompleteSeason, seedingVars
  <2>2. awards'["premiership"] = Premiership /\ awards'["wooden_spoon"] = WoodenSpoon
    BY <2>1 DEF Awards
  <2>3. LadderOrder = IF order # Tied THEN order
                      ELSE IF ruling.on = results THEN ruling.order ELSE None
    BY <2>1 DEF LadderOrder, Resolves
  <2> QED BY <2>1, <2>2, <2>3 DEF AwardsAreRight, Premiership, WoodenSpoon
<1>2. CASE season = "completed"
  <2>1. UNCHANGED <<awards, grand, results, order, ruling>>
    BY <1>2, SeasonSeeds DEF SeasonNext, SetupNext, seasonVars, endVars, seedingVars, PlayRounds,
       EndNext, SeedingNext, CorrectOrdinary, RecordRuling, ApplySnapshot, InitializeFinals,
       EnsureFinalsStream, ReadSeed, ResolveTie, CreateBracket, InitializeSuperScore,
       FinishSuperScore, PublishGrandFinal, Reconcile, CompleteSeason, Transition, Writable
  <2> QED BY <1>2, <2>1 DEF AwardsAreRight
<1>3. CASE season # "completed" /\ ~CompleteSeason
  <2>1. season' = season \/ season' = "active"
    BY <1>3 DEF SeasonNext, SetupNext, seasonVars, setupVars, PlayRounds, EndNext,
       InitializeSuperScore, FinishSuperScore, PublishGrandFinal, Reconcile, CreateEntry, Prepare,
       AflPublishes, PreviewRules, AcceptRules, AbandonRules, DecideOrder, AcceptDraftOrder,
       DraftNext, ExecutePick, CorrectPick, FinalizeDraft, ReopenDraft, OpenWindow, CloseWindow,
       undraftedVars, SaveDraw, FreezeDraw, Activate, Transition
  <2> QED BY <1>3, <2>1
<1> QED BY <1>1, <1>2, <1>3

\* A completed season has the premier of the Grand Final's effective version and
\* the last of the ladder, its tie broken on these results, and keeps them.
THEOREM AwardsAreDerived == SeasonSpec => []AwardsAreRight
<1>1. SeasonInit => AwardsAreRight
  BY DEF SeasonInit, SetupInit, AwardsAreRight
<1> QED BY <1>1, AwardsStep, PTL DEF SeasonSpec
=============================================================================
