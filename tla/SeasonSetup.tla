----------------------------- MODULE SeasonSetup -----------------------------
(***************************************************************************)
(* What the operators do before a season is active (season_setup.py,       *)
(* fixtures.py, season_activation.py): the season's entries, the player    *)
(* pool, the ordinary competition, the squad limit, the Opening Round's    *)
(* compensating byes, the draft order, the fixture draw, the activation.   *)
(* Every step is a request of its own, most of them may be repeated, and   *)
(* the two that rest on afl-api decide before the transaction that writes. *)
(* The preseason draft and the trade window are SeasonDraft and            *)
(* PreseasonWindow; of both only how far they are is kept here, and what   *)
(* takes them back: a corrected pick, a reopened draft.                    *)
(***************************************************************************)
EXTENDS Naturals, Sequences, SeasonRow

CONSTANTS
  Clubs,       \* the clubs of the AFL's Opening Round
  ByeRounds,   \* AFL rounds a club may have its bye in
  Unpublished, \* a bye afl-api does not list yet
  NoOpening,   \* a fixture without an Opening Round
  Fixtures,    \* the fixtures afl-api publishes, one after another
  TeamCount,
  Undecided,   \* no rule, or no request
  MaxEntries,  \* bound on the entries created
  MaxDraws     \* bound on the versions of the fixture draw

ASSUME SetupAssumption ==
  /\ Fixtures \in Seq([Clubs -> ByeRounds \cup {Unpublished}] \cup {NoOpening})
  /\ Fixtures # <<>> /\ NoOpening \notin [Clubs -> ByeRounds \cup {Unpublished}]
  /\ Undecided \notin ByeRounds /\ Unpublished \notin ByeRounds
  /\ TeamCount \in Nat \ {0} /\ MaxEntries \in Nat /\ MaxDraws \in Nat

VARIABLES
  entries,    \* season_entry rows; none is ever deleted
  prepared,   \* what was prepared of Preparations
  published,  \* which of Fixtures afl-api serves now
  rules,      \* opening_round_rule, the accepted bye of each club
  accepting,  \* an accept_opening_round_rules between preview and transaction
  deciding,   \* an accept_draft_order that found the Opening Round decided
  draft,      \* how far the preseason draft is: some of its picks, all, finalized
  drafted,    \* the entries in its order
  begun,      \* some pick was completed, though it may be corrected since
  window,     \* season_preseason_window
  draw,       \* season_fixture_draw, its version and how many entries it is of
  page        \* the version of a draw proposal an operator looks at, 0 for none

setupVars ==
  <<season, entries, prepared, published, rules, accepting, deciding,
    draft, drafted, begun, window, draw, page>>

\* What neither the draft nor its window changes.
undraftedVars == <<season, entries, prepared, published, rules, accepting, deciding, draw, page>>

draftedVars == <<draft, drafted, begun, window>>

NoRules == [c \in Clubs |-> Undecided]

Preparations == {"pool", "ordinary competition", "squad limit"}

SetupTypeOK ==
  /\ season \in States
  /\ entries \in 0..MaxEntries /\ drafted \in 0..MaxEntries
  /\ prepared \subseteq Preparations
  /\ published \in DOMAIN Fixtures
  /\ rules \in [Clubs -> ByeRounds \cup {Undecided}]
  /\ accepting \in {Undecided} \cup [byes : [Clubs -> ByeRounds], started : BOOLEAN]
  /\ deciding \in BOOLEAN
  /\ draft \in {"none", "accepted", "under way", "picked", "final"}
  /\ begun \in BOOLEAN /\ window \in {"none", "open", "closed"}
  /\ draw \in [state : {"none", "draft", "frozen"}, version : 0..MaxDraws + 1,
               of : 0..MaxEntries]
  /\ page \in 0..MaxDraws

SetupInit ==
  /\ season = "setup" /\ entries = 0 /\ prepared = {} /\ published = 1
  /\ rules = NoRules /\ accepting = Undecided /\ deciding = FALSE
  /\ draft = "none" /\ drafted = 0 /\ begun = FALSE /\ window = "none"
  /\ draw = [state |-> "none", version |-> 0, of |-> 0] /\ page = 0

\* _completed_preseason_picks counts superseded picks too.
Started == begun

\* An entry is created whatever the season is in.
CreateEntry ==
  /\ entries < MaxEntries /\ entries' = entries + 1
  /\ UNCHANGED <<season, prepared, published, rules, accepting, deciding, draftedVars, draw, page>>

\* refresh_player_pool, initialize_ordinary_competition, configure_squad_limit:
\* the limit is frozen by the draft order, the rest is created or found.
Prepare(what) ==
  /\ Writable /\ what = "squad limit" => draft = "none"
  /\ prepared' = prepared \cup {what}
  /\ UNCHANGED <<season, entries, published, rules, accepting, deciding, draftedVars, draw, page>>

AflPublishes ==
  /\ published < Len(Fixtures) /\ published' = published + 1
  /\ UNCHANGED <<season, entries, prepared, rules, accepting, deciding, draftedVars, draw, page>>

(* --------------------- compensating byes, draft order ------------------- *)

\* preview_opening_round is ready: every club's bye is published.
PreviewRules ==
  LET byes == Fixtures[published] IN
  /\ accepting = Undecided /\ Writable /\ "ordinary competition" \in prepared
  /\ byes \in [Clubs -> ByeRounds]
  /\ accepting' = [byes |-> byes, started |-> Started]
  /\ UNCHANGED <<season, entries, prepared, published, rules, deciding, draftedVars, draw, page>>

\* Mutant of RuleMayBeAdded: what the preview said of the draft is believed.
AddedAsPreviewed(request) == ~request.started

\* Read again in the transaction: no preseason pick is complete.
RuleMayBeAdded(request) == ~Started

\* accept_locked keeps a rule it finds and inserts the others, each with the
\* deferred selections it switches on.
WithAccepted(byes) == [c \in Clubs |-> IF rules[c] = Undecided THEN byes[c] ELSE rules[c]]

\* Under the season's and the draft's row: an accepted rule must be the same,
\* another is added before Pick 1 only, and one refusal is the refusal of all.
AcceptRules ==
  /\ accepting # Undecided /\ Writable
  /\ \A c \in Clubs : IF rules[c] = Undecided THEN RuleMayBeAdded(accepting)
                      ELSE rules[c] = accepting.byes[c]
  /\ rules' = WithAccepted(accepting.byes) /\ accepting' = Undecided
  /\ UNCHANGED <<season, entries, prepared, published, deciding, draftedVars, draw, page>>

AbandonRules ==
  /\ accepting # Undecided /\ accepting' = Undecided
  /\ UNCHANGED <<season, entries, prepared, published, rules, deciding, draftedVars, draw, page>>

\* _require_opening_round_decided: every club has the rule of the live fixture,
\* or there is no Opening Round and no rule.
OpeningRoundDecided ==
  rules = IF Fixtures[published] = NoOpening THEN NoRules ELSE Fixtures[published]

DecideOrder ==
  /\ ~deciding /\ draft = "none" /\ Writable
  /\ entries = TeamCount /\ prepared = Preparations /\ OpeningRoundDecided
  /\ deciding' = TRUE
  /\ UNCHANGED <<season, entries, prepared, published, rules, accepting, draftedVars, draw, page>>

\* DraftRepository.accept_order lists the entries again and finds no draft.
AcceptDraftOrder ==
  /\ deciding /\ deciding' = FALSE
  /\ IF draft = "none" /\ entries = TeamCount
     THEN draft' = "accepted" /\ drafted' = entries
     ELSE UNCHANGED <<draft, drafted>>
  /\ UNCHANGED <<season, entries, prepared, published, rules, accepting, begun, window, draw, page>>

(* ----------------------- draft and trade window ------------------------- *)

\* execute_pick: no player is acquired once the window is closed.
ExecutePick ==
  /\ draft \in {"accepted", "under way"} /\ window # "closed"
  /\ draft' \in {"under way", "picked"} /\ begun' = TRUE
  /\ UNCHANGED <<undraftedVars, drafted, window>>

\* Mutant of CorrectPick: its release passes a closed window, as mid-season's do.
CorrectPickAnyTime ==
  /\ draft \in {"under way", "picked"}
  /\ draft' \in {"accepted", "under way"}
  /\ UNCHANGED <<undraftedVars, drafted, begun, window>>

\* The last pick is emptied, unless the draft is final or the window closed.
CorrectPick ==
  /\ draft \in {"under way", "picked"} /\ window # "closed"
  /\ draft' \in {"accepted", "under way"}
  /\ UNCHANGED <<undraftedVars, drafted, begun, window>>

FinalizeDraft ==
  /\ draft = "picked" /\ draft' = "final"
  /\ UNCHANGED <<undraftedVars, drafted, begun, window>>

\* DraftRepository.reopen asks for nothing but a final draft.
ReopenDraft ==
  /\ draft = "final" /\ draft' = "picked"
  /\ UNCHANGED <<undraftedVars, drafted, begun, window>>

OpenWindow ==
  /\ window = "none" /\ draft = "final" /\ window' = "open"
  /\ UNCHANGED <<undraftedVars, draft, drafted, begun>>

\* validate_squads: of every entry, so none was added after the order.
CloseWindow ==
  /\ window = "open" /\ draft = "final" /\ drafted = entries
  /\ window' = "closed"
  /\ UNCHANGED <<undraftedVars, draft, drafted, begun>>

DraftNext ==
  \/ ExecutePick \/ CorrectPick \/ FinalizeDraft \/ ReopenDraft
  \/ OpenWindow \/ CloseWindow

(* ------------------------------ the draw -------------------------------- *)

Redrawable == draw.state # "frozen"

\* save_draft proposes a draw of all entries, the page shows what it saved.
SaveDraw ==
  /\ Redrawable /\ entries = TeamCount /\ draw.version < MaxDraws
  /\ draw' = [state |-> "draft", version |-> draw.version + 1, of |-> entries]
  /\ page' \in {page, draw.version + 1}
  /\ UNCHANGED <<season, entries, prepared, published, rules, accepting, deciding, draftedVars>>

\* FixtureRepository.freeze: of the version the page was of.
FreezeDraw ==
  /\ draw.state = "draft" /\ page = draw.version
  /\ draw' = [draw EXCEPT !.state = "frozen", !.version = @ + 1]
  /\ UNCHANGED <<season, entries, prepared, published, rules, accepting, deciding, draftedVars, page>>

(* ------------------------------ activation ------------------------------ *)

\* _evaluate_checks, in the transaction of the transition and under the rows it
\* reads, the entries and the pool excepted.  The squads a closed window leaves
\* are at the limit, those of a later entry are empty.
ReadyToActivate ==
  /\ draft = "final" /\ window = "closed"
  /\ entries = TeamCount /\ drafted = entries
  /\ prepared = Preparations /\ draw.state = "frozen"

Activate ==
  /\ ReadyToActivate /\ Transition("active")
  /\ UNCHANGED <<entries, prepared, published, rules, accepting, deciding, draftedVars, draw, page>>

SetupNext ==
  \/ CreateEntry
  \/ \E what \in Preparations : Prepare(what)
  \/ AflPublishes
  \/ PreviewRules \/ AcceptRules \/ AbandonRules
  \/ DecideOrder \/ AcceptDraftOrder
  \/ DraftNext
  \/ SaveDraw \/ FreezeDraw
  \/ Activate

SetupSpec == SetupInit /\ [][SetupNext]_setupVars

(* ------------------------------ properties ----------------------------- *)

Settled(rs) == rs = NoRules \/ rs \in [Clubs -> ByeRounds]

\* From Pick 1 on the rules of the compensating byes stand, either none or one
\* for every club, whatever was read before of afl-api and of the draft ("they
\* cannot be added after Pick 1", season_setup.py).
DraftedOnDecidedRules ==
  [][Started' => Settled(rules') /\ (Started => rules' = rules)]_setupVars

\* A season that was activated is set up for good: the fixture that was drawn
\* is frozen and of exactly the entries that drafted, the rules are settled,
\* the competition, the pool and the limit are there, the trade window is
\* closed, and every pick of the draft stands.  The draft may be reopened, before
\* the activation and after it (DraftRepository.reopen): the activation refuses
\* it while it is open, the closed window keeps what was picked.
ActiveSeasonIsSetUp ==
  season # "setup" =>
    /\ draw.state = "frozen" /\ draw.of = drafted /\ drafted = TeamCount
    /\ Settled(rules) /\ prepared = Preparations
    /\ window = "closed" /\ draft \in {"picked", "final"}
=============================================================================
