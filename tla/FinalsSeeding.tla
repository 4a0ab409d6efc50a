---------------------------- MODULE FinalsSeeding ----------------------------
(***************************************************************************)
(* From the last home-and-away round to a frozen finals bracket: the       *)
(* ladder (ladder.py), the Scorer's ruling on an exact tie                 *)
(* (ladder_tie_ruling.py), the replay season's historical snapshot         *)
(* (finals_seeding.py) and the bracket's creation (finals.py).             *)
(*                                                                         *)
(* The order is worked out by reads made before the transaction that       *)
(* freezes it, so corrections, rulings and a snapshot can come in between. *)
(* All rounds are final, which no operation undoes.                        *)
(***************************************************************************)
EXTENDS Naturals, SeasonRow

CONSTANTS
  Orders,         \* the strict orders of the ten entries results can produce
  Tied,           \* the ladder leaves an exact tie two of the orders resolve
  Historical,     \* the fixed order a snapshot of the replay season records
  None,
  MaxResults,     \* bound on the corrections of ordinary results, plus one
  MaxRulings      \* bound on the rulings recorded

ASSUME SeedingAssumption ==
  /\ Tied \notin Orders /\ None \notin Orders /\ None # Tied
  /\ MaxResults \in Nat /\ MaxRulings \in Nat

VARIABLES
  results,    \* stands for the effective_official_version of every matchup
  order,      \* what calculate_ladder makes of those results
  ruling,     \* the active ladder_tie_ruling
  rulings,    \* ruling ids given out
  snapshot,   \* finals_seeding_snapshot's seed rows
  stream,     \* the season's competition stream of type finals exists
  bracket,    \* finals_bracket_seed, once created
  create      \* an initialization between its reads and its transactions

seedingVars == <<results, order, ruling, rulings, snapshot, stream, bracket, create>>

Rulings == [id : 1..MaxRulings, order : Orders, on : 1..MaxResults]

\* What initialize_finals has read when its preview was ready.
Previewed == [source |-> "preview"]

\* source "tie" is a ladder read whose tie is not resolved yet.
Reads == [source : {"snapshot", "ladder", "tie"}, order : Orders \cup {Tied},
          on : 1..MaxResults, ruling : 0..MaxRulings]

SeedingTypeOK ==
  /\ results \in 1..MaxResults
  /\ order \in Orders \cup {Tied}
  /\ ruling \in Rulings \cup {None}
  /\ rulings \in 0..MaxRulings
  /\ snapshot \in {Historical, None}
  /\ bracket \in Orders \cup {Historical, None}
  /\ stream \in BOOLEAN
  /\ create \in [source : {"snapshot"}, order : {Historical}] \cup Reads \cup {Previewed, None}

SeedingInit ==
  /\ results = 1 /\ order \in Orders \cup {Tied}
  /\ ruling = None /\ rulings = 0
  /\ snapshot = None /\ stream \in BOOLEAN /\ bracket = None /\ create = None

\* attempt_correction of an ordinary round: a matchup's version moves on, and
\* the ladder with it.
CorrectOrdinary ==
  /\ Writable /\ results < MaxResults
  /\ results' = results + 1
  /\ order' \in Orders \cup {Tied}
  /\ UNCHANGED <<ruling, rulings, snapshot, stream, bracket, create>>

\* record_ruling, under the season's lock, on the ladder read under it: an
\* order of a tie the ladder has now.  A ruling that says the same of the same
\* results is kept, another is superseded.
RecordRuling(o) ==
  /\ Writable /\ order = Tied
  /\ IF ruling # None /\ ruling.order = o /\ ruling.on = results
     THEN UNCHANGED <<ruling, rulings>>
     ELSE /\ rulings < MaxRulings
          /\ rulings' = rulings + 1
          /\ ruling' = [id |-> rulings + 1, order |-> o, on |-> results]
  /\ UNCHANGED <<results, order, snapshot, stream, bracket, create>>

(* ----------------------- snapshot of the replay ------------------------ *)

\* Under the season's lock, once; a second apply finds the same order.
ApplySnapshot ==
  /\ snapshot = None
  /\ snapshot' = Historical
  /\ UNCHANGED <<results, order, ruling, rulings, stream, bracket, create>>

(* ------------------------- bracket creation ---------------------------- *)

\* resolve_tie: a ruling holds for the very results it was recorded on.
Resolves(r, on) == r # None /\ r.on = on

\* preview_ladder_seed: the live ladder can seed the finals, and a season with
\* a snapshot is not the live initialization's to seed.
LadderSeeds == snapshot = None /\ (order # Tied \/ Resolves(ruling, results))

\* initialize_finals finds no bracket and a ready preview.
InitializeFinals ==
  /\ Writable /\ create = None /\ bracket = None /\ LadderSeeds
  /\ create' = Previewed
  /\ UNCHANGED <<results, order, ruling, rulings, snapshot, stream, bracket>>

\* ensure_finals_stream, a transaction of its own: created, or found when an
\* earlier initialization got no further or it was made for the replay by hand.
EnsureFinalsStream ==
  /\ Writable /\ create = Previewed
  /\ stream' = TRUE /\ create' = None
  /\ UNCHANGED <<results, order, ruling, rulings, snapshot, bracket>>

\* _resolve_seed: the snapshot when there is one, else the ladder and the
\* versions it was made of.
ReadSeed ==
  /\ create = None /\ stream /\ bracket = None
  /\ create' = IF snapshot # None
               THEN [source |-> "snapshot", order |-> snapshot]
               ELSE [source |-> IF order = Tied THEN "tie" ELSE "ladder",
                     order |-> order, on |-> results, ruling |-> 0]
  /\ UNCHANGED <<results, order, ruling, rulings, snapshot, stream, bracket>>

ResolveTie ==
  /\ create # None /\ create.source = "tie"
  /\ create' = IF Resolves(ruling, create.on)
               THEN [create EXCEPT !.source = "ladder", !.order = ruling.order,
                                   !.ruling = ruling.id]
               ELSE None
  /\ UNCHANGED <<results, order, ruling, rulings, snapshot, stream, bracket>>

\* Mutant of StillCurrent: the results are compared, the snapshot is not.
ResultsStillCurrent(read) ==
  read.source = "ladder" =>
    read.on = results /\ (read.ruling # 0 => ruling # None /\ ruling.id = read.ruling)

\* What the transaction looks at again of a ladder read: no snapshot, the
\* versions it was made of, and the rulings it used still active.
StillCurrent(read) ==
  read.source = "ladder" =>
    /\ snapshot = None
    /\ read.on = results
    /\ read.ruling # 0 => ruling # None /\ ruling.id = read.ruling

\* UnresolvedLadderTieError: a ladder with an open tie has no order to freeze.
InOneOrder(read) == read # None /\ read.source \in {"snapshot", "ladder"}

\* Creation, its refusal of a stale read, or the bracket another caller made.
CreateBracket ==
  /\ InOneOrder(create)
  /\ create' = None
  /\ bracket' = IF bracket = None /\ StillCurrent(create)
                THEN create.order ELSE bracket
  /\ UNCHANGED <<results, order, ruling, rulings, snapshot, stream>>

SeedingNext ==
  \/ CorrectOrdinary
  \/ \E o \in Orders : RecordRuling(o)
  \/ ApplySnapshot
  \/ InitializeFinals
  \/ EnsureFinalsStream
  \/ ReadSeed
  \/ ResolveTie
  \/ CreateBracket

\* The season's row is its owner's: a seeding is right whatever becomes of it.
SeedingSpec == SeedingInit /\ [][SeedingNext]_seedingVars

(* ------------------------------ properties ----------------------------- *)

\* The order that is right now: the snapshot's, else the ladder's, else the
\* active ruling's when it was made on these results.
RightOrder ==
  IF snapshot # None THEN snapshot
  ELSE IF order # Tied THEN order
  ELSE IF ruling # None /\ ruling.on = results THEN ruling.order ELSE None

\* A bracket freezes the order that is right at that moment, whatever was
\* corrected, ruled or recorded since its creation read the ladder.
FrozenOrderIsRight ==
  [][bracket' # bracket => bracket = None /\ bracket' = RightOrder]_seedingVars
=============================================================================
