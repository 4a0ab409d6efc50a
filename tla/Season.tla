-------------------------------- MODULE Season --------------------------------
(***************************************************************************)
(* A season from its creation to its completion: it is set up, played, its *)
(* finals are seeded, its results decide the awards, and it is closed.     *)
(* The steps of setup and end share the season's row; what is played in    *)
(* between (RoundResults) is taken as one step, after which corrections    *)
(* still change the ladder.                                                *)
(***************************************************************************)
EXTENDS SeasonSetup, SeasonEnd

VARIABLE
  played      \* every home-and-away round is final

seasonVars == <<setupVars, endVars, played>>

SeasonInit == SetupInit /\ SeedingInit /\ EndInit /\ played = FALSE

\* Rounds are created from the ordinary competition and the frozen draw and
\* played by full squads; nothing of it asks whether the season is active.
PlayRounds ==
  /\ ~played /\ played' = TRUE
  /\ draw.state = "frozen" /\ window = "closed" /\ Writable
  /\ UNCHANGED <<setupVars, endVars>>

SeasonNext ==
  \/ SetupNext /\ UNCHANGED <<seedingVars, superscore, grand, awards, played>>
  \/ PlayRounds
  \/ /\ played /\ EndNext
     /\ UNCHANGED <<entries, prepared, published, rules, accepting, deciding, draftedVars,
                    draw, page, played>>

SeasonSpec == SeasonInit /\ [][SeasonNext]_seasonVars
=============================================================================
