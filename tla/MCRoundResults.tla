--------------------------- MODULE MCRoundResults ---------------------------
EXTENDS RoundResults
CONSTANTS e1, e2, e3, e4, p1, p2, F, I, s1, s2
MCDraw == [m \in 1 .. NumMatchups |->
  IF m = 1 THEN [home |-> e1, away |-> e2] ELSE [home |-> e3, away |-> e4]]
Sheet(f, i) == [p \in {F, I} |-> IF p = F THEN f ELSE i]
MCSheets == [e \in {e1, e2, e3, e4} |->
   IF e = e1 THEN {Sheet(p1, p2), Sheet(p2, p1)} ELSE {Sheet(p1, Vacant)}]
MCContested == {<<e1, F>>}
MCDuties == [s \in {s1, s2} |-> IF s = s1 THEN Kinds ELSE {"ruling", "correct"}]
PublisherDuties == [s \in {s1, s2} |-> IF s = s1 THEN {"signoff", "correct"} ELSE {"calculate", "signoff"}]
RecalculatorDuties == [s \in {s1, s2} |-> IF s = s1 THEN {"signoff", "correct"} ELSE {"calculate"}]
NeverStale == [s \in {s1, s2} |-> 0]
AnyMayBeStale == [s \in {s1, s2} |-> 1]
MCMaxLineup == [e \in {e1, e2, e3, e4} |-> IF e = e1 THEN 2 ELSE 1]
MCMaxReview == [m \in 1 .. NumMatchups |-> IF m = 1 THEN 3 ELSE 1]
\* The round has gone live and every entry but one has submitted.
MCInit ==
  /\ season = "active"
  /\ round = [state |-> "live", version |-> 3]
  /\ reviewVersion = [m \in Matchups |-> 1]
  /\ effective = [m \in Matchups |-> 0]
  /\ official = [m \in Matchups |-> <<>>]
  /\ lineup = [e \in Entries |-> IF e = e4 THEN NoLineup
                                 ELSE [version |-> 1, slots |-> Sheet(p1, IF e = e1 THEN p2 ELSE Vacant)]]
  /\ decisions = [e \in Entries |-> NoDecisions]
  /\ calculation = [m \in Matchups |-> NotCalculated]
  /\ facts = 0
  /\ lockedBy = [m \in Matchups |-> Nobody]
  /\ scorer = [s \in Scorers |-> Idle]
MCSpec == MCInit /\ [][Next]_vars
=============================================================================
