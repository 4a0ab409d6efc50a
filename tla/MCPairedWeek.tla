---------------------------- MODULE MCPairedWeek -----------------------------
(***************************************************************************)
(* Two trigger keys with four configurations, two AFL rounds, and every    *)
(* pair of plans operators may have configured before the first request.   *)
(***************************************************************************)
EXTENDS PairedWeek

TwoKeys == {1, 2}

Config(kind, sequence, round) == [kind |-> kind, sequence |-> sequence, round |-> round]

FewConfigs ==
  {Config("selective", 1, 1), Config("selective", 2, 1), Config("main", 2, 1),
   Config("main", 3, 1), Config("main", 3, 2)}

\* What was configured before: every mapping is to AFL round 1, the finals
\* week has a main trigger, the SuperScore round any plan it removed nothing
\* from.
MCPairInit ==
  /\ PairInit
  /\ mapping["finals"].revision = 1
  /\ \A r \in Rounds : mapping[r].round = 1 /\ \A k \in Listed(plan[r]) : plan[r][k].round = 1
  /\ \E k \in Listed(plan["finals"]) : plan["finals"][k].kind = "main"
  /\ \A k \in Keys : plan["superscore"][k] # Removed

MCPairSpec == MCPairInit /\ [][PairNext]_pairVars
=============================================================================
