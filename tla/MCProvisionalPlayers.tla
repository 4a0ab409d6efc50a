------------------------ MODULE MCProvisionalPlayers ------------------------
EXTENDS ProvisionalPlayers, TLC
MCSymmetry == Permutations(Provisionals) \cup Permutations(Canonicals)
=============================================================================
