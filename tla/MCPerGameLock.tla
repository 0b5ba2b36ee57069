---------------------------- MODULE MCPerGameLock ----------------------------
(* Two games: the second may be announced late, and its cutoff comes when   *)
(* the first game starts.                                                    *)
EXTENDS PerGameLock, TLC

MCGames == {1, 2}
MCCutoff == [g \in MCGames |-> g]
MCStart == [g \in MCGames |-> g + 1]
MCRosters == {{1}, {1, 2}}
MCSymmetry == Permutations(Runs)
=============================================================================
