------------------------ MODULE MCNeighborSyncRace ------------------------
(* Instances of NeighborSyncRace for TLC. *)
EXTENDS NeighborSyncRace, TLC

CONSTANTS tree1, tree2

TreeSymmetry == Permutations(Trees)
=============================================================================
