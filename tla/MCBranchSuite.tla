--------------------------- MODULE MCBranchSuite ---------------------------
(* Instance of BranchSuite for TLC: the snapshots, commits and plans are    *)
(* interchangeable.                                                         *)
EXTENDS BranchSuite, TLC

Symmetric == Permutations(Snapshot) \cup Permutations(Plan)
=============================================================================
