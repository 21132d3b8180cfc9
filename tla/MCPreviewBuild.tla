---------------------------- MODULE MCPreviewBuild ----------------------------
(* Instances of PreviewBuild for TLC: the builds are interchangeable.      *)
EXTENDS PreviewBuild, TLC

CONSTANTS h1, h2, o1

Symmetry == Permutations(Build)
=============================================================================
