------------------------------ MODULE MCMergeGate ------------------------------
(* Instances of MergeGate for TLC. *)
EXTENDS MergeGate, TLC

CONSTANTS h1, h2, p1, p2

Symmetric == {f @@ g : f \in Permutations(Heads), g \in Permutations({p1, p2})}
=============================================================================
