--------------------------- MODULE MCAnalysisRun ---------------------------
(* Instances of AnalysisRun for TLC.  Commits are numbered in push order.   *)
EXTENDS AnalysisRun

Sha2 == 0..2
Sha1 == 0..1
=============================================================================
