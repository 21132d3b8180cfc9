---------------------------- MODULE MCInvestigator ----------------------------
(* Instances of Investigator for TLC.                                      *)
EXTENDS Investigator
=============================================================================
