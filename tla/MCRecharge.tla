------------------------------ MODULE MCRecharge ------------------------------
(* Instances of Recharge for TLC: two months, one rail or the other.       *)
EXTENDS Recharge

CONSTANTS a1, a2, c1, s1, s2

OneThenTwo == <<1, 2, 2>>
OneMonth == <<1, 1>>
=============================================================================
