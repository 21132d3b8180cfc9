----------------------------- MODULE MCCredits -----------------------------
(* Instances of Credits for TLC.                                           *)
EXTENDS Credits, TLC

CONSTANTS b1, b2, g1, g2, g3, u1, u2, q1, r1, p1

OneRun == b1 :> {g1}
TwoRuns == b1 :> {g1, g2}
TwoBatches == b1 :> {g1, g2} @@ b2 :> {g3}
NoRuns == [b \in {} |-> {}]

\* In sixths of a credit, to cross a boundary with and without a remainder.
Costs == [u \in Usage |-> (u1 :> 4 @@ u2 :> 14)[u]]
OneCredit == [q \in Request |-> 1]

RefundsP1 == [r \in Refund |-> p1]
InFull == [r \in Refund |-> PackageCredits]

FloorZero == {0}
Overdraft == {0, -2}
=============================================================================
