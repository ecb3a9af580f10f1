----------------------------- MODULE MCExecution -----------------------------
(* Instances of Execution for TLC. *)
EXTENDS Execution, TLC

Vector(weights) == [b \in Buckets |-> IF b \in DOMAIN weights THEN weights[b] ELSE 0]

AllMarket  == Vector(0 :> 2)
HalfLevel1 == Vector(1 :> 1 @@ 6 :> 1)
AllLevel1  == Vector(1 :> 2)

MCIntents    == {AllMarket, HalfLevel1}
PassiveOnly  == {AllLevel1}
MCReports    == {"SUBMITTING", "NOTTRADED", "PARTTRADED"} \cup FinalStatuses

OneTranche   == 1..1
TwoTranches  == 1..2
ThreeTranches == 1..3

\* The windows of two tranches that never overlap, for a capacity of one.
StartsAtOnce == [t \in Tranches |-> t - 1]
Milestones   == [t \in Tranches |-> t]
\* Two that start together, and one that needs the slot of the first.
Together     == <<0, 0, 1>>
Staggered    == <<1, 2, 2>>
LateDeadline == [t \in Tranches |-> 2]

MCBid  == {10}
MCBids == {10, 11}
=============================================================================
