--------------------------- MODULE MCCoordinator ---------------------------
(* Instances of Coordinator for TLC. *)
EXTENDS Coordinator, TLC

Vector(weights) == [b \in Buckets |-> IF b \in DOMAIN weights THEN weights[b] ELSE 0]

\* Everything marketable; level 1 and level 2 halves; half level 1, half idle.
MCIntents ==
    {Vector(0 :> 2), Vector(1 :> 1 @@ 2 :> 1), Vector(1 :> 1 @@ 6 :> 1)}

(* The code treats the active statuses alike, so one of them is enough. *)
MCReports == {"SUBMITTING"} \cup FinalStatuses

\* Two prices a tick apart.
MCBids == {10, 12}
=============================================================================
