----------------------------- MODULE SellMandate -----------------------------
(***************************************************************************)
(* What a parent order promises its client, without tranches, targets or   *)
(* child orders: of Volume lots some are sold, some are working in the     *)
(* market, and the two never exceed the volume.  Lots start working only   *)
(* while the order is not over; what works is sold or comes back; a sale   *)
(* is never undone; and an order that is over stays over.                  *)
(***************************************************************************)
EXTENDS Integers

CONSTANT Volume     \* ParentOrderRequest.total_volume

VARIABLES
    sold,       \* lots sold so far
    working,    \* lots that open child orders may still sell
    over        \* the order is completed or was cancelled

vars == <<sold, working, over>>

Init ==
    /\ sold = 0
    /\ working = 0
    /\ over = FALSE

Commit ==
    /\ ~over
    /\ working' > working
    /\ working' <= Volume - sold
    /\ UNCHANGED <<sold, over>>

Report ==
    /\ sold' >= sold
    /\ working' >= 0
    /\ sold' + working' <= sold + working
    /\ over => over'

Stop ==
    /\ over' = TRUE
    /\ UNCHANGED <<sold, working>>

Next == Commit \/ Report \/ Stop

Spec == Init /\ [][Next]_vars
=============================================================================
