-------------------------- MODULE ExecutionModels --------------------------
(***************************************************************************)
(* The data of the AC-RL execution app (models.py, and the record and      *)
(* level arithmetic of coordinator.py): order statuses, child-order        *)
(* records, the seven-bucket allocation an RL intent is rounded to, and    *)
(* the way a fill consumes that allocation.                                *)
(*                                                                         *)
(* Prices are integers.  A price is on the grid of a bid when it is a      *)
(* whole number of Ticks away from it.  An intent is a vector of integer   *)
(* weights over Scale, standing for the seven fractions of the model.      *)
(***************************************************************************)
EXTENDS Integers

CONSTANTS
    Tick,    \* ParentOrderRequest.price_tick
    Scale    \* the weights of an intent sum to Scale

ASSUME TickAssumption  == Tick \in Nat \ {0}
ASSUME ScaleAssumption == Scale \in Nat \ {0}

ParentStatus  == {"WAITING", "RUNNING", "PAUSED", "COMPLETED", "CANCELLED", "ERROR"}
TrancheStatus == {"WAITING", "ACTIVE", "CLOSING", "COMPLETED", "CANCELLED", "ERROR"}

ActiveStatuses == {"SUBMITTING", "NOTTRADED", "PARTTRADED"}
FinalStatuses  == {"ALLTRADED", "CANCELLED", "REJECTED"}
OrderStatus    == ActiveStatuses \cup FinalStatuses

Least(a, b)    == IF a <= b THEN a ELSE b
Greatest(a, b) == IF a >= b THEN a ELSE b

-----------------------------------------------------------------------------
(***************************************************************************)
(* Price levels.  OffGrid stands for the 99 that _current_level returns.   *)
(***************************************************************************)
OffGrid == 99

CurrentLevel(price, bid) ==
    IF (price - bid) % Tick = 0 THEN (price - bid) \div Tick ELSE OffGrid

(***************************************************************************)
(* Bucket 0 is the marketable sell at the best bid, 1..5 the passive       *)
(* levels above it, 6 the inventory left inactive.                         *)
(***************************************************************************)
Buckets  == 0..6
Inactive == 6
Levels   == 0..5

(***************************************************************************)
(* The bucket in which a child order stands at a best bid: an aggressive   *)
(* order is either at the bid or outside, a passive one at level 1..5 or   *)
(* outside.                                                                *)
(***************************************************************************)
Bucket(order, bid) ==
    LET level == CurrentLevel(order.price, bid)
    IN  IF order.aggressive
        THEN IF level = 0 THEN 0 ELSE OffGrid
        ELSE IF level \in 1..5 THEN level ELSE OffGrid

Leaves(order) ==
    IF order.status \in ActiveStatuses
    THEN Greatest(order.volume - order.traded, 0)
    ELSE 0

-----------------------------------------------------------------------------
Allocations == [Buckets -> Nat]

Total(a) == a[0] + a[1] + a[2] + a[3] + a[4] + a[5] + a[6]

\* numpy.round: to the nearest integer, ties to the even one.
RoundHalfEven(n, d) ==
    LET q == n \div d
        r == n % d
    IN  IF 2 * r > d \/ (2 * r = d /\ q % 2 = 1) THEN q + 1 ELSE q

(***************************************************************************)
(* ExecutionIntent.target_quantities: each bucket in turn takes its        *)
(* rounded share of what is remaining, as far as that is still available;  *)
(* the last one also gets whatever is left over.  Wanted(b) is what the    *)
(* buckets up to b ask for together, so they get Least(Wanted(b), R).      *)
(***************************************************************************)
TargetQuantities(intent, remaining) ==
    LET share == [b \in Buckets |-> RoundHalfEven(intent[b] * remaining, Scale)]
        Wanted(b) == Total([c \in Buckets |-> IF c <= b THEN share[c] ELSE 0])
        Given(b)  == Least(Wanted(b), remaining)
    IN  [b \in Buckets |->
            IF b = Inactive THEN remaining - Given(b - 1)
            ELSE IF b = 0   THEN Given(0)
            ELSE Given(b) - Given(b - 1)]

(***************************************************************************)
(* _consume_target_fill: a fill is taken from the preferred bucket, then   *)
(* from the inactive one, then from 0, 1, ..., 5.                          *)
(***************************************************************************)
Rank(b, preferred) ==
    IF b = preferred THEN 0 ELSE IF b = Inactive THEN 1 ELSE b + 2

\* Mutant: a fill is taken from the preferred bucket only.
ConsumedPreferredOnly(a, preferred, quantity) ==
    [a EXCEPT ![preferred] = @ - Least(@, quantity)]

Consumed(a, preferred, quantity) ==
    LET Before(b) == Total([c \in Buckets |->
                        IF Rank(c, preferred) < Rank(b, preferred) THEN a[c] ELSE 0])
        Taken(b)  == Least(a[b], Greatest(quantity - Before(b), 0))
    IN  [b \in Buckets |-> a[b] - Taken(b)]

PreferredBucket(order, bid) ==
    IF order.aggressive THEN 0
    ELSE IF Bucket(order, bid) = OffGrid THEN Inactive
    ELSE Bucket(order, bid)
=============================================================================
