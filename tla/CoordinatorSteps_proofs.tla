----------------------- MODULE CoordinatorSteps_proofs -----------------------
(***************************************************************************)
(* More theorems about module Coordinator, for every value of its          *)
(* constants: what its methods do to fills, final orders and targets, and  *)
(* so that a target always divides what is left, a final order stays       *)
(* final, the fills of the three levels agree, and no order is sent where  *)
(* a cancel is unanswered.                                                 *)
(***************************************************************************)
EXTENDS Coordinator_proofs

-----------------------------------------------------------------------------
(***************************************************************************)
(* Every method but process_order keeps all fills and all order statuses,  *)
(* and what it sends is new.                                               *)
(***************************************************************************)
KeepsFills(b, c) ==
    /\ c.parent.traded = b.parent.traded
    /\ \A t \in Tranches : c.tranche[t].traded = b.tranche[t].traded
    /\ Orders(b) \subseteq Orders(c)
    /\ \A o \in Orders(b) :
          /\ c.child[o].tranche = b.child[o].tranche
          /\ c.child[o].volume = b.child[o].volume
          /\ c.child[o].traded = b.child[o].traded
          /\ c.child[o].status = b.child[o].status
    /\ \A o \in Orders(c) \ Orders(b) :
          c.child[o].traded = 0 /\ c.child[o].status = "SUBMITTING"

\* Every method but apply_intent and process_order keeps or drops a target.
KeepsTargets(b, c) ==
    \A t \in Tranches :
        \/ c.target[t] = NoTarget
        \/ b.target[t] # NoTarget /\ c.target[t].allocation = b.target[t].allocation

Keeps(b, c) == KeepsFills(b, c) /\ KeepsTargets(b, c)

LEMMA KeepsIsReflexive ==
    ASSUME NEW b
    PROVE  Keeps(b, b)
  BY DEF Keeps, KeepsFills, KeepsTargets

LEMMA KeepsIsTransitive ==
    ASSUME NEW b, NEW c, NEW d
    PROVE  /\ Keeps(b, c) /\ Keeps(c, d) => Keeps(b, d)
           /\ KeepsFills(b, c) /\ KeepsFills(c, d) => KeepsFills(b, d)
  <1>1. KeepsFills(b, c) /\ KeepsFills(c, d) => KeepsFills(b, d)
    BY DEF KeepsFills
  <1>2. KeepsTargets(b, c) /\ KeepsTargets(c, d) => KeepsTargets(b, d)
    BY DEF KeepsTargets
  <1> QED
    BY <1>1, <1>2 DEF Keeps

LEMMA CancelOrdersKeeps ==
    ASSUME NEW b, WellFormed(b), NEW O
    PROVE  Keeps(b, CancelOrders(b, O))
  <1> DEFINE c == CancelOrders(b, O)
  <1>1. /\ c.parent = b.parent /\ c.tranche = b.tranche /\ c.target = b.target
        /\ Orders(c) = Orders(b)
    BY DEF CancelOrders, WellFormed, Books, Orders
  <1>2. ASSUME NEW o \in Orders(b)
        PROVE  /\ c.child[o].tranche = b.child[o].tranche
               /\ c.child[o].volume = b.child[o].volume
               /\ c.child[o].traded = b.child[o].traded
               /\ c.child[o].status = b.child[o].status
    <2>1. b.child[o] \in ChildOrder
      BY OrdersAreNumbered DEF WellFormed, Books
    <2>2. c.child[o] = IF o \in Open(b, O)
                       THEN [b.child[o] EXCEPT !.cancel_requested = TRUE] ELSE b.child[o]
      BY DEF CancelOrders, WellFormed, Books
    <2> HIDE DEF c
    <2> QED
      BY <2>1, <2>2 DEF ChildOrder
  <1> HIDE DEF c
  <1>3. Keeps(b, c)
    BY <1>1, <1>2 DEF Keeps, KeepsFills, KeepsTargets
  <1> QED
    BY <1>3 DEF c

LEMMA SendOrderKeeps ==
    ASSUME NEW b, WellFormed(b), NEW t, NEW quantity \in Int, NEW price, NEW aggressive
    PROVE  Keeps(b, SendOrder(b, t, quantity, price, aggressive))
  <1>1. CASE quantity <= 0
    BY <1>1, KeepsIsReflexive DEF SendOrder
  <1>2. CASE quantity > 0
    <2>1. PICK n \in Nat : b \in Books(n)
      BY DEF WellFormed
    <2> DEFINE order == NewOrder(t, quantity, price, aggressive)
               c == Appended(b, n, order)
    <2>2. SendOrder(b, t, quantity, price, aggressive) = c
      BY <1>2, <2>1, SendOrderAppends
    <2>3. Orders(b) = 1..n
      BY <2>1, OrdersAreNumbered
    <2> HIDE DEF order
    <2>4. /\ c.parent = b.parent /\ c.tranche = b.tranche /\ c.target = b.target
          /\ Orders(c) = 1..(n + 1)
          /\ \A o \in 1..n : c.child[o] = b.child[o]
          /\ c.child[n + 1] = order
      BY <2>1 DEF Appended, Books, Orders
    <2>5. order.traded = 0 /\ order.status = "SUBMITTING"
      BY DEF NewOrder, order
    <2> HIDE DEF c
    <2>6. Keeps(b, c)
      BY <2>3, <2>4, <2>5 DEF Keeps, KeepsFills, KeepsTargets
    <2> QED
      BY <2>2, <2>6
  <1> QED
    BY <1>1, <1>2

LEMMA FillBucketKeeps ==
    ASSUME NEW b, Sound(b), NEW t \in Tranches, NEW bid \in Int,
           NEW allocation \in Allocations, NEW k \in Levels
    PROVE  Keeps(b, FillBucket(b, t, bid, allocation, k))
  <1> DEFINE quantity == Least(allocation[k] - Potential(b, AtBucket(b, t, bid, k)),
                               Available(b, t))
  <1>1. allocation[k] \in Nat
    BY DEF Allocations, Buckets, Levels
  <1>2. Available(b, t) \in Int
    BY AvailableIsLeft, VolumeAssumption
  <1>3. AtBucket(b, t, bid, k) \in SUBSET Orders(b)
    BY DEF AtBucket, Open, OrdersOf
  <1>4. Potential(b, AtBucket(b, t, bid, k)) \in Nat
    BY <1>3, PotentialIsNat DEF Sound
  <1>5. quantity \in Int
    BY <1>1, <1>2, <1>4 DEF Least
  <1> HIDE DEF quantity
  <1> QED
    BY <1>5, SendOrderKeeps DEF FillBucket, quantity, Sound

LEMMA DeployKeeps ==
    ASSUME NEW b, Sound(b), NEW t \in Tranches, NEW bid \in Int,
           NEW allocation \in Allocations
    PROVE  Keeps(b, Deploy(b, t, bid, allocation))
  <1> DEFINE b0 == FillBucket(b,  t, bid, allocation, 0)
             b1 == FillBucket(b0, t, bid, allocation, 1)
             b2 == FillBucket(b1, t, bid, allocation, 2)
             b3 == FillBucket(b2, t, bid, allocation, 3)
             b4 == FillBucket(b3, t, bid, allocation, 4)
             b5 == FillBucket(b4, t, bid, allocation, 5)
  <1> HIDE DEF b0, b1, b2, b3, b4, b5
  <1>0. Sound(b0) /\ Keeps(b, b0)
    BY FillBucketSound, FillBucketKeeps DEF b0, Levels
  <1>1. Sound(b1) /\ Keeps(b, b1)
    BY <1>0, FillBucketSound, FillBucketKeeps, KeepsIsTransitive DEF b1, Levels
  <1>2. Sound(b2) /\ Keeps(b, b2)
    BY <1>1, FillBucketSound, FillBucketKeeps, KeepsIsTransitive DEF b2, Levels
  <1>3. Sound(b3) /\ Keeps(b, b3)
    BY <1>2, FillBucketSound, FillBucketKeeps, KeepsIsTransitive DEF b3, Levels
  <1>4. Sound(b4) /\ Keeps(b, b4)
    BY <1>3, FillBucketSound, FillBucketKeeps, KeepsIsTransitive DEF b4, Levels
  <1>5. Keeps(b, b5)
    BY <1>4, FillBucketKeeps, KeepsIsTransitive DEF b5, Levels
  <1>6. Deploy(b, t, bid, allocation) = b5
    BY Zenon DEF Deploy, b0, b1, b2, b3, b4, b5
  <1> QED
    BY <1>5, <1>6

LEMMA ReconciledKeeps ==
    ASSUME NEW b, Sound(b), NEW t \in Tranches
    PROVE  Keeps(b, Reconciled(b, t))
  <1> DEFINE allocation == b.target[t].allocation
             bid == b.target[t].bid
             trimmed == CancelOrders(b, Excess(b, t, bid, allocation))
  <1>1. CASE b.target[t] = NoTarget \/ b.parent.status # "RUNNING"
    BY <1>1, KeepsIsReflexive, Zenon DEF Reconciled
  <1>2. CASE ~(b.target[t] = NoTarget \/ b.parent.status # "RUNNING")
    <2>1. b.target[t] \in Target
      BY <1>2 DEF Sound, WellFormed, Books
    <2>2. allocation \in Allocations /\ bid \in Int
      BY <2>1, MarketAssumption DEF Target
    <2> HIDE DEF allocation, bid
    <2>3. Sound(trimmed) /\ Keeps(b, trimmed)
      BY CancelOrdersSound, CancelOrdersKeeps DEF Sound
    <2> HIDE DEF trimmed
    <2>4. Keeps(b, Deploy(trimmed, t, bid, allocation))
      BY <2>2, <2>3, DeployKeeps, KeepsIsTransitive
    <2>5. Reconciled(b, t) = IF CancelPending(trimmed, t) THEN trimmed
                             ELSE Deploy(trimmed, t, bid, allocation)
      BY <1>2, Zenon DEF Reconciled, trimmed, allocation, bid
    <2> QED
      BY <2>3, <2>4, <2>5
  <1> QED
    BY <1>1, <1>2

LEMMA PendingReconciledKeeps ==
    ASSUME NEW b, Sound(b), NEW t \in Tranches, NEW bid \in Bids
    PROVE  Keeps(b, PendingReconciled(b, t, bid))
  <1> DEFINE c == [b EXCEPT !.target[t] = [@ EXCEPT !.bid = bid]]
  <1>1. CASE b.target[t] = NoTarget \/ b.tranche[t].status # "ACTIVE"
    BY <1>1, KeepsIsReflexive DEF PendingReconciled
  <1>2. CASE ~(b.target[t] = NoTarget \/ b.tranche[t].status # "ACTIVE")
    <2>1. b.target[t] \in Target
      BY <1>2 DEF Sound, WellFormed, Books
    <2>2. /\ [b.target[t] EXCEPT !.bid = bid] \in Target
          /\ [b.target[t] EXCEPT !.bid = bid].allocation = b.target[t].allocation
      BY <2>1 DEF Target
    <2>3. WellFormed(c)
      BY <2>2 DEF Sound, WellFormed, Books
    <2>4. c.child = b.child /\ c.parent = b.parent /\ c.tranche = b.tranche
      BY DEF Sound, WellFormed, Books
    <2>5. /\ c.target[t] = [b.target[t] EXCEPT !.bid = bid]
          /\ \A s \in Tranches \ {t} : c.target[s] = b.target[s]
      BY DEF Sound, WellFormed, Books
    <2> HIDE DEF c
    <2>6. Sound(c)
      BY <2>3, <2>4, RelabelledSound
    <2>7. Keeps(b, c)
      <3>1. KeepsTargets(b, c)
        BY <1>2, <2>2, <2>5 DEF KeepsTargets
      <3> QED
        BY <2>4, <3>1 DEF Keeps, KeepsFills, Orders
    <2>8. Keeps(b, Reconciled(c, t))
      BY <2>6, <2>7, ReconciledKeeps, KeepsIsTransitive
    <2> QED
      BY <1>2, <2>8, Zenon DEF PendingReconciled, c
  <1> QED
    BY <1>1, <1>2

LEMMA CloseFinishedKeeps ==
    ASSUME NEW b, Sound(b), NEW t \in Tranches, NEW bid \in Bids
    PROVE  Keeps(b, CloseFinished(b, t, bid))
  <1> DEFINE open == Open(b, OrdersOf(b, t))
             quantity == Least(Remaining(b, t), Available(b, t))
             done == [b EXCEPT !.tranche[t].status = "COMPLETED"]
  <1>1. Keeps(b, done)
    <2>1. /\ done.child = b.child /\ done.parent = b.parent /\ done.target = b.target
          /\ \A s \in Tranches : done.tranche[s].traded = b.tranche[s].traded
      BY DEF Sound, WellFormed, Books
    <2> HIDE DEF done
    <2> QED
      BY <2>1 DEF Keeps, KeepsFills, KeepsTargets, Orders
  <1>2. Keeps(b, CancelOrders(b, {o \in open : Bucket(b.child[o], bid) # 0}))
    BY CancelOrdersKeeps DEF Sound
  <1>3. quantity \in Int
    BY RemainingIsNat, AvailableIsLeft, VolumeAssumption DEF Sound, Least
  <1> HIDE DEF quantity
  <1>4. Keeps(b, SendOrder(b, t, quantity, bid, TRUE))
    BY <1>3, SendOrderKeeps DEF Sound
  <1> QED
    BY <1>1, <1>2, <1>4, Zenon DEF CloseFinished, quantity

LEMMA CloseBegunKeeps ==
    ASSUME NEW b, Sound(b), NEW t \in Tranches, NEW bid \in Bids
    PROVE  Keeps(b, CloseBegun(b, t, bid))
  <1> DEFINE closing == [b EXCEPT !.tranche[t].status = "CLOSING", !.target[t] = NoTarget]
             asked == CancelOrders(closing, OrdersOf(closing, t))
  <1>1. b.tranche[t] \in [status : TrancheStatus, traded : 0..TrancheVolume]
    BY DEF Sound, WellFormed, Books
  <1>2. WellFormed(closing)
    BY <1>1 DEF Sound, WellFormed, Books, TrancheStatus
  <1>3. /\ closing.child = b.child /\ closing.parent = b.parent
        /\ \A s \in Tranches : closing.tranche[s].traded = b.tranche[s].traded
        /\ \A s \in Tranches : closing.target[s] \in {b.target[s], NoTarget}
    BY <1>1 DEF Sound, WellFormed, Books
  <1> HIDE DEF closing
  <1>4. Sound(closing) /\ Keeps(b, closing)
    BY <1>2, <1>3, RelabelledSound DEF Keeps, KeepsFills, KeepsTargets, Orders
  <1>5. Sound(asked) /\ Keeps(b, asked)
    BY <1>4, CancelOrdersSound, CancelOrdersKeeps, KeepsIsTransitive DEF Sound
  <1> HIDE DEF asked
  <1>6. Keeps(b, CloseFinished(asked, t, bid)) /\ Keeps(b, CloseFinished(b, t, bid))
    BY <1>5, CloseFinishedKeeps, KeepsIsTransitive
  <1> QED
    BY <1>6, KeepsIsReflexive, Zenon DEF CloseBegun, closing, asked

LEMMA PausedKeeps ==
    ASSUME NEW b, Sound(b)
    PROVE  Keeps(b, Paused(b))
  <1> DEFINE c == [b EXCEPT !.parent.status = "PAUSED",
                            !.target  = Untargeted,
                            !.tranche = [t \in Tranches |->
                               IF b.tranche[t].status = "ACTIVE"
                               THEN [b.tranche[t] EXCEPT !.status = "CLOSING"]
                               ELSE b.tranche[t]]]
  <1>1. /\ c.child = b.child
        /\ c.parent.traded = b.parent.traded
        /\ \A t \in Tranches : c.tranche[t].traded = b.tranche[t].traded
        /\ \A t \in Tranches : c.target[t] = NoTarget
    <2>1. \A t \in Tranches :
            b.tranche[t] \in [status : TrancheStatus, traded : 0..TrancheVolume]
      BY DEF Sound, WellFormed, Books
    <2> QED
      BY <2>1 DEF Sound, WellFormed, Books, Untargeted
  <1> HIDE DEF c
  <1>3. Keeps(b, c)
    BY <1>1 DEF Keeps, KeepsFills, KeepsTargets, Orders
  <1> DEFINE O == Orders(b)
             asked == CancelOrders(c, O)
  <1>4. Keeps(c, asked)
    <2>1. WellFormed(c)
      <3>1. \A t \in Tranches :
              /\ b.tranche[t] \in [status : TrancheStatus, traded : 0..TrancheVolume]
              /\ [b.tranche[t] EXCEPT !.status = "CLOSING"]
                    \in [status : TrancheStatus, traded : 0..TrancheVolume]
        BY DEF Sound, WellFormed, Books, TrancheStatus
      <3>2. b.parent \in [status : ParentStatus, traded : 0..TotalVolume]
        BY DEF Sound, WellFormed, Books
      <3>3. Untargeted \in [Tranches -> Target \cup {NoTarget}]
        BY DEF Untargeted
      <3> QED
        BY <3>1, <3>2, <3>3 DEF Sound, WellFormed, Books, ParentStatus, c
    <2> QED
      BY <2>1, CancelOrdersKeeps
  <1> HIDE DEF asked
  <1>5. Keeps(b, asked)
    BY <1>3, <1>4, KeepsIsTransitive
  <1> QED
    BY <1>5, KeepsIsReflexive, Zenon DEF Paused, c, asked

LEMMA ResumedKeeps ==
    ASSUME NEW b, Sound(b)
    PROVE  Keeps(b, Resumed(b))
  <1> DEFINE c == Resumed(b)
  <1>1. /\ c.child = b.child
        /\ c.parent.traded = b.parent.traded
        /\ \A t \in Tranches : c.tranche[t].traded = b.tranche[t].traded
        /\ c.target = b.target
    <2>1. \A t \in Tranches :
            b.tranche[t] \in [status : TrancheStatus, traded : 0..TrancheVolume]
      BY DEF Sound, WellFormed, Books
    <2> QED
      BY <2>1 DEF Sound, WellFormed, Books, Resumed
  <1> HIDE DEF c
  <1>2. Keeps(b, c)
    BY <1>1 DEF Keeps, KeepsFills, KeepsTargets, Orders
  <1> QED
    BY <1>2 DEF c

LEMMA CancelledKeeps ==
    ASSUME NEW b, Sound(b)
    PROVE  Keeps(b, Cancelled(b))
  <1> DEFINE c == [b EXCEPT !.parent.status = "CANCELLED",
                            !.target  = Untargeted,
                            !.tranche = [t \in Tranches |->
                               IF b.tranche[t].status \in {"COMPLETED", "ERROR"}
                               THEN b.tranche[t]
                               ELSE [b.tranche[t] EXCEPT !.status = "CANCELLED"]]]
  <1>1. /\ c.child = b.child
        /\ c.parent.traded = b.parent.traded
        /\ \A t \in Tranches : c.tranche[t].traded = b.tranche[t].traded
        /\ \A t \in Tranches : c.target[t] = NoTarget
    <2>1. \A t \in Tranches :
            b.tranche[t] \in [status : TrancheStatus, traded : 0..TrancheVolume]
      BY DEF Sound, WellFormed, Books
    <2> QED
      BY <2>1 DEF Sound, WellFormed, Books, Untargeted
  <1>2. WellFormed(c)
    <2>1. \A t \in Tranches :
            /\ b.tranche[t] \in [status : TrancheStatus, traded : 0..TrancheVolume]
            /\ [b.tranche[t] EXCEPT !.status = "CANCELLED"]
                  \in [status : TrancheStatus, traded : 0..TrancheVolume]
      BY DEF Sound, WellFormed, Books, TrancheStatus
    <2>2. b.parent \in [status : ParentStatus, traded : 0..TotalVolume]
      BY DEF Sound, WellFormed, Books
    <2>3. Untargeted \in [Tranches -> Target \cup {NoTarget}]
      BY DEF Untargeted
    <2> QED
      BY <2>1, <2>2, <2>3 DEF Sound, WellFormed, Books, ParentStatus
  <1> DEFINE O == Orders(b)
             asked == CancelOrders(c, O)
  <1> HIDE DEF c
  <1>3. Keeps(b, c)
    BY <1>1 DEF Keeps, KeepsFills, KeepsTargets, Orders
  <1>4. Keeps(b, asked)
    BY <1>2, <1>3, CancelOrdersKeeps, KeepsIsTransitive
  <1> HIDE DEF asked
  <1> QED
    BY <1>4, KeepsIsReflexive, Zenon DEF Cancelled, c, asked

LEMMA SettledKeeps ==
    ASSUME NEW b, Sound(b), NEW t \in Tranches
    PROVE  Keeps(b, Settled(b, t))
  <1> DEFINE done == [b EXCEPT !.tranche[t].status = "COMPLETED", !.target[t] = NoTarget]
             filled == IF Remaining(b, t) # 0 THEN b
                       ELSE CancelOrders(done, OrdersOf(b, t))
             sold == [filled EXCEPT !.parent.status = "COMPLETED"]
  <1>1. b.tranche[t] \in [status : TrancheStatus, traded : 0..TrancheVolume]
    BY DEF Sound, WellFormed, Books
  <1>2. WellFormed(done)
    BY <1>1 DEF Sound, WellFormed, Books, TrancheStatus
  <1>3. /\ done.child = b.child /\ done.parent = b.parent
        /\ \A s \in Tranches : done.tranche[s].traded = b.tranche[s].traded
        /\ \A s \in Tranches : done.target[s] \in {b.target[s], NoTarget}
    BY <1>1 DEF Sound, WellFormed, Books
  <1> HIDE DEF done
  <1>4. Sound(done) /\ Keeps(b, done)
    BY <1>2, <1>3, RelabelledSound DEF Keeps, KeepsFills, KeepsTargets, Orders
  <1>5. Sound(filled) /\ Keeps(b, filled)
    BY <1>4, CancelOrdersSound, CancelOrdersKeeps, KeepsIsReflexive, KeepsIsTransitive DEF Sound
  <1> HIDE DEF filled
  <1>6. /\ sold.child = filled.child /\ sold.parent.traded = filled.parent.traded
        /\ sold.tranche = filled.tranche /\ sold.target = filled.target
    BY <1>5 DEF Sound, WellFormed, Books
  <1> HIDE DEF sold
  <1>7. Keeps(filled, sold)
    BY <1>6 DEF Keeps, KeepsFills, KeepsTargets, Orders
  <1>8. Keeps(b, sold)
    BY <1>5, <1>7, KeepsIsTransitive
  <1>9. Settled(b, t) = IF ParentRemaining(b) # 0 THEN filled ELSE sold
    BY Zenon DEF Settled, done, filled, sold
  <1> QED
    BY <1>5, <1>8, <1>9

-----------------------------------------------------------------------------
(***************************************************************************)
(* Targets.                                                                *)
(***************************************************************************)
Divides(b) ==
    \A t \in Tranches :
        b.target[t] # NoTarget => Total(b.target[t].allocation) = Remaining(b, t)

LEMMA KeptTargetsDivide ==
    ASSUME NEW b, NEW c, Divides(b), Keeps(b, c)
    PROVE  Divides(c)
  <1>1. \A t \in Tranches : Remaining(c, t) = Remaining(b, t)
    BY DEF Keeps, KeepsFills, Remaining
  <1> QED
    BY <1>1 DEF Divides, Keeps, KeepsTargets

LEMMA IntentAppliedDivides ==
    ASSUME NEW b, Sound(b),
           NEW t \in Tranches, NEW intent \in Intents, NEW bid \in Bids
    PROVE  /\ Divides(b) => Divides(IntentApplied(b, t, intent, bid))
           /\ KeepsFills(b, IntentApplied(b, t, intent, bid))
  <1> DEFINE target == [allocation |-> TargetQuantities(intent, Remaining(b, t)), bid |-> bid]
             c == [b EXCEPT !.target[t] = target]
  <1>1. /\ target \in Target
        /\ Total(target.allocation) = Remaining(b, t)
    <2>1. /\ TargetQuantities(intent, Remaining(b, t)) \in Allocations
          /\ Total(TargetQuantities(intent, Remaining(b, t))) = Remaining(b, t)
      BY IntentAssumption, VolumeAssumption, RemainingIsNat, TargetQuantitiesDivide DEF Sound
    <2> QED
      BY <2>1 DEF Target
  <1> HIDE DEF target
  <1>2. WellFormed(c)
    BY <1>1 DEF Sound, WellFormed, Books
  <1>3. /\ c.child = b.child /\ c.parent = b.parent /\ c.tranche = b.tranche
        /\ \A s \in Tranches : c.target[s] = IF s = t THEN target ELSE b.target[s]
    BY DEF Sound, WellFormed, Books
  <1> HIDE DEF c
  <1>4. Sound(c) /\ KeepsFills(b, c)
    BY <1>2, <1>3, RelabelledSound DEF KeepsFills, Orders
  <1>5. Divides(b) => Divides(c)
    BY <1>1, <1>3 DEF Divides, Remaining
  <1>6. Keeps(c, Reconciled(c, t))
    BY <1>4, ReconciledKeeps
  <1>7. IntentApplied(b, t, intent, bid) = Reconciled(c, t)
    BY DEF IntentApplied, c, target
  <1> QED
    BY <1>4, <1>5, <1>6, <1>7, KeptTargetsDivide, KeepsIsTransitive DEF Keeps

(***************************************************************************)
(* A fill always fits the target, because the open lots of a tranche are   *)
(* within its limit and the target divides what the limit leaves.          *)
(***************************************************************************)
LEMMA FillFitsTarget ==
    ASSUME NEW b, Sound(b), Divides(b), NEW o \in Orders(b),
           NEW traded \in 0..TrancheVolume, NEW status \in OrderStatus,
           Reportable(b, o, traded, status)
    PROVE  /\ ~FillExceedsTarget(b, o, traded)
           /\ Delta(b, o, traded) \in Nat
           /\ b.child[o].tranche \in Tranches
           /\ Delta(b, o, traded) <= Remaining(b, b.child[o].tranche)
  <1> DEFINE t == b.child[o].tranche
             d == Delta(b, o, traded)
             c == Recorded(b, o, traded, status)
  <1>1. t \in Tranches
    BY OrdersAreNumbered DEF Sound, WellFormed, Books, ChildOrder
  <1>2. OrdersOf(b, t) \in SUBSET Orders(b) /\ o \in OrdersOf(b, t)
    BY DEF OrdersOf
  <1>3. d + Potential(c, OrdersOf(b, t)) <= Potential(b, OrdersOf(b, t))
    BY <1>2, FillComesFromOpenLots
  <1>4. /\ Potential(b, OrdersOf(b, t)) \in Nat
        /\ Potential(c, OrdersOf(b, t)) \in Nat
    <2>1. WellFormed(c) /\ Orders(c) = Orders(b)
      BY RecordedSound DEF Sound
    <2> HIDE DEF c, t
    <2> QED
      BY <1>2, <2>1, PotentialIsNat DEF Sound
  <1>5. d \in Nat
    BY FilledLotsAreDelta DEF Sound
  <1>6. b.tranche[t].traded + Potential(b, OrdersOf(b, t)) <= TrancheVolume
    BY <1>1 DEF Sound, Limits
  <1>7. /\ Remaining(b, t) = TrancheVolume - b.tranche[t].traded
        /\ b.tranche[t].traded \in Nat
    BY <1>1, RemainingIsNat, VolumeAssumption DEF Sound
  <1> HIDE DEF c, d, t
  <1>8. d <= Remaining(b, t)
    BY <1>3, <1>4, <1>5, <1>6, <1>7, VolumeAssumption
  <1>9. ~FillExceedsTarget(b, o, traded)
    <2>1. b.target[t] # NoTarget => Total(b.target[t].allocation) = Remaining(b, t)
      BY <1>1 DEF Divides
    <2> SUFFICES ASSUME b.target[t] # NoTarget
                 PROVE  ~(d > Total(b.target[t].allocation))
      BY Zenon DEF FillExceedsTarget, d, t
    <2> QED
      BY <1>5, <1>7, <1>8, <2>1, VolumeAssumption
  <1> QED
    BY <1>1, <1>5, <1>8, <1>9 DEF d, t

LEMMA RecordedDivides ==
    ASSUME NEW b, Sound(b), Divides(b), NEW o \in Orders(b),
           NEW traded \in 0..TrancheVolume, NEW status \in OrderStatus,
           Reportable(b, o, traded, status)
    PROVE  Divides(Recorded(b, o, traded, status))
  <1> DEFINE t == b.child[o].tranche
             d == Delta(b, o, traded)
             c == Recorded(b, o, traded, status)
             after == TargetAfterFill(b, o, traded)
  <1>1. /\ WellFormed(c)
        /\ \A s \in Tranches :
              c.tranche[s].traded = IF s = t THEN Least(b.tranche[s].traded + d, TrancheVolume)
                                    ELSE b.tranche[s].traded
        /\ \A s \in Tranches : c.target[s] = IF s = t THEN after ELSE b.target[s]
    <2>1. WellFormed(b)
      BY DEF Sound
    <2> QED
      BY <2>1, RecordedChild
  <1>2. /\ ~FillExceedsTarget(b, o, traded)
        /\ d \in Nat
        /\ t \in Tranches
        /\ d <= Remaining(b, t)
    BY FillFitsTarget
  <1>3. /\ Remaining(b, t) = TrancheVolume - b.tranche[t].traded
        /\ b.tranche[t].traded \in Nat
    BY <1>2, RemainingIsNat, VolumeAssumption DEF Sound
  <1> HIDE DEF c, d, t, after
  <1>4. Remaining(c, t) = Remaining(b, t) - d
    <2>1. c.tranche[t].traded = b.tranche[t].traded + d
      BY <1>1, <1>2, <1>3, VolumeAssumption DEF Least
    <2>2. Remaining(c, t) = TrancheVolume - c.tranche[t].traded
      BY <1>1, <1>2, RemainingIsNat
    <2> QED
      BY <1>2, <1>3, <2>1, <2>2, VolumeAssumption
  <1>5. after # NoTarget => Total(after.allocation) = Remaining(b, t) - d
    <2> DEFINE old == b.target[t]
               preferred == PreferredBucket(b.child[o], old.bid)
               new == Consumed(old.allocation, preferred, d)
    <2>1. CASE old = NoTarget
      BY <2>1, Zenon DEF TargetAfterFill, after, t
    <2>2. CASE old # NoTarget
      <3>1. /\ old \in Target
            /\ Total(old.allocation) = Remaining(b, t)
        BY <1>2, <2>2 DEF Sound, WellFormed, Books, Divides
      <3>2. preferred \in Buckets
        BY DEF PreferredBucket, Bucket, Buckets, Inactive, OffGrid
      <3>3. old.allocation \in Allocations
        BY <3>1 DEF Target
      <3>4. after = [old EXCEPT !.allocation = new]
        BY <1>2, <2>2, Zenon DEF TargetAfterFill, after, t, d
      <3> HIDE DEF preferred, old
      <3>5. Total(new) = Total(old.allocation) - d
        BY <1>2, <3>1, <3>2, <3>3, ConsumedTakesTheFill
      <3> HIDE DEF new
      <3> QED
        BY <3>1, <3>4, <3>5 DEF Target
    <2> QED
      BY <2>1, <2>2
  <1>6. ASSUME NEW s \in Tranches, c.target[s] # NoTarget
        PROVE  Total(c.target[s].allocation) = Remaining(c, s)
    <2>1. CASE s = t
      BY <1>1, <1>4, <1>5, <1>6, <2>1
    <2>2. CASE s # t
      <3>1. Remaining(c, s) = Remaining(b, s)
        BY <1>1, <2>2 DEF Remaining
      <3> QED
        BY <1>1, <1>6, <2>2, <3>1 DEF Divides
    <2> QED
      BY <2>1, <2>2
  <1> QED
    BY <1>6 DEF Divides, c
LEMMA OrderProcessedDivides ==
    ASSUME NEW b, Sound(b), Divides(b), NEW o \in Orders(b),
           NEW traded \in 0..TrancheVolume, NEW status \in OrderStatus,
           Reportable(b, o, traded, status)
    PROVE  Divides(OrderProcessed(b, o, traded, status))
  <1> DEFINE recorded == Recorded(b, o, traded, status)
             t == b.child[o].tranche
  <1>1. Sound(recorded) /\ Divides(recorded)
    BY RecordedSound, RecordedDivides
  <1>2. t \in Tranches
    BY FillFitsTarget
  <1> HIDE DEF recorded, t
  <1>3. Divides(Paused(recorded)) /\ Divides(Settled(recorded, t))
    BY <1>1, <1>2, PausedKeeps, SettledKeeps, KeptTargetsDivide
  <1> QED
    BY <1>3, Zenon DEF OrderProcessed, recorded, t

-----------------------------------------------------------------------------
(***************************************************************************)
(* Final orders.                                                           *)
(***************************************************************************)
FinalKept(b, c) ==
    \A o \in Orders(b) :
        b.child[o].status \in FinalStatuses =>
            /\ c.child[o].status = b.child[o].status
            /\ c.child[o].traded = b.child[o].traded

LEMMA RecordedKeepsFinal ==
    ASSUME NEW b, Sound(b), NEW o \in Orders(b),
           NEW traded \in 0..TrancheVolume, NEW status \in OrderStatus,
           Reportable(b, o, traded, status)
    PROVE  FinalKept(b, Recorded(b, o, traded, status))
  <1> DEFINE c == Recorded(b, o, traded, status)
  <1>1. /\ \A p \in Orders(b) \ {o} : c.child[p] = b.child[p]
        /\ c.child[o].traded = Greatest(traded, b.child[o].traded)
        /\ c.child[o].status = IF Accepts(b, o, status) THEN status ELSE b.child[o].status
    BY RecordedChild DEF Sound
  <1>2. b.child[o].traded \in Nat /\ traded \in Nat
    <2>1. b.child[o] \in ChildOrder
      BY OrdersAreNumbered DEF Sound, WellFormed, Books
    <2> QED
      BY <2>1, VolumeAssumption DEF ChildOrder
  <1> HIDE DEF c
  <1>3. ASSUME b.child[o].status \in FinalStatuses
        PROVE  /\ c.child[o].status = b.child[o].status
               /\ c.child[o].traded = b.child[o].traded
    BY <1>1, <1>2, <1>3 DEF Reportable, Accepts, Greatest
  <1> QED
    BY <1>1, <1>3 DEF FinalKept, c

LEMMA OrderProcessedKeepsFinal ==
    ASSUME NEW b, Sound(b), NEW o \in Orders(b),
           NEW traded \in 0..TrancheVolume, NEW status \in OrderStatus,
           Reportable(b, o, traded, status)
    PROVE  FinalKept(b, OrderProcessed(b, o, traded, status))
  <1> DEFINE recorded == Recorded(b, o, traded, status)
             t == b.child[o].tranche
  <1>1. Sound(recorded) /\ Orders(recorded) = Orders(b) /\ FinalKept(b, recorded)
    BY RecordedSound, RecordedKeepsFinal
  <1>2. t \in Tranches
    BY OrdersAreNumbered DEF Sound, WellFormed, Books, ChildOrder
  <1> HIDE DEF recorded, t
  <1>3. KeepsFills(recorded, Paused(recorded)) /\ KeepsFills(recorded, Settled(recorded, t))
    BY <1>1, <1>2, PausedKeeps, SettledKeeps DEF Keeps
  <1>4. FinalKept(b, Paused(recorded)) /\ FinalKept(b, Settled(recorded, t))
    BY <1>1, <1>3 DEF FinalKept, KeepsFills
  <1> QED
    BY <1>4, Zenon DEF OrderProcessed, recorded, t

-----------------------------------------------------------------------------
(***************************************************************************)
(* Fills.  They are counted as sets of lots: those of a tranche's orders,  *)
(* those of all orders, and those of all tranches.  The argument does not  *)
(* need the tranches to be finitely many: only finitely many lots of them  *)
(* were ever sold.                                                         *)
(***************************************************************************)
SoldLots(b) ==
    {lot \in Orders(b) \X (1..TrancheVolume) : lot[2] <= b.child[lot[1]].traded}

TrancheLots(b) ==
    {lot \in Tranches \X (1..TrancheVolume) : lot[2] <= b.tranche[lot[1]].traded}

Fills(b) ==
    /\ \A t \in Tranches : b.tranche[t].traded = Cardinality(FilledLots(b, t))
    /\ b.parent.traded = Cardinality(SoldLots(b))
    /\ IsFiniteSet(TrancheLots(b))
    /\ b.parent.traded = Cardinality(TrancheLots(b))

\* The lots of child orders are finitely many.
LEMMA LotsAreFinite ==
    ASSUME NEW b, WellFormed(b)
    PROVE  /\ IsFiniteSet(SoldLots(b))
           /\ \A t \in Tranches : IsFiniteSet(FilledLots(b, t))
  <1>1. IsFiniteSet(Orders(b)) /\ IsFiniteSet(1..TrancheVolume)
    BY OrdersAreNumbered, FS_Interval, VolumeAssumption DEF WellFormed
  <1>2. IsFiniteSet(Orders(b) \X (1..TrancheVolume))
    BY <1>1, FS_Product
  <1>3. SoldLots(b) \subseteq Orders(b) \X (1..TrancheVolume)
    BY DEF SoldLots
  <1>4. \A t \in Tranches : FilledLots(b, t) \subseteq Orders(b) \X (1..TrancheVolume)
    BY DEF FilledLots, OrdersOf
  <1> QED
    BY <1>2, <1>3, <1>4, FS_Subset

\* The lots i to j of one owner.
LEMMA LotsOfOne ==
    ASSUME NEW x, NEW i \in Int, NEW j \in Int, i <= j + 1
    PROVE  /\ IsFiniteSet({x} \X (i..j))
           /\ Cardinality({x} \X (i..j)) = j - i + 1
  <1>1. IsFiniteSet(i..j) /\ Cardinality(i..j) = j - i + 1
    <2>1. /\ IsFiniteSet(i..j)
          /\ Cardinality(i..j) = IF i > j THEN 0 ELSE j - i + 1
      BY FS_Interval
    <2> QED
      BY <2>1
  <1>2. IsFiniteSet({x}) /\ Cardinality({x}) = 1
    BY FS_Singleton
  <1>3. /\ IsFiniteSet({x} \X (i..j))
        /\ Cardinality({x} \X (i..j)) = Cardinality({x}) * Cardinality(i..j)
    BY <1>1, <1>2, FS_Product
  <1>4. 1 * (j - i + 1) = j - i + 1
    OBVIOUS
  <1> QED
    BY <1>1, <1>2, <1>3, <1>4, Zenon

\* Two sets of lots without a common one have as many as both together.
LEMMA LotsAdded ==
    ASSUME NEW S, NEW T, IsFiniteSet(S), IsFiniteSet(T), S \cap T = {}
    PROVE  /\ IsFiniteSet(S \cup T)
           /\ Cardinality(S \cup T) = Cardinality(S) + Cardinality(T)
  <1>1. Cardinality(S \cap T) = 0
    BY FS_EmptySet
  <1>2. /\ IsFiniteSet(S \cup T)
        /\ Cardinality(S \cup T) = Cardinality(S) + Cardinality(T) - Cardinality(S \cap T)
    BY FS_Union
  <1>3. Cardinality(S) \in Nat /\ Cardinality(T) \in Nat
    BY FS_CardinalityType
  <1> QED
    BY <1>1, <1>2, <1>3

\* What keeps fills keeps the sums: new orders have none.
LEMMA KeptFillsAddUp ==
    ASSUME NEW b, NEW c, WellFormed(b), Fills(b), KeepsFills(b, c)
    PROVE  Fills(c)
  <1>2. /\ c.parent.traded = b.parent.traded
        /\ \A t \in Tranches : c.tranche[t].traded = b.tranche[t].traded
        /\ Orders(b) \subseteq Orders(c)
        /\ \A o \in Orders(b) : /\ c.child[o].tranche = b.child[o].tranche
                               /\ c.child[o].traded = b.child[o].traded
        /\ \A o \in Orders(c) \ Orders(b) : c.child[o].traded = 0
    BY DEF KeepsFills
  <1>3. \A l \in 1..TrancheVolume : ~(l <= 0)
    BY VolumeAssumption
  <1>4. SoldLots(c) = SoldLots(b)
    BY <1>2, <1>3 DEF SoldLots
  <1>5. ASSUME NEW t \in Tranches
        PROVE  FilledLots(c, t) = FilledLots(b, t)
    BY <1>2, <1>3 DEF FilledLots, OrdersOf
  <1>6. TrancheLots(c) = TrancheLots(b)
    BY <1>2 DEF TrancheLots
  <1> QED
    BY <1>2, <1>4, <1>5, <1>6 DEF Fills

\* A report adds the same lots to the order, its tranche and the parent.
LEMMA RecordedAddsUp ==
    ASSUME NEW b, Sound(b), Fills(b), NEW o \in Orders(b),
           NEW traded \in 0..TrancheVolume, NEW status \in OrderStatus,
           Reportable(b, o, traded, status)
    PROVE  Fills(Recorded(b, o, traded, status))
  <1> DEFINE c == Recorded(b, o, traded, status)
             t == b.child[o].tranche
             d == Delta(b, o, traded)
             old == b.child[o].traded
             before == b.tranche[t].traded
  <1>1. /\ WellFormed(c)
        /\ Orders(c) = Orders(b)
        /\ \A p \in Orders(b) \ {o} : c.child[p] = b.child[p]
        /\ c.child[o].tranche = t
        /\ c.child[o].traded = Greatest(traded, old)
        /\ c.parent.traded = Least(b.parent.traded + d, TotalVolume)
        /\ \A s \in Tranches :
              c.tranche[s].traded = IF s = t THEN Least(b.tranche[s].traded + d, TrancheVolume)
                                    ELSE b.tranche[s].traded
    <2>1. WellFormed(b)
      BY DEF Sound
    <2> QED
      BY <2>1, RecordedChild
  <1>2. /\ b.child[o] \in ChildOrder
        /\ t \in Tranches
        /\ old \in Nat
        /\ traded \in Nat
        /\ traded <= TrancheVolume
        /\ old <= TrancheVolume
    <2>1. b.child[o] \in ChildOrder
      BY OrdersAreNumbered DEF Sound, WellFormed, Books
    <2> QED
      BY <2>1, VolumeAssumption DEF ChildOrder
  <1>3. d \in Nat /\ IsFiniteSet(Filled(b, o, traded)) /\ Cardinality(Filled(b, o, traded)) = d
    BY FilledLotsAreDelta DEF Sound
  <1>4. before \in Nat /\ b.parent.traded \in Nat
    BY <1>2, VolumeAssumption DEF Sound, WellFormed, Books
  <1>5. before + d <= TrancheVolume /\ b.parent.traded + d <= TotalVolume
    <2>1. ASSUME NEW O \in SUBSET Orders(b), o \in O
          PROVE  /\ d <= Potential(b, O)
                 /\ Potential(b, O) \in Nat
      <3>1. d + Potential(c, O) <= Potential(b, O)
        BY <2>1, FillComesFromOpenLots
      <3>2. Potential(c, O) \in Nat /\ Potential(b, O) \in Nat
        BY <1>1, PotentialIsNat DEF Sound
      <3> HIDE DEF d, c
      <3> QED
        BY <1>3, <3>1, <3>2
    <2>2. OrdersOf(b, t) \in SUBSET Orders(b) /\ o \in OrdersOf(b, t)
      BY DEF OrdersOf
    <2>3. /\ before + Potential(b, OrdersOf(b, t)) <= TrancheVolume
          /\ b.parent.traded + Potential(b, Orders(b)) <= TotalVolume
      BY <1>2 DEF Sound, Limits
    <2> HIDE DEF c, d, t, before
    <2> QED
      BY <1>3, <1>4, <2>1, <2>2, <2>3, VolumeAssumption
  <1> HIDE DEF c, d
  <1>6. c.tranche[t].traded = before + d /\ c.parent.traded = b.parent.traded + d
    BY <1>1, <1>2, <1>3, <1>4, <1>5, VolumeAssumption DEF Least
  <1>7. \A s \in Tranches \ {t} : c.tranche[s].traded = b.tranche[s].traded
    BY <1>1
  <1> HIDE DEF t, old, before
  <1> DEFINE new == Filled(b, o, traded)
             sold == {t} \X ((before + 1)..(before + d))
  <1>8. \A p \in Orders(b) : c.child[p].tranche = b.child[p].tranche
    BY <1>1 DEF t
  <1>9. \A lot \in Orders(b) \X (1..TrancheVolume) :
           lot[2] <= c.child[lot[1]].traded <=>
              lot[2] <= b.child[lot[1]].traded \/ lot \in new
    <2> SUFFICES ASSUME NEW p \in Orders(b), NEW l \in 1..TrancheVolume
                 PROVE  l <= c.child[p].traded <=>
                           l <= b.child[p].traded \/ <<p, l>> \in new
      OBVIOUS
    <2>1. CASE p = o
      BY <1>1, <1>2, <2>1, VolumeAssumption DEF old, Filled, Greatest
    <2>2. CASE p # o
      BY <1>1, <2>2 DEF Filled
    <2> QED
      BY <2>1, <2>2
  <1>10. \A lot \in new : /\ lot \in {o} \X (1..TrancheVolume)
                         /\ ~(lot[2] <= b.child[lot[1]].traded)
    BY <1>2, VolumeAssumption DEF old, Filled
  <1>11. /\ Cardinality(SoldLots(b) \cup new) = Cardinality(SoldLots(b)) + d
         /\ SoldLots(c) = SoldLots(b) \cup new
    <2>1. SoldLots(c) = SoldLots(b) \cup new
      <3> HIDE DEF new
      <3> QED
        BY <1>1, <1>9, <1>10 DEF SoldLots
    <2>2. SoldLots(b) \cap new = {}
      BY <1>10 DEF SoldLots
    <2>3. IsFiniteSet(SoldLots(b))
      BY LotsAreFinite DEF Sound
    <2> QED
      BY <1>3, <2>1, <2>2, <2>3, LotsAdded
  <1>12. ASSUME NEW s \in Tranches
         PROVE  c.tranche[s].traded = Cardinality(FilledLots(c, s))
    <2>1. OrdersOf(c, s) = OrdersOf(b, s) /\ OrdersOf(b, s) \subseteq Orders(b)
      BY <1>1, <1>8 DEF OrdersOf
    <2>2. b.tranche[s].traded = Cardinality(FilledLots(b, s))
      BY DEF Fills
    <2>3. CASE s = t
      <3>1. FilledLots(c, s) = FilledLots(b, s) \cup new
        <4>1. o \in OrdersOf(b, s)
          BY <2>3 DEF OrdersOf, t
        <4> HIDE DEF new
        <4> QED
          BY <1>9, <1>10, <2>1, <4>1 DEF FilledLots
      <3>2. FilledLots(b, s) \cap new = {}
        BY <1>10 DEF FilledLots
      <3>3. IsFiniteSet(FilledLots(b, s))
        BY LotsAreFinite DEF Sound
      <3>4. Cardinality(FilledLots(c, s)) = Cardinality(FilledLots(b, s)) + d
        BY <1>3, <3>1, <3>2, <3>3, LotsAdded
      <3> QED
        BY <1>6, <2>2, <2>3, <3>4 DEF before
    <2>4. CASE s # t
      <3>1. o \notin OrdersOf(b, s)
        BY <2>4 DEF OrdersOf, t
      <3>2. FilledLots(c, s) = FilledLots(b, s)
        BY <1>1, <2>1, <3>1 DEF FilledLots
      <3> QED
        BY <1>7, <2>2, <2>4, <3>2
    <2> QED
      BY <2>3, <2>4
  <1>13. /\ IsFiniteSet(TrancheLots(c))
         /\ Cardinality(TrancheLots(c)) = Cardinality(TrancheLots(b)) + d
    <2>1. ASSUME NEW s \in Tranches, NEW l \in 1..TrancheVolume
          PROVE  l <= c.tranche[s].traded <=>
                    l <= b.tranche[s].traded \/ <<s, l>> \in sold
      <3>1. CASE s = t
        BY <1>2, <1>3, <1>4, <1>6, <3>1, VolumeAssumption DEF before
      <3>2. CASE s # t
        BY <1>7, <3>2
      <3> QED
        BY <3>1, <3>2
    <2>2. \A lot \in sold : /\ lot \in Tranches \X (1..TrancheVolume)
                           /\ ~(lot[2] <= b.tranche[lot[1]].traded)
      BY <1>2, <1>3, <1>4, <1>5, VolumeAssumption DEF before
    <2>3. TrancheLots(c) = TrancheLots(b) \cup sold
      <3> HIDE DEF sold
      <3> QED
        BY <2>1, <2>2 DEF TrancheLots
    <2>4. TrancheLots(b) \cap sold = {}
      BY <2>2 DEF TrancheLots
    <2>5. IsFiniteSet(TrancheLots(b))
      BY DEF Fills
    <2>6. IsFiniteSet(sold) /\ Cardinality(sold) = d
      <3>1. /\ before + 1 \in Int /\ before + d \in Int
            /\ before + 1 <= before + d + 1
            /\ (before + d) - (before + 1) + 1 = d
        BY <1>3, <1>4
      <3>2. /\ IsFiniteSet({t} \X ((before + 1)..(before + d)))
            /\ Cardinality({t} \X ((before + 1)..(before + d))) =
                 (before + d) - (before + 1) + 1
        BY <3>1, LotsOfOne, Zenon
      <3> QED
        BY <3>1, <3>2
    <2> HIDE DEF sold
    <2> QED
      BY <2>3, <2>4, <2>5, <2>6, LotsAdded
  <1>14. /\ b.parent.traded = Cardinality(SoldLots(b))
         /\ b.parent.traded = Cardinality(TrancheLots(b))
    BY DEF Fills
  <1>15. Fills(c)
    BY <1>6, <1>11, <1>12, <1>13, <1>14 DEF Fills
  <1> QED
    BY <1>15 DEF c

LEMMA OrderProcessedAddsUp ==
    ASSUME NEW b, Sound(b), Fills(b), NEW o \in Orders(b),
           NEW traded \in 0..TrancheVolume, NEW status \in OrderStatus,
           Reportable(b, o, traded, status)
    PROVE  Fills(OrderProcessed(b, o, traded, status))
  <1> DEFINE recorded == Recorded(b, o, traded, status)
             t == b.child[o].tranche
  <1>1. Sound(recorded) /\ Fills(recorded)
    BY RecordedSound, RecordedAddsUp
  <1>2. t \in Tranches
    BY OrdersAreNumbered DEF Sound, WellFormed, Books, ChildOrder
  <1> HIDE DEF recorded, t
  <1>3. KeepsFills(recorded, Paused(recorded)) /\ KeepsFills(recorded, Settled(recorded, t))
    BY <1>1, <1>2, PausedKeeps, SettledKeeps DEF Keeps
  <1>4. Fills(Paused(recorded)) /\ Fills(Settled(recorded, t))
    BY <1>1, <1>3, KeptFillsAddUp DEF Sound
  <1> QED
    BY <1>4, Zenon DEF OrderProcessed, recorded, t

-----------------------------------------------------------------------------
(***************************************************************************)
(* Orders and cancels.  A method that sends an order does so in a tranche  *)
(* where no cancel is unanswered, before the call and after it.            *)
(***************************************************************************)
Waits(b, c) ==
    \A o \in Orders(c) \ Orders(b) :
        ~CancelPending(b, c.child[o].tranche) /\ ~CancelPending(c, c.child[o].tranche)

\* c is b with new orders of tranche t.
Adds(b, c, t) ==
    /\ Orders(b) \subseteq Orders(c)
    /\ \A o \in Orders(b) : c.child[o] = b.child[o]
    /\ \A o \in Orders(c) \ Orders(b) :
          c.child[o].tranche = t /\ ~c.child[o].cancel_requested

LEMMA AddsIsTransitive ==
    ASSUME NEW b, NEW c, NEW d, NEW t, Adds(b, c, t), Adds(c, d, t)
    PROVE  Adds(b, d, t)
  BY DEF Adds

LEMMA AddedOrdersWait ==
    ASSUME NEW b, NEW c, NEW t, Adds(b, c, t), ~CancelPending(b, t)
    PROVE  Waits(b, c)
  <1>1. ~CancelPending(c, t)
    <2> SUFFICES ASSUME NEW o \in Open(c, OrdersOf(c, t)), c.child[o].cancel_requested
                 PROVE  FALSE
      BY DEF CancelPending
    <2>1. o \in Orders(c) /\ c.child[o].tranche = t /\ Leaves(c.child[o]) > 0
      BY DEF Open, OrdersOf
    <2>2. o \in Orders(b) /\ c.child[o] = b.child[o]
      BY <2>1 DEF Adds
    <2>3. o \in Open(b, OrdersOf(b, t))
      BY <2>1, <2>2 DEF Open, OrdersOf
    <2> QED
      BY <2>2, <2>3 DEF CancelPending
  <1> QED
    BY <1>1 DEF Waits, Adds

LEMMA SendOrderAdds ==
    ASSUME NEW b, WellFormed(b), NEW t, NEW quantity \in Int, NEW price, NEW aggressive
    PROVE  Adds(b, SendOrder(b, t, quantity, price, aggressive), t)
  <1>1. CASE quantity <= 0
    BY <1>1 DEF SendOrder, Adds
  <1>2. CASE quantity > 0
    <2>1. PICK n \in Nat : b \in Books(n)
      BY DEF WellFormed
    <2> DEFINE order == NewOrder(t, quantity, price, aggressive)
               c == Appended(b, n, order)
    <2>2. SendOrder(b, t, quantity, price, aggressive) = c
      BY <1>2, <2>1, SendOrderAppends
    <2>3. Orders(b) = 1..n
      BY <2>1, OrdersAreNumbered
    <2>4. order.tranche = t /\ order.cancel_requested = FALSE
      BY DEF NewOrder
    <2> HIDE DEF order
    <2>5. /\ Orders(c) = 1..(n + 1)
          /\ \A o \in 1..n : c.child[o] = b.child[o]
          /\ c.child[n + 1] = order
      BY <2>1 DEF Appended, Books, Orders
    <2> HIDE DEF c
    <2>6. Adds(b, c, t)
      BY <2>3, <2>4, <2>5 DEF Adds
    <2> QED
      BY <2>2, <2>6
  <1> QED
    BY <1>1, <1>2

LEMMA FillBucketAdds ==
    ASSUME NEW b, Sound(b), NEW t \in Tranches, NEW bid \in Int,
           NEW allocation \in Allocations, NEW k \in Levels
    PROVE  Adds(b, FillBucket(b, t, bid, allocation, k), t)
  <1> DEFINE quantity == Least(allocation[k] - Potential(b, AtBucket(b, t, bid, k)),
                               Available(b, t))
  <1>1. allocation[k] \in Nat
    BY DEF Allocations, Buckets, Levels
  <1>2. Available(b, t) \in Int
    BY AvailableIsLeft, VolumeAssumption
  <1>3. AtBucket(b, t, bid, k) \in SUBSET Orders(b)
    BY DEF AtBucket, Open, OrdersOf
  <1>4. Potential(b, AtBucket(b, t, bid, k)) \in Nat
    BY <1>3, PotentialIsNat DEF Sound
  <1>5. quantity \in Int
    BY <1>1, <1>2, <1>4 DEF Least
  <1> HIDE DEF quantity
  <1> QED
    BY <1>5, SendOrderAdds DEF FillBucket, quantity, Sound

LEMMA DeployAdds ==
    ASSUME NEW b, Sound(b), NEW t \in Tranches, NEW bid \in Int,
           NEW allocation \in Allocations
    PROVE  Adds(b, Deploy(b, t, bid, allocation), t)
  <1> DEFINE b0 == FillBucket(b,  t, bid, allocation, 0)
             b1 == FillBucket(b0, t, bid, allocation, 1)
             b2 == FillBucket(b1, t, bid, allocation, 2)
             b3 == FillBucket(b2, t, bid, allocation, 3)
             b4 == FillBucket(b3, t, bid, allocation, 4)
             b5 == FillBucket(b4, t, bid, allocation, 5)
  <1> HIDE DEF b0, b1, b2, b3, b4, b5
  <1>0. Sound(b0) /\ Adds(b, b0, t)
    BY FillBucketSound, FillBucketAdds DEF b0, Levels
  <1>1. Sound(b1) /\ Adds(b, b1, t)
    BY <1>0, FillBucketSound, FillBucketAdds, AddsIsTransitive DEF b1, Levels
  <1>2. Sound(b2) /\ Adds(b, b2, t)
    BY <1>1, FillBucketSound, FillBucketAdds, AddsIsTransitive DEF b2, Levels
  <1>3. Sound(b3) /\ Adds(b, b3, t)
    BY <1>2, FillBucketSound, FillBucketAdds, AddsIsTransitive DEF b3, Levels
  <1>4. Sound(b4) /\ Adds(b, b4, t)
    BY <1>3, FillBucketSound, FillBucketAdds, AddsIsTransitive DEF b4, Levels
  <1>5. Adds(b, b5, t)
    BY <1>4, FillBucketAdds, AddsIsTransitive DEF b5, Levels
  <1>6. Deploy(b, t, bid, allocation) = b5
    BY Zenon DEF Deploy, b0, b1, b2, b3, b4, b5
  <1> QED
    BY <1>5, <1>6

\* Asking for cancels answers none.
LEMMA CancelOrdersWaits ==
    ASSUME NEW b, WellFormed(b), NEW O, NEW d, Waits(CancelOrders(b, O), d)
    PROVE  Waits(b, d)
  <1> DEFINE c == CancelOrders(b, O)
  <1>1. Orders(c) = Orders(b)
    BY CancelOrdersSameLots DEF SameLots
  <1>2. ASSUME NEW t, CancelPending(b, t)
        PROVE  CancelPending(c, t)
    <2>1. PICK o \in Open(b, OrdersOf(b, t)) : b.child[o].cancel_requested
      BY <1>2 DEF CancelPending
    <2>2. o \in Orders(b) /\ b.child[o].tranche = t /\ Leaves(b.child[o]) > 0
      BY DEF Open, OrdersOf
    <2>3. b.child[o] \in ChildOrder
      BY <2>2, OrdersAreNumbered DEF WellFormed, Books
    <2>4. c.child[o] = IF o \in Open(b, O)
                       THEN [b.child[o] EXCEPT !.cancel_requested = TRUE] ELSE b.child[o]
      BY <2>2 DEF CancelOrders, WellFormed, Books
    <2> HIDE DEF c
    <2>5. c.child[o].cancel_requested /\ c.child[o].tranche = t
      BY <2>1, <2>2, <2>3, <2>4 DEF ChildOrder
    <2>6. Leaves(c.child[o]) = Leaves(b.child[o])
      BY <2>3, <2>4 DEF ChildOrder, Leaves
    <2>7. o \in Open(c, OrdersOf(c, t))
      BY <1>1, <2>2, <2>5, <2>6 DEF Open, OrdersOf
    <2> QED
      BY <2>5, <2>7 DEF CancelPending
  <1> HIDE DEF c
  <1>3. Waits(c, d)
    BY DEF c
  <1> QED
    BY <1>1, <1>2, <1>3 DEF Waits

LEMMA ReconciledWaits ==
    ASSUME NEW b, Sound(b), NEW t \in Tranches
    PROVE  Waits(b, Reconciled(b, t))
  <1> DEFINE allocation == b.target[t].allocation
             bid == b.target[t].bid
             O == Excess(b, t, bid, allocation)
             trimmed == CancelOrders(b, O)
  <1>1. CASE b.target[t] = NoTarget \/ b.parent.status # "RUNNING"
    BY <1>1 DEF Reconciled, Waits
  <1>2. CASE ~(b.target[t] = NoTarget \/ b.parent.status # "RUNNING")
    <2>1. b.target[t] \in Target
      BY <1>2 DEF Sound, WellFormed, Books
    <2>2. allocation \in Allocations /\ bid \in Int
      BY <2>1, MarketAssumption DEF Target
    <2> HIDE DEF allocation, bid, O
    <2>3. Sound(trimmed) /\ Orders(trimmed) = Orders(b)
      BY CancelOrdersSound
    <2>4. CASE CancelPending(trimmed, t)
      <3>1. Reconciled(b, t) = trimmed
        BY <1>2, <2>4, Zenon DEF Reconciled, allocation, bid, O
      <3> QED
        BY <2>3, <3>1 DEF Waits
    <2>5. CASE ~CancelPending(trimmed, t)
      <3> DEFINE deployed == Deploy(trimmed, t, bid, allocation)
      <3>1. Reconciled(b, t) = deployed
        BY <1>2, <2>5, Zenon DEF Reconciled, allocation, bid, O
      <3>2. Waits(trimmed, deployed)
        BY <2>2, <2>3, <2>5, DeployAdds, AddedOrdersWait
      <3> HIDE DEF deployed
      <3>3. Waits(b, deployed)
        BY <3>2, CancelOrdersWaits DEF Sound
      <3> QED
        BY <3>1, <3>3
    <2> QED
      BY <2>4, <2>5
  <1> QED
    BY <1>1, <1>2

LEMMA CloseFinishedWaits ==
    ASSUME NEW b, Sound(b), NEW t \in Tranches, NEW bid \in Bids
    PROVE  Waits(b, CloseFinished(b, t, bid))
  <1> DEFINE open == Open(b, OrdersOf(b, t))
             quantity == Least(Remaining(b, t), Available(b, t))
             done == [b EXCEPT !.tranche[t].status = "COMPLETED"]
             asked == CancelOrders(b, {o \in open : Bucket(b.child[o], bid) # 0})
             sent == SendOrder(b, t, quantity, bid, TRUE)
  <1>1. Waits(b, done)
    BY DEF Sound, WellFormed, Books, Waits, Orders
  <1>2. Waits(b, asked)
    BY CancelOrdersSound DEF Waits
  <1>3. open = {} => Waits(b, sent)
    <2>1. quantity \in Int
      BY RemainingIsNat, AvailableIsLeft, VolumeAssumption DEF Sound, Least
    <2> HIDE DEF quantity
    <2>2. Adds(b, sent, t)
      BY <2>1, SendOrderAdds DEF Sound
    <2> HIDE DEF sent
    <2>3. open = {} => ~CancelPending(b, t)
      BY DEF CancelPending
    <2> QED
      BY <2>2, <2>3, AddedOrdersWait
  <1>4. CloseFinished(b, t, bid) =
          IF Remaining(b, t) = 0 THEN done ELSE IF open # {} THEN asked ELSE sent
    BY Zenon DEF CloseFinished
  <1> HIDE DEF done, asked, sent, open
  <1> QED
    BY <1>1, <1>2, <1>3, <1>4

\* The book changes nothing of the child orders before its orders wait.
LEMMA SameChildWaits ==
    ASSUME NEW b, NEW c, NEW d, c.child = b.child, Waits(c, d)
    PROVE  Waits(b, d)
  BY DEF Waits, CancelPending, Open, OrdersOf, Orders

LEMMA IntentAppliedWaits ==
    ASSUME NEW b, Sound(b), NEW t \in Tranches, NEW intent \in Intents, NEW bid \in Bids
    PROVE  Waits(b, IntentApplied(b, t, intent, bid))
  <1> DEFINE target == [allocation |-> TargetQuantities(intent, Remaining(b, t)), bid |-> bid]
             c == [b EXCEPT !.target[t] = target]
  <1>1. target \in Target
    BY IntentAssumption, VolumeAssumption, RemainingIsNat, TargetQuantitiesDivide
       DEF Sound, Target
  <1> HIDE DEF target
  <1>2. WellFormed(c)
    BY <1>1 DEF Sound, WellFormed, Books
  <1>3. c.child = b.child /\ c.parent = b.parent /\ c.tranche = b.tranche
    BY DEF Sound, WellFormed, Books
  <1> HIDE DEF c
  <1>4. Waits(c, Reconciled(c, t))
    BY <1>2, <1>3, RelabelledSound, ReconciledWaits
  <1>5. IntentApplied(b, t, intent, bid) = Reconciled(c, t)
    BY DEF IntentApplied, c, target
  <1> QED
    BY <1>3, <1>4, <1>5, SameChildWaits

LEMMA PendingReconciledWaits ==
    ASSUME NEW b, Sound(b), NEW t \in Tranches, NEW bid \in Bids
    PROVE  Waits(b, PendingReconciled(b, t, bid))
  <1> DEFINE c == [b EXCEPT !.target[t] = [@ EXCEPT !.bid = bid]]
  <1>1. CASE b.target[t] = NoTarget \/ b.tranche[t].status # "ACTIVE"
    BY <1>1 DEF PendingReconciled, Waits
  <1>2. CASE ~(b.target[t] = NoTarget \/ b.tranche[t].status # "ACTIVE")
    <2>1. b.target[t] \in Target
      BY <1>2 DEF Sound, WellFormed, Books
    <2>2. [b.target[t] EXCEPT !.bid = bid] \in Target
      BY <2>1 DEF Target
    <2>3. WellFormed(c)
      BY <2>2 DEF Sound, WellFormed, Books
    <2>4. c.child = b.child /\ c.parent = b.parent /\ c.tranche = b.tranche
      BY DEF Sound, WellFormed, Books
    <2> HIDE DEF c
    <2>5. Waits(c, Reconciled(c, t))
      BY <2>3, <2>4, RelabelledSound, ReconciledWaits
    <2>6. Waits(b, Reconciled(c, t))
      BY <2>4, <2>5, SameChildWaits
    <2> QED
      BY <1>2, <2>6, Zenon DEF PendingReconciled, c
  <1> QED
    BY <1>1, <1>2

LEMMA CloseBegunWaits ==
    ASSUME NEW b, Sound(b), NEW t \in Tranches, NEW bid \in Bids
    PROVE  Waits(b, CloseBegun(b, t, bid))
  <1> DEFINE closing == [b EXCEPT !.tranche[t].status = "CLOSING", !.target[t] = NoTarget]
             O == OrdersOf(closing, t)
             asked == CancelOrders(closing, O)
             finished == CloseFinished(asked, t, bid)
  <1>1. b.tranche[t] \in [status : TrancheStatus, traded : 0..TrancheVolume]
    BY DEF Sound, WellFormed, Books
  <1>2. WellFormed(closing)
    BY <1>1 DEF Sound, WellFormed, Books, TrancheStatus
  <1>3. /\ closing.child = b.child /\ closing.parent = b.parent
        /\ \A s \in Tranches : closing.tranche[s].traded = b.tranche[s].traded
    BY <1>1 DEF Sound, WellFormed, Books
  <1> HIDE DEF closing, O
  <1>4. Sound(closing)
    BY <1>2, <1>3, RelabelledSound
  <1>5. Waits(asked, finished)
    BY <1>4, CancelOrdersSound, CloseFinishedWaits
  <1> HIDE DEF finished
  <1>6. Waits(closing, finished)
    BY <1>2, <1>5, CancelOrdersWaits
  <1>7. Waits(b, finished)
    BY <1>3, <1>6, SameChildWaits
  <1>8. Waits(b, b)
    BY DEF Waits
  <1> QED
    BY <1>7, <1>8, CloseFinishedWaits, Zenon DEF CloseBegun, closing, O, finished

-----------------------------------------------------------------------------
(***************************************************************************)
(* Deployed targets.                                                       *)
(***************************************************************************)

\* A report does not move an order.
LEMMA RecordedPlace ==
    ASSUME NEW b, WellFormed(b), NEW o \in Orders(b), NEW traded, NEW status
    PROVE  /\ Recorded(b, o, traded, status).child[o].price = b.child[o].price
           /\ Recorded(b, o, traded, status).child[o].aggressive = b.child[o].aggressive
  BY OrdersAreNumbered DEF Recorded, WellFormed, Books, ChildOrder, Orders

\* What an order loses by an execution that leaves it open, or fills it, is all it loses.
LEMMA ExecutionLeavesTheRest ==
    ASSUME NEW b, Sound(b), NEW o \in Orders(b), NEW traded \in 0..TrancheVolume,
           NEW status \in ActiveStatuses \cup {"ALLTRADED"},
           Reportable(b, o, traded, status), traded > b.child[o].traded,
           NEW O \in SUBSET Orders(b), o \in O
    PROVE  Potential(Recorded(b, o, traded, status), O)
             = Potential(b, O) - Delta(b, o, traded)
  <1> DEFINE c == Recorded(b, o, traded, status)
             d == Delta(b, o, traded)
  <1>0. status \in OrderStatus
    BY DEF OrderStatus, FinalStatuses
  <1>1. /\ WellFormed(c)
        /\ Orders(c) = Orders(b)
        /\ \A p \in Orders(b) \ {o} : c.child[p] = b.child[p]
        /\ c.child[o].volume = b.child[o].volume
        /\ c.child[o].traded = Greatest(traded, b.child[o].traded)
        /\ c.child[o].status = IF Accepts(b, o, status) THEN status ELSE b.child[o].status
    BY <1>0, RecordedChild DEF Sound
  <1>2. /\ b.child[o].traded \in Nat /\ b.child[o].volume \in Nat /\ traded \in Nat
        /\ b.child[o].status \notin FinalStatuses
        /\ status = "ALLTRADED" => traded = b.child[o].volume
    <2>1. b.child[o] \in ChildOrder
      BY OrdersAreNumbered DEF Sound, WellFormed, Books
    <2>2. b.child[o].traded \in Nat /\ b.child[o].volume \in Nat /\ traded \in Nat
      BY <2>1, VolumeAssumption DEF ChildOrder
    <2> QED
      BY <2>2 DEF Reportable
  <1>3. c.child[o].traded = traded /\ c.child[o].status = status
    BY <1>1, <1>2 DEF Accepts, Greatest
  <1>4. /\ IsFiniteSet(Filled(b, o, traded))
        /\ Cardinality(Filled(b, o, traded)) = d
        /\ d \in Nat
    BY FilledLotsAreDelta DEF Sound
  <1>5. d + Potential(c, O) <= Potential(b, O)
    BY <1>0, FillComesFromOpenLots
  <1> HIDE DEF c, d
  <1>6. OpenLots(b, O) \subseteq OpenLots(c, O) \cup Filled(b, o, traded)
    <2> SUFFICES ASSUME NEW lot \in OpenLots(b, O), lot \notin Filled(b, o, traded)
                 PROVE  lot \in OpenLots(c, O)
      OBVIOUS
    <2>1. /\ lot \in O \X (1..TrancheVolume)
          /\ b.child[lot[1]].status \in ActiveStatuses
          /\ lot[2] > b.child[lot[1]].traded
          /\ lot[2] <= b.child[lot[1]].volume
      BY DEF OpenLots
    <2>2. lot = <<lot[1], lot[2]>> /\ lot[2] \in Nat
      BY <2>1, VolumeAssumption
    <2>3. CASE lot[1] = o
      <3>1. lot[2] \notin (b.child[o].traded + 1)..traded
        BY <2>2, <2>3 DEF Filled
      <3>2. lot[2] > traded
        BY <1>2, <2>1, <2>2, <2>3, <3>1
      <3>3. status \in ActiveStatuses
        BY <1>2, <2>1, <2>2, <2>3, <3>2
      <3> QED
        BY <1>1, <1>3, <2>1, <2>3, <3>2, <3>3 DEF OpenLots
    <2>4. CASE lot[1] # o
      BY <1>1, <2>1, <2>4 DEF OpenLots
    <2> QED
      BY <2>3, <2>4
  <1>7. IsFiniteSet(OpenLots(c, O)) /\ Potential(c, O) \in Nat /\ Potential(b, O) \in Nat
    BY <1>1, PotentialIsNat DEF Sound
  <1>8. Potential(b, O) <= Potential(c, O) + d
    <2> DEFINE both == OpenLots(c, O) \cup Filled(b, o, traded)
               shared == OpenLots(c, O) \cap Filled(b, o, traded)
    <2>1. /\ IsFiniteSet(both)
          /\ Cardinality(both) = Potential(c, O) + d - Cardinality(shared)
      BY <1>4, <1>7, FS_Union DEF Potential
    <2>2. Cardinality(shared) \in Nat
      BY <1>7, FS_Intersection, FS_CardinalityType
    <2>3. Potential(b, O) <= Cardinality(both)
      BY <1>6, <2>1, FS_Subset DEF Potential
    <2> HIDE DEF both, shared
    <2> QED
      BY <1>4, <1>7, <2>1, <2>2, <2>3
  <1> QED
    BY <1>4, <1>5, <1>7, <1>8 DEF c, d

\* Orders that stand in a bucket after a report stood there before it, and
\* the others of before have nothing open any more.
LEMMA RecordedBuckets ==
    ASSUME NEW b, Sound(b), NEW o \in Orders(b), NEW traded \in 0..TrancheVolume,
           NEW status \in OrderStatus, Reportable(b, o, traded, status),
           NEW t \in Tranches, NEW bid, NEW k
    PROVE  LET c == Recorded(b, o, traded, status)
           IN  /\ AtBucket(c, t, bid, k) \subseteq AtBucket(b, t, bid, k)
               /\ Potential(c, AtBucket(c, t, bid, k)) = Potential(c, AtBucket(b, t, bid, k))
               /\ o \notin AtBucket(b, t, bid, k) =>
                     Potential(c, AtBucket(b, t, bid, k)) = Potential(b, AtBucket(b, t, bid, k))
  <1> DEFINE c == Recorded(b, o, traded, status)
             before == AtBucket(b, t, bid, k)
             after == AtBucket(c, t, bid, k)
  <1>1. /\ WellFormed(c)
        /\ Orders(c) = Orders(b)
        /\ \A p \in Orders(b) \ {o} : c.child[p] = b.child[p]
        /\ c.child[o] \in ChildOrder
        /\ c.child[o].tranche = b.child[o].tranche
        /\ c.child[o].volume = b.child[o].volume
        /\ c.child[o].traded = Greatest(traded, b.child[o].traded)
        /\ c.child[o].status = IF Accepts(b, o, status) THEN status ELSE b.child[o].status
    BY RecordedChild DEF Sound
  <1>2. c.child[o].price = b.child[o].price /\ c.child[o].aggressive = b.child[o].aggressive
    BY RecordedPlace DEF Sound
  <1>3. /\ b.child[o].traded \in Nat /\ b.child[o].volume \in Nat /\ traded \in Nat
        /\ b.child[o].status \in OrderStatus
        /\ b.child[o].status \in FinalStatuses => traded <= b.child[o].traded
    <2>1. b.child[o] \in ChildOrder
      BY OrdersAreNumbered DEF Sound, WellFormed, Books
    <2> QED
      BY <2>1, VolumeAssumption DEF ChildOrder, Reportable
  <1> HIDE DEF c
  <1>4. Leaves(c.child[o]) > 0 => Leaves(b.child[o]) > 0
    BY <1>1, <1>3 DEF Leaves, Greatest, Accepts, OrderStatus, ActiveStatuses, FinalStatuses
  <1>5. Bucket(c.child[o], bid) = Bucket(b.child[o], bid)
    BY <1>2, Zenon DEF Bucket
  <1>6. after \subseteq before
    BY <1>1, <1>4, <1>5 DEF AtBucket, Open, OrdersOf
  <1>7. OpenLots(c, after) = OpenLots(c, before)
    <2> SUFFICES ASSUME NEW lot \in OpenLots(c, before)
                 PROVE  lot[1] \in after
      BY <1>6 DEF OpenLots
    <2> DEFINE p == lot[1]
    <2>1. /\ p \in before /\ lot[2] \in 1..TrancheVolume
          /\ c.child[p].status \in ActiveStatuses
          /\ lot[2] > c.child[p].traded /\ lot[2] <= c.child[p].volume
      BY DEF OpenLots
    <2>2. p \in Orders(b) /\ p \in OrdersOf(b, t) /\ Bucket(b.child[p], bid) = k
      BY <2>1 DEF AtBucket, Open, OrdersOf
    <2>3. c.child[p] \in ChildOrder
      BY <1>1, <2>2, OrdersAreNumbered DEF WellFormed, Books
    <2>4. Leaves(c.child[p]) > 0
      BY <2>1, <2>3, VolumeAssumption DEF ChildOrder, Leaves, Greatest
    <2>5. p \in OrdersOf(c, t) /\ Bucket(c.child[p], bid) = k
      BY <1>1, <1>5, <2>2 DEF OrdersOf
    <2> QED
      BY <2>4, <2>5 DEF AtBucket, Open
  <1>8. ASSUME o \notin before
        PROVE  OpenLots(c, before) = OpenLots(b, before)
    <2>1. \A p \in before : p \in Orders(b) /\ c.child[p] = b.child[p]
      BY <1>1, <1>8 DEF AtBucket, Open, OrdersOf
    <2> HIDE DEF before
    <2> QED
      BY <2>1 DEF OpenLots
  <1> QED
    BY <1>6, <1>7, <1>8, Zenon DEF Potential, c

(***************************************************************************)
(* An execution takes from its bucket of the target what its order loses.  *)
(***************************************************************************)
LEMMA ExecutionKeepsDeployed ==
    ASSUME NEW b, Sound(b), Divides(b), NEW o \in Orders(b), NEW traded \in 0..TrancheVolume,
           NEW status \in ActiveStatuses \cup {"ALLTRADED"},
           Reportable(b, o, traded, status), traded > b.child[o].traded,
           Deployed(b, b.child[o].tranche)
    PROVE  Deployed(Recorded(b, o, traded, status), b.child[o].tranche)
  <1> DEFINE c == Recorded(b, o, traded, status)
             t == b.child[o].tranche
             d == Delta(b, o, traded)
             old == b.target[t]
             bid == old.bid
             own == Bucket(b.child[o], bid)
  <1>0. status \in OrderStatus
    BY DEF OrderStatus, FinalStatuses
  <1>1. /\ WellFormed(c)
        /\ Orders(c) = Orders(b)
        /\ \A p \in Orders(b) \ {o} : c.child[p] = b.child[p]
        /\ c.child[o].cancel_requested = b.child[o].cancel_requested
        /\ c.parent.status = b.parent.status
        /\ \A s \in Tranches : c.target[s] = IF s = t THEN TargetAfterFill(b, o, traded)
                                             ELSE b.target[s]
    BY <1>0, RecordedChild DEF Sound
  <1>2. /\ ~FillExceedsTarget(b, o, traded)
        /\ d \in Nat
        /\ t \in Tranches
    BY <1>0, FillFitsTarget
  <1>3. o \in Open(b, OrdersOf(b, t))
    <2>1. b.child[o] \in ChildOrder
      BY OrdersAreNumbered DEF Sound, WellFormed, Books
    <2>2. b.child[o].status \in ActiveStatuses
      BY <2>1 DEF Reportable, ChildOrder, OrderStatus
    <2>3. Leaves(b.child[o]) > 0
      BY <2>1, <2>2, VolumeAssumption DEF Reportable, ChildOrder, Leaves, Greatest
    <2> QED
      BY <2>3 DEF Open, OrdersOf
  <1>4. /\ b.parent.status = "RUNNING" /\ old # NoTarget /\ ~CancelPending(b, t)
        /\ AtBucket(b, t, bid, OffGrid) = {}
        /\ \A k \in Levels : Potential(b, AtBucket(b, t, bid, k)) = old.allocation[k]
    BY Zenon DEF Deployed
  <1>5. old \in Target /\ old.allocation \in Allocations
    BY <1>2, <1>4 DEF Sound, WellFormed, Books, Target
  <1> HIDE DEF c, d, t
  <1>6. own \in Levels /\ o \in AtBucket(b, t, bid, own)
    <2>1. own # OffGrid
      BY <1>3, <1>4 DEF AtBucket
    <2> QED
      BY <1>3, <2>1 DEF AtBucket, Bucket, Levels
  <1>7. PreferredBucket(b.child[o], bid) = own
    BY <1>6 DEF PreferredBucket, Bucket, Levels, OffGrid
  <1> HIDE DEF old, own
  <1>8. \A k \in Levels : AtBucket(b, t, bid, k) \in SUBSET Orders(b)
    BY DEF AtBucket, Open, OrdersOf
  <1>9. Potential(c, AtBucket(b, t, bid, own)) = old.allocation[own] - d
    BY <1>4, <1>6, <1>8, ExecutionLeavesTheRest DEF c, d
  <1>10. d <= old.allocation[own]
    <2>1. Potential(c, AtBucket(b, t, bid, own)) \in Nat
      BY <1>1, <1>6, <1>8, PotentialIsNat
    <2>2. old.allocation[own] \in Nat
      BY <1>5, <1>6 DEF Allocations, Levels, Buckets
    <2> QED
      BY <1>2, <1>9, <2>1, <2>2
  <1> DEFINE new == [old.allocation EXCEPT ![own] = @ - d]
  <1>11. TargetAfterFill(b, o, traded) = [old EXCEPT !.allocation = new]
    <2>1. Consumed(old.allocation, own, d) = new
      BY <1>2, <1>5, <1>6, <1>10, ConsumedFromPreferred DEF Levels, Buckets
    <2>2. TargetAfterFill(b, o, traded)
            = [old EXCEPT !.allocation = Consumed(@, PreferredBucket(b.child[o], bid), d)]
      BY <1>2, <1>4, Zenon DEF TargetAfterFill, old, t, d
    <2> QED
      BY <1>7, <2>1, <2>2
  <1>12. /\ c.target[t] # NoTarget
         /\ c.target[t].bid = bid
         /\ c.target[t].allocation = new
    <2>1. new \in Allocations
      BY <1>2, <1>5, <1>6, <1>10 DEF Allocations, Levels, Buckets
    <2> HIDE DEF new
    <2>2. /\ [old EXCEPT !.allocation = new] \in Target
          /\ [old EXCEPT !.allocation = new].bid = bid
          /\ [old EXCEPT !.allocation = new].allocation = new
      BY <1>5, <2>1 DEF Target
    <2> QED
      BY <1>1, <1>2, <1>11, <2>2, NoTargetAssumption
  <1>13. ASSUME NEW k
         PROVE  /\ AtBucket(c, t, bid, k) \subseteq AtBucket(b, t, bid, k)
                /\ Potential(c, AtBucket(c, t, bid, k)) = Potential(c, AtBucket(b, t, bid, k))
                /\ o \notin AtBucket(b, t, bid, k) =>
                      Potential(c, AtBucket(b, t, bid, k)) = Potential(b, AtBucket(b, t, bid, k))
    BY <1>0, <1>2, RecordedBuckets DEF c
  <1>14. ASSUME NEW k \in Levels
         PROVE  Potential(c, AtBucket(c, t, bid, k)) = new[k]
    <2>1. CASE k = own
      BY <1>5, <1>6, <1>9, <1>13, <2>1 DEF Allocations, Levels, Buckets
    <2>2. CASE k # own
      <3>1. o \notin AtBucket(b, t, bid, k)
        BY <1>6, <2>2 DEF AtBucket
      <3>2. new[k] = old.allocation[k]
        BY <1>5, <2>2 DEF Allocations, Levels, Buckets
      <3> QED
        BY <1>4, <1>13, <3>1, <3>2
    <2> QED
      BY <2>1, <2>2
  <1>15. ~CancelPending(c, t)
    <2>1. ASSUME NEW p \in Open(c, OrdersOf(c, t)), c.child[p].cancel_requested
          PROVE  FALSE
      <3>1. p \in AtBucket(b, t, bid, Bucket(c.child[p], bid))
        BY <1>13 DEF AtBucket
      <3>2. p \in Open(b, OrdersOf(b, t)) /\ p \in Orders(b)
        BY <3>1 DEF AtBucket, Open, OrdersOf
      <3>3. c.child[p].cancel_requested = b.child[p].cancel_requested
        BY <1>1, <3>2
      <3> QED
        BY <1>4, <2>1, <3>2, <3>3 DEF CancelPending
    <2> QED
      BY <2>1 DEF CancelPending
  <1>16. AtBucket(c, t, bid, OffGrid) = {}
    BY <1>4, <1>13
  <1> HIDE DEF new, bid
  <1>17. Deployed(c, t)
    BY <1>1, <1>4, <1>12, <1>14, <1>15, <1>16 DEF Deployed
  <1> QED
    BY <1>17 DEF c, t

\* While a tranche has lots left the parent has.
LEMMA ParentHasWhatTranchesHave ==
    ASSUME NEW b, WellFormed(b), Fills(b), NEW t \in Tranches, Remaining(b, t) # 0
    PROVE  ParentRemaining(b) # 0
  <1> DEFINE lots == Tranches \X (1..TrancheVolume)
             last == <<t, TrancheVolume>>
  <1>1. IsFiniteSet(1..TrancheVolume) /\ Cardinality(1..TrancheVolume) = TrancheVolume
    BY FS_Interval, VolumeAssumption
  <1>2. IsFiniteSet(lots) /\ Cardinality(lots) = TotalVolume
    <2>1. /\ IsFiniteSet(lots)
          /\ Cardinality(lots) = Cardinality(Tranches) * Cardinality(1..TrancheVolume)
      BY <1>1, TranchesAssumption, FS_Product
    <2> QED
      BY <1>1, <2>1, TranchesAssumption
  <1>3. b.tranche[t].traded \in Nat /\ b.tranche[t].traded < TrancheVolume
    BY RemainingIsNat, VolumeAssumption
  <1>4. last \in lots /\ last \notin TrancheLots(b)
    BY <1>3, VolumeAssumption DEF TrancheLots
  <1>5. TrancheLots(b) \subseteq lots \ {last}
    BY <1>4 DEF TrancheLots
  <1> HIDE DEF lots, last
  <1>6. IsFiniteSet(lots \ {last}) /\ Cardinality(lots \ {last}) = TotalVolume - 1
    BY <1>2, <1>4, FS_RemoveElement
  <1>7. Cardinality(TrancheLots(b)) <= TotalVolume - 1
    BY <1>5, <1>6, FS_Subset
  <1>8. b.parent.traded <= TotalVolume - 1 /\ b.parent.traded \in Nat
    <2>1. b.parent.traded = Cardinality(TrancheLots(b)) /\ IsFiniteSet(TrancheLots(b))
      BY DEF Fills
    <2> QED
      BY <1>7, <2>1, FS_CardinalityType
  <1> QED
    BY <1>8, VolumeAssumption DEF ParentRemaining, Greatest

\* What an execution leaves of a deployed target is deployed.
LEMMA OrderProcessedKeepsDeployed ==
    ASSUME NEW b, Sound(b), Divides(b), Fills(b), NEW o \in Orders(b),
           NEW traded \in 0..TrancheVolume, NEW status \in OrderStatus,
           Reportable(b, o, traded, status),
           NEW t \in Tranches, Deployed(b, t),
           OrderProcessed(b, o, traded, status).tranche[t].traded > b.tranche[t].traded,
           OrderProcessed(b, o, traded, status).target[t] # NoTarget
    PROVE  Deployed(OrderProcessed(b, o, traded, status), t)
  <1> DEFINE recorded == Recorded(b, o, traded, status)
             owner == b.child[o].tranche
             c == OrderProcessed(b, o, traded, status)
             paused == Paused(recorded)
             settled == Settled(recorded, owner)
             unexpected == \/ status = "CANCELLED" /\ ~b.child[o].cancel_requested
                           \/ status = "REJECTED"
  <1>1. c = IF FillExceedsTarget(b, o, traded) \/ (Accepts(b, o, status) /\ unexpected)
            THEN paused ELSE settled
    BY Zenon DEF OrderProcessed
  <1>2. /\ Sound(recorded)
        /\ \A s \in Tranches :
              recorded.tranche[s].traded =
                 IF s = owner THEN Least(b.tranche[s].traded + Delta(b, o, traded), TrancheVolume)
                 ELSE b.tranche[s].traded
        /\ recorded.parent.status = b.parent.status
    BY RecordedSound, RecordedChild DEF Sound
  <1>3. /\ ~FillExceedsTarget(b, o, traded)
        /\ Delta(b, o, traded) \in Nat
        /\ owner \in Tranches
    BY FillFitsTarget
  <1>4. Fills(recorded)
    BY RecordedAddsUp
  <1> HIDE DEF recorded
  <1>5. c.tranche[t].traded = recorded.tranche[t].traded
    BY <1>1, <1>2, <1>3, PausedKeeps, SettledKeeps DEF Keeps, KeepsFills
  <1>6. b.child[o] \in ChildOrder /\ b.tranche[t].traded \in Nat
    BY OrdersAreNumbered, VolumeAssumption DEF Sound, WellFormed, Books
  <1> HIDE DEF c, settled, paused, owner
  <1>7. t = owner /\ Delta(b, o, traded) > 0
    BY <1>2, <1>3, <1>5, <1>6, VolumeAssumption DEF Least, c
  <1>8. traded > b.child[o].traded
    BY <1>6, <1>7, VolumeAssumption DEF ChildOrder, Delta, Greatest
  <1>9. b.child[o].status \notin FinalStatuses /\ ~b.child[o].cancel_requested
    <2>1. b.child[o].status \notin FinalStatuses
      BY <1>6, <1>8, VolumeAssumption DEF Reportable, ChildOrder
    <2>2. Leaves(b.child[o]) > 0
      BY <1>6, <1>8, <2>1, VolumeAssumption
         DEF Reportable, ChildOrder, OrderStatus, Leaves, Greatest
    <2>3. o \in Open(b, OrdersOf(b, t))
      BY <1>7, <2>2 DEF Open, OrdersOf, owner
    <2> QED
      BY <2>1, <2>3 DEF Deployed, CancelPending
  <1>10. c = settled /\ ~unexpected
    <2>1. paused.target[t] = NoTarget
      <3>1. recorded.parent.status = "RUNNING"
        BY <1>2 DEF Deployed
      <3> QED
        BY <3>1 DEF paused, Paused, CancelOrders, Untargeted
    <2>2. Accepts(b, o, status)
      BY <1>9 DEF Accepts
    <2> QED
      BY <1>1, <1>3, <2>1, <2>2 DEF c
  <1>11. status \in ActiveStatuses \cup {"ALLTRADED"}
    BY <1>9, <1>10 DEF OrderStatus, FinalStatuses
  <1>12. Deployed(recorded, t)
    BY <1>7, <1>8, <1>11, ExecutionKeepsDeployed DEF recorded, owner
  <1>13. Remaining(recorded, t) # 0
    <2>1. SUFFICES ASSUME Remaining(recorded, t) = 0
                   PROVE  settled.target[t] = NoTarget
      BY <1>10 DEF c
    <2> DEFINE done == [recorded EXCEPT !.tranche[t].status = "COMPLETED", !.target[t] = NoTarget]
               asked == CancelOrders(done, OrdersOf(recorded, t))
               filled == IF Remaining(recorded, t) # 0 THEN recorded ELSE asked
    <2>2. done.target[t] = NoTarget
      BY <1>2 DEF Sound, WellFormed, Books
    <2>3. done \in [parent : {done.parent}, tranche : {done.tranche}, child : {done.child},
                    target : {done.target}]
      BY <1>2 DEF Sound, WellFormed, Books
    <2> HIDE DEF done
    <2>4. asked.target = done.target
      BY <2>3 DEF CancelOrders
    <2>5. asked \in [parent : {asked.parent}, tranche : {asked.tranche},
                     child : {asked.child}, target : {asked.target}]
      BY <2>3 DEF CancelOrders
    <2>6. settled = IF ParentRemaining(recorded) # 0 THEN filled
                    ELSE [filled EXCEPT !.parent.status = "COMPLETED"]
      <3>1. settled = Settled(recorded, t)
        BY <1>7 DEF settled
      <3> QED
        BY <3>1, Zenon DEF Settled, done
    <2> HIDE DEF asked
    <2> QED
      BY <2>1, <2>2, <2>4, <2>5, <2>6
  <1>14. ParentRemaining(recorded) # 0
    BY <1>2, <1>4, <1>13, ParentHasWhatTranchesHave DEF Sound
  <1>15. settled = recorded
    BY <1>7, <1>13, <1>14, Zenon DEF settled, Settled
  <1> QED
    BY <1>10, <1>12, <1>15 DEF c

-----------------------------------------------------------------------------
(***************************************************************************)
(* The state machine.                                                      *)
(***************************************************************************)

(***************************************************************************)
(* That targets divide what is left is inductive together with the hard    *)
(* limits: these make a fill fit its target.                               *)
(***************************************************************************)
TargetInv == IInv /\ Divides(book)

\* Every method the handlers and the user call keeps fills.
LEMMA MethodsKeepFills ==
    ASSUME Sound(book)
    PROVE  /\ Sound(Paused(book)) /\ KeepsFills(book, Paused(book))
           /\ Sound(Resumed(book)) /\ KeepsFills(book, Resumed(book))
           /\ Sound(Cancelled(book)) /\ KeepsFills(book, Cancelled(book))
           /\ \A t \in Tranches, bid \in Bids :
                 /\ Sound(PendingReconciled(book, t, bid))
                 /\ KeepsFills(book, PendingReconciled(book, t, bid))
                 /\ Sound(CloseContinued(book, t, bid))
                 /\ KeepsFills(book, CloseContinued(book, t, bid))
                 /\ Sound(CloseBegun(book, t, bid))
                 /\ KeepsFills(book, CloseBegun(book, t, bid))
                 /\ \A intent \in Intents :
                       /\ Sound(IntentApplied(book, t, intent, bid))
                       /\ KeepsFills(book, IntentApplied(book, t, intent, bid))
  <1>1. /\ Sound(Paused(book)) /\ KeepsFills(book, Paused(book))
        /\ Sound(Resumed(book)) /\ KeepsFills(book, Resumed(book))
        /\ Sound(Cancelled(book)) /\ KeepsFills(book, Cancelled(book))
    BY PausedSound, PausedKeeps, ResumedSound, ResumedKeeps, CancelledSound, CancelledKeeps
       DEF Keeps
  <1>2. ASSUME NEW t \in Tranches, NEW bid \in Bids
        PROVE  /\ Sound(PendingReconciled(book, t, bid))
               /\ KeepsFills(book, PendingReconciled(book, t, bid))
               /\ Sound(CloseContinued(book, t, bid))
               /\ KeepsFills(book, CloseContinued(book, t, bid))
               /\ Sound(CloseBegun(book, t, bid))
               /\ KeepsFills(book, CloseBegun(book, t, bid))
    <2>1. /\ Sound(PendingReconciled(book, t, bid))
          /\ KeepsFills(book, PendingReconciled(book, t, bid))
      BY PendingReconciledSound, PendingReconciledKeeps DEF Keeps
    <2>2. Sound(CloseBegun(book, t, bid)) /\ KeepsFills(book, CloseBegun(book, t, bid))
      BY CloseBegunSound, CloseBegunKeeps DEF Keeps
    <2>3. \/ CloseContinued(book, t, bid) = CloseFinished(book, t, bid)
          \/ CloseContinued(book, t, bid) = book
      BY Zenon DEF CloseContinued
    <2>4. Sound(CloseContinued(book, t, bid)) /\ KeepsFills(book, CloseContinued(book, t, bid))
      BY <2>3, CloseFinishedSound, CloseFinishedKeeps, KeepsIsReflexive DEF Keeps
    <2> QED
      BY <2>1, <2>2, <2>4
  <1>3. ASSUME NEW t \in Tranches, NEW bid \in Bids, NEW intent \in Intents
        PROVE  /\ Sound(IntentApplied(book, t, intent, bid))
               /\ KeepsFills(book, IntentApplied(book, t, intent, bid))
    BY IntentAppliedSound, IntentAppliedDivides
  <1> QED
    BY <1>1, <1>2, <1>3

\* What a step does to targets, fills and final orders.
LEMMA StepKeeps ==
    ASSUME IInv, Next
    PROVE  /\ Divides(book) => Divides(book')
           /\ Fills(book) => Fills(book')
           /\ FinalKept(book, book')
  <1>0. Sound(book)
    BY DEF IInv
  <1>1. ASSUME NEW c, Keeps(book, c), book' = c
        PROVE  /\ Divides(book) => Divides(book')
               /\ Fills(book) => Fills(book')
               /\ FinalKept(book, book')
    BY <1>0, <1>1, KeptTargetsDivide, KeptFillsAddUp DEF FinalKept, Keeps, KeepsFills, Sound
  <1>2. ASSUME NEW t \in Tranches, Activate(t)
        PROVE  Keeps(book, book')
    <2>1. /\ book'.child = book.child /\ book'.parent = book.parent
          /\ book'.target = book.target
          /\ \A s \in Tranches : book'.tranche[s].traded = book.tranche[s].traded
      <3>1. \A s \in Tranches :
              book.tranche[s] \in [status : TrancheStatus, traded : 0..TrancheVolume]
        BY <1>0 DEF Sound, WellFormed, Books
      <3>2. book' = [book EXCEPT !.tranche[t].status = "ACTIVE"]
        BY <1>2 DEF Activate
      <3> QED
        BY <1>0, <3>1, <3>2 DEF Sound, WellFormed, Books
    <2> QED
      BY <2>1 DEF Keeps, KeepsFills, KeepsTargets, Orders
  <1>3. ASSUME NEW t \in Tranches, NEW intent \in Intents, NEW bid \in Bids,
               ApplyIntent(t, intent, bid)
        PROVE  /\ Divides(book) => Divides(book')
               /\ Fills(book) => Fills(book')
               /\ FinalKept(book, book')
    <2>1. book' = IntentApplied(book, t, intent, bid)
      BY <1>3 DEF ApplyIntent, Becomes
    <2>2. KeepsFills(book, book')
      BY <1>0, <2>1, IntentAppliedDivides
    <2> QED
      BY <1>0, <2>1, <2>2, IntentAppliedDivides, KeptFillsAddUp DEF FinalKept, KeepsFills, Sound
  <1>4. ASSUME NEW t \in Tranches, NEW bid \in Bids, ReconcilePending(t, bid)
        PROVE  Keeps(book, book')
    BY <1>0, <1>4, PendingReconciledKeeps DEF ReconcilePending, Becomes
  <1>5. ASSUME NEW t \in Tranches, NEW bid \in Bids, BeginTrancheClose(t, bid)
        PROVE  Keeps(book, book')
    BY <1>0, <1>5, CloseBegunKeeps DEF BeginTrancheClose, Becomes
  <1>6. ASSUME NEW t \in Tranches, NEW bid \in Bids, ContinueTrancheClose(t, bid)
        PROVE  Keeps(book, book')
    BY <1>0, <1>6, CloseFinishedKeeps, KeepsIsReflexive
       DEF ContinueTrancheClose, CloseContinued, Becomes
  <1>7. PauseParent => Keeps(book, book')
    BY <1>0, PausedKeeps DEF PauseParent
  <1>8. ResumeParent => Keeps(book, book')
    BY <1>0, ResumedKeeps DEF ResumeParent
  <1>9. CancelParent => Keeps(book, book')
    BY <1>0, CancelledKeeps DEF CancelParent
  <1>10. ASSUME NEW o \in Orders(book), NEW traded \in 0..TrancheVolume,
                NEW status \in Reports, ProcessOrder(o, traded, status)
         PROVE  /\ Divides(book) => Divides(book')
                /\ Fills(book) => Fills(book')
                /\ FinalKept(book, book')
    BY <1>0, <1>10, OrderProcessedDivides, OrderProcessedAddsUp, OrderProcessedKeepsFinal, ReportAssumption
       DEF ProcessOrder
  <1> QED
    BY <1>1, <1>2, <1>3, <1>4, <1>5, <1>6, <1>7, <1>8, <1>9, <1>10 DEF Next

LEMMA TargetInvariant == Spec => []TargetInv
  <1>1. Init => Divides(book)
    BY DEF Init, Divides, Untargeted
  <1>2. IInv /\ Divides(book) /\ [Next]_book => Divides(book)'
    <2> SUFFICES ASSUME IInv, Divides(book), [Next]_book
                 PROVE  Divides(book')
      BY DEF Divides, Remaining
    <2>1. CASE Next
      BY <2>1, StepKeeps
    <2>2. CASE UNCHANGED book
      BY <2>2
    <2> QED
      BY <2>1, <2>2
  <1> QED
    BY <1>1, <1>2, InitSound, NextSound, PTL DEF Spec, TargetInv

\* The sums need the hard limits: no fill is lost at the volume of a tranche.
LEMMA FillsInvariant == Spec => [](IInv /\ Fills(book))
  <1>1. Init => Fills(book)
    <2> SUFFICES ASSUME Init
                 PROVE  Fills(book)
      OBVIOUS
    <2>1. /\ Orders(book) = {}
          /\ book.parent.traded = 0
          /\ \A t \in Tranches : book.tranche[t].traded = 0
      BY DEF Init, Orders
    <2>2. \A l \in 1..TrancheVolume : ~(l <= 0)
      BY VolumeAssumption
    <2>3. /\ SoldLots(book) = {}
          /\ TrancheLots(book) = {}
          /\ \A t \in Tranches : FilledLots(book, t) = {}
      BY <2>1, <2>2 DEF SoldLots, TrancheLots, FilledLots, OrdersOf
    <2> QED
      BY <2>1, <2>3, FS_EmptySet DEF Fills
  <1>2. IInv /\ Fills(book) /\ [Next]_book => Fills(book)'
    <2> SUFFICES ASSUME IInv, Fills(book), [Next]_book
                 PROVE  Fills(book')
      BY DEF Fills, SoldLots, TrancheLots, FilledLots, OrdersOf, Orders
    <2>1. CASE Next
      BY <2>1, StepKeeps
    <2>2. CASE UNCHANGED book
      BY <2>2
    <2> QED
      BY <2>1, <2>2
  <1> QED
    BY <1>1, <1>2, InitSound, NextSound, PTL DEF Spec

(***************************************************************************)
(* A target of the coordinator always divides exactly what its tranche has *)
(* left to sell, whatever fills race with cancels and new intents.         *)
(***************************************************************************)
THEOREM TargetsDivideRemainingHolds == Spec => []TargetsDivideRemaining
  <1>1. TargetInv => TargetsDivideRemaining
    BY DEF TargetInv, Divides, TargetsDivideRemaining
  <1> QED
    BY <1>1, TargetInvariant, PTL

(***************************************************************************)
(* The RuntimeError of _consume_target_fill ("fill exceeds target") is     *)
(* never raised: no report that the outside may send fills more than the   *)
(* target of the tranche holds.                                            *)
(***************************************************************************)
THEOREM NoFillExceedsTarget ==
    Spec => [](\A o \in Orders(book), traded \in 0..TrancheVolume, status \in Reports :
                  Reportable(book, o, traded, status) => ~FillExceedsTarget(book, o, traded))
  <1> DEFINE Fits ==
        \A o \in Orders(book), traded \in 0..TrancheVolume, status \in Reports :
            Reportable(book, o, traded, status) => ~FillExceedsTarget(book, o, traded)
  <1>1. TargetInv => Fits
    BY FillFitsTarget, ReportAssumption DEF TargetInv, IInv
  <1> HIDE DEF Fits
  <1>2. Spec => []Fits
    BY <1>1, TargetInvariant, PTL
  <1> QED
    BY <1>2 DEF Fits

(***************************************************************************)
(* A child order reported final stays as it is: process_order accepts no   *)
(* other status for it, and no other method touches its status or fill.    *)
(***************************************************************************)
THEOREM FinalOrdersStayFinalHolds == Spec => FinalOrdersStayFinal
  <1> DEFINE Stay ==
        \A o \in Orders(book) :
            book.child[o].status \in FinalStatuses =>
                /\ book'.child[o].status = book.child[o].status
                /\ book'.child[o].traded = book.child[o].traded
  <1>1. IInv /\ [Next]_book => [Stay]_book
    <2> SUFFICES ASSUME IInv, Next
                 PROVE  Stay
      OBVIOUS
    <2> QED
      BY StepKeeps DEF FinalKept
  <1> HIDE DEF Stay
  <1>2. Spec => [][Stay]_book
    BY <1>1, Invariant, PTL DEF Spec
  <1> QED
    BY <1>2 DEF FinalOrdersStayFinal, Stay

(***************************************************************************)
(* The cumulative fills of child orders, tranches and parent agree,        *)
(* whatever reports are late, repeated or out of order: each fill is       *)
(* counted once at each of the three levels.                               *)
(***************************************************************************)
THEOREM FillsAddUpHolds == Spec => []FillsAddUp
  <1>1. IInv /\ Fills(book) => FillsAddUp
    BY DEF Fills, FillsAddUp, TrancheLots
  <1> QED
    BY <1>1, FillsInvariant, PTL

\* Only the methods that reconcile or close send anything.
LEMMA StepWaits ==
    ASSUME IInv, Next
    PROVE  Waits(book, book')
  <1>0. Sound(book)
    BY DEF IInv
  <1>1. ASSUME Orders(book') = Orders(book)
        PROVE  Waits(book, book')
    BY <1>1 DEF Waits
  <1>2. ASSUME NEW t \in Tranches, Activate(t)
        PROVE  Orders(book') = Orders(book)
    BY <1>0, <1>2 DEF Activate, Orders, Sound, WellFormed, Books
  <1>3. ASSUME NEW t \in Tranches, NEW intent \in Intents, NEW bid \in Bids,
               ApplyIntent(t, intent, bid)
        PROVE  Waits(book, book')
    BY <1>0, <1>3, IntentAppliedWaits DEF ApplyIntent, Becomes
  <1>4. ASSUME NEW t \in Tranches, NEW bid \in Bids, ReconcilePending(t, bid)
        PROVE  Waits(book, book')
    BY <1>0, <1>4, PendingReconciledWaits DEF ReconcilePending, Becomes
  <1>5. ASSUME NEW t \in Tranches, NEW bid \in Bids, BeginTrancheClose(t, bid)
        PROVE  Waits(book, book')
    BY <1>0, <1>5, CloseBegunWaits DEF BeginTrancheClose, Becomes
  <1>6. ASSUME NEW t \in Tranches, NEW bid \in Bids, ContinueTrancheClose(t, bid)
        PROVE  Waits(book, book')
    <2>1. book' = CloseFinished(book, t, bid) \/ book' = book
      BY <1>6 DEF ContinueTrancheClose, CloseContinued, Becomes
    <2> QED
      BY <1>0, <1>1, <2>1, CloseFinishedWaits
  <1>7. PauseParent \/ ResumeParent \/ CancelParent => Orders(book') = Orders(book)
    BY <1>0, PausedSound, ResumedSound, CancelledSound
       DEF PauseParent, ResumeParent, CancelParent
  <1>8. ASSUME NEW o \in Orders(book), NEW traded \in 0..TrancheVolume,
               NEW status \in Reports, ProcessOrder(o, traded, status)
        PROVE  Orders(book') = Orders(book)
    BY <1>0, <1>8, OrderProcessedSound, ReportAssumption DEF ProcessOrder
  <1> QED
    BY <1>1, <1>2, <1>3, <1>4, <1>5, <1>6, <1>7, <1>8 DEF Next

(***************************************************************************)
(* README.md 93: inventory under cancel is not released before the cancel  *)
(* is confirmed.  An order is sent only in a tranche without an unanswered *)
(* cancel, whatever intents, closes and moves of the bid ask for.          *)
(***************************************************************************)
THEOREM NoOrderWhileCancelPendingHolds == Spec => NoOrderWhileCancelPending
  <1> DEFINE Wait ==
        \A o \in Orders(book') \ Orders(book) :
            ~CancelPending(book, book'.child[o].tranche)
            /\ ~CancelPending(book', book'.child[o].tranche)
  <1>1. IInv /\ [Next]_book => [Wait]_book
    <2> SUFFICES ASSUME IInv, Next
                 PROVE  Wait
      OBVIOUS
    <2> QED
      BY StepWaits DEF Waits
  <1> HIDE DEF Wait
  <1>2. Spec => [][Wait]_book
    BY <1>1, Invariant, PTL DEF Spec
  <1> QED
    BY <1>2 DEF NoOrderWhileCancelPending, Wait

\* The steps that are not reports keep fills.
LEMMA OnlyReportsFill ==
    ASSUME IInv, Next
    PROVE  \/ KeepsFills(book, book')
           \/ \E o \in Orders(book), traded \in 0..TrancheVolume, status \in Reports :
                  ProcessOrder(o, traded, status)
  <1>0. Sound(book)
    BY DEF IInv
  <1>1. ASSUME NEW t \in Tranches, Activate(t)
        PROVE  KeepsFills(book, book')
    <2>1. \A s \in Tranches :
            book.tranche[s] \in [status : TrancheStatus, traded : 0..TrancheVolume]
      BY <1>0 DEF Sound, WellFormed, Books
    <2>2. /\ book'.child = book.child /\ book'.parent = book.parent
          /\ \A s \in Tranches : book'.tranche[s].traded = book.tranche[s].traded
      BY <1>0, <1>1, <2>1 DEF Activate, Sound, WellFormed, Books
    <2> QED
      BY <2>2 DEF KeepsFills, Orders
  <1> QED
    BY <1>0, <1>1, MethodsKeepFills, Zenon
       DEF Next, ApplyIntent, ReconcilePending, BeginTrancheClose, ContinueTrancheClose,
           PauseParent, ResumeParent, CancelParent, Becomes

(***************************************************************************)
(* coordinator.py 425: a fill is consumed from the target, so that it is   *)
(* never replenished.  A fully deployed target of a running parent is      *)
(* fully deployed after a fill, and the reconciliation that follows sends  *)
(* nothing.                                                                *)
(***************************************************************************)
THEOREM FillsAreNotReplenishedHolds == Spec => FillsAreNotReplenished
  <1> DEFINE Kept ==
        \A t \in Tranches :
           /\ Deployed(book, t)
           /\ book'.tranche[t].traded > book.tranche[t].traded
           /\ book'.target[t] # NoTarget
           => Deployed(book', t)
  <1>1. TargetInv /\ IInv /\ Fills(book) /\ [Next]_book => [Kept]_book
    <2> SUFFICES ASSUME TargetInv, Fills(book), Next, NEW t \in Tranches,
                        Deployed(book, t),
                        book'.tranche[t].traded > book.tranche[t].traded,
                        book'.target[t] # NoTarget
                 PROVE  Deployed(book', t)
      OBVIOUS
    <2>1. Sound(book) /\ IInv /\ Divides(book)
      BY DEF TargetInv, IInv
    <2>2. ~KeepsFills(book, book')
      <3>1. book.tranche[t].traded \in Nat
        BY <2>1, RemainingIsNat, VolumeAssumption DEF Sound
      <3> QED
        BY <3>1 DEF KeepsFills
    <2>3. PICK o \in Orders(book), traded \in 0..TrancheVolume, status \in Reports :
             ProcessOrder(o, traded, status)
      BY <2>1, <2>2, OnlyReportsFill
    <2>4. /\ Reportable(book, o, traded, status) /\ status \in OrderStatus
          /\ book' = OrderProcessed(book, o, traded, status)
      BY <2>3, ReportAssumption DEF ProcessOrder
    <2> QED
      BY <2>1, <2>4, OrderProcessedKeepsDeployed
  <1> HIDE DEF Kept
  <1>2. Spec => [][Kept]_book
    BY <1>1, TargetInvariant, FillsInvariant, PTL DEF Spec
  <1> QED
    BY <1>2 DEF FillsAreNotReplenished, Kept
=============================================================================
