---------------------- MODULE CoordinatorMandate_proofs ----------------------
(***************************************************************************)
(* The coordinator implements the mandate of its client (SellMandate), for *)
(* every value of its constants, and a cancelled parent only winds down.   *)
(***************************************************************************)
EXTENDS Coordinator_proofs

-----------------------------------------------------------------------------
(***************************************************************************)
(* The lots at work.                                                       *)
(***************************************************************************)
Working(b) == Potential(b, Orders(b))

NoError(b) == \A t \in Tranches : b.tranche[t].status # "ERROR"

(***************************************************************************)
(* What every method but pause, resume, cancel and process_order does: it  *)
(* leaves the parent alone and puts lots to work only while some are left. *)
(***************************************************************************)
Works(b, c) ==
    /\ c.parent = b.parent
    /\ NoError(b) => NoError(c)
    /\ Working(c) >= Working(b)
    /\ ParentRemaining(b) = 0 => Working(c) = Working(b)

LEMMA WorkingIsNat ==
    ASSUME NEW b, Sound(b)
    PROVE  Working(b) \in Nat
  BY PotentialIsNat DEF Working, Sound

LEMMA SameLotsSameWorking ==
    ASSUME NEW b, NEW c, SameLots(b, c)
    PROVE  Working(c) = Working(b)
  BY SameLotsSamePotential DEF Working, SameLots

LEMMA WorksIsReflexive ==
    ASSUME NEW b, Sound(b)
    PROVE  Works(b, b)
  BY WorkingIsNat DEF Works

LEMMA WorksIsTransitive ==
    ASSUME NEW b, Sound(b), NEW c, Sound(c), NEW d, Sound(d), Works(b, c), Works(c, d)
    PROVE  Works(b, d)
  BY WorkingIsNat DEF Works, ParentRemaining

LEMMA CancelOrdersWorks ==
    ASSUME NEW b, Sound(b), NEW O
    PROVE  Works(b, CancelOrders(b, O))
  <1>1. /\ CancelOrders(b, O).parent = b.parent
        /\ CancelOrders(b, O).tranche = b.tranche
    BY DEF CancelOrders, Sound, WellFormed, Books
  <1>2. Working(CancelOrders(b, O)) = Working(b)
    BY CancelOrdersSameLots, SameLotsSameWorking DEF Sound
  <1> QED
    BY <1>1, <1>2, WorkingIsNat DEF Works, NoError

LEMMA SendOrderWorks ==
    ASSUME NEW b, Sound(b), NEW t \in Tranches,
           NEW quantity \in Int, quantity <= Available(b, t), NEW price, NEW aggressive
    PROVE  Works(b, SendOrder(b, t, quantity, price, aggressive))
  <1>1. CASE quantity <= 0
    BY <1>1, WorksIsReflexive DEF SendOrder
  <1>2. CASE quantity > 0
    <2>1. PICK n \in Nat : b \in Books(n)
      BY DEF Sound, WellFormed
    <2> DEFINE order == NewOrder(t, quantity, price, aggressive)
               c == Appended(b, n, order)
    <2>2. SendOrder(b, t, quantity, price, aggressive) = c
      BY <1>2, <2>1, SendOrderAppends
    <2>3. Orders(b) = 1..n
      BY <2>1, OrdersAreNumbered
    <2>4. /\ Available(b, t) \in 0..TrancheVolume
          /\ b.parent.traded + Working(b) + Available(b, t) <= TotalVolume
      BY AvailableIsLeft DEF Working
    <2>5. quantity \in 1..TrancheVolume
      BY <1>2, <2>4, VolumeAssumption
    <2>6. Potential(c, Orders(b) \cup {n + 1}) = Working(b) + quantity
      BY <2>1, <2>5, AppendedPotential DEF Working
    <2> HIDE DEF order
    <2>7. /\ c.parent = b.parent /\ c.tranche = b.tranche
          /\ Orders(c) = 1..(n + 1)
      BY <2>1 DEF Appended, Books, Orders
    <2>8. Orders(c) = Orders(b) \cup {n + 1}
      BY <2>3, <2>7
    <2> HIDE DEF c
    <2>9. Working(c) = Working(b) + quantity
      BY <2>6, <2>8 DEF Working
    <2>10. ParentRemaining(b) # 0
      <3>1. b.parent.traded \in 0..TotalVolume
        BY <2>1 DEF Books
      <3> QED
        BY <1>2, <2>4, <3>1, WorkingIsNat, VolumeAssumption DEF ParentRemaining, Greatest
    <2> QED
      BY <2>2, <2>5, <2>7, <2>9, <2>10, WorkingIsNat DEF Works, NoError
  <1> QED
    BY <1>1, <1>2

LEMMA FillBucketWorks ==
    ASSUME NEW b, Sound(b), NEW t \in Tranches, NEW bid \in Int,
           NEW allocation \in Allocations, NEW k \in Levels
    PROVE  Works(b, FillBucket(b, t, bid, allocation, k))
  <1> DEFINE quantity == Least(allocation[k] - Potential(b, AtBucket(b, t, bid, k)),
                               Available(b, t))
  <1>1. allocation[k] \in Nat
    BY DEF Allocations, Buckets, Levels
  <1>2. Available(b, t) \in Int
    BY AvailableIsLeft, VolumeAssumption
  <1>3. AtBucket(b, t, bid, k) \in SUBSET Orders(b)
    BY DEF AtBucket, Open, OrdersOf
  <1>4. Potential(b, AtBucket(b, t, bid, k)) \in Nat
    BY <1>3, PotentialIsNat DEF Sound
  <1>5. quantity \in Int /\ quantity <= Available(b, t)
    BY <1>1, <1>2, <1>4 DEF Least
  <1> HIDE DEF quantity
  <1> QED
    BY <1>5, SendOrderWorks DEF FillBucket, quantity

LEMMA DeployWorks ==
    ASSUME NEW b, Sound(b), NEW t \in Tranches, NEW bid \in Int,
           NEW allocation \in Allocations
    PROVE  Works(b, Deploy(b, t, bid, allocation))
  <1> DEFINE b0 == FillBucket(b,  t, bid, allocation, 0)
             b1 == FillBucket(b0, t, bid, allocation, 1)
             b2 == FillBucket(b1, t, bid, allocation, 2)
             b3 == FillBucket(b2, t, bid, allocation, 3)
             b4 == FillBucket(b3, t, bid, allocation, 4)
             b5 == FillBucket(b4, t, bid, allocation, 5)
  <1> HIDE DEF b0, b1, b2, b3, b4, b5
  <1>0. Sound(b0) /\ Works(b, b0)
    BY FillBucketSound, FillBucketWorks DEF b0, Levels
  <1>1. Sound(b1) /\ Works(b, b1)
    BY <1>0, FillBucketSound, FillBucketWorks, WorksIsTransitive DEF b1, Levels
  <1>2. Sound(b2) /\ Works(b, b2)
    BY <1>1, FillBucketSound, FillBucketWorks, WorksIsTransitive DEF b2, Levels
  <1>3. Sound(b3) /\ Works(b, b3)
    BY <1>2, FillBucketSound, FillBucketWorks, WorksIsTransitive DEF b3, Levels
  <1>4. Sound(b4) /\ Works(b, b4)
    BY <1>3, FillBucketSound, FillBucketWorks, WorksIsTransitive DEF b4, Levels
  <1>5. Works(b, b5)
    BY <1>4, FillBucketSound, FillBucketWorks, WorksIsTransitive DEF b5, Levels
  <1>6. Deploy(b, t, bid, allocation) = b5
    BY Zenon DEF Deploy, b0, b1, b2, b3, b4, b5
  <1> QED
    BY <1>5, <1>6

LEMMA ReconciledWorks ==
    ASSUME NEW b, Sound(b), NEW t \in Tranches
    PROVE  /\ Works(b, Reconciled(b, t))
           /\ b.parent.status # "RUNNING" => Reconciled(b, t) = b
  <1> DEFINE allocation == b.target[t].allocation
             bid == b.target[t].bid
             trimmed == CancelOrders(b, Excess(b, t, bid, allocation))
  <1>1. CASE b.target[t] = NoTarget \/ b.parent.status # "RUNNING"
    BY <1>1, WorksIsReflexive, Zenon DEF Reconciled
  <1>2. CASE ~(b.target[t] = NoTarget \/ b.parent.status # "RUNNING")
    <2>1. b.target[t] \in Target
      BY <1>2 DEF Sound, WellFormed, Books
    <2>2. allocation \in Allocations /\ bid \in Int
      BY <2>1, MarketAssumption DEF Target
    <2> HIDE DEF allocation, bid
    <2>3. Sound(trimmed) /\ Works(b, trimmed)
      BY CancelOrdersSound, CancelOrdersWorks
    <2> HIDE DEF trimmed
    <2>4. Works(b, Deploy(trimmed, t, bid, allocation))
      BY <2>2, <2>3, DeploySound, DeployWorks, WorksIsTransitive
    <2>5. Reconciled(b, t) = IF CancelPending(trimmed, t) THEN trimmed
                             ELSE Deploy(trimmed, t, bid, allocation)
      BY <1>2, Zenon DEF Reconciled, trimmed, allocation, bid
    <2> QED
      BY <1>2, <2>3, <2>4, <2>5
  <1> QED
    BY <1>1, <1>2

-----------------------------------------------------------------------------
(***************************************************************************)
(* Winding down.                                                           *)
(***************************************************************************)
AllRequested(b) == \A o \in Open(b, Orders(b)) : b.child[o].cancel_requested

Ended(b) == \A t \in Tranches : b.tranche[t].status \in {"COMPLETED", "CANCELLED"}

WindsDown(b) ==
    /\ NoError(b)
    /\ b.parent.status = "CANCELLED" => AllRequested(b) /\ Ended(b)
    /\ b.parent.status = "COMPLETED" => ParentRemaining(b) = 0

\* The same but for targets.
Alike(b, c) == c.parent = b.parent /\ c.child = b.child /\ c.tranche = b.tranche

Over(b) == b.parent.status \in {"COMPLETED", "CANCELLED"}

(***************************************************************************)
(* A step as the client sees it.                                           *)
(***************************************************************************)
Steps(b, c) ==
    \/ /\ ~Over(b) /\ ~Over(c)
       /\ c.parent.traded = b.parent.traded
       /\ Working(c) > Working(b)
       /\ Working(c) <= TotalVolume - b.parent.traded
    \/ /\ c.parent.traded >= b.parent.traded
       /\ Working(c) >= 0
       /\ c.parent.traded + Working(c) <= b.parent.traded + Working(b)
       /\ Over(b) => Over(c)

\* Methods that work are steps, and keep winding down what does.
LEMMA WorksSteps ==
    ASSUME NEW b, Sound(b), WindsDown(b), NEW c, Sound(c), Works(b, c),
           b.parent.status = "CANCELLED" => Alike(b, c)
    PROVE  WindsDown(c) /\ Steps(b, c)
  <1>1. /\ Working(b) \in Nat /\ Working(c) \in Nat
        /\ b.parent.traded \in 0..TotalVolume
    BY WorkingIsNat DEF Sound, WellFormed, Books
  <1>2. c.parent.traded + Working(c) <= TotalVolume
    BY DEF Sound, Limits, Working
  <1>3. WindsDown(c)
    BY DEF WindsDown, Works, Alike, AllRequested, Ended, Open, Orders, ParentRemaining
  <1>4. Over(c) = Over(b) /\ c.parent.traded = b.parent.traded
    BY DEF Works, Over
  <1>5. CASE Working(c) = Working(b)
    BY <1>1, <1>3, <1>4, <1>5, VolumeAssumption DEF Steps
  <1>6. CASE Working(c) # Working(b)
    <2>1. ~Over(b)
      <3>1. b.parent.status # "COMPLETED"
        BY <1>6 DEF WindsDown, Works
      <3>2. b.parent.status # "CANCELLED"
        BY <1>6 DEF Alike, Working, Potential, OpenLots, Orders
      <3> QED
        BY <3>1, <3>2 DEF Over
    <2>2. Working(c) > Working(b)
      BY <1>1, <1>6 DEF Works
    <2> QED
      BY <1>1, <1>2, <1>3, <1>4, <2>1, <2>2, VolumeAssumption DEF Steps
  <1> QED
    BY <1>5, <1>6
-----------------------------------------------------------------------------
(***************************************************************************)
(* The methods that work.                                                  *)
(***************************************************************************)
LEMMA SameChildSameWorking ==
    ASSUME NEW b, NEW c, c.child = b.child
    PROVE  Working(c) = Working(b)
  BY DEF Working, Potential, OpenLots, Orders

LEMMA IntentAppliedWorks ==
    ASSUME NEW b, Sound(b), NEW t \in Tranches, NEW intent \in Intents, NEW bid \in Bids
    PROVE  LET c == IntentApplied(b, t, intent, bid)
           IN  Works(b, c) /\ (b.parent.status # "RUNNING" => Alike(b, c))
  <1> DEFINE target == [allocation |-> TargetQuantities(intent, Remaining(b, t)), bid |-> bid]
             c == [b EXCEPT !.target[t] = target]
  <1>1. target \in Target
    <2>1. TargetQuantities(intent, Remaining(b, t)) \in Allocations
      BY IntentAssumption, VolumeAssumption, RemainingIsNat, TargetQuantitiesDivide DEF Sound
    <2> QED
      BY <2>1 DEF Target
  <1> HIDE DEF target
  <1>2. WellFormed(c)
    BY <1>1 DEF Sound, WellFormed, Books
  <1>3. Alike(b, c)
    BY DEF Sound, WellFormed, Books, Alike
  <1> HIDE DEF c
  <1>4. Sound(c)
    BY <1>2, <1>3, RelabelledSound DEF Alike
  <1>5. Works(b, c)
    BY <1>3, SameChildSameWorking, WorkingIsNat DEF Works, Alike, NoError
  <1>6. /\ Sound(Reconciled(c, t))
        /\ Works(c, Reconciled(c, t))
        /\ c.parent.status # "RUNNING" => Reconciled(c, t) = c
    BY <1>4, ReconciledSound, ReconciledWorks
  <1>7. IntentApplied(b, t, intent, bid) = Reconciled(c, t)
    BY DEF IntentApplied, c, target
  <1>8. Works(b, Reconciled(c, t))
    BY <1>4, <1>5, <1>6, WorksIsTransitive
  <1> QED
    BY <1>3, <1>6, <1>7, <1>8 DEF Alike

LEMMA PendingReconciledWorks ==
    ASSUME NEW b, Sound(b), NEW t \in Tranches, NEW bid \in Bids
    PROVE  LET c == PendingReconciled(b, t, bid)
           IN  Works(b, c) /\ (b.parent.status # "RUNNING" => Alike(b, c))
  <1> DEFINE c == [b EXCEPT !.target[t] = [@ EXCEPT !.bid = bid]]
  <1>1. CASE b.target[t] = NoTarget \/ b.tranche[t].status # "ACTIVE"
    BY <1>1, WorksIsReflexive DEF PendingReconciled, Alike
  <1>2. CASE ~(b.target[t] = NoTarget \/ b.tranche[t].status # "ACTIVE")
    <2>1. b.target[t] \in Target
      BY <1>2 DEF Sound, WellFormed, Books
    <2>2. [b.target[t] EXCEPT !.bid = bid] \in Target
      BY <2>1 DEF Target
    <2>3. WellFormed(c)
      BY <2>2 DEF Sound, WellFormed, Books
    <2>4. Alike(b, c)
      BY DEF Sound, WellFormed, Books, Alike
    <2> HIDE DEF c
    <2>5. Sound(c)
      BY <2>3, <2>4, RelabelledSound DEF Alike
    <2>6. Works(b, c)
      BY <2>4, SameChildSameWorking, WorkingIsNat DEF Works, Alike, NoError
    <2>7. /\ Sound(Reconciled(c, t))
          /\ Works(c, Reconciled(c, t))
          /\ c.parent.status # "RUNNING" => Reconciled(c, t) = c
      BY <2>5, ReconciledSound, ReconciledWorks
    <2>8. PendingReconciled(b, t, bid) = Reconciled(c, t)
      BY <1>2, Zenon DEF PendingReconciled, c
    <2>9. Works(b, Reconciled(c, t))
      BY <2>5, <2>6, <2>7, WorksIsTransitive
    <2> QED
      BY <2>4, <2>7, <2>8, <2>9 DEF Alike
  <1> QED
    BY <1>1, <1>2

LEMMA CloseFinishedWorks ==
    ASSUME NEW b, Sound(b), NEW t \in Tranches, NEW bid \in Bids
    PROVE  Works(b, CloseFinished(b, t, bid))
  <1> DEFINE open == Open(b, OrdersOf(b, t))
             quantity == Least(Remaining(b, t), Available(b, t))
             done == [b EXCEPT !.tranche[t].status = "COMPLETED"]
  <1>1. Works(b, done)
    <2>1. /\ done.child = b.child /\ done.parent = b.parent
          /\ NoError(b) => NoError(done)
      BY DEF Sound, WellFormed, Books, NoError
    <2> HIDE DEF done
    <2> QED
      BY <2>1, SameChildSameWorking, WorkingIsNat DEF Works
  <1>2. Works(b, CancelOrders(b, {o \in open : Bucket(b.child[o], bid) # 0}))
    BY CancelOrdersWorks
  <1>3. quantity \in Int /\ quantity <= Available(b, t)
    BY RemainingIsNat, AvailableIsLeft, VolumeAssumption DEF Sound, Least
  <1> HIDE DEF quantity
  <1>4. Works(b, SendOrder(b, t, quantity, bid, TRUE))
    BY <1>3, SendOrderWorks
  <1> QED
    BY <1>1, <1>2, <1>4, Zenon DEF CloseFinished, quantity

LEMMA CloseBegunWorks ==
    ASSUME NEW b, Sound(b), NEW t \in Tranches, NEW bid \in Bids
    PROVE  /\ Works(b, CloseBegun(b, t, bid))
           /\ b.tranche[t].status \in {"COMPLETED", "CANCELLED"} => CloseBegun(b, t, bid) = b
  <1> DEFINE closing == [b EXCEPT !.tranche[t].status = "CLOSING", !.target[t] = NoTarget]
             asked == CancelOrders(closing, OrdersOf(closing, t))
  <1>1. b.tranche[t] \in [status : TrancheStatus, traded : 0..TrancheVolume]
    BY DEF Sound, WellFormed, Books
  <1>2. WellFormed(closing)
    BY <1>1 DEF Sound, WellFormed, Books, TrancheStatus
  <1>3. /\ closing.child = b.child /\ closing.parent = b.parent
        /\ \A s \in Tranches : closing.tranche[s].traded = b.tranche[s].traded
        /\ NoError(b) => NoError(closing)
    BY <1>1 DEF Sound, WellFormed, Books, NoError
  <1> HIDE DEF closing
  <1>4. Sound(closing) /\ Works(b, closing)
    BY <1>2, <1>3, RelabelledSound, SameChildSameWorking, WorkingIsNat DEF Works
  <1>5. Sound(asked) /\ Works(b, asked)
    BY <1>4, CancelOrdersSound, CancelOrdersWorks, WorksIsTransitive
  <1> HIDE DEF asked
  <1>6. /\ Works(b, CloseFinished(asked, t, bid))
        /\ Works(b, CloseFinished(b, t, bid))
    BY <1>5, CloseFinishedSound, CloseFinishedWorks, WorksIsTransitive
  <1>7. Works(b, CloseBegun(b, t, bid))
    BY <1>6, WorksIsReflexive, Zenon DEF CloseBegun, closing, asked
  <1>8. b.tranche[t].status \in {"COMPLETED", "CANCELLED"} => CloseBegun(b, t, bid) = b
    BY Zenon DEF CloseBegun
  <1> QED
    BY <1>7, <1>8
-----------------------------------------------------------------------------
(***************************************************************************)
(* Pause, resume and cancel.                                               *)
(***************************************************************************)

\* A cancel request changes nothing but cancel_requested, and sets it.
LEMMA CancelOrdersAsks ==
    ASSUME NEW b, WellFormed(b), NEW O
    PROVE  LET c == CancelOrders(b, O)
           IN  /\ c.parent = b.parent
               /\ c.tranche = b.tranche
               /\ Open(c, Orders(c)) = Open(b, Orders(b))
               /\ \A o \in Open(b, Orders(b)) :
                     c.child[o].cancel_requested = (o \in O \/ b.child[o].cancel_requested)
  <1> DEFINE c == CancelOrders(b, O)
  <1>1. c.parent = b.parent /\ c.tranche = b.tranche
    BY DEF CancelOrders, WellFormed, Books
  <1>2. SameLots(b, c)
    BY CancelOrdersSameLots
  <1>3. Open(c, Orders(c)) = Open(b, Orders(b))
    <2> HIDE DEF c
    <2> QED
      BY <1>2 DEF SameLots, Open, Leaves
  <1>4. ASSUME NEW o \in Open(b, Orders(b))
        PROVE  c.child[o].cancel_requested = (o \in O \/ b.child[o].cancel_requested)
    <2>1. o \in Orders(b) /\ (o \in Open(b, O) <=> o \in O)
      BY DEF Open
    <2>2. b.child[o] \in ChildOrder
      BY <2>1, OrdersAreNumbered DEF WellFormed, Books
    <2>3. c.child[o] = IF o \in Open(b, O)
                       THEN [b.child[o] EXCEPT !.cancel_requested = TRUE] ELSE b.child[o]
      BY <2>1 DEF CancelOrders, WellFormed, Books
    <2> HIDE DEF c
    <2>4. b.child[o].cancel_requested \in BOOLEAN
      BY <2>2 DEF ChildOrder
    <2>5. CASE o \in O
      <3>1. c.child[o].cancel_requested = TRUE
        BY <2>1, <2>2, <2>3, <2>5 DEF ChildOrder
      <3> QED
        BY <2>5, <3>1
    <2>6. CASE o \notin O
      <3>1. c.child[o] = b.child[o]
        BY <2>1, <2>3, <2>6
      <3> QED
        BY <2>4, <2>6, <3>1
    <2> QED
      BY <2>5, <2>6
  <1> QED
    BY <1>1, <1>3, <1>4

\* A step that leaves the fills and the lots at work alone is a step for the client.
LEMMA KeptSteps ==
    ASSUME NEW b, Sound(b), NEW c,
           c.parent.traded = b.parent.traded, Working(c) = Working(b), Over(b) => Over(c)
    PROVE  Steps(b, c)
  <1>1. b.parent.traded \in Nat
    BY VolumeAssumption DEF Sound, WellFormed, Books
  <1> QED
    BY <1>1, WorkingIsNat DEF Steps

LEMMA PausedSteps ==
    ASSUME NEW b, Sound(b), WindsDown(b)
    PROVE  LET c == Paused(b)
           IN  /\ WindsDown(c)
               /\ c.parent.traded = b.parent.traded
               /\ Working(c) = Working(b)
               /\ Over(b) => Over(c)
  <1> DEFINE c == [b EXCEPT !.parent.status = "PAUSED",
                            !.target  = Untargeted,
                            !.tranche = [t \in Tranches |->
                               IF b.tranche[t].status = "ACTIVE"
                               THEN [b.tranche[t] EXCEPT !.status = "CLOSING"]
                               ELSE b.tranche[t]]]
             asked == CancelOrders(c, Orders(b))
  <1>1. CASE b.parent.status \notin {"RUNNING", "WAITING"}
    <2>1. Paused(b) = b
      BY <1>1, Zenon DEF Paused
    <2> QED
      BY <2>1
  <1>2. CASE b.parent.status \in {"RUNNING", "WAITING"}
    <2>1. \A t \in Tranches :
            b.tranche[t] \in [status : TrancheStatus, traded : 0..TrancheVolume]
      BY DEF Sound, WellFormed, Books
    <2>2. b.parent \in [status : ParentStatus, traded : 0..TotalVolume]
      BY DEF Sound, WellFormed, Books
    <2>3. \A t \in Tranches :
            /\ [b.tranche[t] EXCEPT !.status = "CLOSING"]
                  \in [status : TrancheStatus, traded : 0..TrancheVolume]
            /\ [b.tranche[t] EXCEPT !.status = "CLOSING"].status = "CLOSING"
      BY <2>1 DEF TrancheStatus
    <2>4. Untargeted \in [Tranches -> Target \cup {NoTarget}]
      BY DEF Untargeted
    <2>5. WellFormed(c)
      BY <2>1, <2>2, <2>3, <2>4 DEF Sound, WellFormed, Books, ParentStatus
    <2>6. /\ c.child = b.child
          /\ c.parent.traded = b.parent.traded
          /\ c.parent.status = "PAUSED"
          /\ NoError(c)
      BY <2>1, <2>2, <2>3 DEF Sound, WellFormed, Books, WindsDown, NoError
    <2> HIDE DEF c
    <2>7. /\ asked.parent = c.parent /\ asked.tranche = c.tranche
          /\ Working(asked) = Working(b)
      BY <2>5, <2>6, CancelOrdersAsks, CancelOrdersSameLots, SameLotsSameWorking,
         SameChildSameWorking
    <2> HIDE DEF asked
    <2>8. WindsDown(asked)
      BY <2>6, <2>7 DEF WindsDown, NoError
    <2>9. Paused(b) = asked
      BY <1>2, Zenon DEF Paused, c, asked
    <2> QED
      BY <1>2, <2>6, <2>7, <2>8, <2>9 DEF Over
  <1> QED
    BY <1>1, <1>2

LEMMA ResumedSteps ==
    ASSUME NEW b, Sound(b), WindsDown(b), MayResume(b)
    PROVE  WindsDown(Resumed(b)) /\ Steps(b, Resumed(b))
  <1> DEFINE c == Resumed(b)
  <1>1. \A t \in Tranches :
          /\ b.tranche[t] \in [status : TrancheStatus, traded : 0..TrancheVolume]
          /\ [b.tranche[t] EXCEPT !.status = "WAITING"].status = "WAITING"
    BY DEF Sound, WellFormed, Books
  <1>2. b.parent \in [status : ParentStatus, traded : 0..TotalVolume]
    BY DEF Sound, WellFormed, Books
  <1>3. /\ c.child = b.child
        /\ c.parent.traded = b.parent.traded
        /\ c.parent.status = "RUNNING"
        /\ NoError(c)
    BY <1>1, <1>2 DEF Sound, WellFormed, Books, Resumed, WindsDown, NoError
  <1> HIDE DEF c
  <1>4. WindsDown(c)
    BY <1>3 DEF WindsDown
  <1>5. Working(c) = Working(b)
    BY <1>3, SameChildSameWorking
  <1>6. b.parent.status = "PAUSED"
    BY DEF MayResume
  <1>7. Steps(b, c)
    BY <1>3, <1>5, <1>6, KeptSteps DEF Over
  <1> QED
    BY <1>4, <1>7 DEF c

LEMMA CancelledSteps ==
    ASSUME NEW b, Sound(b), WindsDown(b)
    PROVE  WindsDown(Cancelled(b)) /\ Steps(b, Cancelled(b))
  <1> DEFINE c == [b EXCEPT !.parent.status = "CANCELLED",
                            !.target  = Untargeted,
                            !.tranche = [t \in Tranches |->
                               IF b.tranche[t].status \in {"COMPLETED", "ERROR"}
                               THEN b.tranche[t]
                               ELSE [b.tranche[t] EXCEPT !.status = "CANCELLED"]]]
             asked == CancelOrders(c, Orders(b))
  <1>1. CASE Over(b)
    <2>1. Cancelled(b) = b
      BY <1>1, Zenon DEF Cancelled, Over
    <2> QED
      BY <2>1, WorksIsReflexive, WorksSteps DEF Alike
  <1>2. CASE ~Over(b)
    <2>1. \A t \in Tranches :
            b.tranche[t] \in [status : TrancheStatus, traded : 0..TrancheVolume]
      BY DEF Sound, WellFormed, Books
    <2>2. b.parent \in [status : ParentStatus, traded : 0..TotalVolume]
      BY DEF Sound, WellFormed, Books
    <2>3. \A t \in Tranches :
            /\ [b.tranche[t] EXCEPT !.status = "CANCELLED"]
                  \in [status : TrancheStatus, traded : 0..TrancheVolume]
            /\ [b.tranche[t] EXCEPT !.status = "CANCELLED"].status = "CANCELLED"
      BY <2>1 DEF TrancheStatus
    <2>4. Untargeted \in [Tranches -> Target \cup {NoTarget}]
      BY DEF Untargeted
    <2>5. WellFormed(c)
      BY <2>1, <2>2, <2>3, <2>4 DEF Sound, WellFormed, Books, ParentStatus
    <2>6. /\ c.child = b.child
          /\ c.parent.traded = b.parent.traded
          /\ c.parent.status = "CANCELLED"
          /\ Ended(c)
      BY <2>1, <2>2, <2>3 DEF Sound, WellFormed, Books, WindsDown, NoError, Ended
    <2> HIDE DEF c
    <2>7. Orders(c) = Orders(b) /\ Open(c, Orders(c)) \subseteq Orders(b)
      BY <2>6 DEF Orders, Open
    <2>8. /\ asked.parent = c.parent /\ asked.tranche = c.tranche
          /\ Working(asked) = Working(b)
          /\ AllRequested(asked)
      <3>1. /\ asked.parent = c.parent /\ asked.tranche = c.tranche
            /\ Open(asked, Orders(asked)) = Open(c, Orders(c))
            /\ \A o \in Open(c, Orders(c)) :
                  asked.child[o].cancel_requested =
                     (o \in Orders(b) \/ c.child[o].cancel_requested)
        BY <2>5, CancelOrdersAsks
      <3>2. Working(asked) = Working(b)
        BY <2>5, <2>6, CancelOrdersSameLots, SameLotsSameWorking, SameChildSameWorking
      <3> HIDE DEF asked
      <3>3. AllRequested(asked)
        BY <2>7, <3>1, Zenon DEF AllRequested
      <3> QED
        BY <3>1, <3>2, <3>3
    <2> HIDE DEF asked
    <2>9. WindsDown(asked)
      BY <2>6, <2>8 DEF WindsDown, NoError, Ended
    <2>10. Steps(b, asked)
      BY <1>2, <2>6, <2>8, KeptSteps
    <2>11. Cancelled(b) = asked
      BY <1>2, Zenon DEF Cancelled, Over, c, asked
    <2> QED
      BY <2>9, <2>10, <2>11
  <1> QED
    BY <1>1, <1>2
-----------------------------------------------------------------------------
(***************************************************************************)
(* Reports.                                                                *)
(***************************************************************************)
LEMMA RecordedSteps ==
    ASSUME NEW b, Sound(b), WindsDown(b), NEW o \in Orders(b),
           NEW traded \in 0..TrancheVolume, NEW status \in OrderStatus,
           Reportable(b, o, traded, status)
    PROVE  LET c == Recorded(b, o, traded, status)
           IN  /\ WindsDown(c)
               /\ c.parent.status = b.parent.status
               /\ c.parent.traded >= b.parent.traded
               /\ c.parent.traded + Working(c) <= b.parent.traded + Working(b)
  <1> DEFINE c == Recorded(b, o, traded, status)
             d == Delta(b, o, traded)
  <1>1. WellFormed(b)
    BY DEF Sound
  <1>2. /\ Orders(c) = Orders(b)
        /\ \A p \in Orders(b) \ {o} : c.child[p] = b.child[p]
        /\ c.child[o].volume = b.child[o].volume
        /\ c.child[o].traded = Greatest(traded, b.child[o].traded)
        /\ c.child[o].status = IF Accepts(b, o, status) THEN status ELSE b.child[o].status
        /\ c.child[o].cancel_requested = b.child[o].cancel_requested
        /\ c.parent.status = b.parent.status
        /\ c.parent.traded = Least(b.parent.traded + d, TotalVolume)
        /\ \A t \in Tranches : c.tranche[t].status = b.tranche[t].status
    BY <1>1, RecordedChild
  <1>3. d \in Nat /\ b.parent.traded \in 0..TotalVolume
    BY <1>1, FilledLotsAreDelta DEF WellFormed, Books
  <1>4. d + Working(c) <= Working(b)
    BY <1>2, FillComesFromOpenLots DEF Working
  <1>5. Working(b) \in Nat /\ Working(c) \in Nat
    BY RecordedSound, WorkingIsNat
  <1>6. /\ b.child[o].volume \in Nat /\ b.child[o].traded \in Nat /\ traded \in Nat
        /\ b.child[o].status \in OrderStatus
    <2>1. b.child[o] \in ChildOrder
      BY <1>1, OrdersAreNumbered DEF WellFormed, Books
    <2> QED
      BY <2>1, VolumeAssumption DEF ChildOrder
  <1> HIDE DEF c, d
  <1>7. /\ c.parent.traded >= b.parent.traded
        /\ c.parent.traded + Working(c) <= b.parent.traded + Working(b)
    BY <1>2, <1>3, <1>4, <1>5, VolumeAssumption DEF Least
  <1>8. AllRequested(b) => AllRequested(c)
    <2>1. o \in Open(c, Orders(c)) => o \in Open(b, Orders(b))
      BY <1>2, <1>6 DEF Open, Leaves, Accepts, OrderStatus, ActiveStatuses, FinalStatuses,
                        Greatest
    <2> QED
      BY <1>2, <2>1 DEF AllRequested, Open
  <1>9. ParentRemaining(b) = 0 => ParentRemaining(c) = 0
    BY <1>2, <1>3, VolumeAssumption DEF ParentRemaining, Greatest, Least
  <1>10. WindsDown(c)
    BY <1>2, <1>8, <1>9 DEF WindsDown, NoError, Ended
  <1> QED
    BY <1>2, <1>7, <1>10 DEF c

LEMMA SettledSteps ==
    ASSUME NEW b, Sound(b), WindsDown(b), NEW t \in Tranches
    PROVE  LET c == Settled(b, t)
           IN  /\ WindsDown(c)
               /\ c.parent.traded = b.parent.traded
               /\ Working(c) = Working(b)
               /\ Over(b) => Over(c)
  <1> DEFINE done == [b EXCEPT !.tranche[t].status = "COMPLETED", !.target[t] = NoTarget]
             asked == CancelOrders(done, OrdersOf(b, t))
             filled == IF Remaining(b, t) # 0 THEN b ELSE asked
             sold == [filled EXCEPT !.parent.status = "COMPLETED"]
  <1>1. b.tranche[t] \in [status : TrancheStatus, traded : 0..TrancheVolume]
    BY DEF Sound, WellFormed, Books
  <1>2. WellFormed(done)
    BY <1>1 DEF Sound, WellFormed, Books, TrancheStatus
  <1>3. /\ done.child = b.child /\ done.parent = b.parent
        /\ \A s \in Tranches : done.tranche[s].traded = b.tranche[s].traded
        /\ done.tranche[t].status = "COMPLETED"
        /\ \A s \in Tranches \ {t} : done.tranche[s] = b.tranche[s]
    BY <1>1 DEF Sound, WellFormed, Books
  <1> HIDE DEF done
  <1>4. /\ WindsDown(done)
        /\ Working(done) = Working(b)
    BY <1>3, SameChildSameWorking
       DEF WindsDown, NoError, AllRequested, Ended, Open, Orders, ParentRemaining
  <1>5. /\ asked.parent = b.parent
        /\ asked.tranche = done.tranche
        /\ Working(asked) = Working(b)
        /\ AllRequested(done) => AllRequested(asked)
    <2>1. /\ asked.parent = done.parent /\ asked.tranche = done.tranche
          /\ Open(asked, Orders(asked)) = Open(done, Orders(done))
          /\ \A o \in Open(done, Orders(done)) :
                asked.child[o].cancel_requested =
                   (o \in OrdersOf(b, t) \/ done.child[o].cancel_requested)
      BY <1>2, CancelOrdersAsks
    <2>2. Working(asked) = Working(b)
      BY <1>2, <1>4, CancelOrdersSameLots, SameLotsSameWorking
    <2> HIDE DEF asked
    <2>3. AllRequested(done) => AllRequested(asked)
      BY <2>1, Zenon DEF AllRequested
    <2> QED
      BY <1>3, <2>1, <2>2, <2>3
  <1>6. WellFormed(asked)
    BY <1>2, CancelOrdersSameLots
  <1> HIDE DEF asked
  <1>7. /\ WindsDown(filled) /\ WellFormed(filled)
        /\ filled.parent = b.parent /\ Working(filled) = Working(b)
    <2>1. WindsDown(asked)
      BY <1>3, <1>4, <1>5 DEF WindsDown, NoError, Ended, ParentRemaining
    <2> QED
      BY <1>5, <1>6, <2>1 DEF Sound
  <1> HIDE DEF filled
  <1>8. /\ sold.child = filled.child
        /\ sold.tranche = filled.tranche
        /\ sold.parent.traded = filled.parent.traded
        /\ sold.parent.status = "COMPLETED"
    BY <1>7 DEF WellFormed, Books
  <1> HIDE DEF sold
  <1>9. Working(sold) = Working(b)
    BY <1>7, <1>8, SameChildSameWorking
  <1>10. ParentRemaining(b) = 0 => WindsDown(sold)
    BY <1>7, <1>8 DEF WindsDown, NoError, ParentRemaining
  <1>11. Settled(b, t) = IF ParentRemaining(b) # 0 THEN filled ELSE sold
    BY Zenon DEF Settled, done, asked, filled, sold
  <1> QED
    BY <1>7, <1>8, <1>9, <1>10, <1>11 DEF Over
LEMMA OrderProcessedSteps ==
    ASSUME NEW b, Sound(b), WindsDown(b), NEW o \in Orders(b),
           NEW traded \in 0..TrancheVolume, NEW status \in OrderStatus,
           Reportable(b, o, traded, status)
    PROVE  /\ WindsDown(OrderProcessed(b, o, traded, status))
           /\ Steps(b, OrderProcessed(b, o, traded, status))
  <1> DEFINE recorded == Recorded(b, o, traded, status)
             t == b.child[o].tranche
  <1>1. /\ Sound(recorded) /\ WindsDown(recorded)
        /\ recorded.parent.status = b.parent.status
        /\ recorded.parent.traded >= b.parent.traded
        /\ recorded.parent.traded + Working(recorded) <= b.parent.traded + Working(b)
    BY RecordedSound, RecordedSteps
  <1>2. t \in Tranches
    BY OrdersAreNumbered DEF Sound, WellFormed, Books, ChildOrder
  <1> HIDE DEF recorded, t
  <1>3. ASSUME NEW c, Sound(c),
               c.parent.traded = recorded.parent.traded,
               Working(c) = Working(recorded), Over(recorded) => Over(c)
        PROVE  Steps(b, c)
    <2>1. Working(c) \in Nat
      BY <1>3, WorkingIsNat
    <2> QED
      BY <1>1, <1>3, <2>1 DEF Steps, Over
  <1>4. WindsDown(Paused(recorded)) /\ Steps(b, Paused(recorded))
    BY <1>1, <1>3, PausedSound, PausedSteps
  <1>5. WindsDown(Settled(recorded, t)) /\ Steps(b, Settled(recorded, t))
    BY <1>1, <1>2, <1>3, SettledSound, SettledSteps
  <1> QED
    BY <1>4, <1>5, Zenon DEF OrderProcessed, recorded, t

-----------------------------------------------------------------------------
(***************************************************************************)
(* The state machine.                                                      *)
(***************************************************************************)

(***************************************************************************)
(* A parent that is over puts no lot to work: a completed one has none     *)
(* left, and in a cancelled one no tranche is live.  That is WindsDown; it *)
(* needs the hard limits, which say that nothing is available once all is  *)
(* sold.                                                                   *)
(***************************************************************************)
MandateInv == IInv /\ WindsDown(book)

LEMMA InitWindsDown == Init => WindsDown(book)
  BY DEF Init, WindsDown, NoError

LEMMA NextSteps ==
    ASSUME IInv, WindsDown(book), Next
    PROVE  WindsDown(book') /\ Steps(book, book')
  <1>0. Sound(book)
    BY DEF IInv
  <1>1. Sound(book')
    <2>1. IInv'
      BY NextSound
    <2> QED
      BY <2>1 DEF IInv, Sound, WellFormed, Limits, Potential, OpenLots, Orders, OrdersOf,
                  Books
  <1>2. ASSUME NEW c, book' = c, Works(book, c),
               book.parent.status = "CANCELLED" => Alike(book, c)
        PROVE  WindsDown(book') /\ Steps(book, book')
    BY <1>0, <1>1, <1>2, WorksSteps
  <1>3. ASSUME NEW t \in Tranches, Activate(t)
        PROVE  WindsDown(book') /\ Steps(book, book')
    <2>1. /\ book'.child = book.child /\ book'.parent = book.parent
          /\ NoError(book) => NoError(book')
      <3>1. \A s \in Tranches :
              book.tranche[s] \in [status : TrancheStatus, traded : 0..TrancheVolume]
        BY <1>0 DEF Sound, WellFormed, Books
      <3>2. book' = [book EXCEPT !.tranche[t].status = "ACTIVE"]
        BY <1>3 DEF Activate
      <3> QED
        BY <1>0, <3>1, <3>2 DEF Sound, WellFormed, Books, NoError
    <2>2. Works(book, book')
      BY <1>0, <2>1, SameChildSameWorking, WorkingIsNat DEF Works
    <2>3. book.parent.status # "CANCELLED"
      BY <1>3 DEF Activate, WindsDown, Ended
    <2> QED
      BY <1>2, <2>2, <2>3
  <1>4. ASSUME NEW t \in Tranches, NEW intent \in Intents, NEW bid \in Bids,
               ApplyIntent(t, intent, bid)
        PROVE  WindsDown(book') /\ Steps(book, book')
    BY <1>0, <1>2, <1>4, IntentAppliedWorks DEF ApplyIntent, Becomes
  <1>5. ASSUME NEW t \in Tranches, NEW bid \in Bids, ReconcilePending(t, bid)
        PROVE  WindsDown(book') /\ Steps(book, book')
    BY <1>0, <1>2, <1>5, PendingReconciledWorks DEF ReconcilePending, Becomes
  <1>6. ASSUME NEW t \in Tranches, NEW bid \in Bids, BeginTrancheClose(t, bid)
        PROVE  WindsDown(book') /\ Steps(book, book')
    <2>1. book' = CloseBegun(book, t, bid)
      BY <1>6 DEF BeginTrancheClose, Becomes
    <2>2. book.parent.status = "CANCELLED" => Alike(book, book')
      BY <1>0, <2>1, CloseBegunWorks DEF WindsDown, Ended, Alike
    <2> QED
      BY <1>0, <1>2, <2>1, <2>2, CloseBegunWorks
  <1>7. ASSUME NEW t \in Tranches, NEW bid \in Bids, ContinueTrancheClose(t, bid)
        PROVE  WindsDown(book') /\ Steps(book, book')
    <2>1. book' = IF book.tranche[t].status = "CLOSING" THEN CloseFinished(book, t, bid)
                  ELSE book
      BY <1>7 DEF ContinueTrancheClose, CloseContinued, Becomes
    <2>2. book.parent.status = "CANCELLED" => Alike(book, book')
      BY <2>1 DEF WindsDown, Ended, Alike
    <2>3. Works(book, book')
      BY <1>0, <2>1, CloseFinishedWorks, WorksIsReflexive
    <2> QED
      BY <1>2, <2>2, <2>3
  <1>8. PauseParent => WindsDown(book') /\ Steps(book, book')
    BY <1>0, PausedSteps, KeptSteps DEF PauseParent
  <1>9. ResumeParent => WindsDown(book') /\ Steps(book, book')
    BY <1>0, ResumedSteps DEF ResumeParent
  <1>10. CancelParent => WindsDown(book') /\ Steps(book, book')
    BY <1>0, CancelledSteps DEF CancelParent
  <1>11. ASSUME NEW o \in Orders(book), NEW traded \in 0..TrancheVolume,
                NEW status \in Reports, ProcessOrder(o, traded, status)
         PROVE  WindsDown(book') /\ Steps(book, book')
    BY <1>0, <1>11, OrderProcessedSteps, ReportAssumption DEF ProcessOrder
  <1> QED
    BY <1>3, <1>4, <1>5, <1>6, <1>7, <1>8, <1>9, <1>10, <1>11 DEF Next

LEMMA MandateInvariant == Spec => []MandateInv
  <1>1. IInv /\ WindsDown(book) /\ [Next]_book => WindsDown(book)'
    <2> SUFFICES ASSUME IInv, WindsDown(book), [Next]_book
                 PROVE  WindsDown(book')
      BY DEF WindsDown, NoError, AllRequested, Ended, Open, Orders, ParentRemaining
    <2>1. CASE Next
      BY <2>1, NextSteps
    <2>2. CASE UNCHANGED book
      BY <2>2
    <2> QED
      BY <2>1, <2>2
  <1> QED
    BY <1>1, InitSound, NextSound, InitWindsDown, PTL DEF Spec, MandateInv

(***************************************************************************)
(* A cancelled parent never works again: its tranches are over, and each   *)
(* order still open has been asked to cancel, whatever calls and reports   *)
(* follow.                                                                 *)
(***************************************************************************)
THEOREM CancelledParentIsWindingDownHolds == Spec => []CancelledParentIsWindingDown
  <1>1. MandateInv => CancelledParentIsWindingDown
    BY DEF MandateInv, WindsDown, AllRequested, Ended, CancelledParentIsWindingDown
  <1> QED
    BY <1>1, MandateInvariant, PTL

(***************************************************************************)
(* The coordinator implements the mandate it was given by the parent       *)
(* order: lots are put to work only within what is unsold and only while   *)
(* the order is not over, sales are never undone, and an order that is     *)
(* over stays over.                                                        *)
(***************************************************************************)
THEOREM ImplementsMandateHolds == Spec => ImplementsMandate
  <1>1. Init => Mandate!Init
    <2> SUFFICES ASSUME Init
                 PROVE  Mandate!Init
      OBVIOUS
    <2>1. Orders(book) = {}
      BY DEF Init, Orders
    <2>2. OpenLots(book, Orders(book)) = {}
      BY <2>1 DEF OpenLots
    <2>3. Potential(book, Orders(book)) = 0
      BY <2>2, FS_EmptySet DEF Potential
    <2> QED
      BY <2>3 DEF Init, Mandate!Init
  <1>2. MandateInv /\ [Next]_book => [Mandate!Next]_Mandate!vars
    <2> SUFFICES ASSUME MandateInv, [Next]_book
                 PROVE  [Mandate!Next]_Mandate!vars
      OBVIOUS
    <2>1. CASE UNCHANGED book
      BY <2>1 DEF Mandate!vars, Potential, OpenLots, Orders
    <2>2. CASE Next
      <3>1. Steps(book, book')
        BY <2>2, NextSteps DEF MandateInv
      <3> QED
        BY <3>1 DEF Steps, Over, Working, Potential, OpenLots, Orders,
                    Mandate!Next, Mandate!Commit, Mandate!Report
    <2> QED
      BY <2>1, <2>2
  <1> QED
    BY <1>1, <1>2, MandateInvariant, PTL DEF Spec, ImplementsMandate, Mandate!Spec
=============================================================================
