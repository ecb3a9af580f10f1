-------------------------- MODULE Coordinator_proofs --------------------------
(***************************************************************************)
(* Theorems about module Coordinator, for every value of its constants:    *)
(* the books it leaves are well formed, and the hard limits hold in them.  *)
(***************************************************************************)
EXTENDS Coordinator, ExecutionModels_proofs, FiniteSetTheorems

-----------------------------------------------------------------------------
(***************************************************************************)
(* Well-formed books.                                                      *)
(***************************************************************************)

\* The orders of a book with n child orders are 1..n.
LEMMA OrdersAreNumbered ==
    ASSUME NEW n \in Nat, NEW b \in Books(n)
    PROVE  /\ Orders(b) = 1..n
           /\ IsFiniteSet(Orders(b))
           /\ Cardinality(Orders(b)) = n
  <1>1. Orders(b) = 1..n
    BY DEF Books, Orders
  <1> QED
    BY <1>1, FS_Interval

\* Cancel requests leave a book well formed.
LEMMA CancelOrdersTyped ==
    ASSUME NEW n \in Nat, NEW b \in Books(n), NEW O
    PROVE  CancelOrders(b, O) \in Books(n)
  <1>1. Orders(b) = 1..n
    BY OrdersAreNumbered
  <1>2. ASSUME NEW c \in ChildOrder
        PROVE  [c EXCEPT !.cancel_requested = TRUE] \in ChildOrder
    BY DEF ChildOrder
  <1>3. [o \in Orders(b) |->
            IF o \in Open(b, O)
            THEN [b.child[o] EXCEPT !.cancel_requested = TRUE]
            ELSE b.child[o]] \in [1..n -> ChildOrder]
    BY <1>1, <1>2 DEF Books
  <1> QED
    BY <1>3 DEF CancelOrders, Books

\* A new order gets the next number.
NewOrder(t, quantity, price, aggressive) ==
    [tranche |-> t, price |-> price, volume |-> quantity, aggressive |-> aggressive,
     traded |-> 0, status |-> "SUBMITTING", cancel_requested |-> FALSE]

Appended(b, n, order) ==
    [b EXCEPT !.child = [o \in 1..(n + 1) |-> IF o = n + 1 THEN order ELSE b.child[o]]]

LEMMA SendOrderAppends ==
    ASSUME NEW n \in Nat, NEW b \in Books(n), NEW t,
           NEW quantity \in Int, NEW price, NEW aggressive, quantity > 0
    PROVE  SendOrder(b, t, quantity, price, aggressive) =
              Appended(b, n, NewOrder(t, quantity, price, aggressive))
  <1>1. Orders(b) = 1..n /\ Cardinality(Orders(b)) = n
    BY OrdersAreNumbered
  <1>2. Orders(b) \cup {n + 1} = 1..(n + 1)
    BY <1>1
  <1>3. ~(quantity <= 0)
    OBVIOUS
  <1>4. SendOrder(b, t, quantity, price, aggressive) =
          [b EXCEPT !.child = [o \in Orders(b) \cup {n + 1} |->
              IF o = n + 1 THEN NewOrder(t, quantity, price, aggressive) ELSE b.child[o]]]
    BY <1>1, <1>3, Zenon DEF SendOrder, NewOrder
  <1> QED
    BY <1>2, <1>4 DEF Appended

\* A book stays well formed when an order is sent.
LEMMA SendOrderTyped ==
    ASSUME NEW n \in Nat, NEW b \in Books(n), NEW t \in Tranches,
           NEW quantity \in Int, quantity <= TrancheVolume,
           NEW price \in Int, NEW aggressive \in BOOLEAN
    PROVE  SendOrder(b, t, quantity, price, aggressive) \in
              IF quantity <= 0 THEN Books(n) ELSE Books(n + 1)
  <1>1. CASE quantity <= 0
    BY <1>1 DEF SendOrder
  <1>2. CASE quantity > 0
    <2> DEFINE order == NewOrder(t, quantity, price, aggressive)
    <2>1. order \in ChildOrder
      BY <1>2, VolumeAssumption DEF NewOrder, ChildOrder, OrderStatus, ActiveStatuses
    <2> HIDE DEF order
    <2>2. [o \in 1..(n + 1) |-> IF o = n + 1 THEN order ELSE b.child[o]]
            \in [1..(n + 1) -> ChildOrder]
      BY <2>1 DEF Books
    <2>3. Appended(b, n, order) \in Books(n + 1)
      BY <2>2 DEF Appended, Books
    <2> QED
      BY <1>2, <2>3, SendOrderAppends DEF order
  <1> QED
    BY <1>1, <1>2

-----------------------------------------------------------------------------
(***************************************************************************)
(* The hard limits of a book, and what they count.                         *)
(***************************************************************************)
WellFormed(b) == \E n \in Nat : b \in Books(n)

Limits(b) ==
    /\ b.parent.traded + Potential(b, Orders(b)) <= TotalVolume
    /\ \A t \in Tranches :
          b.tranche[t].traded + Potential(b, OrdersOf(b, t)) <= TrancheVolume

\* A book the methods may start from, and must leave.
Sound(b) == WellFormed(b) /\ Limits(b)

\* The open lots are finitely many, so the potential is a number.
LEMMA PotentialIsNat ==
    ASSUME NEW b, WellFormed(b), NEW O \in SUBSET Orders(b)
    PROVE  /\ IsFiniteSet(OpenLots(b, O))
           /\ Potential(b, O) \in Nat
  <1>1. IsFiniteSet(O)
    BY OrdersAreNumbered, FS_Subset DEF WellFormed
  <1>2. IsFiniteSet(1..TrancheVolume)
    BY FS_Interval, VolumeAssumption
  <1>3. IsFiniteSet(O \X (1..TrancheVolume))
    BY <1>1, <1>2, FS_Product
  <1>4. OpenLots(b, O) \subseteq O \X (1..TrancheVolume)
    BY DEF OpenLots
  <1>5. IsFiniteSet(OpenLots(b, O))
    BY <1>3, <1>4, FS_Subset
  <1> QED
    BY <1>5, FS_CardinalityType DEF Potential

(***************************************************************************)
(* Changes of statuses and targets of the book, and cancel requests, leave *)
(* all counted lots alone.                                                 *)
(***************************************************************************)
SameLots(b, c) ==
    /\ c.parent.traded = b.parent.traded
    /\ \A t \in Tranches : c.tranche[t].traded = b.tranche[t].traded
    /\ Orders(c) = Orders(b)
    /\ \A o \in Orders(b) :
          /\ c.child[o].tranche = b.child[o].tranche
          /\ c.child[o].volume = b.child[o].volume
          /\ c.child[o].traded = b.child[o].traded
          /\ c.child[o].status = b.child[o].status

LEMMA SameLotsSamePotential ==
    ASSUME NEW b, NEW c, SameLots(b, c)
    PROVE  /\ \A O \in SUBSET Orders(b) : Potential(c, O) = Potential(b, O)
           /\ \A t \in Tranches : OrdersOf(c, t) = OrdersOf(b, t)
  <1>1. ASSUME NEW O \in SUBSET Orders(b)
        PROVE  OpenLots(c, O) = OpenLots(b, O)
    <2>1. ASSUME NEW lot \in O \X (1..TrancheVolume)
          PROVE  lot[1] \in Orders(b)
      OBVIOUS
    <2> QED
      BY <2>1 DEF OpenLots, SameLots
  <1>2. ASSUME NEW t \in Tranches
        PROVE  OrdersOf(c, t) = OrdersOf(b, t)
    BY DEF OrdersOf, SameLots
  <1> QED
    BY <1>1, <1>2 DEF Potential

LEMMA SameLotsSound ==
    ASSUME NEW b, NEW c, Sound(b), WellFormed(c), SameLots(b, c)
    PROVE  Sound(c)
  <1>1. \A t \in Tranches : OrdersOf(b, t) \in SUBSET Orders(b)
    BY DEF OrdersOf
  <1>2. /\ Potential(c, Orders(c)) = Potential(b, Orders(b))
        /\ \A t \in Tranches : Potential(c, OrdersOf(c, t)) = Potential(b, OrdersOf(b, t))
    BY <1>1, SameLotsSamePotential DEF SameLots
  <1> QED
    BY <1>2 DEF Sound, Limits, SameLots

\* Cancel requests leave a book well formed, and requested lots still count.
LEMMA CancelOrdersSameLots ==
    ASSUME NEW b, WellFormed(b), NEW O
    PROVE  /\ WellFormed(CancelOrders(b, O))
           /\ SameLots(b, CancelOrders(b, O))
  <1> DEFINE c == CancelOrders(b, O)
  <1>1. PICK n \in Nat : b \in Books(n)
    BY DEF WellFormed
  <1>2. c \in Books(n)
    BY <1>1, CancelOrdersTyped
  <1>3. Orders(c) = Orders(b)
    BY <1>1, <1>2, OrdersAreNumbered
  <1>4. ASSUME NEW o \in Orders(b)
        PROVE  /\ c.child[o].tranche = b.child[o].tranche
               /\ c.child[o].volume = b.child[o].volume
               /\ c.child[o].traded = b.child[o].traded
               /\ c.child[o].status = b.child[o].status
    <2>1. b.child[o] \in ChildOrder
      BY <1>1, OrdersAreNumbered DEF Books
    <2>2. c.child[o] = IF o \in Open(b, O)
                       THEN [b.child[o] EXCEPT !.cancel_requested = TRUE] ELSE b.child[o]
      BY <1>1 DEF CancelOrders, Books
    <2> HIDE DEF c
    <2> QED
      BY <2>1, <2>2 DEF ChildOrder
  <1>5. c.parent = b.parent /\ c.tranche = b.tranche
    BY <1>1 DEF CancelOrders, Books
  <1> HIDE DEF c
  <1> QED
    BY <1>2, <1>3, <1>4, <1>5 DEF SameLots, WellFormed, c

\* Cancel requests keep a book sound.
LEMMA CancelOrdersSound ==
    ASSUME NEW b, Sound(b), NEW O
    PROVE  Sound(CancelOrders(b, O)) /\ Orders(CancelOrders(b, O)) = Orders(b)
  BY CancelOrdersSameLots, SameLotsSound DEF Sound, SameLots

\* What is available is what the limits leave.
LEMMA AvailableIsLeft ==
    ASSUME NEW b, Sound(b), NEW t \in Tranches
    PROVE  /\ Available(b, t) \in 0..TrancheVolume
           /\ b.parent.traded + Potential(b, Orders(b)) + Available(b, t) <= TotalVolume
           /\ b.tranche[t].traded + Potential(b, OrdersOf(b, t)) + Available(b, t)
                <= TrancheVolume
  <1>1. PICK n \in Nat : b \in Books(n)
    BY DEF Sound, WellFormed
  <1>2. b.parent.traded \in 0..TotalVolume /\ b.tranche[t].traded \in 0..TrancheVolume
    BY <1>1 DEF Books
  <1>3. Potential(b, Orders(b)) \in Nat /\ Potential(b, OrdersOf(b, t)) \in Nat
    BY PotentialIsNat DEF Sound, OrdersOf
  <1>4. /\ b.parent.traded + Potential(b, Orders(b)) <= TotalVolume
        /\ b.tranche[t].traded + Potential(b, OrdersOf(b, t)) <= TrancheVolume
    BY DEF Sound, Limits
  <1> QED
    BY <1>2, <1>3, <1>4, VolumeAssumption DEF Available, Least, Greatest

\* A new order adds its volume to the lots of any set it is added to.
LEMMA AppendedPotential ==
    ASSUME NEW n \in Nat, NEW b \in Books(n), NEW t \in Tranches,
           NEW quantity \in 1..TrancheVolume, NEW price, NEW aggressive,
           NEW O \in SUBSET Orders(b)
    PROVE  LET c == Appended(b, n, NewOrder(t, quantity, price, aggressive))
           IN  /\ Potential(c, O) = Potential(b, O)
               /\ Potential(c, O \cup {n + 1}) = Potential(b, O) + quantity
  <1> DEFINE order == NewOrder(t, quantity, price, aggressive)
             c == Appended(b, n, order)
             new == {n + 1} \X (1..quantity)
  <1>1. Orders(b) = 1..n
    BY OrdersAreNumbered
  <1>2. /\ order.status \in ActiveStatuses
        /\ order.traded = 0
        /\ order.volume = quantity
    BY DEF NewOrder, ActiveStatuses
  <1> HIDE DEF order
  <1>3. /\ c.child[n + 1] = order
        /\ \A o \in O : c.child[o] = b.child[o] /\ o # n + 1
    BY <1>1 DEF Appended, Books
  <1> HIDE DEF c
  <1>4. OpenLots(c, O) = OpenLots(b, O)
    BY <1>3 DEF OpenLots
  <1>5. OpenLots(c, O \cup {n + 1}) = OpenLots(b, O) \cup new
    <2>1. OpenLots(c, {n + 1}) = new
      BY <1>2, <1>3, VolumeAssumption DEF OpenLots
    <2>2. OpenLots(c, O \cup {n + 1}) = OpenLots(c, O) \cup OpenLots(c, {n + 1})
      BY DEF OpenLots
    <2> QED
      BY <1>4, <2>1, <2>2
  <1>6. OpenLots(b, O) \cap new = {}
    <2>1. \A lot \in OpenLots(b, O) : lot[1] \in O
      BY DEF OpenLots
    <2>2. \A lot \in new : lot[1] = n + 1
      OBVIOUS
    <2> QED
      BY <1>3, <2>1, <2>2
  <1>7. IsFiniteSet(new) /\ Cardinality(new) = quantity
    <2>1. IsFiniteSet({n + 1}) /\ Cardinality({n + 1}) = 1
      BY FS_Singleton
    <2>2. IsFiniteSet(1..quantity) /\ Cardinality(1..quantity) = quantity
      BY FS_Interval
    <2>3. /\ IsFiniteSet(new)
          /\ Cardinality(new) = Cardinality({n + 1}) * Cardinality(1..quantity)
      BY <2>1, <2>2, FS_Product
    <2> QED
      BY <2>1, <2>2, <2>3
  <1>8. IsFiniteSet(OpenLots(b, O)) /\ Potential(b, O) \in Nat
    BY PotentialIsNat DEF WellFormed
  <1>9. Cardinality(OpenLots(b, O) \cup new) = Cardinality(OpenLots(b, O)) + quantity
    <2> HIDE DEF new
    <2>1. Cardinality(OpenLots(b, O) \cup new) =
            Cardinality(OpenLots(b, O)) + Cardinality(new)
              - Cardinality(OpenLots(b, O) \cap new)
      BY <1>7, <1>8, FS_Union
    <2>2. Cardinality(OpenLots(b, O) \cap new) = 0
      BY <1>6, FS_EmptySet
    <2> QED
      BY <1>7, <1>8, <2>1, <2>2 DEF Potential
  <1> QED
    BY <1>4, <1>5, <1>9 DEF Potential, c, order

\* An order within what is available keeps a book sound.
LEMMA SendOrderSound ==
    ASSUME NEW b, Sound(b), NEW t \in Tranches,
           NEW quantity \in Int, quantity <= Available(b, t),
           NEW price \in Int, NEW aggressive \in BOOLEAN
    PROVE  Sound(SendOrder(b, t, quantity, price, aggressive))
  <1> DEFINE c == SendOrder(b, t, quantity, price, aggressive)
  <1>1. PICK n \in Nat : b \in Books(n)
    BY DEF Sound, WellFormed
  <1>2. /\ Available(b, t) \in 0..TrancheVolume
        /\ b.parent.traded + Potential(b, Orders(b)) + Available(b, t) <= TotalVolume
        /\ b.tranche[t].traded + Potential(b, OrdersOf(b, t)) + Available(b, t)
             <= TrancheVolume
    BY AvailableIsLeft
  <1>3. CASE quantity <= 0
    BY <1>3 DEF SendOrder
  <1>4. CASE quantity > 0
    <2> DEFINE order == NewOrder(t, quantity, price, aggressive)
    <2>1. quantity \in 1..TrancheVolume
      BY <1>2, <1>4, VolumeAssumption
    <2>2. c = Appended(b, n, order)
      BY <1>1, <1>4, SendOrderAppends
    <2>3. c \in Books(n + 1)
      BY <1>1, <1>4, <2>1, VolumeAssumption, SendOrderTyped
    <2>4. /\ Orders(b) = 1..n
          /\ Orders(c) = Orders(b) \cup {n + 1}
      BY <1>1, <2>3, OrdersAreNumbered
    <2>5. /\ c.parent = b.parent
          /\ c.tranche = b.tranche
          /\ c.child[n + 1].tranche = t
          /\ \A o \in Orders(b) : c.child[o] = b.child[o]
      BY <1>1, <2>2, <2>4 DEF Appended, Books, NewOrder
    <2>6. ASSUME NEW O \in SUBSET Orders(b)
          PROVE  /\ Potential(c, O) = Potential(b, O)
                 /\ Potential(c, O \cup {n + 1}) = Potential(b, O) + quantity
      BY <1>1, <2>1, <2>2, AppendedPotential
    <2> HIDE DEF c
    <2>7. ASSUME NEW s \in Tranches
          PROVE  OrdersOf(c, s) = IF s = t THEN OrdersOf(b, s) \cup {n + 1} ELSE OrdersOf(b, s)
      BY <2>4, <2>5 DEF OrdersOf
    <2>8. \A s \in Tranches : OrdersOf(b, s) \in SUBSET Orders(b)
      BY DEF OrdersOf
    <2>9. /\ b.parent.traded \in Nat
          /\ \A s \in Tranches : b.tranche[s].traded \in Nat
          /\ Potential(b, Orders(b)) \in Nat
          /\ \A s \in Tranches : Potential(b, OrdersOf(b, s)) \in Nat
      BY <1>1, <2>8, PotentialIsNat DEF Sound, Books
    <2>10. c.parent.traded + Potential(c, Orders(c)) <= TotalVolume
      <3>1. Potential(c, Orders(c)) = Potential(b, Orders(b)) + quantity
        BY <2>4, <2>6
      <3> QED
        BY <1>2, <2>1, <2>5, <2>9, <3>1, VolumeAssumption
    <2>11. ASSUME NEW s \in Tranches
           PROVE  c.tranche[s].traded + Potential(c, OrdersOf(c, s)) <= TrancheVolume
      <3>1. CASE s = t
        <4>1. Potential(c, OrdersOf(c, s)) = Potential(b, OrdersOf(b, t)) + quantity
          BY <2>6, <2>7, <2>8, <3>1
        <4> QED
          BY <1>2, <2>1, <2>5, <2>9, <3>1, <4>1, VolumeAssumption
      <3>2. CASE s # t
        BY <2>5, <2>6, <2>7, <2>8, <3>2 DEF Sound, Limits
      <3> QED
        BY <3>1, <3>2
    <2> QED
      BY <2>3, <2>10, <2>11 DEF Sound, WellFormed, Limits, c
  <1> QED
    BY <1>3, <1>4

-----------------------------------------------------------------------------
(***************************************************************************)
(* The methods keep a book sound.                                          *)
(***************************************************************************)

\* New statuses and targets do, when they are well formed.
LEMMA RelabelledSound ==
    ASSUME NEW b, NEW c, Sound(b), WellFormed(c),
           c.child = b.child, c.parent.traded = b.parent.traded,
           \A t \in Tranches : c.tranche[t].traded = b.tranche[t].traded
    PROVE  Sound(c)
  <1>1. SameLots(b, c)
    BY DEF SameLots, Orders
  <1> QED
    BY <1>1, SameLotsSound

LEMMA FillBucketSound ==
    ASSUME NEW b, Sound(b), NEW t \in Tranches, NEW bid \in Int,
           NEW allocation \in Allocations, NEW k \in Levels
    PROVE  Sound(FillBucket(b, t, bid, allocation, k))
  <1> DEFINE quantity == Least(allocation[k] - Potential(b, AtBucket(b, t, bid, k)),
                               Available(b, t))
  <1>1. allocation[k] \in Nat
    BY DEF Allocations, Buckets, Levels
  <1>2. Available(b, t) \in Int
    BY AvailableIsLeft, VolumeAssumption
  <1>3. AtBucket(b, t, bid, k) \in SUBSET Orders(b)
    BY DEF AtBucket, Open, OrdersOf
  <1>4. Potential(b, AtBucket(b, t, bid, k)) \in Nat
    BY <1>3, PotentialIsNat DEF Sound
  <1>5. quantity \in Int /\ quantity <= Available(b, t)
    BY <1>1, <1>2, <1>4 DEF Least
  <1>6. bid + k * Tick \in Int
    BY TickAssumption DEF Levels
  <1> HIDE DEF quantity
  <1>7. Sound(SendOrder(b, t, quantity, bid + k * Tick, k = 0))
    BY <1>5, <1>6, SendOrderSound
  <1> QED
    BY <1>7 DEF FillBucket, quantity

LEMMA DeploySound ==
    ASSUME NEW b, Sound(b), NEW t \in Tranches, NEW bid \in Int,
           NEW allocation \in Allocations
    PROVE  Sound(Deploy(b, t, bid, allocation))
  <1> DEFINE b0 == FillBucket(b,  t, bid, allocation, 0)
             b1 == FillBucket(b0, t, bid, allocation, 1)
             b2 == FillBucket(b1, t, bid, allocation, 2)
             b3 == FillBucket(b2, t, bid, allocation, 3)
             b4 == FillBucket(b3, t, bid, allocation, 4)
             b5 == FillBucket(b4, t, bid, allocation, 5)
  <1> HIDE DEF b0, b1, b2, b3, b4, b5
  <1>0. Sound(b0)
    BY FillBucketSound DEF b0, Levels
  <1>1. Sound(b1)
    BY <1>0, FillBucketSound DEF b1, Levels
  <1>2. Sound(b2)
    BY <1>1, FillBucketSound DEF b2, Levels
  <1>3. Sound(b3)
    BY <1>2, FillBucketSound DEF b3, Levels
  <1>4. Sound(b4)
    BY <1>3, FillBucketSound DEF b4, Levels
  <1>5. Sound(b5)
    BY <1>4, FillBucketSound DEF b5, Levels
  <1>6. Deploy(b, t, bid, allocation) = b5
    BY Zenon DEF Deploy, b0, b1, b2, b3, b4, b5
  <1> QED
    BY <1>5, <1>6

LEMMA ReconciledSound ==
    ASSUME NEW b, Sound(b), NEW t \in Tranches
    PROVE  Sound(Reconciled(b, t))
  <1> DEFINE allocation == b.target[t].allocation
             bid == b.target[t].bid
             trimmed == CancelOrders(b, Excess(b, t, bid, allocation))
  <1>1. CASE b.target[t] = NoTarget \/ b.parent.status # "RUNNING"
    BY <1>1, Zenon DEF Reconciled
  <1>2. CASE ~(b.target[t] = NoTarget \/ b.parent.status # "RUNNING")
    <2>1. b.target[t] \in Target
      BY <1>2 DEF Sound, WellFormed, Books
    <2>2. allocation \in Allocations /\ bid \in Int
      BY <2>1, MarketAssumption DEF Target
    <2> HIDE DEF allocation, bid
    <2>3. Sound(trimmed)
      BY CancelOrdersSound
    <2> HIDE DEF trimmed
    <2>4. Sound(Deploy(trimmed, t, bid, allocation))
      BY <2>2, <2>3, DeploySound
    <2>5. Reconciled(b, t) = IF CancelPending(trimmed, t) THEN trimmed
                             ELSE Deploy(trimmed, t, bid, allocation)
      BY <1>2, Zenon DEF Reconciled, trimmed, allocation, bid
    <2> QED
      BY <2>3, <2>4, <2>5
  <1> QED
    BY <1>1, <1>2

\* What a tranche still has to sell is a natural number.
LEMMA RemainingIsNat ==
    ASSUME NEW b, WellFormed(b), NEW t \in Tranches
    PROVE  /\ Remaining(b, t) \in 0..TrancheVolume
           /\ Remaining(b, t) = TrancheVolume - b.tranche[t].traded
           /\ b.tranche[t].traded \in 0..TrancheVolume
  <1>1. b.tranche[t].traded \in 0..TrancheVolume
    BY DEF WellFormed, Books
  <1> QED
    BY <1>1, VolumeAssumption DEF Remaining, Greatest

LEMMA IntentAppliedSound ==
    ASSUME NEW b, Sound(b), NEW t \in Tranches, NEW intent \in Intents, NEW bid \in Bids
    PROVE  Sound(IntentApplied(b, t, intent, bid))
  <1> DEFINE target == [allocation |-> TargetQuantities(intent, Remaining(b, t)), bid |-> bid]
             c == [b EXCEPT !.target[t] = target]
  <1>1. target \in Target
    <2>1. TargetQuantities(intent, Remaining(b, t)) \in Allocations
      BY IntentAssumption, VolumeAssumption, RemainingIsNat, TargetQuantitiesDivide DEF Sound
    <2> QED
      BY <2>1 DEF Target
  <1> HIDE DEF target
  <1>2. WellFormed(c)
    BY <1>1 DEF Sound, WellFormed, Books
  <1>3. c.child = b.child /\ c.parent = b.parent /\ c.tranche = b.tranche
    BY DEF Sound, WellFormed, Books
  <1> HIDE DEF c
  <1>4. Sound(c)
    BY <1>2, <1>3, RelabelledSound
  <1> QED
    BY <1>4, ReconciledSound DEF IntentApplied, c, target

LEMMA PendingReconciledSound ==
    ASSUME NEW b, Sound(b), NEW t \in Tranches, NEW bid \in Bids
    PROVE  Sound(PendingReconciled(b, t, bid))
  <1> DEFINE c == [b EXCEPT !.target[t] = [@ EXCEPT !.bid = bid]]
  <1>1. CASE b.target[t] = NoTarget \/ b.tranche[t].status # "ACTIVE"
    BY <1>1 DEF PendingReconciled
  <1>2. CASE ~(b.target[t] = NoTarget \/ b.tranche[t].status # "ACTIVE")
    <2>1. b.target[t] \in Target
      BY <1>2 DEF Sound, WellFormed, Books
    <2>2. [b.target[t] EXCEPT !.bid = bid] \in Target
      BY <2>1 DEF Target
    <2>3. WellFormed(c)
      BY <2>2 DEF Sound, WellFormed, Books
    <2>4. c.child = b.child /\ c.parent = b.parent /\ c.tranche = b.tranche
      BY DEF Sound, WellFormed, Books
    <2> HIDE DEF c
    <2>5. Sound(c)
      BY <2>3, <2>4, RelabelledSound
    <2>6. Sound(Reconciled(c, t))
      BY <2>5, ReconciledSound
    <2> QED
      BY <1>2, <2>6, Zenon DEF PendingReconciled, c
  <1> QED
    BY <1>1, <1>2

\* A tranche may change its status.
LEMMA StatusSound ==
    ASSUME NEW b, Sound(b), NEW t \in Tranches, NEW status \in TrancheStatus
    PROVE  Sound([b EXCEPT !.tranche[t].status = status])
  <1> DEFINE c == [b EXCEPT !.tranche[t].status = status]
  <1>1. b.tranche[t] \in [status : TrancheStatus, traded : 0..TrancheVolume]
    BY DEF Sound, WellFormed, Books
  <1>2. WellFormed(c)
    BY <1>1 DEF Sound, WellFormed, Books
  <1>3. /\ c.child = b.child /\ c.parent = b.parent
        /\ \A s \in Tranches : c.tranche[s].traded = b.tranche[s].traded
    BY <1>1 DEF Sound, WellFormed, Books
  <1> HIDE DEF c
  <1> QED
    BY <1>2, <1>3, RelabelledSound DEF c

LEMMA CloseFinishedSound ==
    ASSUME NEW b, Sound(b), NEW t \in Tranches, NEW bid \in Bids
    PROVE  Sound(CloseFinished(b, t, bid))
  <1> DEFINE open == Open(b, OrdersOf(b, t))
             quantity == Least(Remaining(b, t), Available(b, t))
  <1>1. Sound([b EXCEPT !.tranche[t].status = "COMPLETED"])
    BY StatusSound DEF TrancheStatus
  <1>2. Sound(CancelOrders(b, {o \in open : Bucket(b.child[o], bid) # 0}))
    BY CancelOrdersSound
  <1>3. quantity \in Int /\ quantity <= Available(b, t)
    BY RemainingIsNat, AvailableIsLeft, VolumeAssumption DEF Sound, Least
  <1>4. bid \in Int
    BY MarketAssumption
  <1> HIDE DEF quantity
  <1>5. Sound(SendOrder(b, t, quantity, bid, TRUE))
    BY <1>3, <1>4, SendOrderSound
  <1> QED
    BY <1>1, <1>2, <1>5, Zenon DEF CloseFinished, quantity

LEMMA CloseBegunSound ==
    ASSUME NEW b, Sound(b), NEW t \in Tranches, NEW bid \in Bids
    PROVE  Sound(CloseBegun(b, t, bid))
  <1> DEFINE closing == [b EXCEPT !.tranche[t].status = "CLOSING", !.target[t] = NoTarget]
             asked == CancelOrders(closing, OrdersOf(closing, t))
  <1>1. b.tranche[t] \in [status : TrancheStatus, traded : 0..TrancheVolume]
    BY DEF Sound, WellFormed, Books
  <1>2. WellFormed(closing)
    BY <1>1 DEF Sound, WellFormed, Books, TrancheStatus
  <1>3. /\ closing.child = b.child /\ closing.parent = b.parent
        /\ \A s \in Tranches : closing.tranche[s].traded = b.tranche[s].traded
    BY <1>1 DEF Sound, WellFormed, Books
  <1> HIDE DEF closing
  <1>4. Sound(closing)
    BY <1>2, <1>3, RelabelledSound
  <1>5. Sound(asked)
    BY <1>4, CancelOrdersSound
  <1> HIDE DEF asked
  <1>6. Sound(CloseFinished(asked, t, bid)) /\ Sound(CloseFinished(b, t, bid))
    BY <1>5, CloseFinishedSound
  <1> QED
    BY <1>6, Zenon DEF CloseBegun, closing, asked

LEMMA PausedSound ==
    ASSUME NEW b, Sound(b)
    PROVE  Sound(Paused(b)) /\ Orders(Paused(b)) = Orders(b)
  <1> DEFINE c == [b EXCEPT !.parent.status = "PAUSED",
                            !.target  = Untargeted,
                            !.tranche = [t \in Tranches |->
                               IF b.tranche[t].status = "ACTIVE"
                               THEN [b.tranche[t] EXCEPT !.status = "CLOSING"]
                               ELSE b.tranche[t]]]
  <1>1. \A t \in Tranches :
          b.tranche[t] \in [status : TrancheStatus, traded : 0..TrancheVolume]
    BY DEF Sound, WellFormed, Books
  <1>2. b.parent \in [status : ParentStatus, traded : 0..TotalVolume]
    BY DEF Sound, WellFormed, Books
  <1>3. Untargeted \in [Tranches -> Target \cup {NoTarget}]
    BY DEF Untargeted
  <1>4. \A t \in Tranches :
          [b.tranche[t] EXCEPT !.status = "CLOSING"]
             \in [status : TrancheStatus, traded : 0..TrancheVolume]
    BY <1>1 DEF TrancheStatus
  <1>5. WellFormed(c)
    BY <1>1, <1>2, <1>3, <1>4 DEF Sound, WellFormed, Books, ParentStatus
  <1>6. /\ c.child = b.child
        /\ c.parent.traded = b.parent.traded
        /\ \A t \in Tranches : c.tranche[t].traded = b.tranche[t].traded
    BY <1>1, <1>2 DEF Sound, WellFormed, Books
  <1> HIDE DEF c
  <1>7. Sound(c) /\ Orders(c) = Orders(b)
    BY <1>5, <1>6, RelabelledSound DEF Orders
  <1>8. /\ Sound(CancelOrders(c, Orders(b)))
        /\ Orders(CancelOrders(c, Orders(b))) = Orders(b)
    BY <1>7, CancelOrdersSound
  <1> QED
    BY <1>8, Zenon DEF Paused, c

LEMMA ResumedSound ==
    ASSUME NEW b, Sound(b)
    PROVE  Sound(Resumed(b)) /\ Orders(Resumed(b)) = Orders(b)
  <1> DEFINE c == Resumed(b)
  <1>1. \A t \in Tranches :
          /\ b.tranche[t] \in [status : TrancheStatus, traded : 0..TrancheVolume]
          /\ [b.tranche[t] EXCEPT !.status = "WAITING"]
                \in [status : TrancheStatus, traded : 0..TrancheVolume]
    BY DEF Sound, WellFormed, Books, TrancheStatus
  <1>2. b.parent \in [status : ParentStatus, traded : 0..TotalVolume]
    BY DEF Sound, WellFormed, Books
  <1>3. WellFormed(c)
    BY <1>1, <1>2 DEF Sound, WellFormed, Books, ParentStatus, Resumed
  <1>4. /\ c.child = b.child
        /\ c.parent.traded = b.parent.traded
        /\ \A t \in Tranches : c.tranche[t].traded = b.tranche[t].traded
    BY <1>1, <1>2 DEF Sound, WellFormed, Books, Resumed
  <1> HIDE DEF c
  <1> QED
    BY <1>3, <1>4, RelabelledSound DEF c, Orders

LEMMA CancelledSound ==
    ASSUME NEW b, Sound(b)
    PROVE  Sound(Cancelled(b)) /\ Orders(Cancelled(b)) = Orders(b)
  <1> DEFINE c == [b EXCEPT !.parent.status = "CANCELLED",
                            !.target  = Untargeted,
                            !.tranche = [t \in Tranches |->
                               IF b.tranche[t].status \in {"COMPLETED", "ERROR"}
                               THEN b.tranche[t]
                               ELSE [b.tranche[t] EXCEPT !.status = "CANCELLED"]]]
  <1>1. \A t \in Tranches :
          /\ b.tranche[t] \in [status : TrancheStatus, traded : 0..TrancheVolume]
          /\ [b.tranche[t] EXCEPT !.status = "CANCELLED"]
                \in [status : TrancheStatus, traded : 0..TrancheVolume]
    BY DEF Sound, WellFormed, Books, TrancheStatus
  <1>2. b.parent \in [status : ParentStatus, traded : 0..TotalVolume]
    BY DEF Sound, WellFormed, Books
  <1>3. Untargeted \in [Tranches -> Target \cup {NoTarget}]
    BY DEF Untargeted
  <1>4. WellFormed(c)
    BY <1>1, <1>2, <1>3 DEF Sound, WellFormed, Books, ParentStatus
  <1>5. /\ c.child = b.child
        /\ c.parent.traded = b.parent.traded
        /\ \A t \in Tranches : c.tranche[t].traded = b.tranche[t].traded
    BY <1>1, <1>2 DEF Sound, WellFormed, Books
  <1> HIDE DEF c
  <1>6. Sound(c) /\ Orders(c) = Orders(b)
    BY <1>4, <1>5, RelabelledSound DEF Orders
  <1>7. /\ Sound(CancelOrders(c, Orders(b)))
        /\ Orders(CancelOrders(c, Orders(b))) = Orders(b)
    BY <1>6, CancelOrdersSound
  <1> QED
    BY <1>7, Zenon DEF Cancelled, c

LEMMA SettledSound ==
    ASSUME NEW b, Sound(b), NEW t \in Tranches
    PROVE  Sound(Settled(b, t)) /\ Orders(Settled(b, t)) = Orders(b)
  <1> DEFINE done == [b EXCEPT !.tranche[t].status = "COMPLETED", !.target[t] = NoTarget]
             filled == IF Remaining(b, t) # 0 THEN b
                       ELSE CancelOrders(done, OrdersOf(b, t))
             sold == [filled EXCEPT !.parent.status = "COMPLETED"]
  <1>1. b.tranche[t] \in [status : TrancheStatus, traded : 0..TrancheVolume]
    BY DEF Sound, WellFormed, Books
  <1>2. WellFormed(done)
    BY <1>1 DEF Sound, WellFormed, Books, TrancheStatus
  <1>3. /\ done.child = b.child /\ done.parent = b.parent
        /\ \A s \in Tranches : done.tranche[s].traded = b.tranche[s].traded
    BY <1>1 DEF Sound, WellFormed, Books
  <1> HIDE DEF done
  <1>4. Sound(done) /\ Orders(done) = Orders(b)
    BY <1>2, <1>3, RelabelledSound DEF Orders
  <1>5. Sound(filled) /\ Orders(filled) = Orders(b)
    BY <1>4, CancelOrdersSound
  <1> HIDE DEF filled
  <1>6. WellFormed(sold)
    BY <1>5 DEF Sound, WellFormed, Books, ParentStatus
  <1>7. /\ sold.child = filled.child /\ sold.parent.traded = filled.parent.traded
        /\ \A s \in Tranches : sold.tranche[s].traded = filled.tranche[s].traded
    BY <1>5 DEF Sound, WellFormed, Books
  <1> HIDE DEF sold
  <1>8. Sound(sold) /\ Orders(sold) = Orders(b)
    BY <1>5, <1>6, <1>7, RelabelledSound DEF Orders
  <1>9. Settled(b, t) = IF ParentRemaining(b) # 0 THEN filled ELSE sold
    BY Zenon DEF Settled, done, filled, sold
  <1> QED
    BY <1>5, <1>8, <1>9

(***************************************************************************)
(* A report turns d lots of an order from potential into sold: what it     *)
(* adds to the fills, the order's open lots lose.                          *)
(***************************************************************************)
Filled(b, o, traded) == {o} \X ((b.child[o].traded + 1)..traded)

LEMMA FilledLotsAreDelta ==
    ASSUME NEW b, WellFormed(b), NEW o \in Orders(b), NEW traded \in 0..TrancheVolume
    PROVE  /\ IsFiniteSet(Filled(b, o, traded))
           /\ Cardinality(Filled(b, o, traded)) = Delta(b, o, traded)
           /\ Delta(b, o, traded) \in Nat
  <1>1. b.child[o].traded \in Nat /\ traded \in Nat
    <2>1. b.child[o] \in ChildOrder
      BY DEF WellFormed, Books, Orders
    <2>2. b.child[o].traded \in 0..TrancheVolume
      BY <2>1 DEF ChildOrder
    <2> QED BY <2>2, VolumeAssumption
  <1>2. IsFiniteSet({o}) /\ Cardinality({o}) = 1
    BY FS_Singleton
  <1> DEFINE lots == (b.child[o].traded + 1)..traded
  <1>3. IsFiniteSet(lots) /\ Cardinality(lots) = Delta(b, o, traded)
    <2>1. b.child[o].traded + 1 \in Int /\ traded \in Int
      BY <1>1
    <2>2. /\ IsFiniteSet(lots)
          /\ Cardinality(lots) =
               IF b.child[o].traded + 1 > traded THEN 0
               ELSE traded - (b.child[o].traded + 1) + 1
      BY <2>1, FS_Interval, Zenon
    <2> HIDE DEF lots
    <2> QED
      BY <1>1, <2>2 DEF Delta, Greatest
  <1>4. Delta(b, o, traded) \in Nat
    BY <1>1 DEF Delta, Greatest
  <1> HIDE DEF lots
  <1>5. /\ IsFiniteSet({o} \X lots)
        /\ Cardinality({o} \X lots) = Cardinality({o}) * Cardinality(lots)
    BY <1>2, <1>3, FS_Product
  <1> QED
    BY <1>2, <1>3, <1>4, <1>5 DEF Filled, lots

\* What a report makes of its child order.
LEMMA RecordedChild ==
    ASSUME NEW b, WellFormed(b), NEW o \in Orders(b),
           NEW traded \in 0..TrancheVolume, NEW status \in OrderStatus,
           Reportable(b, o, traded, status)
    PROVE  LET c == Recorded(b, o, traded, status)
           IN  /\ WellFormed(c)
               /\ Orders(c) = Orders(b)
               /\ \A p \in Orders(b) \ {o} : c.child[p] = b.child[p]
               /\ c.child[o] \in ChildOrder
               /\ c.child[o].tranche = b.child[o].tranche
               /\ c.child[o].volume = b.child[o].volume
               /\ c.child[o].traded = Greatest(traded, b.child[o].traded)
               /\ c.child[o].status = IF Accepts(b, o, status) THEN status
                                      ELSE b.child[o].status
               /\ c.parent.traded =
                     Least(b.parent.traded + Delta(b, o, traded), TotalVolume)
               /\ \A t \in Tranches :
                     c.tranche[t].traded =
                        IF t = b.child[o].tranche
                        THEN Least(b.tranche[t].traded + Delta(b, o, traded), TrancheVolume)
                        ELSE b.tranche[t].traded
               /\ \A t \in Tranches :
                     c.target[t] = IF t = b.child[o].tranche THEN TargetAfterFill(b, o, traded)
                                   ELSE b.target[t]
               /\ c.child[o].cancel_requested = b.child[o].cancel_requested
               /\ c.parent.status = b.parent.status
               /\ \A t \in Tranches : c.tranche[t].status = b.tranche[t].status
  <1> DEFINE c == Recorded(b, o, traded, status)
             t == b.child[o].tranche
             d == Delta(b, o, traded)
             next == [b.child[o] EXCEPT !.traded = @ + d,
                                        !.status = IF Accepts(b, o, status) THEN status ELSE @]
             filled == [b.tranche[t] EXCEPT !.traded = Least(@ + d, TrancheVolume)]
             sold == [b.parent EXCEPT !.traded = Least(@ + d, TotalVolume)]
             target == TargetAfterFill(b, o, traded)
  <1>1. PICK n \in Nat : b \in Books(n)
    BY DEF WellFormed
  <1>2. Orders(b) = 1..n /\ b.child[o] \in ChildOrder /\ t \in Tranches
    BY <1>1, OrdersAreNumbered DEF Books, ChildOrder
  <1>3. /\ d \in Nat
        /\ b.child[o].traded \in Nat
        /\ traded \in Nat
        /\ b.child[o].traded + d = Greatest(traded, b.child[o].traded)
        /\ Greatest(traded, b.child[o].traded) \in 0..TrancheVolume
    BY <1>2, VolumeAssumption DEF ChildOrder, Delta, Greatest
  <1>4. /\ next \in ChildOrder
        /\ next.tranche = t
        /\ next.volume = b.child[o].volume
        /\ next.traded = Greatest(traded, b.child[o].traded)
        /\ next.status = IF Accepts(b, o, status) THEN status ELSE b.child[o].status
        /\ next.cancel_requested = b.child[o].cancel_requested
    <2> HIDE DEF d
    <2> QED
      BY <1>2, <1>3 DEF ChildOrder
  <1>5. /\ filled \in [status : TrancheStatus, traded : 0..TrancheVolume]
        /\ filled.traded = Least(b.tranche[t].traded + d, TrancheVolume)
        /\ filled.status = b.tranche[t].status
    <2>1. b.tranche[t] \in [status : TrancheStatus, traded : 0..TrancheVolume]
      BY <1>1, <1>2 DEF Books
    <2> HIDE DEF t, d
    <2> QED
      BY <1>3, <2>1, VolumeAssumption DEF Least
  <1>6. /\ sold \in [status : ParentStatus, traded : 0..TotalVolume]
        /\ sold.traded = Least(b.parent.traded + d, TotalVolume)
        /\ sold.status = b.parent.status
    <2>1. b.parent \in [status : ParentStatus, traded : 0..TotalVolume]
      BY <1>1 DEF Books
    <2> HIDE DEF d
    <2> QED
      BY <1>3, <2>1, VolumeAssumption DEF Least
  <1>7. target \in Target \cup {NoTarget}
    <2>1. b.target[t] \in Target \cup {NoTarget}
      BY <1>1, <1>2 DEF Books
    <2>2. CASE b.target[t] = NoTarget \/ FillExceedsTarget(b, o, traded)
      BY <2>1, <2>2, Zenon DEF TargetAfterFill
    <2>3. CASE ~(b.target[t] = NoTarget \/ FillExceedsTarget(b, o, traded))
      <3> DEFINE old == b.target[t]
                 preferred == PreferredBucket(b.child[o], old.bid)
                 new == Consumed(old.allocation, preferred, d)
      <3>1. old \in Target
        BY <2>1, <2>3
      <3>2. old.allocation \in Allocations
        BY <3>1 DEF Target
      <3>3. preferred \in Buckets
        BY DEF PreferredBucket, Bucket, Buckets, Inactive, OffGrid
      <3> HIDE DEF old, preferred, d
      <3>4. new \in Allocations
        BY <1>3, <3>2, <3>3, ConsumedTakesTheFill
      <3>5. target = [old EXCEPT !.allocation = new]
        BY <2>3, Zenon DEF TargetAfterFill, old, preferred, d
      <3> HIDE DEF new, target
      <3> QED
        BY <3>1, <3>4, <3>5 DEF Target
    <2> QED
      BY <2>2, <2>3
  <1> HIDE DEF d, target
  <1>8. /\ c.child = [b.child EXCEPT ![o] = next]
        /\ c.tranche = [b.tranche EXCEPT ![t] = filled]
        /\ c.parent = sold
        /\ c.target = [b.target EXCEPT ![t] = target]
        /\ c = [parent |-> c.parent, tranche |-> c.tranche,
                child |-> c.child, target |-> c.target]
    <2> DEFINE status0 == IF Accepts(b, o, status) THEN status ELSE b.child[o].status
    <2>1. c = [b EXCEPT !.child[o].traded = b.child[o].traded + d,
                        !.child[o].status = status0,
                        !.tranche[t].traded = Least(@ + d, TrancheVolume),
                        !.parent.traded = Least(@ + d, TotalVolume),
                        !.target[t] = target]
      BY Zenon DEF Recorded, d, target
    <2> HIDE DEF c, status0
    <2>2. /\ b.child \in [1..n -> ChildOrder]
          /\ b.tranche \in [Tranches -> [status : TrancheStatus, traded : 0..TrancheVolume]]
          /\ b.parent \in [status : ParentStatus, traded : 0..TotalVolume]
          /\ b.target \in [Tranches -> Target \cup {NoTarget}]
          /\ b = [parent |-> b.parent, tranche |-> b.tranche,
                  child |-> b.child, target |-> b.target]
      BY <1>1 DEF Books
    <2>3. c.child = [b.child EXCEPT ![o] = next]
      <3>1. c.child = [b.child EXCEPT ![o].traded = b.child[o].traded + d,
                                      ![o].status = status0]
        BY <2>1, <2>2
      <3>2. next = [b.child[o] EXCEPT !.traded = b.child[o].traded + d, !.status = status0]
        BY DEF status0
      <3> QED
        BY <1>2, <2>2, <3>1, <3>2
    <2>4. c.tranche = [b.tranche EXCEPT ![t] = filled]
      BY <2>1, <2>2
    <2>5. c.parent = sold
      BY <2>1, <2>2
    <2>6. c.target = [b.target EXCEPT ![t] = target]
      BY <2>1, <2>2
    <2>7. c = [parent |-> c.parent, tranche |-> c.tranche,
               child |-> c.child, target |-> c.target]
      BY <2>1, <2>2
    <2> QED
      BY <2>3, <2>4, <2>5, <2>6, <2>7
  <1> HIDE DEF c, next, filled, sold, t
  <1>9. c \in Books(n)
    <2>1. c.child \in [1..n -> ChildOrder]
      BY <1>1, <1>4, <1>8 DEF Books
    <2>2. c.tranche \in [Tranches -> [status : TrancheStatus, traded : 0..TrancheVolume]]
      BY <1>1, <1>5, <1>8 DEF Books
    <2>3. c.target \in [Tranches -> Target \cup {NoTarget}]
      BY <1>1, <1>7, <1>8 DEF Books
    <2> QED
      BY <1>6, <1>8, <2>1, <2>2, <2>3 DEF Books
  <1>10. /\ c.child[o] = next
         /\ \A p \in Orders(b) \ {o} : c.child[p] = b.child[p]
         /\ c.tranche[t] = filled
         /\ \A s \in Tranches \ {t} : c.tranche[s] = b.tranche[s]
         /\ c.parent = sold
         /\ c.target[t] = target
         /\ \A s \in Tranches \ {t} : c.target[s] = b.target[s]
    BY <1>1, <1>2, <1>8 DEF Books
  <1>11. Orders(c) = Orders(b)
    BY <1>1, <1>9, OrdersAreNumbered
  <1> QED
    BY <1>4, <1>5, <1>6, <1>9, <1>10, <1>11, Zenon DEF WellFormed, c, d, t, target

\* The lots a report executes were open lots of its order.
LEMMA FillComesFromOpenLots ==
    ASSUME NEW b, Sound(b), NEW o \in Orders(b),
           NEW traded \in 0..TrancheVolume, NEW status \in OrderStatus,
           Reportable(b, o, traded, status),
           NEW O \in SUBSET Orders(b), o \in O
    PROVE  Delta(b, o, traded) + Potential(Recorded(b, o, traded, status), O)
             <= Potential(b, O)
  <1> DEFINE c == Recorded(b, o, traded, status)
             t == b.child[o].tranche
             d == Delta(b, o, traded)
  <1>1. /\ WellFormed(c)
        /\ Orders(c) = Orders(b)
        /\ \A p \in Orders(b) \ {o} : c.child[p] = b.child[p]
        /\ c.child[o].tranche = t
        /\ c.child[o].volume = b.child[o].volume
        /\ c.child[o].traded = Greatest(traded, b.child[o].traded)
        /\ c.child[o].status = IF Accepts(b, o, status) THEN status ELSE b.child[o].status
        /\ c.parent.traded = Least(b.parent.traded + d, TotalVolume)
        /\ \A s \in Tranches :
              c.tranche[s].traded = IF s = t THEN Least(b.tranche[s].traded + d, TrancheVolume)
                                    ELSE b.tranche[s].traded
    <2>1. WellFormed(b)
      BY DEF Sound
    <2> QED
      BY <2>1, RecordedChild
  <1>2. /\ b.child[o].traded \in Nat /\ b.child[o].volume \in Nat /\ traded \in Nat
        /\ traded <= b.child[o].volume
        /\ b.child[o].status \in FinalStatuses => traded <= b.child[o].traded
        /\ b.child[o].status \in OrderStatus
    <2>1. b.child[o] \in ChildOrder
      BY OrdersAreNumbered DEF Sound, WellFormed, Books
    <2>2. traded \in Nat
      BY VolumeAssumption
    <2> QED
      BY <2>1, <2>2, VolumeAssumption DEF ChildOrder, Reportable
  <1>3. /\ IsFiniteSet(Filled(b, o, traded))
        /\ Cardinality(Filled(b, o, traded)) = d
        /\ d \in Nat
    BY FilledLotsAreDelta DEF Sound
  <1>4. c.child[o].status \in ActiveStatuses => b.child[o].status \in ActiveStatuses
    BY <1>1, <1>2 DEF Accepts, OrderStatus, ActiveStatuses, FinalStatuses
  <1> HIDE DEF c, d
  <1>5. d + Potential(c, O) <= Potential(b, O)
    <2>1. OpenLots(c, O) \subseteq OpenLots(b, O) \ Filled(b, o, traded)
      <3> SUFFICES ASSUME NEW lot \in OpenLots(c, O)
                   PROVE  lot \in OpenLots(b, O) /\ lot \notin Filled(b, o, traded)
        OBVIOUS
      <3>1. lot \in O \X (1..TrancheVolume)
        BY DEF OpenLots
      <3>2. CASE lot[1] = o
        <4>1. /\ c.child[o].status \in ActiveStatuses
              /\ lot[2] > Greatest(traded, b.child[o].traded)
              /\ lot[2] <= b.child[o].volume
          BY <1>1, <3>2 DEF OpenLots
        <4>2. lot[2] \in Nat
          BY <3>1, VolumeAssumption
        <4>3. lot[2] > traded /\ lot[2] > b.child[o].traded
          BY <1>2, <4>1, <4>2 DEF Greatest
        <4>4. lot \in OpenLots(b, O)
          BY <1>4, <3>1, <3>2, <4>1, <4>3 DEF OpenLots
        <4>5. lot \notin Filled(b, o, traded)
          BY <1>2, <4>2, <4>3 DEF Filled
        <4> QED
          BY <4>4, <4>5
      <3>3. CASE lot[1] # o
        <4>1. lot \notin Filled(b, o, traded)
          BY <3>3 DEF Filled
        <4>2. c.child[lot[1]] = b.child[lot[1]]
          BY <1>1, <3>1, <3>3
        <4> QED
          BY <4>1, <4>2 DEF OpenLots
      <3> QED
        BY <3>2, <3>3
    <2>2. Filled(b, o, traded) \subseteq OpenLots(b, O)
      <3> SUFFICES ASSUME NEW lot \in Filled(b, o, traded)
                   PROVE  lot \in OpenLots(b, O)
        OBVIOUS
      <3>1. /\ lot = <<lot[1], lot[2]>>
            /\ lot[1] = o
            /\ lot[2] \in (b.child[o].traded + 1)..traded
        BY DEF Filled
      <3>2. lot[2] \in 1..TrancheVolume /\ lot[2] > b.child[o].traded
                                        /\ lot[2] <= b.child[o].volume
        BY <1>2, <3>1, VolumeAssumption
      <3>3. traded > b.child[o].traded
        BY <1>2, <3>1
      <3>4. b.child[o].status \in ActiveStatuses
        BY <1>2, <3>3 DEF OrderStatus
      <3>5. lot \in O \X (1..TrancheVolume)
        BY <3>1, <3>2
      <3> QED
        BY <3>1, <3>2, <3>4, <3>5 DEF OpenLots
    <2>3. IsFiniteSet(OpenLots(b, O)) /\ Potential(b, O) \in Nat
      BY PotentialIsNat DEF Sound
    <2>4. OpenLots(b, O) \cap Filled(b, o, traded) = Filled(b, o, traded)
      BY <2>2
    <2>5. /\ IsFiniteSet(OpenLots(b, O) \ Filled(b, o, traded))
          /\ Cardinality(OpenLots(b, O) \ Filled(b, o, traded)) = Potential(b, O) - d
      BY <1>3, <2>3, <2>4, FS_Difference DEF Potential
    <2>6. Potential(c, O) <= Potential(b, O) - d
      BY <2>1, <2>5, FS_Subset DEF Potential
    <2>7. Potential(c, O) \in Nat
      BY <1>1, PotentialIsNat
    <2> QED
      BY <1>3, <2>3, <2>6, <2>7
  <1> QED
    BY <1>5 DEF c, d

\* A report that is not an execution after a final one keeps a book sound.
LEMMA RecordedSound ==
    ASSUME NEW b, Sound(b), NEW o \in Orders(b),
           NEW traded \in 0..TrancheVolume, NEW status \in OrderStatus,
           Reportable(b, o, traded, status)
    PROVE  /\ Sound(Recorded(b, o, traded, status))
           /\ Orders(Recorded(b, o, traded, status)) = Orders(b)
  <1> DEFINE c == Recorded(b, o, traded, status)
             t == b.child[o].tranche
             d == Delta(b, o, traded)
  <1>1. /\ WellFormed(c)
        /\ Orders(c) = Orders(b)
        /\ \A p \in Orders(b) \ {o} : c.child[p] = b.child[p]
        /\ c.child[o].tranche = t
        /\ c.child[o].volume = b.child[o].volume
        /\ c.child[o].traded = Greatest(traded, b.child[o].traded)
        /\ c.child[o].status = IF Accepts(b, o, status) THEN status ELSE b.child[o].status
        /\ c.parent.traded = Least(b.parent.traded + d, TotalVolume)
        /\ \A s \in Tranches :
              c.tranche[s].traded = IF s = t THEN Least(b.tranche[s].traded + d, TrancheVolume)
                                    ELSE b.tranche[s].traded
    <2>1. WellFormed(b)
      BY DEF Sound
    <2> QED
      BY <2>1, RecordedChild
  <1>3. d \in Nat
    BY FilledLotsAreDelta DEF Sound
  <1>5. \A p \in Orders(b) : c.child[p].tranche = b.child[p].tranche
    BY <1>1
  <1>6. \A s \in Tranches : OrdersOf(c, s) = OrdersOf(b, s)
    BY <1>1, <1>5 DEF OrdersOf
  <1> HIDE DEF c, d
  <1>7. ASSUME NEW O \in SUBSET Orders(b), o \in O
        PROVE  d + Potential(c, O) <= Potential(b, O)
    BY <1>7, FillComesFromOpenLots DEF c, d
  <1>8. ASSUME NEW O \in SUBSET Orders(b), o \notin O
        PROVE  Potential(c, O) = Potential(b, O)
    <2>1. \A p \in O : c.child[p] = b.child[p]
      BY <1>1, <1>8
    <2>2. OpenLots(c, O) = OpenLots(b, O)
      BY <2>1 DEF OpenLots
    <2> QED
      BY <2>2 DEF Potential
  <1>9. \A O \in SUBSET Orders(b) : Potential(b, O) \in Nat /\ Potential(c, O) \in Nat
    BY <1>1, PotentialIsNat DEF Sound
  <1>10. c.parent.traded + Potential(c, Orders(c)) <= TotalVolume
    <2>1. d + Potential(c, Orders(c)) <= Potential(b, Orders(b))
      BY <1>1, <1>7
    <2>2. b.parent.traded \in Nat
      BY DEF Sound, WellFormed, Books
    <2>3. b.parent.traded + Potential(b, Orders(b)) <= TotalVolume
      BY DEF Sound, Limits
    <2>4. c.parent.traded = Least(b.parent.traded + d, TotalVolume)
      BY <1>1
    <2>5. Potential(b, Orders(b)) \in Nat /\ Potential(c, Orders(c)) \in Nat
      BY <1>1, <1>9
    <2> QED
      BY <1>3, <2>1, <2>2, <2>3, <2>4, <2>5, VolumeAssumption DEF Least
  <1>11. ASSUME NEW s \in Tranches
         PROVE  c.tranche[s].traded + Potential(c, OrdersOf(c, s)) <= TrancheVolume
    <2>1. OrdersOf(b, s) \in SUBSET Orders(b) /\ OrdersOf(c, s) = OrdersOf(b, s)
      BY <1>6 DEF OrdersOf
    <2>2. b.tranche[s].traded \in Nat
      BY VolumeAssumption DEF Sound, WellFormed, Books
    <2>3. b.tranche[s].traded + Potential(b, OrdersOf(b, s)) <= TrancheVolume
      BY DEF Sound, Limits
    <2>4. Potential(b, OrdersOf(b, s)) \in Nat /\ Potential(c, OrdersOf(c, s)) \in Nat
      BY <1>9, <2>1
    <2>5. CASE s = t
      <3>1. o \in OrdersOf(b, s)
        BY <2>5 DEF OrdersOf
      <3>2. d + Potential(c, OrdersOf(c, s)) <= Potential(b, OrdersOf(b, s))
        BY <1>7, <2>1, <3>1
      <3>3. c.tranche[s].traded = Least(b.tranche[s].traded + d, TrancheVolume)
        BY <1>1, <2>5
      <3> HIDE DEF t
      <3> QED
        BY <1>3, <2>2, <2>3, <2>4, <3>2, <3>3, VolumeAssumption DEF Least
    <2>6. CASE s # t
      <3>1. o \notin OrdersOf(b, s)
        BY <2>6 DEF OrdersOf
      <3>2. Potential(c, OrdersOf(c, s)) = Potential(b, OrdersOf(b, s))
        BY <1>8, <2>1, <3>1
      <3>3. c.tranche[s].traded = b.tranche[s].traded
        BY <1>1, <2>6
      <3> QED
        BY <2>3, <3>2, <3>3
    <2> QED
      BY <2>5, <2>6
  <1> QED
    BY <1>1, <1>10, <1>11 DEF Sound, Limits, c

LEMMA OrderProcessedSound ==
    ASSUME NEW b, Sound(b), NEW o \in Orders(b),
           NEW traded \in 0..TrancheVolume, NEW status \in OrderStatus,
           Reportable(b, o, traded, status)
    PROVE  /\ Sound(OrderProcessed(b, o, traded, status))
           /\ Orders(OrderProcessed(b, o, traded, status)) = Orders(b)
  <1> DEFINE recorded == Recorded(b, o, traded, status)
             t == b.child[o].tranche
  <1>1. Sound(recorded) /\ Orders(recorded) = Orders(b)
    BY RecordedSound
  <1>2. t \in Tranches
    BY OrdersAreNumbered DEF Sound, WellFormed, Books, ChildOrder
  <1> HIDE DEF recorded
  <1>3. /\ Sound(Paused(recorded)) /\ Orders(Paused(recorded)) = Orders(b)
        /\ Sound(Settled(recorded, t)) /\ Orders(Settled(recorded, t)) = Orders(b)
    BY <1>1, <1>2, PausedSound, SettledSound
  <1> QED
    BY <1>3, Zenon DEF OrderProcessed, recorded, t

-----------------------------------------------------------------------------
(***************************************************************************)
(* The state machine.                                                      *)
(***************************************************************************)

(***************************************************************************)
(* The hard limits are not inductive without well-formedness, and what a   *)
(* method sends depends on the limits of the book it starts from.          *)
(***************************************************************************)
IInv == Sound(book) /\ Cardinality(Orders(book)) <= MaxChildOrders

LEMMA InitSound == Init => IInv
  <1> SUFFICES ASSUME Init
               PROVE  IInv
    OBVIOUS
  <1>1. book \in Books(0)
    BY VolumeAssumption
       DEF Init, Books, Untargeted, ParentStatus, TrancheStatus
  <1>2. Orders(book) = {} /\ Cardinality(Orders(book)) = 0
    BY <1>1, OrdersAreNumbered
  <1>3. \A O \in SUBSET Orders(book) : Potential(book, O) = 0
    <2>1. \A O \in SUBSET Orders(book) : OpenLots(book, O) = {}
      BY <1>2 DEF OpenLots
    <2> QED
      BY <2>1, FS_EmptySet DEF Potential
  <1>4. book.parent.traded = 0 /\ \A t \in Tranches : book.tranche[t].traded = 0
    BY DEF Init
  <1>5. \A t \in Tranches : OrdersOf(book, t) \in SUBSET Orders(book)
    BY DEF OrdersOf
  <1>6. Limits(book)
    BY <1>3, <1>4, <1>5, VolumeAssumption DEF Limits
  <1> QED
    BY <1>1, <1>2, <1>6, VolumeAssumption DEF IInv, Sound, WellFormed

LEMMA NextSound == IInv /\ [Next]_book => IInv'
  <1> SUFFICES ASSUME IInv, [Next]_book
               PROVE  IInv'
    OBVIOUS
  <1>0. Sound(book) /\ Cardinality(Orders(book)) <= MaxChildOrders
    BY DEF IInv
  <1> SUFFICES Sound(book') /\ Cardinality(Orders(book')) <= MaxChildOrders
    BY DEF IInv, Sound, WellFormed, Limits, Potential, OpenLots, Orders, OrdersOf, Books
  <1>1. ASSUME NEW t \in Tranches, Activate(t)
        PROVE  Sound(book') /\ Orders(book') = Orders(book)
    <2>1. Sound([book EXCEPT !.tranche[t].status = "ACTIVE"])
      BY <1>0, StatusSound DEF TrancheStatus
    <2>2. [book EXCEPT !.tranche[t].status = "ACTIVE"].child = book.child
      BY <1>0 DEF Sound, WellFormed, Books
    <2> QED
      BY <1>1, <2>1, <2>2 DEF Activate, Orders
  <1>2. ASSUME NEW t \in Tranches, NEW intent \in Intents, NEW bid \in Bids,
               ApplyIntent(t, intent, bid)
        PROVE  Sound(book') /\ Cardinality(Orders(book')) <= MaxChildOrders
    BY <1>0, <1>2, IntentAppliedSound DEF ApplyIntent, Becomes
  <1>3. ASSUME NEW t \in Tranches, NEW bid \in Bids, ReconcilePending(t, bid)
        PROVE  Sound(book') /\ Cardinality(Orders(book')) <= MaxChildOrders
    BY <1>0, <1>3, PendingReconciledSound DEF ReconcilePending, Becomes
  <1>4. ASSUME NEW t \in Tranches, NEW bid \in Bids, BeginTrancheClose(t, bid)
        PROVE  Sound(book') /\ Cardinality(Orders(book')) <= MaxChildOrders
    BY <1>0, <1>4, CloseBegunSound DEF BeginTrancheClose, Becomes
  <1>5. ASSUME NEW t \in Tranches, NEW bid \in Bids, ContinueTrancheClose(t, bid)
        PROVE  Sound(book') /\ Cardinality(Orders(book')) <= MaxChildOrders
    BY <1>0, <1>5, CloseFinishedSound DEF ContinueTrancheClose, CloseContinued, Becomes
  <1>6. CASE PauseParent
    BY <1>0, <1>6, PausedSound DEF PauseParent
  <1>7. CASE ResumeParent
    BY <1>0, <1>7, ResumedSound DEF ResumeParent
  <1>8. CASE CancelParent
    BY <1>0, <1>8, CancelledSound DEF CancelParent
  <1>9. ASSUME NEW o \in Orders(book), NEW traded \in 0..TrancheVolume,
               NEW status \in Reports, ProcessOrder(o, traded, status)
        PROVE  Sound(book') /\ Orders(book') = Orders(book)
    BY <1>0, <1>9, OrderProcessedSound, ReportAssumption DEF ProcessOrder
  <1>10. CASE UNCHANGED book
    BY <1>0, <1>10
  <1> QED
    BY <1>0, <1>1, <1>2, <1>3, <1>4, <1>5, <1>6, <1>7, <1>8, <1>9, <1>10 DEF Next

LEMMA Invariant == Spec => []IInv
  BY InitSound, NextSound, PTL DEF Spec

(***************************************************************************)
(* Every book the coordinator leaves is well formed: a child order keeps   *)
(* its own volume and fill within a tranche's, cumulative fills stay       *)
(* within the volumes, targets are allocations.                            *)
(***************************************************************************)
THEOREM TypeCorrect == Spec => []TypeOK
  <1>1. IInv => TypeOK
    <2> SUFFICES ASSUME IInv
                 PROVE  TypeOK
      OBVIOUS
    <2>1. PICK n \in Nat : book \in Books(n)
      BY DEF IInv, Sound, WellFormed
    <2>2. n <= MaxChildOrders
      BY <2>1, OrdersAreNumbered DEF IInv
    <2> QED
      BY <2>1, <2>2, VolumeAssumption DEF TypeOK
  <1> QED
    BY <1>1, Invariant, PTL

(***************************************************************************)
(* The hard limits that assert_hard_limits checks at run time hold after   *)
(* every call of the coordinator: what has been sold and what open child   *)
(* orders may still sell never exceed the parent's or a tranche's volume.  *)
(***************************************************************************)
THEOREM HardLimitsHold == Spec => []HardLimits
  <1>1. IInv => HardLimits
    BY DEF IInv, Sound, Limits, HardLimits, ParentLimit, TrancheLimit
  <1> QED
    BY <1>1, Invariant, PTL
=============================================================================
