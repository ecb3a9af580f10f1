----------------------------- MODULE Coordinator -----------------------------
(***************************************************************************)
(* ExecutionCoordinator (coordinator.py): the only component that turns RL *)
(* intents into child orders.  Every public method of the class runs under *)
(* its lock, so a method is one action here.  The bookkeeping of one       *)
(* parent order is the record                                              *)
(*                                                                         *)
(*   book.parent    status and cumulative fill of the parent               *)
(*   book.tranche   status and cumulative fill of each tranche             *)
(*   book.child     the child orders 1..n in the order they were sent      *)
(*   book.target    the reconciliation target of each tranche, if any      *)
(*                                                                         *)
(* and a method is an operator from a book and its arguments to the book   *)
(* it leaves.  Calls to the gateway show in the book: an order that is new *)
(* in it was sent, a cancel_requested that became TRUE was cancelled.      *)
(*                                                                         *)
(* Who calls the methods, when, and what becomes of the orders is in       *)
(* module Execution; this module lets a caller do anything, except that    *)
(* an order reported final is never executed any further.                  *)
(***************************************************************************)
EXTENDS ExecutionModels, FiniteSets

CONSTANTS
    Tranches,        \* the tranches of the parent order
    TrancheVolume,   \* MODEL_INVENTORY, the lots of every tranche
    TotalVolume,     \* ParentOrderRequest.total_volume
    Bids,            \* best bid prices the market shows
    Intents,         \* the intents the policy may predict
    Reports,         \* the statuses that order reports carry
    NoTarget,        \* a tranche with no entry in coordinator.targets
    MaxChildOrders   \* bound: child orders sent for the parent

ASSUME VolumeAssumption ==
    /\ TrancheVolume \in Nat \ {0}
    /\ TotalVolume \in Nat \ {0}
    /\ MaxChildOrders \in Nat

\* TrancheScheduler.build_tranches divides the whole parent.
ASSUME TranchesAssumption ==
    /\ IsFiniteSet(Tranches)
    /\ TotalVolume = Cardinality(Tranches) * TrancheVolume

ASSUME MarketAssumption == Bids \subseteq Int

ASSUME IntentAssumption == Intents \subseteq [Buckets -> 0..Scale]

ASSUME ReportAssumption == Reports \subseteq OrderStatus

Target == [allocation : Allocations, bid : Bids]

ASSUME NoTargetAssumption == NoTarget \notin Target

VARIABLE book

ChildOrder ==
    [tranche          : Tranches,
     price            : Int,
     volume           : 1..TrancheVolume,
     aggressive       : BOOLEAN,
     traded           : 0..TrancheVolume,
     status           : OrderStatus,
     cancel_requested : BOOLEAN]

\* The books with n child orders.
Books(n) ==
    [parent  : [status : ParentStatus, traded : 0..TotalVolume],
     tranche : [Tranches -> [status : TrancheStatus, traded : 0..TrancheVolume]],
     child   : [1..n -> ChildOrder],
     target  : [Tranches -> Target \cup {NoTarget}]]

-----------------------------------------------------------------------------
(***************************************************************************)
(* What the book says.                                                     *)
(***************************************************************************)
Orders(b)      == DOMAIN b.child
OrdersOf(b, t) == {o \in Orders(b) : b.child[o].tranche = t}
Open(b, O)     == {o \in O : Leaves(b.child[o]) > 0}

(***************************************************************************)
(* The leaves of a set of orders, as a set: one element for each lot that  *)
(* may still be executed.  The sum of the leaves is its size.              *)
(***************************************************************************)
OpenLots(b, O) ==
    {lot \in O \X (1..TrancheVolume) :
        /\ b.child[lot[1]].status \in ActiveStatuses
        /\ lot[2] > b.child[lot[1]].traded
        /\ lot[2] <= b.child[lot[1]].volume}

Potential(b, O) == Cardinality(OpenLots(b, O))

Remaining(b, t)    == Greatest(TrancheVolume - b.tranche[t].traded, 0)
ParentRemaining(b) == Greatest(TotalVolume - b.parent.traded, 0)

Available(b, t) ==
    Greatest(0, Least(TotalVolume - b.parent.traded - Potential(b, Orders(b)),
                      TrancheVolume - b.tranche[t].traded - Potential(b, OrdersOf(b, t))))

CancelPending(b, t) == \E o \in Open(b, OrdersOf(b, t)) : b.child[o].cancel_requested

-----------------------------------------------------------------------------
(***************************************************************************)
(* The two calls to the gateway.                                           *)
(***************************************************************************)
\* Mutant: a cancelled order counts as gone when the cancel is requested.
CancelOrdersAtOnce(b, O) ==
    [b EXCEPT !.child =
        [o \in Orders(b) |->
            IF o \in Open(b, O)
            THEN [b.child[o] EXCEPT !.cancel_requested = TRUE, !.status = "CANCELLED"]
            ELSE b.child[o]]]

CancelOrders(b, O) ==
    [b EXCEPT !.child =
        [o \in Orders(b) |->
            IF o \in Open(b, O)
            THEN [b.child[o] EXCEPT !.cancel_requested = TRUE]
            ELSE b.child[o]]]

SendOrder(b, t, quantity, price, aggressive) ==
    LET new == Cardinality(Orders(b)) + 1
        record == [tranche |-> t, price |-> price, volume |-> quantity,
                   aggressive |-> aggressive, traded |-> 0,
                   status |-> "SUBMITTING", cancel_requested |-> FALSE]
    IN  IF quantity <= 0 THEN b
        ELSE [b EXCEPT !.child =
                [o \in Orders(b) \cup {new} |-> IF o = new THEN record ELSE b.child[o]]]

-----------------------------------------------------------------------------
(***************************************************************************)
(* _reconcile: bring the open orders of a tranche to its target.  Orders   *)
(* outside the grid are cancelled, and so are, the newest first, those a   *)
(* bucket holds beyond its allocation: an order is, exactly when it and    *)
(* the older ones exceed the allocation.  Nothing is sent while a cancel   *)
(* of the tranche is unanswered.                                           *)
(***************************************************************************)
AtBucket(b, t, bid, k) == {o \in Open(b, OrdersOf(b, t)) : Bucket(b.child[o], bid) = k}

Excess(b, t, bid, allocation) ==
    AtBucket(b, t, bid, OffGrid) \cup
    UNION {{o \in AtBucket(b, t, bid, k) :
               Potential(b, {p \in AtBucket(b, t, bid, k) : p <= o}) > allocation[k]}
           : k \in Levels}

FillBucket(b, t, bid, allocation, k) ==
    SendOrder(b, t,
              Least(allocation[k] - Potential(b, AtBucket(b, t, bid, k)), Available(b, t)),
              bid + k * Tick, k = 0)

Deploy(b, t, bid, allocation) ==
    LET b0 == FillBucket(b,  t, bid, allocation, 0)
        b1 == FillBucket(b0, t, bid, allocation, 1)
        b2 == FillBucket(b1, t, bid, allocation, 2)
        b3 == FillBucket(b2, t, bid, allocation, 3)
        b4 == FillBucket(b3, t, bid, allocation, 4)
    IN  FillBucket(b4, t, bid, allocation, 5)

\* Mutant: new orders do not wait for the cancels.
ReconciledAtOnce(b, t) ==
    IF b.target[t] = NoTarget \/ b.parent.status # "RUNNING" THEN b
    ELSE LET target == b.target[t]
         IN  Deploy(CancelOrders(b, Excess(b, t, target.bid, target.allocation)),
                    t, target.bid, target.allocation)

Reconciled(b, t) ==
    IF b.target[t] = NoTarget \/ b.parent.status # "RUNNING" THEN b
    ELSE LET allocation == b.target[t].allocation
             bid        == b.target[t].bid
             trimmed    == CancelOrders(b, Excess(b, t, bid, allocation))
         IN  IF CancelPending(trimmed, t) THEN trimmed
             ELSE Deploy(trimmed, t, bid, allocation)

IntentApplied(b, t, intent, bid) ==
    Reconciled([b EXCEPT !.target[t] =
                  [allocation |-> TargetQuantities(intent, Remaining(b, t)), bid |-> bid]], t)

PendingReconciled(b, t, bid) ==
    IF b.target[t] = NoTarget \/ b.tranche[t].status # "ACTIVE" THEN b
    ELSE Reconciled([b EXCEPT !.target[t] = [@ EXCEPT !.bid = bid]], t)

-----------------------------------------------------------------------------
(***************************************************************************)
(* The close of a tranche: cancel what rests, then sell what remains at    *)
(* the best bid, re-anchoring that order when the bid moves.               *)
(***************************************************************************)
\* Mutant: the fallback order goes out together with the cancels.
CloseFinishedAtOnce(b, t, bid) ==
    IF Remaining(b, t) = 0 THEN [b EXCEPT !.tranche[t].status = "COMPLETED"]
    ELSE SendOrder(CancelOrders(b, OrdersOf(b, t)), t, Remaining(b, t), bid, TRUE)

\* Mutant: a fallback order stays where it is when the bid moves.
CloseFinishedKeepingPrice(b, t, bid) ==
    LET open == Open(b, OrdersOf(b, t))
    IN  IF Remaining(b, t) = 0 THEN [b EXCEPT !.tranche[t].status = "COMPLETED"]
        ELSE IF open # {}
        THEN CancelOrders(b, {o \in open : ~b.child[o].aggressive})
        ELSE SendOrder(b, t, Least(Remaining(b, t), Available(b, t)), bid, TRUE)

CloseFinished(b, t, bid) ==
    LET open == Open(b, OrdersOf(b, t))
    IN  IF Remaining(b, t) = 0 THEN [b EXCEPT !.tranche[t].status = "COMPLETED"]
        ELSE IF open # {}
        THEN CancelOrders(b, {o \in open : Bucket(b.child[o], bid) # 0})
        ELSE SendOrder(b, t, Least(Remaining(b, t), Available(b, t)), bid, TRUE)

CloseBegun(b, t, bid) ==
    LET closing == [b EXCEPT !.tranche[t].status = "CLOSING", !.target[t] = NoTarget]
    IN  IF b.tranche[t].status \in {"COMPLETED", "CANCELLED", "ERROR"} THEN b
        ELSE IF b.tranche[t].status = "CLOSING" THEN CloseFinished(b, t, bid)
        ELSE CloseFinished(CancelOrders(closing, OrdersOf(closing, t)), t, bid)

CloseContinued(b, t, bid) ==
    IF b.tranche[t].status = "CLOSING" THEN CloseFinished(b, t, bid) ELSE b

-----------------------------------------------------------------------------
(***************************************************************************)
(* Pause, resume and cancel of the parent.                                 *)
(***************************************************************************)
Untargeted == [t \in Tranches |-> NoTarget]

Paused(b) ==
    IF b.parent.status \notin {"RUNNING", "WAITING"} THEN b
    ELSE CancelOrders(
           [b EXCEPT !.parent.status = "PAUSED",
                     !.target  = Untargeted,
                     !.tranche = [t \in Tranches |->
                        IF b.tranche[t].status = "ACTIVE"
                        THEN [b.tranche[t] EXCEPT !.status = "CLOSING"]
                        ELSE b.tranche[t]]],
           Orders(b))

\* Mutant: any parent without open orders may be resumed.
MayResumeAny(b) == Open(b, Orders(b)) = {}

MayResume(b) == b.parent.status = "PAUSED" /\ Open(b, Orders(b)) = {}

\* The tranches that a resume sends back to WAITING.
Restarted(b) == {t \in Tranches : b.tranche[t].status = "CLOSING" /\ Remaining(b, t) > 0}

Resumed(b) ==
    [b EXCEPT !.parent.status = "RUNNING",
              !.tranche = [t \in Tranches |->
                  IF t \in Restarted(b)
                  THEN [b.tranche[t] EXCEPT !.status = "WAITING"]
                  ELSE b.tranche[t]]]

\* Mutant: a tranche that is closing goes on.
CancelledLeavingClosing(b) ==
    IF b.parent.status \in {"COMPLETED", "CANCELLED"} THEN b
    ELSE CancelOrders(
           [b EXCEPT !.parent.status = "CANCELLED",
                     !.target  = Untargeted,
                     !.tranche = [t \in Tranches |->
                        IF b.tranche[t].status \in {"WAITING", "ACTIVE"}
                        THEN [b.tranche[t] EXCEPT !.status = "CANCELLED"]
                        ELSE b.tranche[t]]],
           Orders(b))

Cancelled(b) ==
    IF b.parent.status \in {"COMPLETED", "CANCELLED"} THEN b
    ELSE CancelOrders(
           [b EXCEPT !.parent.status = "CANCELLED",
                     !.target  = Untargeted,
                     !.tranche = [t \in Tranches |->
                        IF b.tranche[t].status \in {"COMPLETED", "ERROR"}
                        THEN b.tranche[t]
                        ELSE [b.tranche[t] EXCEPT !.status = "CANCELLED"]]],
           Orders(b))

-----------------------------------------------------------------------------
(***************************************************************************)
(* process_order: an order report with a cumulative quantity and a status. *)
(* A report of another status than a final one already recorded is not     *)
(* accepted.  The RuntimeError of _consume_target_fill makes the engine    *)
(* pause the parent; so do an accepted reject and an accepted cancel that  *)
(* nobody requested.                                                       *)
(***************************************************************************)
\* Mutant: the cumulative quantity of a report is taken for the last fill.
DeltaIncremental(b, o, traded) == traded

Delta(b, o, traded) == Greatest(traded - b.child[o].traded, 0)

\* Mutant: a late report overwrites a final status.
AcceptsAny(b, o, status) == TRUE

Accepts(b, o, status) ==
    b.child[o].status \in FinalStatuses => status = b.child[o].status

FillExceedsTarget(b, o, traded) ==
    LET t == b.child[o].tranche
    IN  /\ b.target[t] # NoTarget
        /\ Delta(b, o, traded) > Total(b.target[t].allocation)

\* Mutant: a fill leaves the target as it was.
TargetAfterFillUnchanged(b, o, traded) == b.target[b.child[o].tranche]

TargetAfterFill(b, o, traded) ==
    LET target == b.target[b.child[o].tranche]
    IN  IF target = NoTarget \/ FillExceedsTarget(b, o, traded) THEN target
        ELSE [target EXCEPT !.allocation =
                 Consumed(@, PreferredBucket(b.child[o], target.bid), Delta(b, o, traded))]

Recorded(b, o, traded, status) ==
    LET t == b.child[o].tranche
        d == Delta(b, o, traded)
    IN  [b EXCEPT
            !.child[o].traded = @ + d,
            !.child[o].status = IF Accepts(b, o, status) THEN status ELSE @,
            !.tranche[t].traded = Least(@ + d, TrancheVolume),
            !.parent.traded = Least(@ + d, TotalVolume),
            !.target[t] = TargetAfterFill(b, o, traded)]

\* Mutant: only a running parent is completed.
SettledWhileRunning(b, t) ==
    LET filled == IF Remaining(b, t) # 0 THEN b
                  ELSE CancelOrders([b EXCEPT !.tranche[t].status = "COMPLETED",
                                              !.target[t] = NoTarget],
                                    OrdersOf(b, t))
    IN  IF ParentRemaining(b) # 0 \/ b.parent.status # "RUNNING" THEN filled
        ELSE [filled EXCEPT !.parent.status = "COMPLETED"]

Settled(b, t) ==
    LET filled == IF Remaining(b, t) # 0 THEN b
                  ELSE CancelOrders([b EXCEPT !.tranche[t].status = "COMPLETED",
                                              !.target[t] = NoTarget],
                                    OrdersOf(b, t))
    IN  IF ParentRemaining(b) # 0 THEN filled
        ELSE [filled EXCEPT !.parent.status = "COMPLETED"]

OrderProcessed(b, o, traded, status) ==
    LET recorded   == Recorded(b, o, traded, status)
        unexpected == \/ status = "CANCELLED" /\ ~b.child[o].cancel_requested
                      \/ status = "REJECTED"
    IN  IF \/ FillExceedsTarget(b, o, traded)
           \/ Accepts(b, o, status) /\ unexpected
        THEN Paused(recorded)
        ELSE Settled(recorded, b.child[o].tranche)

-----------------------------------------------------------------------------
(***************************************************************************)
(* The state machine.                                                      *)
(***************************************************************************)
Init ==
    book = [parent  |-> [status |-> "RUNNING", traded |-> 0],
            tranche |-> [t \in Tranches |-> [status |-> "WAITING", traded |-> 0]],
            child   |-> <<>>,
            target  |-> Untargeted]

Becomes(b) ==
    /\ Cardinality(Orders(b)) <= MaxChildOrders
    /\ book' = b

\* Tranche.activate, called by the engine.
Activate(t) ==
    /\ book.tranche[t].status = "WAITING"
    /\ book' = [book EXCEPT !.tranche[t].status = "ACTIVE"]

ApplyIntent(t, intent, bid) == Becomes(IntentApplied(book, t, intent, bid))

ReconcilePending(t, bid) == Becomes(PendingReconciled(book, t, bid))

BeginTrancheClose(t, bid) == Becomes(CloseBegun(book, t, bid))

ContinueTrancheClose(t, bid) == Becomes(CloseContinued(book, t, bid))

PauseParent == book' = Paused(book)

ResumeParent ==
    /\ MayResume(book)
    /\ book' = Resumed(book)

CancelParent == book' = Cancelled(book)

(***************************************************************************)
(* What the outside may report of an order: no execution beyond its        *)
(* volume, all of it when it says so, and none after a final report.  Late *)
(* and repeated reports are allowed.                                       *)
(***************************************************************************)
Reportable(b, o, traded, status) ==
    /\ traded <= b.child[o].volume
    /\ status = "ALLTRADED" => traded = b.child[o].volume
    /\ b.child[o].status \in FinalStatuses => traded <= b.child[o].traded

ProcessOrder(o, traded, status) ==
    /\ Reportable(book, o, traded, status)
    /\ book' = OrderProcessed(book, o, traded, status)

Next ==
    \/ \E t \in Tranches : Activate(t)
    \/ \E t \in Tranches, intent \in Intents, bid \in Bids : ApplyIntent(t, intent, bid)
    \/ \E t \in Tranches, bid \in Bids : ReconcilePending(t, bid)
    \/ \E t \in Tranches, bid \in Bids : BeginTrancheClose(t, bid)
    \/ \E t \in Tranches, bid \in Bids : ContinueTrancheClose(t, bid)
    \/ PauseParent
    \/ ResumeParent
    \/ CancelParent
    \/ \E o \in Orders(book), traded \in 0..TrancheVolume, status \in Reports :
          ProcessOrder(o, traded, status)

Spec == Init /\ [][Next]_book

-----------------------------------------------------------------------------
(***************************************************************************)
(* Properties.                                                             *)
(***************************************************************************)

\* Every book the methods leave is well formed.
TypeOK == \E n \in 0..MaxChildOrders : book \in Books(n)

(***************************************************************************)
(* README.md 102-104, checked at run time by assert_hard_limits: what has  *)
(* been sold plus what open child orders may still sell is at most the     *)
(* volume of the parent, and of each tranche.                              *)
(***************************************************************************)
ParentLimit ==
    book.parent.traded + Potential(book, Orders(book)) <= TotalVolume

TrancheLimit(t) ==
    book.tranche[t].traded + Potential(book, OrdersOf(book, t)) <= TrancheVolume

HardLimits == ParentLimit /\ \A t \in Tranches : TrancheLimit(t)

(***************************************************************************)
(* A target always divides exactly what its tranche has left to sell, so a *)
(* fill never exceeds it and the RuntimeError of _consume_target_fill is   *)
(* never raised, whatever fills race with cancels and new intents.         *)
(***************************************************************************)
TargetsDivideRemaining ==
    \A t \in Tranches :
        book.target[t] # NoTarget =>
            Total(book.target[t].allocation) = Remaining(book, t)

(***************************************************************************)
(* The cumulative fills kept at three levels agree: a tranche's is the sum *)
(* of its child orders', the parent's that of its tranches, however often  *)
(* and in whatever order reports are repeated.                             *)
(***************************************************************************)
FilledLots(b, t) ==
    {lot \in OrdersOf(b, t) \X (1..TrancheVolume) : lot[2] <= b.child[lot[1]].traded}

FillsAddUp ==
    /\ \A t \in Tranches : book.tranche[t].traded = Cardinality(FilledLots(book, t))
    /\ book.parent.traded =
         Cardinality({lot \in Tranches \X (1..TrancheVolume) :
                         lot[2] <= book.tranche[lot[1]].traded})

(***************************************************************************)
(* A cancelled parent never works again: its tranches are over, and a      *)
(* cancel of each order still open has been asked for.                     *)
(***************************************************************************)
CancelledParentIsWindingDown ==
    book.parent.status = "CANCELLED" =>
        /\ \A o \in Open(book, Orders(book)) : book.child[o].cancel_requested
        /\ \A t \in Tranches : book.tranche[t].status \in {"COMPLETED", "CANCELLED"}

(***************************************************************************)
(* README.md 93: inventory under cancel is not released before the cancel  *)
(* is confirmed.  A step that sends an order for a tranche leaves no       *)
(* unanswered cancel in that tranche.                                      *)
(***************************************************************************)
NoOrderWhileCancelPending ==
    [][\A o \in Orders(book') \ Orders(book) :
          ~CancelPending(book, book'.child[o].tranche)
          /\ ~CancelPending(book', book'.child[o].tranche)]_book

(***************************************************************************)
(* A child order reported final stays as it is: no late or repeated report *)
(* reopens it, changes its final status or adds to its fill.               *)
(***************************************************************************)
FinalOrdersStayFinal ==
    [][\A o \in Orders(book) :
          book.child[o].status \in FinalStatuses =>
              /\ book'.child[o].status = book.child[o].status
              /\ book'.child[o].traded = book.child[o].traded]_book

(***************************************************************************)
(* The comment of _consume_target_fill: a fill consumes the allocation and *)
(* is not a new deficit.  A target of a running parent that is fully       *)
(* deployed still is after a fill, so the reconciliation that follows      *)
(* sends nothing.                                                          *)
(***************************************************************************)
Deployed(b, t) ==
    /\ b.parent.status = "RUNNING"
    /\ b.target[t] # NoTarget
    /\ ~CancelPending(b, t)
    /\ AtBucket(b, t, b.target[t].bid, OffGrid) = {}
    /\ \A k \in Levels :
          Potential(b, AtBucket(b, t, b.target[t].bid, k)) = b.target[t].allocation[k]

FillsAreNotReplenished ==
    [][\A t \in Tranches :
          /\ Deployed(book, t)
          /\ book'.tranche[t].traded > book.tranche[t].traded
          /\ book'.target[t] # NoTarget
          => Deployed(book', t)]_book

-----------------------------------------------------------------------------
(***************************************************************************)
(* What the client of the parent order is promised, module SellMandate.    *)
(***************************************************************************)
Mandate == INSTANCE SellMandate WITH
    Volume  <- TotalVolume,
    sold    <- book.parent.traded,
    working <- Potential(book, Orders(book)),
    over    <- book.parent.status \in {"COMPLETED", "CANCELLED"}

\* The coordinator implements the mandate it was given by the parent order.
ImplementsMandate == Mandate!Spec
=============================================================================
