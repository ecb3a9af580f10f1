------------------------------ MODULE Execution ------------------------------
(***************************************************************************)
(* The execution app at work: the coordinator's book (module Coordinator)  *)
(* with the threads that call it and the orders it sends.                  *)
(*                                                                         *)
(*   event thread  AcRlExecutionEngine's handlers of EVENT_TIMER and       *)
(*                 EVENT_ORDER, one event at a time; only this thread      *)
(*                 sends orders and starts tranches                        *)
(*   UI thread     the user's pause, resume and cancel, which take the     *)
(*                 coordinator's lock and so fall between any two steps    *)
(*                 of a handler                                            *)
(*   gateway       QuickfixGateway and FixApplication: the logged_on flag  *)
(*                 set by the FIX thread, what send and cancel do with it, *)
(*                 and the order events they queue                         *)
(*   venue         the FIX counterparty: each order it was sent, how much  *)
(*                 of it was executed, whether it still can be             *)
(*                                                                         *)
(* A handler reads statuses without the lock and then calls a coordinator  *)
(* method that takes it, so the read and the call are separate steps.      *)
(* Time and the market change between handlers only: a handler uses one    *)
(* reading of the clock, and ticks are events of the same thread.          *)
(***************************************************************************)
EXTENDS Coordinator, Sequences

CONSTANTS
    StartOffset,      \* Tranche.planned_start_offset of each tranche
    DeadlineOffset,   \* Tranche.deadline_offset of each tranche
    Duration,         \* ParentOrderRequest.duration_seconds; the parent starts at 0
    Decisions,        \* MODEL_DECISION_COUNT
    MaxActive,        \* ParentOrderRequest.max_active_tranches
    MaxOutages,       \* bound: losses of the FIX session
    MaxUserCalls,     \* bound: pauses, resumes and cancels by the user
    MaxMoves,         \* bound: changes of the market
    MaxSurprises      \* bound: rejects and cancels by the venue itself

ASSUME TranchesAreNumbered ==
    /\ IsFiniteSet(Tranches)
    /\ Tranches # {}
    /\ Tranches = 1..Cardinality(Tranches)

\* Every status may be reported.
ASSUME EveryReport == Reports = OrderStatus

ASSUME ScheduleAssumption ==
    /\ StartOffset \in [Tranches -> Nat]
    /\ DeadlineOffset \in [Tranches -> Nat]
    /\ Duration \in Nat \ {0}
    /\ Decisions \in Nat \ {0}
    /\ MaxActive \in Nat \ {0}

\* TrancheScheduler.build_tranches: a tranche starts before its milestone, which AcPlan
\* puts within the parent's duration.
ASSUME WindowAssumption ==
    \A t \in Tranches : StartOffset[t] <= DeadlineOffset[t] /\ DeadlineOffset[t] <= Duration

ASSUME BoundAssumption ==
    /\ MaxOutages \in Nat
    /\ MaxUserCalls \in Nat
    /\ MaxMoves \in Nat
    /\ MaxSurprises \in Nat

(***************************************************************************)
(* TrancheScheduler.capacity: the most windows open at once.  A window     *)
(* that ends where another one starts is closed first.                     *)
(***************************************************************************)
OpenFrom(at) ==
    Cardinality({t \in Tranches : StartOffset[t] <= at})
        - Cardinality({t \in Tranches : DeadlineOffset[t] <= at})

\* start_parent refuses any other schedule.
ASSUME CapacityAssumption == \A t \in Tranches : OpenFrom(StartOffset[t]) <= MaxActive

VARIABLES
    timing,     \* started_at and decision_index of each tranche
    now,        \* the monotonic clock, from the start of the parent
    market,     \* best bid of the latest tick; fit: fresh and complete
    thread,     \* the handler the event thread is in, and where
    logged_on,  \* FixApplication.logged_on
    events,     \* the order events queued in the EventEngine
    venue,      \* each order at the counterparty
    used        \* how much of each bound is used up

vars == <<book, timing, now, market, thread, logged_on, events, venue, used>>

NotStarted == -1
NoTranche  == 0

\* due: what is left of the list of tranches to start.
Idle == [at |-> "idle", k |-> NoTranche, job |-> "none", source |-> "none", due |-> {}]

Spend(what) == used' = [used EXCEPT ![what] = @ + 1]

-----------------------------------------------------------------------------
(***************************************************************************)
(* QuickfixGateway.send_order and cancel_order, for all calls that a       *)
(* coordinator method made.  A send always queues a SUBMITTING event; off  *)
(* the session it queues a REJECTED one too.  A cancel off the session is  *)
(* dropped with a log line.                                                *)
(***************************************************************************)
NewOrders(b)  == Orders(b) \ Orders(book)
NewCancels(b) == {o \in Orders(book) :
                    b.child[o].cancel_requested /\ ~book.child[o].cancel_requested}

OrderEvent(o, traded, status) == [order |-> o, traded |-> traded, status |-> status]

\* A method sends its orders in the order of their numbers.
SentEvents(b) ==
    LET first == Cardinality(Orders(book))
        sent  == Cardinality(NewOrders(b))
    IN  IF logged_on THEN [i \in 1..sent |-> OrderEvent(first + i, 0, "SUBMITTING")]
        ELSE [i \in 1..(2 * sent) |->
                IF i % 2 = 1 THEN OrderEvent(first + (i + 1) \div 2, 0, "SUBMITTING")
                ELSE OrderEvent(first + i \div 2, 0, "REJECTED")]

Request(b) ==
    [o \in Orders(b) |->
        IF o \in NewOrders(b)
        THEN [state |-> IF logged_on THEN "sent" ELSE "gone",
              executed |-> 0, cancelling |-> FALSE]
        ELSE [venue[o] EXCEPT !.cancelling =
                 @ \/ (o \in NewCancels(b) /\ logged_on /\ venue[o].state # "gone")]]

\* A coordinator method leaves book b, and its gateway calls are made.
Call(b) ==
    /\ Becomes(b)
    /\ events' = events \o SentEvents(b)
    /\ venue' = Request(b)

-----------------------------------------------------------------------------
(***************************************************************************)
(* The clockwork of a tranche (models.py).                                 *)
(***************************************************************************)
Live(b)     == {t \in Tranches : b.tranche[t].status \in {"ACTIVE", "CLOSING"}}
\* Mutant: a tranche that is over may be started again.
WaitingNotLive(b) == Tranches \ Live(b)

Waiting(b)  == {t \in Tranches : b.tranche[t].status = "WAITING"}
Deadline(t) == DeadlineOffset[t]

DecisionDue(t) ==
    /\ book.tranche[t].status = "ACTIVE"
    /\ timing[t].decisions < Decisions
    /\ timing[t].started # NotStarted
    /\ Decisions * (now - timing[t].started)
         >= timing[t].decisions * Greatest(Deadline(t) - timing[t].started, 0)
    /\ now < Deadline(t)

Starts(t) ==
    /\ book' = [book EXCEPT !.tranche[t].status = "ACTIVE"]
    /\ timing' = [timing EXCEPT ![t].started = now]

(***************************************************************************)
(* TrancheScheduler.due_to_start: the waiting tranches whose start has     *)
(* come, by deadline, as far as there are slots.                           *)
(***************************************************************************)
Sooner(s, t) ==
    \/ DeadlineOffset[s] < DeadlineOffset[t]
    \/ DeadlineOffset[s] = DeadlineOffset[t] /\ s < t

Due == {t \in Waiting(book) : StartOffset[t] <= now}

Soonest(n) == {t \in Due : Cardinality({s \in Due : Sooner(s, t)}) < n}

\* Mutant: a tranche that is over keeps its slot.
DueToStartOnce == Soonest(MaxActive - Cardinality(Tranches \ Waiting(book)))

DueToStart == Soonest(MaxActive - Cardinality(Live(book)))

-----------------------------------------------------------------------------
(***************************************************************************)
(* The event thread: process_timer_event and _process_running_parent.      *)
(***************************************************************************)
TimerEvent ==
    /\ thread = Idle
    /\ book.parent.status = "RUNNING"
    /\ IF logged_on /\ market.fit
       THEN /\ thread' = [Idle EXCEPT !.at = "schedule", !.source = "timer"]
            /\ UNCHANGED <<book, events, venue>>
       ELSE /\ Call(Paused(book))
            /\ UNCHANGED thread
    /\ UNCHANGED <<timing, now, market, logged_on, used>>

\* The list of tranches to start is made once, without the lock ...
Activating(T) ==
    IF T # {} THEN [thread EXCEPT !.at = "activate", !.due = T]
    ELSE [thread EXCEPT !.at = IF now >= Duration THEN "sweep" ELSE "scan",
                        !.k = 1, !.due = {}]

FindDue ==
    /\ thread.at = "schedule"
    /\ thread' = Activating(DueToStart)
    /\ UNCHANGED <<book, timing, now, market, logged_on, events, venue, used>>

(***************************************************************************)
(* ... and they are started one by one.  One that the user has cancelled   *)
(* meanwhile makes activate raise: the engine pauses the parent and the    *)
(* handler is over.                                                        *)
(***************************************************************************)
ActivateDue ==
    /\ thread.at = "activate"
    /\ \E t \in thread.due :
          /\ \A s \in thread.due \ {t} : Sooner(t, s)
          /\ IF t \in Waiting(book)
             THEN /\ Starts(t)
                  /\ thread' = Activating(thread.due \ {t})
                  /\ UNCHANGED <<events, venue>>
             ELSE /\ Call(Paused(book))
                  /\ thread' = Idle
                  /\ UNCHANGED timing
    /\ UNCHANGED <<now, market, logged_on, used>>

Past(k) == k > Cardinality(Tranches)

\* After tranche k: the next one, or the end of the handler.
Onward(k) ==
    thread' = IF Past(k + 1) \/ thread.source = "order" THEN Idle
              ELSE [thread EXCEPT !.at = IF now >= Duration THEN "sweep" ELSE "scan",
                                  !.k = k + 1, !.job = "none"]

\* Beyond the parent's deadline every tranche is started, then closed.
SweepTranche ==
    /\ thread.at = "sweep"
    /\ IF thread.k \in Waiting(book) THEN Starts(thread.k) ELSE UNCHANGED <<book, timing>>
    /\ thread' = [thread EXCEPT !.at = "operate", !.job = "close"]
    /\ UNCHANGED <<now, market, logged_on, events, venue, used>>

Job(t) ==
    IF book.tranche[t].status = "CLOSING" THEN "continue"
    ELSE IF timing[t].started # NotStarted /\ now >= Deadline(t) THEN "close"
    ELSE IF DecisionDue(t) THEN "decide"
    ELSE "reconcile"

\* The status of a tranche is read without the lock ...
ScanTranche ==
    /\ thread.at = "scan"
    /\ IF thread.k \in Live(book)
       THEN thread' = [thread EXCEPT !.at = "operate", !.job = Job(thread.k)]
       ELSE Onward(thread.k)
    /\ UNCHANGED <<book, timing, now, market, logged_on, events, venue, used>>

\* ... and the coordinator is called for what was read.
Operate ==
    /\ thread.at = "operate"
    /\ LET k == thread.k
       IN  \/ /\ thread.job = "reconcile"
              /\ Call(PendingReconciled(book, k, market.bid))
              /\ Onward(k)
           \/ /\ thread.job = "continue"
              /\ Call(CloseContinued(book, k, market.bid))
              /\ Onward(k)
           \/ /\ thread.job = "close"
              /\ Call(CloseBegun(book, k, market.bid))
              /\ Onward(k)
           \/ /\ thread.job = "decide"
              /\ \E intent \in Intents : Call(IntentApplied(book, k, intent, market.bid))
              /\ thread' = [thread EXCEPT !.at = "record"]
    /\ UNCHANGED <<timing, now, market, logged_on, used>>

(***************************************************************************)
(* A pause and a resume since the status was read have reset started_at:   *)
(* neither the flow window of an ACTIVE tranche nor the observation's time *)
(* can be computed.  The engine pauses the parent and the handler is over. *)
(* The deadline sweep and an order event need no window.                   *)
(***************************************************************************)
WindowLost ==
    /\ thread.at = "operate" /\ thread.source = "timer" /\ thread.job # "continue"
    /\ now < Duration
    /\ timing[thread.k].started = NotStarted
    /\ Call(Paused(book))
    /\ thread' = Idle
    /\ UNCHANGED <<timing, now, market, logged_on, used>>

(***************************************************************************)
(* The end of _run_decision.  A tranche that is not started any more makes *)
(* normalized_time raise once more, with the intent already applied.       *)
(***************************************************************************)
RecordDecision ==
    /\ thread.at = "record"
    /\ LET k == thread.k
       IN  IF timing[k].started = NotStarted
           THEN /\ Call(Paused(book))
                /\ thread' = Idle
                /\ UNCHANGED timing
           ELSE /\ timing' = [timing EXCEPT ![k].decisions = @ + 1]
                /\ Onward(k)
                /\ UNCHANGED <<book, events, venue>>
    /\ UNCHANGED <<now, market, logged_on, used>>

(***************************************************************************)
(* process_order_event: the report is processed, then the statuses are     *)
(* read, then the tranche is reconciled or its close continued.            *)
(***************************************************************************)
OrderEventHandled ==
    /\ thread = Idle
    /\ events # <<>>
    /\ LET e == Head(events)
           b == OrderProcessed(book, e.order, e.traded, e.status)
       IN  /\ book' = b
           /\ venue' = Request(b)
           /\ events' = Tail(events)
           /\ thread' = [Idle EXCEPT !.at = "followup", !.k = book.child[e.order].tranche,
                                     !.source = "order"]
    /\ UNCHANGED <<timing, now, market, logged_on, used>>

FollowUp ==
    /\ thread.at = "followup"
    /\ thread' =
          IF book.parent.status # "RUNNING" \/ thread.k \notin Live(book) THEN Idle
          ELSE [thread EXCEPT !.at = "operate",
                  !.job = IF book.tranche[thread.k].status = "ACTIVE"
                          THEN "reconcile" ELSE "continue"]
    /\ UNCHANGED <<book, timing, now, market, logged_on, events, venue, used>>

EventThread ==
    \/ TimerEvent \/ FindDue \/ ActivateDue \/ SweepTranche \/ ScanTranche \/ Operate
    \/ WindowLost \/ RecordDecision \/ OrderEventHandled \/ FollowUp

-----------------------------------------------------------------------------
(***************************************************************************)
(* The UI thread.                                                          *)
(***************************************************************************)
UserPause ==
    /\ book.parent.status = "RUNNING"
    /\ Call(Paused(book))
    /\ UNCHANGED timing

UserResume ==
    /\ now < Duration
    /\ MayResume(book)
    /\ Call(Resumed(book))
    /\ timing' = [t \in Tranches |->
                    IF t \in Restarted(book)
                    THEN [started |-> NotStarted, decisions |-> 0] ELSE timing[t]]

UserCancel ==
    /\ book.parent.status \notin {"COMPLETED", "CANCELLED"}
    /\ Call(Cancelled(book))
    /\ UNCHANGED timing

User ==
    /\ used.calls < MaxUserCalls
    /\ UserPause \/ UserResume \/ UserCancel
    /\ Spend("calls")
    /\ UNCHANGED <<now, market, thread, logged_on>>

-----------------------------------------------------------------------------
(***************************************************************************)
(* Time and the market.                                                    *)
(***************************************************************************)
Tock ==
    /\ thread = Idle
    /\ now < Duration
    /\ now' = now + 1
    /\ UNCHANGED <<book, timing, market, thread, logged_on, events, venue, used>>

MarketMoves ==
    /\ thread = Idle
    /\ used.moves < MaxMoves
    /\ \E bid \in Bids, fit \in BOOLEAN : market' = [bid |-> bid, fit |-> fit]
    /\ market' # market
    /\ Spend("moves")
    /\ UNCHANGED <<book, timing, now, thread, logged_on, events, venue>>

-----------------------------------------------------------------------------
(***************************************************************************)
(* The venue.  An execution report reaches the event queue if the session  *)
(* is up and is lost if not: both sides reset their sequence numbers at    *)
(* the next logon.  A report in flight when the session falls counts as    *)
(* made after the fall.                                                    *)
(***************************************************************************)
AtVenue(state) == {o \in DOMAIN venue : venue[o].state = state}

Reported(o, status) ==
    events' = IF logged_on THEN Append(events, OrderEvent(o, venue'[o].executed, status))
              ELSE events

VenueAccept(o) ==
    /\ venue' = [venue EXCEPT ![o].state = "working"]
    /\ Reported(o, "NOTTRADED")
    /\ UNCHANGED used

VenueReject(o) ==
    /\ used.surprises < MaxSurprises
    /\ venue' = [venue EXCEPT ![o].state = "gone"]
    /\ Reported(o, "REJECTED")
    /\ Spend("surprises")

VenueFill(o, quantity) ==
    LET executed == venue[o].executed + quantity
        all      == executed = book.child[o].volume
    IN  /\ executed <= book.child[o].volume
        /\ venue' = [venue EXCEPT ![o].executed = executed,
                                  ![o].state = IF all THEN "gone" ELSE @]
        /\ Reported(o, IF all THEN "ALLTRADED" ELSE "PARTTRADED")
        /\ UNCHANGED used

VenueCancel(o) ==
    /\ venue[o].cancelling
    /\ venue' = [venue EXCEPT ![o].state = "gone", ![o].cancelling = FALSE]
    /\ Reported(o, "CANCELLED")
    /\ UNCHANGED used

\* The exchange, or someone at another screen, cancels the order.
VenueCancelsItself(o) ==
    /\ used.surprises < MaxSurprises
    /\ venue' = [venue EXCEPT ![o].state = "gone", ![o].cancelling = FALSE]
    /\ Reported(o, "CANCELLED")
    /\ Spend("surprises")

Venue ==
    /\ \/ \E o \in AtVenue("sent") : VenueAccept(o) \/ VenueReject(o)
       \/ \E o \in AtVenue("working") :
             \/ \E quantity \in 1..TrancheVolume : VenueFill(o, quantity)
             \/ VenueCancel(o)
             \/ VenueCancelsItself(o)
    /\ UNCHANGED <<book, timing, now, market, thread, logged_on>>

-----------------------------------------------------------------------------
(***************************************************************************)
(* The FIX session falls: what was on its way to the venue arrived, and    *)
(* its report is lost, or was itself lost.  It comes up again later.       *)
(***************************************************************************)
Outage ==
    /\ logged_on
    /\ used.outages < MaxOutages
    /\ logged_on' = FALSE
    /\ \E arrived \in SUBSET AtVenue("sent"),
          cancelled \in SUBSET {o \in DOMAIN venue : venue[o].cancelling} :
          venue' = [o \in DOMAIN venue |->
             [venue[o] EXCEPT
                !.cancelling = FALSE,
                !.state = IF \/ o \in cancelled
                             \/ @ = "sent" /\ o \notin arrived THEN "gone"
                          ELSE IF @ = "sent" THEN "working" ELSE @]]
    /\ Spend("outages")
    /\ UNCHANGED <<book, timing, now, market, thread, events>>

Logon ==
    /\ ~logged_on
    /\ logged_on' = TRUE
    /\ UNCHANGED <<book, timing, now, market, thread, events, venue, used>>

-----------------------------------------------------------------------------
SystemInit ==
    /\ Init
    /\ timing = [t \in Tranches |-> [started |-> NotStarted, decisions |-> 0]]
    /\ now = 0
    /\ market \in [bid : Bids, fit : {TRUE}]
    /\ thread = Idle
    /\ logged_on = TRUE
    /\ events = <<>>
    /\ venue = <<>>
    /\ used = [outages |-> 0, calls |-> 0, moves |-> 0, surprises |-> 0]

SystemNext ==
    EventThread \/ User \/ Tock \/ MarketMoves \/ Venue \/ Outage \/ Logon

SystemSpec == SystemInit /\ [][SystemNext]_vars

(***************************************************************************)
(* Fairness.  A handler in progress goes on: the first conjunct is weak    *)
(* fairness of its steps, written out because a handler can always take    *)
(* its next step.  Timer and order events go through one FIFO              *)
(* queue, so timers do not starve order events for ever, and the clock     *)
(* does not wait for handlers: strong fairness, as both happen between     *)
(* handlers.  The venue answers what it receives and executes what can     *)
(* trade at the best bid (there are finitely many orders, so serving some  *)
(* of them again and again serves all), and the initiator logs a lost      *)
(* session on again.  The user, the market and the venue's own decisions   *)
(* are free.                                                               *)
(***************************************************************************)
Marketable(o) == book.child[o].aggressive /\ Bucket(book.child[o], market.bid) = 0

VenueServes ==
    /\ \/ \E o \in AtVenue("sent") : VenueAccept(o)
       \/ \E o \in AtVenue("working") :
             VenueCancel(o) \/ (Marketable(o) /\ VenueFill(o, 1))
    /\ UNCHANGED <<book, timing, now, market, thread, logged_on>>

Fairness ==
    /\ []<>(thread = Idle) \/ []<><<EventThread>>_vars
    /\ WF_vars(TimerEvent)
    /\ SF_vars(OrderEventHandled)
    /\ SF_vars(Tock)
    /\ WF_vars(Logon)
    /\ WF_vars(VenueServes)

FairSpec == SystemSpec /\ Fairness

-----------------------------------------------------------------------------
(***************************************************************************)
(* Properties.                                                             *)
(***************************************************************************)

\* Every variable has its type, and the venue and the events know the child orders.
SystemTypeOK ==
    /\ TypeOK
    /\ timing \in [Tranches -> [started : 0..Duration \cup {NotStarted},
                                decisions : 0..Decisions]]
    /\ now \in 0..Duration
    /\ market \in [bid : Bids, fit : BOOLEAN]
    /\ thread \in [at : {"idle", "schedule", "activate", "sweep", "scan", "operate", "record",
                         "followup"},
                   k : Tranches \cup {NoTranche},
                   job : {"none", "reconcile", "continue", "close", "decide"},
                   source : {"none", "timer", "order"},
                   due : SUBSET Tranches]
    /\ logged_on \in BOOLEAN
    /\ events \in Seq([order : Orders(book), traded : 0..TrancheVolume, status : OrderStatus])
    /\ venue \in [Orders(book) -> [state : {"sent", "working", "gone"},
                                   executed : 0..TrancheVolume, cancelling : BOOLEAN]]
    /\ used \in [outages : 0..MaxOutages, calls : 0..MaxUserCalls, moves : 0..MaxMoves,
                 surprises : 0..MaxSurprises]

(***************************************************************************)
(* Whatever the threads, the session and the venue do, the book moves only *)
(* as module Coordinator allows: in particular the reports that reach it   *)
(* are ones that module expects.                                           *)
(***************************************************************************)
ImplementsCoordinator == Spec

(***************************************************************************)
(* The hard limit as the counterparty sees it (README.md 102-104): lots    *)
(* executed plus lots that orders at the venue, or on their way to it, may *)
(* still execute, are within the parent's and each tranche's volume, even  *)
(* when reports, cancels and new orders are lost with the session.         *)
(***************************************************************************)
ExposedLots(O) ==
    {lot \in O \X (1..TrancheVolume) :
        \/ lot[2] <= venue[lot[1]].executed
        \/ venue[lot[1]].state # "gone" /\ lot[2] <= book.child[lot[1]].volume}

VenueNeverOversells ==
    /\ Cardinality(ExposedLots(Orders(book))) <= TotalVolume
    /\ \A t \in Tranches : Cardinality(ExposedLots(OrdersOf(book, t))) <= TrancheVolume

(***************************************************************************)
(* The book is never ahead of the venue: it counts no fill that did not    *)
(* happen, and releases an order's inventory only when the order is out of *)
(* the venue for good.  With no outage it catches up once the queue is     *)
(* empty.                                                                  *)
(***************************************************************************)
BookFollowsVenue ==
    \A o \in Orders(book) :
        /\ book.child[o].traded <= venue[o].executed
        /\ book.child[o].status \in FinalStatuses => venue[o].state = "gone"
        /\ events = <<>> /\ used.outages = 0 =>
              /\ book.child[o].traded = venue[o].executed
              /\ Open(book, {o}) = {} <=> venue[o].state = "gone"

(***************************************************************************)
(* A parent that has sold its volume is COMPLETED, even when the last fill *)
(* arrives for a paused or cancelled one; so is each tranche.              *)
(***************************************************************************)
SoldOutIsCompleted ==
    /\ book.parent.traded = TotalVolume => book.parent.status = "COMPLETED"
    /\ \A t \in Tranches :
          book.tranche[t].traded = TrancheVolume => book.tranche[t].status = "COMPLETED"

(***************************************************************************)
(* After the user's cancel no child order is sent, in whatever step of a   *)
(* handler the cancel falls.                                               *)
(***************************************************************************)
CancelledSendsNothing ==
    [][book.parent.status = "CANCELLED" => Orders(book') = Orders(book)]_vars

(***************************************************************************)
(* The capacity that start_parent checks suffices: a tranche whose start   *)
(* has come waits only for one that has outlived its own deadline, one     *)
(* waits for one, although pauses and resumes start tranches again.        *)
(***************************************************************************)
StartsInTime ==
    [][FindDue =>
        Cardinality(Due \ DueToStart)
            <= Cardinality({t \in Due \cup Live(book) : DeadlineOffset[t] <= now})]_vars

(***************************************************************************)
(* README.md 98: past its deadline a tranche's resting orders are          *)
(* cancelled and the rest is sold at the best bid.  So when neither the    *)
(* user, the venue nor the session interferes and market data stay usable, *)
(* the parent completes, whatever the intents were, whatever was filled    *)
(* while being cancelled, and wherever the best bid moved meanwhile.       *)
(***************************************************************************)
DeadlineCompletesParent ==
    [](market.fit) => <>(book.parent.status = "COMPLETED")

-----------------------------------------------------------------------------
(***************************************************************************)
(* What the repository says and the code does not do.                      *)
(***************************************************************************)

(***************************************************************************)
(* tests/test_coordinator.py: "A pause is not a deadline.  The engine must *)
(* not invoke close continuation for a paused parent".  A paused parent    *)
(* sends no child order.                                                   *)
(***************************************************************************)
PausedSendsNothing ==
    [][book.parent.status = "PAUSED" => Orders(book') = Orders(book)]_vars

\* README.md 90: the number of tranches live at the same time is limited.
ActiveTranchesLimited == Cardinality(Live(book)) <= MaxActive

(***************************************************************************)
(* The message of resume_parent, "wait for all child-order cancellations   *)
(* before resume": a paused parent's open child orders go away by waiting. *)
(***************************************************************************)
PausedOrdersClear ==
    (book.parent.status = "PAUSED") ~>
        (book.parent.status # "PAUSED" \/ Open(book, Orders(book)) = {})
=============================================================================
